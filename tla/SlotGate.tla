------------------------------ MODULE SlotGate ------------------------------
(***************************************************************************)
(* What a concurrency gate promises the code that uses it, whatever the    *)
(* queue behind it looks like: never more than `slots` holders, nobody     *)
(* waits while a slot is free, a freed slot passes straight to a waiter    *)
(* when there is one, and only an impatient caller leaves empty-handed.    *)
(***************************************************************************)
EXTENDS Naturals, FiniteSets

CONSTANT Callers

VARIABLES
    slots,      \* how many callers may hold the gate at once
    patient,    \* callers never give up waiting
    waiting,    \* callers that have asked and hold nothing yet
    holding     \* callers that hold a slot

vars == <<slots, patient, waiting, holding>>

Init ==
    /\ slots \in Nat \ {0}
    /\ patient \in BOOLEAN
    /\ waiting = {}
    /\ holding = {}

Outside(c) == c \notin waiting \cup holding

Enter(c) ==
    /\ Outside(c)
    /\ waiting = {}
    /\ Cardinality(holding) < slots
    /\ holding' = holding \cup {c}
    /\ UNCHANGED <<slots, patient, waiting>>

Ask(c) ==
    /\ Outside(c)
    /\ Cardinality(holding) = slots
    /\ waiting' = waiting \cup {c}
    /\ UNCHANGED <<slots, patient, holding>>

GiveUp(c) ==
    /\ ~patient
    /\ c \in waiting
    /\ waiting' = waiting \ {c}
    /\ UNCHANGED <<slots, patient, holding>>

Leave(c) ==
    /\ c \in holding
    /\ waiting = {}
    /\ holding' = holding \ {c}
    /\ UNCHANGED <<slots, patient, waiting>>

HandOver(c, d) ==
    /\ c \in holding
    /\ d \in waiting
    /\ holding' = (holding \ {c}) \cup {d}
    /\ waiting' = waiting \ {d}
    /\ UNCHANGED <<slots, patient>>

Next ==
    \/ \E c \in Callers : Enter(c) \/ Ask(c) \/ GiveUp(c) \/ Leave(c)
    \/ \E c, d \in Callers : HandOver(c, d)

Spec == Init /\ [][Next]_vars
=============================================================================
