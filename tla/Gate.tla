-------------------------------- MODULE Gate --------------------------------
(***************************************************************************)
(* utils/semaphore.js and the four gates built on it, each a module-level  *)
(* singleton shared by every request:                                      *)
(*   "upload"  withUploadSlot: task photos and memory batches, which wait  *)
(*             as long as it takes;                                        *)
(*   "avatar"  withAvatarSlot: refuses past a number of queued waiters,    *)
(*             and gives up after AVATAR_SLOT_WAIT_MS;                     *)
(*   "heic"    convertHeicToJpeg: one decode at a time, refuses past a     *)
(*             number of holders and waiters together, and gives up after  *)
(*             HEIC_QUEUE_WAIT_MS;                                         *)
(*   "login"   withCompareSlot: an admin login waits until it is served or *)
(*             its client disconnects.                                     *)
(* acquire and release each run in one synchronous turn.  What lies        *)
(* between a granted promise and the caller's continuation is a microtask, *)
(* so a caller is "granted" before it is "running".                        *)
(***************************************************************************)
EXTENDS Integers, Sequences, SequencesExt

CONSTANTS
    Callers,    \* requests, each of which may use the gate again and again
    Sizes,      \* the limits an operator may have configured
    Cap         \* MAX_PENDING_AVATAR_WAITERS or MAX_PENDING_HEIC_DECODES

ASSUME GateAssumption ==
    /\ Sizes \subseteq Int
    /\ Cap \in Nat \ {0}

VARIABLES
    gate,       \* which of the four gates this is
    limit,      \* Semaphore.limit
    active,     \* Semaphore.active
    queue,      \* Semaphore.queue: the callers whose resolvers it holds
    pc          \* caller -> where it is

vars == <<gate, limit, active, queue, pc>>

Gates == {"upload", "avatar", "heic", "login"}

Waiting == {c \in Callers : pc[c] = "queued"}
Holding == {c \in Callers : pc[c] \in {"granted", "running"}}

-----------------------------------------------------------------------------

\* Mutant: a limit of zero is taken at its word.
SizedRaw(n) == IF n >= 0 THEN n ELSE 1

\* new Semaphore(n): a limit that is no positive number degrades to one.
Sized(n) == IF n > 0 THEN n ELSE 1

Init ==
    /\ gate \in Gates
    /\ \E n \in Sizes : limit = IF gate = "heic" THEN 1 ELSE Sized(n)
    /\ active = 0
    /\ queue = <<>>
    /\ pc = [c \in Callers |-> "away"]

\* Mutant: the ceiling is off by one.
RefusedLate ==
    \/ gate = "avatar" /\ Len(queue) > Cap
    \/ gate = "heic"   /\ active + Len(queue) > Cap

\* withBoundedSlot's ceiling, read in the same turn as acquire.
Refused ==
    \/ gate = "avatar" /\ Len(queue) >= Cap
    \/ gate = "heic"   /\ active + Len(queue) >= Cap

\* acquire(), under the limit: the promise is already resolved.
Acquire(c) ==
    /\ pc[c] = "away"
    /\ ~Refused
    /\ active < limit
    /\ active' = active + 1
    /\ pc' = [pc EXCEPT ![c] = "granted"]
    /\ UNCHANGED <<gate, limit, queue>>

\* acquire(), past the limit.
Enqueue(c) ==
    /\ pc[c] = "away"
    /\ ~Refused
    /\ active >= limit
    /\ queue' = Append(queue, c)
    /\ pc' = [pc EXCEPT ![c] = "queued"]
    /\ UNCHANGED <<gate, limit, active>>

\* The continuation after `await acquire()`: fn starts.
Resume(c) ==
    /\ pc[c] = "granted"
    /\ pc' = [pc EXCEPT ![c] = "running"]
    /\ UNCHANGED <<gate, limit, active, queue>>

\* Mutant: the slot is given back and the waiter served on top of it.
ReleaseTwice(c) ==
    /\ pc[c] = "running"
    /\ active' = active - 1
    /\ IF queue # <<>>
       THEN /\ pc' = [pc EXCEPT ![c] = "away", ![Head(queue)] = "granted"]
            /\ queue' = Tail(queue)
       ELSE /\ pc' = [pc EXCEPT ![c] = "away"]
            /\ UNCHANGED queue
    /\ UNCHANGED <<gate, limit>>

\* Mutant: the slot is put back, and the waiter has to be served by another.
ReleaseOnly(c) ==
    /\ pc[c] = "running"
    /\ pc' = [pc EXCEPT ![c] = "away"]
    /\ active' = active - 1
    /\ UNCHANGED <<gate, limit, queue>>

\* Mutant: the waiter that came last is served first.
ReleaseToLast(c) ==
    /\ pc[c] = "running"
    /\ IF queue # <<>>
       THEN /\ pc' = [pc EXCEPT ![c] = "away", ![Last(queue)] = "granted"]
            /\ queue' = Front(queue)
            /\ UNCHANGED active
       ELSE /\ pc' = [pc EXCEPT ![c] = "away"]
            /\ active' = active - 1
            /\ UNCHANGED queue
    /\ UNCHANGED <<gate, limit>>

\* fn settles, either way, and the finally releases: the slot passes to the
\* first waiter, or is put back when there is none.
Release(c) ==
    /\ pc[c] = "running"
    /\ IF queue # <<>>
       THEN /\ pc' = [pc EXCEPT ![c] = "away", ![Head(queue)] = "granted"]
            /\ queue' = Tail(queue)
            /\ UNCHANGED active
       ELSE /\ pc' = [pc EXCEPT ![c] = "away"]
            /\ active' = active - 1
            /\ UNCHANGED queue
    /\ UNCHANGED <<gate, limit>>

\* Mutant: a dead resolver stays in the queue.
Tombstone(i) == queue

\* onAbort's splice of the waiter at position i.
Spliced(i) == RemoveAt(queue, i)

\* The wait's timer fires, or the login's client disconnects, while the caller
\* is queued.  A grant takes the listener off first, so a signal that comes
\* later finds nobody to tell.
Withdraw(c) ==
    /\ gate # "upload"
    /\ \E i \in 1..Len(queue) :
         /\ queue[i] = c
         /\ queue' = Spliced(i)
    /\ pc' = [pc EXCEPT ![c] = "away"]
    /\ UNCHANGED <<gate, limit, active>>

Next == \E c \in Callers : \/ Acquire(c) \/ Enqueue(c) \/ Resume(c)
                           \/ Release(c) \/ Withdraw(c)

Spec == Init /\ [][Next]_vars

\* Continuations are microtasks, and what runs inside a gate settles: sharp
\* and bcrypt by themselves, a HEIC decode at the latest when its own timer
\* kills the worker.
Fairness == \A c \in Callers : WF_vars(Resume(c)) /\ WF_vars(Release(c))

FairSpec == Spec /\ Fairness

-----------------------------------------------------------------------------
(* Properties *)

\* Every variable of the gate and its callers keeps its type.
TypeOK ==
    /\ gate \in Gates
    /\ limit \in Nat \ {0}
    /\ active \in Nat
    /\ queue \in Seq(Callers)
    /\ pc \in [Callers -> {"away", "queued", "granted", "running"}]

\* The count is the number of callers that own a slot, never above the limit:
\* no slot is lost to a waiter that has gone, none is given back twice.
SlotsAreHeld == active = Cardinality(Holding) /\ active <= limit

\* The queue holds the resolvers of exactly the callers still waiting, each
\* of them once: release() never wakes a caller that has withdrawn.
QueueIsLive ==
    /\ ToSet(queue) = Waiting
    /\ \A i, j \in 1..Len(queue) : queue[i] = queue[j] => i = j

\* Nobody is served while a caller that asked earlier goes on waiting.
FirstComeFirstServed ==
    [][\A c \in Callers : pc[c] \in {"away", "queued"} /\ pc'[c] = "granted" =>
         \A i \in 1..Len(queue) : pc'[queue[i]] = "queued" =>
             \E j \in 1..(i - 1) : queue[j] = c]_vars

\* Past the ceiling nobody joins: at most Cap avatars wait, and at most Cap
\* HEIC decodes are running or waiting, however many arrive in one turn.
BacklogIsCapped ==
    /\ gate = "avatar" => Len(queue) <= Cap
    /\ gate = "heic"   => active + Len(queue) <= Cap

\* A waiter is served or gives up; an upload is always served, since losing
\* one is never acceptable.
WaitersAreServed ==
    \A c \in Callers :
        /\ pc[c] = "queued" ~> pc[c] # "queued"
        /\ gate = "upload" /\ pc[c] = "queued" ~> pc[c] = "running"

\* The queue and the count together do what a gate promises.
Promise == INSTANCE SlotGate
    WITH slots   <- limit,
         patient <- gate = "upload",
         waiting <- Waiting,
         holding <- Holding

KeepsThePromise == Promise!Spec
=============================================================================
