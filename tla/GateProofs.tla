----------------------------- MODULE GateProofs -----------------------------
(***************************************************************************)
(* The safety of the four gates, for any set of callers, any configured    *)
(* sizes and any ceiling.  The inductive invariant adds to the properties  *)
(* the fact that makes them hold together: while anybody waits, every slot *)
(* is taken, so that acquire's fast path can never overtake the queue.     *)
(***************************************************************************)
EXTENDS Gate, FiniteSetTheorems, SequenceTheorems, TLAPS

-----------------------------------------------------------------------------
(* Sequences *)

\* Removing the element at position i keeps all the others, in order.
LEMMA RemovedAt ==
    ASSUME NEW S, NEW s \in Seq(S), NEW i \in 1..Len(s)
    PROVE  /\ RemoveAt(s, i) \in Seq(S)
           /\ Len(RemoveAt(s, i)) = Len(s) - 1
           /\ \A k \in 1..(Len(s) - 1) :
                RemoveAt(s, i)[k] = IF k < i THEN s[k] ELSE s[k + 1]
<1> DEFINE a == SubSeq(s, 1, i - 1)
           b == SubSeq(s, i + 1, Len(s))
<1>1. Len(s) \in Nat /\ \A k \in 1..Len(s) : s[k] \in S
  BY LenProperties, ElementOfSeq
<1>2. /\ a \in Seq(S)
      /\ Len(a) = i - 1
      /\ \A k \in 1..(i - 1) : a[k] = s[k]
  <2>1. \A k \in 1..(i - 1) : s[k] \in S
    BY <1>1
  <2>2. i - 1 \in Int /\ 1 \in Int
    BY <1>1
  <2>3. /\ a \in Seq(S)
        /\ Len(a) = IF 1 <= i - 1 THEN (i - 1) - 1 + 1 ELSE 0
        /\ \A k \in 1..((i - 1) - 1 + 1) : a[k] = s[1 + k - 1]
    BY <2>1, <2>2, SubSeqProperties
  <2> QED
    BY <2>3, <1>1
<1>3. /\ b \in Seq(S)
      /\ Len(b) = Len(s) - i
      /\ \A k \in 1..(Len(s) - i) : b[k] = s[i + k]
  <2>1. \A k \in (i + 1)..Len(s) : s[k] \in S
    BY <1>1
  <2>2. i + 1 \in Int /\ Len(s) \in Int
    BY <1>1
  <2>3. /\ b \in Seq(S)
        /\ Len(b) = IF i + 1 <= Len(s) THEN Len(s) - (i + 1) + 1 ELSE 0
        /\ \A k \in 1..(Len(s) - (i + 1) + 1) : b[k] = s[(i + 1) + k - 1]
    BY <2>1, <2>2, SubSeqProperties
  <2> QED
    BY <2>3, <1>1
<1> HIDE DEF a, b
<1>4. /\ a \o b \in Seq(S)
      /\ Len(a \o b) = Len(a) + Len(b)
      /\ \A k \in 1..(Len(a) + Len(b)) :
           (a \o b)[k] = IF k <= Len(a) THEN a[k] ELSE b[k - Len(a)]
  BY <1>2, <1>3, ConcatProperties
<1>5. RemoveAt(s, i) = a \o b
  BY DEF RemoveAt, a, b
<1>6. Len(a) + Len(b) = Len(s) - 1
  BY <1>1, <1>2, <1>3
<1>7. ASSUME NEW k \in 1..(Len(s) - 1)
      PROVE  (a \o b)[k] = IF k < i THEN s[k] ELSE s[k + 1]
  <2>1. CASE k < i
    BY <2>1, <1>1, <1>2, <1>4, <1>6
  <2>2. CASE ~(k < i)
    <3>1. (a \o b)[k] = b[k - (i - 1)]
      BY <2>2, <1>1, <1>2, <1>4, <1>6
    <3>2. k - (i - 1) \in 1..(Len(s) - i)
      BY <2>2, <1>1
    <3>3. b[k - (i - 1)] = s[i + (k - (i - 1))]
      BY <3>2, <1>3
    <3>4. i + (k - (i - 1)) = k + 1
      BY <1>1
    <3> QED
      BY <2>2, <3>1, <3>3, <3>4
  <2> QED
    BY <2>1, <2>2
<1> QED
  BY <1>4, <1>5, <1>6, <1>7

-----------------------------------------------------------------------------
(* The queue, position by position *)

Places == {"away", "queued", "granted", "running"}

\* The queue holds the waiters and nobody else, each of them once.
Live(q, at) ==
    /\ \A i \in 1..Len(q) : at[q[i]] = "queued"
    /\ \A c \in Callers : at[c] = "queued" => \E i \in 1..Len(q) : q[i] = c
    /\ \A i, j \in 1..Len(q) : q[i] = q[j] => i = j

\* What QueueIsLive says with sets.
LEMMA LiveQueue ==
    ASSUME NEW q \in Seq(Callers), NEW at \in [Callers -> Places]
    PROVE  Live(q, at) <=>
             /\ ToSet(q) = {c \in Callers : at[c] = "queued"}
             /\ \A i, j \in 1..Len(q) : q[i] = q[j] => i = j
<1>1. DOMAIN q = 1..Len(q) /\ \A i \in 1..Len(q) : q[i] \in Callers
  BY LenProperties, ElementOfSeq
<1>2. ToSet(q) = {q[i] : i \in 1..Len(q)}
  BY <1>1 DEF ToSet
<1> QED
  BY <1>1, <1>2 DEF Live

\* An empty queue is the queue of a gate where nobody waits.
LEMMA EmptyQueue ==
    ASSUME NEW q \in Seq(Callers), NEW at \in [Callers -> Places], Live(q, at)
    PROVE  q = <<>> <=> {c \in Callers : at[c] = "queued"} = {}
<1>1. q = <<>> <=> Len(q) = 0
  BY EmptySeq, LenProperties
<1>2. Len(q) \in Nat /\ \A i \in 1..Len(q) : q[i] \in Callers
  BY LenProperties, ElementOfSeq
<1>3. Len(q) # 0 => 1 \in 1..Len(q)
  BY <1>2
<1> QED
  BY <1>1, <1>2, <1>3 DEF Live

\* A caller that starts to wait goes to the end.
LEMMA LiveAppended ==
    ASSUME NEW q \in Seq(Callers), NEW at \in [Callers -> Places], Live(q, at),
           NEW c \in Callers, at[c] = "away"
    PROVE  /\ Append(q, c) \in Seq(Callers)
           /\ Len(Append(q, c)) = Len(q) + 1
           /\ Live(Append(q, c), [at EXCEPT ![c] = "queued"])
<1> DEFINE r == Append(q, c)
           now == [at EXCEPT ![c] = "queued"]
<1>1. /\ r \in Seq(Callers)
      /\ Len(q) \in Nat
      /\ Len(r) = Len(q) + 1
      /\ \A i \in 1..Len(q) : r[i] = q[i]
      /\ r[Len(q) + 1] = c
      /\ \A i \in 1..Len(q) : q[i] \in Callers
  BY AppendProperties, LenProperties, ElementOfSeq
<1>2. \A d \in Callers : now[d] = IF d = c THEN "queued" ELSE at[d]
  OBVIOUS
<1>3. \A i \in 1..Len(q) : q[i] # c
  BY DEF Live
<1> HIDE DEF r, now
<1>4. \A i \in 1..Len(r) : i \in 1..Len(q) \/ i = Len(q) + 1
  BY <1>1
<1>5. \A i \in 1..Len(q) : i \in 1..Len(r) /\ Len(q) + 1 \in 1..Len(r)
  BY <1>1
<1>6. \A i \in 1..Len(r) : now[r[i]] = "queued"
  BY <1>1, <1>2, <1>3, <1>4 DEF Live
<1>7. \A d \in Callers : now[d] = "queued" => \E i \in 1..Len(r) : r[i] = d
  <2>1. Len(q) + 1 \in 1..Len(r)
    BY <1>1
  <2> QED
    BY <2>1, <1>1, <1>2, <1>5 DEF Live
<1>8. \A i, j \in 1..Len(r) : r[i] = r[j] => i = j
  BY <1>1, <1>3, <1>4 DEF Live
<1> QED
  BY <1>1, <1>6, <1>7, <1>8 DEF Live, r, now

\* A waiter that leaves from position i leaves no resolver behind.
LEMMA LiveWithout ==
    ASSUME NEW q \in Seq(Callers), NEW at \in [Callers -> Places], Live(q, at),
           NEW i \in 1..Len(q), NEW place \in Places \ {"queued"}
    PROVE  /\ RemoveAt(q, i) \in Seq(Callers)
           /\ Len(RemoveAt(q, i)) = Len(q) - 1
           /\ Live(RemoveAt(q, i), [at EXCEPT ![q[i]] = place])
<1> DEFINE r == RemoveAt(q, i)
           now == [at EXCEPT ![q[i]] = place]
<1>1. /\ r \in Seq(Callers)
      /\ Len(r) = Len(q) - 1
      /\ \A k \in 1..(Len(q) - 1) : r[k] = IF k < i THEN q[k] ELSE q[k + 1]
  BY RemovedAt
<1>2. Len(q) \in Nat /\ \A k \in 1..Len(q) : q[k] \in Callers
  BY LenProperties, ElementOfSeq
<1>3. \A d \in Callers : now[d] = IF d = q[i] THEN place ELSE at[d]
  BY <1>2
<1> HIDE DEF r, now
<1>4. \A k \in 1..Len(r) :
        \E m \in 1..Len(q) : m # i /\ r[k] = q[m] /\ m = IF k < i THEN k ELSE k + 1
  BY <1>1, <1>2
<1>5. \A m \in 1..Len(q) : m # i => \E k \in 1..Len(r) : r[k] = q[m]
  <2> SUFFICES ASSUME NEW m \in 1..Len(q), m # i
               PROVE  \E k \in 1..Len(r) : r[k] = q[m]
    OBVIOUS
  <2>1. CASE m < i
    <3>1. m \in 1..(Len(q) - 1)
      BY <2>1, <1>2
    <3> QED
      BY <2>1, <3>1, <1>1
  <2>2. CASE m > i
    <3>1. m - 1 \in 1..(Len(q) - 1) /\ ~(m - 1 < i) /\ (m - 1) + 1 = m
      BY <2>2, <1>2
    <3> QED
      BY <3>1, <1>1
  <2> QED
    BY <2>1, <2>2
<1>6. \A k \in 1..Len(r) : now[r[k]] = "queued"
  BY <1>2, <1>3, <1>4 DEF Live
<1>7. \A d \in Callers : now[d] = "queued" => \E k \in 1..Len(r) : r[k] = d
  BY <1>2, <1>3, <1>5 DEF Live
<1>8. \A k, l \in 1..Len(r) : r[k] = r[l] => k = l
  BY <1>1, <1>2, <1>4 DEF Live
<1> QED
  BY <1>1, <1>6, <1>7, <1>8 DEF Live, r, now

\* The tail is what is left without the first.
LEMMA TailRemovesFirst ==
    ASSUME NEW q \in Seq(Callers), q # <<>>
    PROVE  /\ 1 \in 1..Len(q)
           /\ Head(q) = q[1]
           /\ Tail(q) = RemoveAt(q, 1)
<1>1. Len(q) \in Nat \ {0}
  BY EmptySeq
<1>2. 1 \in 1..Len(q)
  BY <1>1
<1>3. /\ Tail(q) \in Seq(Callers)
      /\ Len(Tail(q)) = Len(q) - 1
      /\ \A k \in 1..Len(Tail(q)) : Tail(q)[k] = q[k + 1]
  BY HeadTailProperties
<1>4. /\ RemoveAt(q, 1) \in Seq(Callers)
      /\ Len(RemoveAt(q, 1)) = Len(q) - 1
      /\ \A k \in 1..(Len(q) - 1) : RemoveAt(q, 1)[k] = IF k < 1 THEN q[k] ELSE q[k + 1]
  BY <1>2, RemovedAt
<1>5. \A k \in 1..Len(Tail(q)) : Tail(q)[k] = RemoveAt(q, 1)[k]
  BY <1>1, <1>3, <1>4
<1>6. Tail(q) = RemoveAt(q, 1)
  BY <1>3, <1>4, <1>5, SeqEqual
<1> QED
  BY <1>2, <1>6

\* A caller that neither was nor will be waiting may move freely.
LEMMA LiveElsewhere ==
    ASSUME NEW q \in Seq(Callers), NEW at \in [Callers -> Places], Live(q, at),
           NEW c \in Callers, at[c] # "queued", NEW place \in Places \ {"queued"}
    PROVE  Live(q, [at EXCEPT ![c] = place])
<1>1. \A i \in 1..Len(q) : q[i] \in Callers
  BY ElementOfSeq
<1>2. \A d \in Callers :
        [at EXCEPT ![c] = place][d] = IF d = c THEN place ELSE at[d]
  OBVIOUS
<1> QED
  BY <1>1, <1>2 DEF Live

-----------------------------------------------------------------------------
(* The inductive invariant *)

\* Nobody waits while a slot is free.
NoneWaitsBesideAFreeSlot == queue # <<>> => active = limit

Inv ==
    /\ TypeOK
    /\ IsFiniteSet(Holding)
    /\ active = Cardinality(Holding)
    /\ active <= limit
    /\ Live(queue, pc)
    /\ NoneWaitsBesideAFreeSlot
    /\ BacklogIsCapped

\* A gate starts empty and with at least one slot.
LEMMA InitInv == Init => Inv
<1> SUFFICES ASSUME Init PROVE Inv
  OBVIOUS
<1> USE GateAssumption
<1>1. TypeOK
  BY DEF Init, TypeOK, Sized, Gates
<1>2. Holding = {}
  BY DEF Init, Holding
<1>3. IsFiniteSet(Holding) /\ active = Cardinality(Holding)
  BY <1>2, FS_EmptySet DEF Init
<1>4. active <= limit
  BY <1>1 DEF Init, TypeOK
<1>5. Len(queue) = 0
  BY EmptySeq DEF Init
<1>6. Live(queue, pc)
  BY <1>5 DEF Init, Live
<1>7. NoneWaitsBesideAFreeSlot /\ BacklogIsCapped
  BY <1>5 DEF Init, NoneWaitsBesideAFreeSlot, BacklogIsCapped
<1> QED
  BY <1>1, <1>3, <1>4, <1>6, <1>7 DEF Inv

\* What the numbers of the invariant say.
LEMMA Numbers ==
    ASSUME TypeOK
    PROVE  /\ limit \in Nat \ {0} /\ active \in Nat /\ Len(queue) \in Nat
           /\ Cap \in Nat \ {0}
           /\ queue = <<>> <=> Len(queue) = 0
BY GateAssumption, EmptySeq, LenProperties DEF TypeOK

LEMMA StepAcquire ==
    ASSUME Inv, NEW c \in Callers, Acquire(c)
    PROVE  Inv'
<1> USE DEF Places
<1>0. TypeOK
  BY DEF Inv
<1>1. /\ limit \in Nat \ {0} /\ active \in Nat /\ Len(queue) \in Nat /\ Cap \in Nat
      /\ (queue = <<>>) <=> (Len(queue) = 0)
  BY <1>0, Numbers
<1>2. TypeOK'
  BY <1>0, <1>1 DEF TypeOK, Acquire
<1>3. Holding' = Holding \cup {c} /\ c \notin Holding
  BY <1>0 DEF TypeOK, Acquire, Holding
<1>4. IsFiniteSet(Holding') /\ active' = Cardinality(Holding')
  BY <1>1, <1>3, FS_AddElement DEF Inv, Acquire
<1>5. active' <= limit'
  BY <1>1 DEF Acquire
<1>6. Live(queue', pc')
  BY <1>0, LiveElsewhere DEF Inv, TypeOK, Acquire
<1>7. NoneWaitsBesideAFreeSlot'
  BY <1>1 DEF Inv, NoneWaitsBesideAFreeSlot, Acquire
<1>8. BacklogIsCapped'
  BY <1>1 DEF Inv, BacklogIsCapped, Acquire, Refused
<1> QED
  BY <1>2, <1>4, <1>5, <1>6, <1>7, <1>8 DEF Inv

LEMMA StepEnqueue ==
    ASSUME Inv, NEW c \in Callers, Enqueue(c)
    PROVE  Inv'
<1> USE DEF Places
<1>0. TypeOK
  BY DEF Inv
<1>1. /\ limit \in Nat \ {0} /\ active \in Nat /\ Len(queue) \in Nat /\ Cap \in Nat
      /\ (queue = <<>>) <=> (Len(queue) = 0)
  BY <1>0, Numbers
<1>2. /\ queue' \in Seq(Callers)
      /\ Len(queue') = Len(queue) + 1
      /\ Live(queue', pc')
  BY <1>0, LiveAppended DEF Inv, TypeOK, Enqueue
<1>3. TypeOK'
  BY <1>0, <1>2 DEF TypeOK, Enqueue
<1>4. Holding' = Holding
  BY <1>0 DEF TypeOK, Enqueue, Holding
<1>5. IsFiniteSet(Holding') /\ active' = Cardinality(Holding') /\ active' <= limit'
  BY <1>4 DEF Inv, Enqueue
<1>6. NoneWaitsBesideAFreeSlot'
  BY <1>1 DEF Inv, NoneWaitsBesideAFreeSlot, Enqueue
<1>7. BacklogIsCapped'
  BY <1>1, <1>2 DEF Inv, BacklogIsCapped, Enqueue, Refused
<1> QED
  BY <1>2, <1>3, <1>5, <1>6, <1>7 DEF Inv

LEMMA StepResume ==
    ASSUME Inv, NEW c \in Callers, Resume(c)
    PROVE  Inv'
<1> USE DEF Places
<1>0. TypeOK
  BY DEF Inv
<1>1. TypeOK'
  BY <1>0 DEF TypeOK, Resume
<1>2. Holding' = Holding
  BY <1>0 DEF TypeOK, Resume, Holding
<1>3. IsFiniteSet(Holding') /\ active' = Cardinality(Holding') /\ active' <= limit'
  BY <1>2 DEF Inv, Resume
<1>4. Live(queue', pc')
  BY <1>0, LiveElsewhere DEF Inv, TypeOK, Resume
<1>5. NoneWaitsBesideAFreeSlot' /\ BacklogIsCapped'
  BY DEF Inv, NoneWaitsBesideAFreeSlot, BacklogIsCapped, Resume
<1> QED
  BY <1>1, <1>3, <1>4, <1>5 DEF Inv

\* What a release does to a queue somebody waits in.
LEMMA HandsOver ==
    ASSUME Inv, NEW c \in Callers, Release(c), queue # <<>>
    PROVE  /\ Head(queue) \in Callers /\ Head(queue) # c
           /\ Head(queue) = queue[1] /\ 1 \in 1..Len(queue)
           /\ pc[Head(queue)] = "queued"
           /\ queue' \in Seq(Callers)
           /\ Len(queue') = Len(queue) - 1
           /\ Live(queue', pc')
           /\ active' = active
           /\ pc' = [pc EXCEPT ![c] = "away", ![Head(queue)] = "granted"]
<1> USE DEF Places
<1>0. queue \in Seq(Callers) /\ pc \in [Callers -> Places]
  BY DEF Inv, TypeOK
<1>1. 1 \in 1..Len(queue) /\ Head(queue) = queue[1] /\ Tail(queue) = RemoveAt(queue, 1)
  BY <1>0, TailRemovesFirst
<1>2. Head(queue) \in Callers
  BY <1>0, HeadTailProperties
<1>3. pc[Head(queue)] = "queued"
  BY <1>1 DEF Inv, Live
<1>4. pc[c] = "running"
  BY DEF Release
<1> DEFINE mid == [pc EXCEPT ![c] = "away"]
<1>5. mid \in [Callers -> Places] /\ Live(queue, mid)
  BY <1>0, <1>4, LiveElsewhere DEF Inv
<1>6. /\ queue' = RemoveAt(queue, 1)
      /\ active' = active
      /\ pc' = [pc EXCEPT ![c] = "away", ![Head(queue)] = "granted"]
  BY <1>1 DEF Release
<1>7. pc' = [mid EXCEPT ![queue[1]] = "granted"]
  BY <1>1, <1>6
<1> HIDE DEF mid
<1>8. /\ RemoveAt(queue, 1) \in Seq(Callers)
      /\ Len(RemoveAt(queue, 1)) = Len(queue) - 1
      /\ Live(RemoveAt(queue, 1), [mid EXCEPT ![queue[1]] = "granted"])
  BY <1>0, <1>1, <1>5, LiveWithout
<1> QED
  BY <1>1, <1>2, <1>3, <1>4, <1>6, <1>7, <1>8

LEMMA StepRelease ==
    ASSUME Inv, NEW c \in Callers, Release(c)
    PROVE  Inv'
<1> USE DEF Places
<1>0. TypeOK
  BY DEF Inv
<1>1. /\ limit \in Nat \ {0} /\ active \in Nat /\ Len(queue) \in Nat /\ Cap \in Nat
      /\ (queue = <<>>) <=> (Len(queue) = 0)
  BY <1>0, Numbers
<1>2. CASE queue # <<>>
  <2>1. /\ Head(queue) \in Callers /\ Head(queue) # c
        /\ pc[Head(queue)] = "queued"
        /\ queue' \in Seq(Callers)
        /\ Len(queue') = Len(queue) - 1
        /\ Live(queue', pc')
        /\ active' = active
        /\ pc' = [pc EXCEPT ![c] = "away", ![Head(queue)] = "granted"]
    BY <1>2, HandsOver
  <2>2. gate' = gate /\ limit' = limit /\ pc[c] = "running"
    BY DEF Release
  <2>3. TypeOK'
    BY <1>0, <2>1, <2>2 DEF TypeOK
  <2>4. /\ Holding' = (Holding \ {c}) \cup {Head(queue)}
        /\ c \in Holding /\ Head(queue) \notin Holding \ {c}
    BY <1>0, <2>1, <2>2 DEF TypeOK, Holding
  <2>5. IsFiniteSet(Holding \ {c}) /\ Cardinality(Holding \ {c}) = active - 1
    BY <2>4, FS_RemoveElement DEF Inv
  <2>6. IsFiniteSet(Holding') /\ Cardinality(Holding') = active - 1 + 1
    BY <2>4, <2>5, FS_AddElement
  <2>7. active' = Cardinality(Holding') /\ active' <= limit'
    BY <1>1, <2>1, <2>2, <2>6 DEF Inv
  <2>8. NoneWaitsBesideAFreeSlot'
    BY <1>2, <2>1, <2>2 DEF Inv, NoneWaitsBesideAFreeSlot
  <2>9. BacklogIsCapped'
    BY <1>1, <2>1, <2>2 DEF Inv, BacklogIsCapped
  <2> QED
    BY <2>1, <2>3, <2>6, <2>7, <2>8, <2>9 DEF Inv
<1>3. CASE queue = <<>>
  <2>1. /\ pc[c] = "running" /\ pc' = [pc EXCEPT ![c] = "away"]
        /\ active' = active - 1
        /\ queue' = queue /\ gate' = gate /\ limit' = limit
    BY <1>3 DEF Release
  <2>2. Holding' = Holding \ {c} /\ c \in Holding
    BY <1>0, <2>1 DEF TypeOK, Holding
  <2>3. /\ IsFiniteSet(Holding')
        /\ Cardinality(Holding') = active - 1
        /\ Cardinality(Holding') \in Nat
    BY <2>2, FS_RemoveElement, FS_CardinalityType DEF Inv
  <2>4. active' = Cardinality(Holding') /\ active' \in Nat /\ active' <= limit'
    BY <1>1, <2>1, <2>3 DEF Inv
  <2>5. TypeOK'
    BY <1>0, <2>1, <2>4 DEF TypeOK
  <2>6. Live(queue', pc')
    BY <1>0, <2>1, LiveElsewhere DEF Inv, TypeOK
  <2>7. NoneWaitsBesideAFreeSlot' /\ BacklogIsCapped'
    BY <1>1, <1>3, <2>1 DEF Inv, NoneWaitsBesideAFreeSlot, BacklogIsCapped
  <2> QED
    BY <2>3, <2>4, <2>5, <2>6, <2>7 DEF Inv
<1> QED
  BY <1>2, <1>3

LEMMA StepWithdraw ==
    ASSUME Inv, NEW c \in Callers, Withdraw(c)
    PROVE  Inv'
<1> USE DEF Places
<1>0. TypeOK
  BY DEF Inv
<1>1. /\ limit \in Nat \ {0} /\ active \in Nat /\ Len(queue) \in Nat /\ Cap \in Nat
      /\ (queue = <<>>) <=> (Len(queue) = 0)
  BY <1>0, Numbers
<1>2. PICK i \in 1..Len(queue) : queue[i] = c /\ queue' = RemoveAt(queue, i)
  BY DEF Withdraw, Spliced
<1>3. /\ pc' = [pc EXCEPT ![queue[i]] = "away"]
      /\ gate' = gate /\ limit' = limit /\ active' = active
  BY <1>2 DEF Withdraw
<1>4. /\ queue' \in Seq(Callers)
      /\ Len(queue') = Len(queue) - 1
      /\ Live(queue', pc')
  <2>1. queue \in Seq(Callers) /\ pc \in [Callers -> Places] /\ Live(queue, pc)
    BY <1>0 DEF Inv, TypeOK
  <2>2. /\ RemoveAt(queue, i) \in Seq(Callers)
        /\ Len(RemoveAt(queue, i)) = Len(queue) - 1
        /\ Live(RemoveAt(queue, i), [pc EXCEPT ![queue[i]] = "away"])
    BY <2>1, LiveWithout
  <2> QED
    BY <1>2, <1>3, <2>2
<1>5. pc[c] = "queued" /\ pc' = [pc EXCEPT ![c] = "away"]
  BY <1>2, <1>3 DEF Inv, Live
<1>6. TypeOK'
  BY <1>0, <1>3, <1>4, <1>5 DEF TypeOK
<1>7. Holding' = Holding
  BY <1>0, <1>5 DEF TypeOK, Holding
<1>8. IsFiniteSet(Holding') /\ active' = Cardinality(Holding') /\ active' <= limit'
  BY <1>3, <1>7 DEF Inv
<1>9. NoneWaitsBesideAFreeSlot' /\ BacklogIsCapped'
  <2>1. queue # <<>>
    BY <1>1, <1>2
  <2> QED
    BY <1>1, <1>3, <1>4, <2>1 DEF Inv, NoneWaitsBesideAFreeSlot, BacklogIsCapped
<1> QED
  BY <1>4, <1>6, <1>8, <1>9 DEF Inv

LEMMA NextInv == Inv /\ [Next]_vars => Inv'
<1> SUFFICES ASSUME Inv, [Next]_vars PROVE Inv'
  OBVIOUS
<1>1. CASE Next
  BY <1>1, StepAcquire, StepEnqueue, StepResume, StepRelease, StepWithdraw DEF Next
<1>2. CASE UNCHANGED vars
  BY <1>2 DEF vars, Inv, TypeOK, Holding, NoneWaitsBesideAFreeSlot, BacklogIsCapped
<1> QED
  BY <1>1, <1>2

LEMMA Invariance == Spec => []Inv
<1> QED
  BY InitInv, NextInv, PTL DEF Spec

-----------------------------------------------------------------------------
(* Theorems *)

\* Semaphore.limit is a positive number whatever an operator configures, the
\* count never goes negative, and the queue holds callers only.
THEOREM TypeCorrect == Spec => []TypeOK
<1>1. Inv => TypeOK
  BY DEF Inv
<1> QED
  BY <1>1, Invariance, PTL

\* However callers join, withdraw and release, the count is the number of
\* slot holders, and there are never more of them than slots.
THEOREM SlotsAreNeverLost == Spec => []SlotsAreHeld
<1>1. Inv => SlotsAreHeld
  BY DEF Inv, SlotsAreHeld
<1> QED
  BY <1>1, Invariance, PTL

\* release() never finds the resolver of a caller that has gone away.
THEOREM NoTombstones == Spec => []QueueIsLive
<1>1. Inv => QueueIsLive
  BY LiveQueue DEF Inv, TypeOK, QueueIsLive, Waiting, Places
<1> QED
  BY <1>1, Invariance, PTL

\* The ceilings of the avatar and the HEIC gate hold, whatever Cap is.
THEOREM BacklogNeverExceedsTheCap == Spec => []BacklogIsCapped
<1>1. Inv => BacklogIsCapped
  BY DEF Inv
<1> QED
  BY <1>1, Invariance, PTL

\* One step of any gate: whoever is granted a slot was ahead of everybody that
\* goes on waiting.
LEMMA ServedInOrder ==
    ASSUME Inv, [Next]_vars, NEW c \in Callers,
           pc[c] \in {"away", "queued"}, pc'[c] = "granted",
           NEW i \in 1..Len(queue), pc'[queue[i]] = "queued"
    PROVE  \E j \in 1..(i - 1) : queue[j] = c
<1> USE DEF Places
<1>0. TypeOK /\ Len(queue) \in Nat /\ queue # <<>>
  <2>1. TypeOK
    BY DEF Inv
  <2> QED
    BY <2>1, Numbers
<1>1. queue[i] \in Callers
  BY <1>0, ElementOfSeq DEF TypeOK
<1>2. ASSUME NEW d \in Callers, Acquire(d) PROVE FALSE
  BY <1>0, <1>2 DEF Acquire, Inv, TypeOK, NoneWaitsBesideAFreeSlot
<1>3. ASSUME NEW d \in Callers, Enqueue(d) PROVE FALSE
  BY <1>0, <1>3 DEF Enqueue, TypeOK
<1>4. ASSUME NEW d \in Callers, Resume(d) PROVE FALSE
  BY <1>0, <1>4 DEF Resume, TypeOK
<1>5. ASSUME NEW d \in Callers, Withdraw(d) PROVE FALSE
  BY <1>0, <1>5 DEF Withdraw, TypeOK
<1>6. ASSUME NEW d \in Callers, Release(d)
      PROVE  \E j \in 1..(i - 1) : queue[j] = c
  <2>1. /\ Head(queue) \in Callers /\ Head(queue) # d
        /\ Head(queue) = queue[1] /\ 1 \in 1..Len(queue)
        /\ pc' = [pc EXCEPT ![d] = "away", ![Head(queue)] = "granted"]
    BY <1>0, <1>6, HandsOver
  <2>2. \A e \in Callers : pc'[e] = IF e = Head(queue) THEN "granted"
                                    ELSE IF e = d THEN "away" ELSE pc[e]
    BY <1>0, <2>1 DEF TypeOK
  <2>3. c = queue[1]
    <3>1. c # Head(queue) => pc'[c] = "away" \/ pc'[c] = pc[c]
      BY <2>2
    <3> QED
      BY <2>1, <3>1
  <2>4. i # 1
    BY <1>1, <2>1, <2>2
  <2>5. 1 \in 1..(i - 1)
    BY <1>0, <2>4
  <2> QED
    BY <2>3, <2>5
<1>7. CASE Next
  BY <1>2, <1>3, <1>4, <1>5, <1>6, <1>7 DEF Next
<1>8. CASE UNCHANGED vars
  BY <1>8 DEF vars
<1> QED
  BY <1>7, <1>8

\* The gates are first come, first served: neither acquire's fast path nor a
\* withdrawal in the middle of the queue lets anybody overtake.
THEOREM ServesInOrder == Spec => FirstComeFirstServed
<1>1. Inv /\ [Next]_vars =>
        [\A c \in Callers : pc[c] \in {"away", "queued"} /\ pc'[c] = "granted" =>
           \A i \in 1..Len(queue) : pc'[queue[i]] = "queued" =>
               \E j \in 1..(i - 1) : queue[j] = c]_vars
  BY ServedInOrder
<1> QED
  BY <1>1, Invariance, PTL DEF Spec, FirstComeFirstServed

-----------------------------------------------------------------------------
(* Refinement *)

\* An empty gate is an empty SlotGate.
LEMMA InitRefines == Init => Promise!Init
<1> SUFFICES ASSUME Init PROVE Promise!Init
  OBVIOUS
<1>1. limit \in Nat \ {0}
  BY InitInv DEF Inv, TypeOK
<1>2. Waiting = {} /\ Holding = {}
  BY DEF Init, Waiting, Holding
<1> QED
  BY <1>1, <1>2 DEF Promise!Init

\* SlotGate counts as the gate does.
LEMMA SameCardinality == \A S : Promise!Cardinality(S) = Cardinality(S)
BY DEF Promise!Cardinality, Cardinality

\* Every step of a gate is a step of SlotGate, or one it does not see.
LEMMA NextRefines == Inv /\ [Next]_vars => [Promise!Next]_(Promise!vars)
<1> SUFFICES ASSUME Inv, [Next]_vars PROVE [Promise!Next]_(Promise!vars)
  OBVIOUS
<1> USE DEF Places
<1>0. TypeOK
  BY DEF Inv
<1>1. /\ limit \in Nat \ {0} /\ active \in Nat /\ Len(queue) \in Nat
      /\ (queue = <<>>) <=> (Len(queue) = 0)
  BY <1>0, Numbers
<1>2. queue = <<>> <=> Waiting = {}
  BY <1>0, EmptyQueue DEF Inv, TypeOK, Waiting
<1>3. active = Cardinality(Holding) /\ active <= limit
  BY DEF Inv
<1>4. ASSUME NEW c \in Callers, Acquire(c) PROVE Promise!Enter(c)
  <2>1. Holding' = Holding \cup {c} /\ Waiting' = Waiting /\ c \notin Holding \cup Waiting
    BY <1>0, <1>4 DEF TypeOK, Acquire, Holding, Waiting
  <2>2. Waiting = {} /\ Cardinality(Holding) < limit
    BY <1>1, <1>2, <1>3, <1>4 DEF Inv, NoneWaitsBesideAFreeSlot, Acquire
  <2>3. limit' = limit /\ gate' = gate
    BY <1>4 DEF Acquire
  <2> QED
    BY <2>1, <2>2, <2>3, SameCardinality DEF Promise!Enter, Promise!Outside
<1>5. ASSUME NEW c \in Callers, Enqueue(c) PROVE Promise!Ask(c)
  <2>1. Holding' = Holding /\ Waiting' = Waiting \cup {c} /\ c \notin Holding \cup Waiting
    BY <1>0, <1>5 DEF TypeOK, Enqueue, Holding, Waiting
  <2>2. Cardinality(Holding) = limit
    BY <1>1, <1>3, <1>5 DEF Enqueue
  <2>3. limit' = limit /\ gate' = gate
    BY <1>5 DEF Enqueue
  <2> QED
    BY <2>1, <2>2, <2>3, SameCardinality DEF Promise!Ask, Promise!Outside
<1>6. ASSUME NEW c \in Callers, Resume(c) PROVE UNCHANGED Promise!vars
  <2>1. Holding' = Holding /\ Waiting' = Waiting
    BY <1>0, <1>6 DEF TypeOK, Resume, Holding, Waiting
  <2> QED
    BY <1>6, <2>1 DEF Resume, Promise!vars
<1>7. ASSUME NEW c \in Callers, Withdraw(c) PROVE Promise!GiveUp(c)
  <2>1. pc[c] = "queued" /\ pc' = [pc EXCEPT ![c] = "away"]
    BY <1>7 DEF Withdraw, Inv, Live
  <2>2. Holding' = Holding /\ Waiting' = Waiting \ {c} /\ c \in Waiting
    BY <1>0, <2>1 DEF TypeOK, Holding, Waiting
  <2>3. gate # "upload" /\ limit' = limit /\ gate' = gate
    BY <1>7 DEF Withdraw
  <2> QED
    BY <2>2, <2>3 DEF Promise!GiveUp
<1>8. ASSUME NEW c \in Callers, Release(c), queue # <<>>
      PROVE  \E d \in Callers : Promise!HandOver(c, d)
  <2>1. /\ Head(queue) \in Callers /\ Head(queue) # c
        /\ pc[Head(queue)] = "queued"
        /\ pc' = [pc EXCEPT ![c] = "away", ![Head(queue)] = "granted"]
    BY <1>8, HandsOver
  <2>2. gate' = gate /\ limit' = limit /\ pc[c] = "running"
    BY <1>8 DEF Release
  <2>3. /\ Holding' = (Holding \ {c}) \cup {Head(queue)} /\ c \in Holding
        /\ Waiting' = Waiting \ {Head(queue)} /\ Head(queue) \in Waiting
    BY <1>0, <2>1, <2>2 DEF TypeOK, Holding, Waiting
  <2> QED
    BY <2>1, <2>2, <2>3 DEF Promise!HandOver
<1>9. ASSUME NEW c \in Callers, Release(c), queue = <<>> PROVE Promise!Leave(c)
  <2>1. /\ pc[c] = "running" /\ pc' = [pc EXCEPT ![c] = "away"]
        /\ gate' = gate /\ limit' = limit
    BY <1>9 DEF Release
  <2>2. Holding' = Holding \ {c} /\ c \in Holding /\ Waiting' = Waiting
    BY <1>0, <2>1 DEF TypeOK, Holding, Waiting
  <2> QED
    BY <1>2, <1>9, <2>1, <2>2 DEF Promise!Leave
<1>10. CASE Next
  <2>1. PICK c \in Callers : \/ Acquire(c) \/ Enqueue(c) \/ Resume(c)
                             \/ Release(c) \/ Withdraw(c)
    BY <1>10 DEF Next
  <2> QED
    BY <2>1, <1>4, <1>5, <1>6, <1>7, <1>8, <1>9 DEF Promise!Next
<1>11. CASE UNCHANGED vars
  BY <1>11 DEF vars, Promise!vars, Waiting, Holding
<1> QED
  BY <1>10, <1>11

\* The semaphore's count and queue do what SlotGate promises.
THEOREM GateImplementsSlotGate == Spec => KeepsThePromise
<1> QED
  BY InitRefines, NextRefines, Invariance, PTL
     DEF Spec, KeepsThePromise, Promise!Spec
=============================================================================
