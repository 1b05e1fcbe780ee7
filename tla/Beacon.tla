------------------------------- MODULE Beacon -------------------------------
(***************************************************************************)
(* The crash beacon: a script that throws sends its message and stack to   *)
(* the server once in a while, the page holding back the rest              *)
(* (public/js/client-error.js), and the server writes it to the log unless *)
(* the same report of the same sender is remembered in a map of a bounded  *)
(* size (routes/guest/client-error.js).  Nobody learns what became of it.  *)
(***************************************************************************)
EXTENDS Sequences, FiniteSets, Integers

CONSTANTS
    Senders,        \* guests, or the addresses of those who never joined
    Crashes,        \* what a script can throw: its message and stack
    MAX_REPORTS, MIN_INTERVAL_MS,
    CLIENT_ERROR_DEDUPE_WINDOW_MS, RATE_LIMIT_TRACKED_MAX,
    MaxClock, MaxThrows     \* bounds

VARIABLES
    clock,
    loaded,         \* page of a sender -> how many beacons it sent and when the last
    flying,         \* beacons on their way
    dedupeMap,      \* what was thrown and by whom -> when that is forgotten, or Never
    log,            \* the lines of the server's log
    received,       \* history: the beacons the server took
    evicted,        \* history: what the map forgot too early
    throws          \* how many beacons were sent

beaconVars == <<clock, loaded, flying, dedupeMap, log, received, evicted, throws>>

Never == -1
Keys == Senders \X Crashes
FreshPage == [reportCount |-> 0, lastReportAt |-> Never]

BeaconInit ==
    /\ clock = 0 /\ throws = 0
    /\ log = <<>> /\ flying = {} /\ received = {} /\ evicted = {}
    /\ loaded = [g \in Senders |-> FreshPage]
    /\ dedupeMap = [k \in Keys |-> Never]

Tick ==
    /\ clock < MaxClock
    /\ clock' = clock + 1
    /\ UNCHANGED <<loaded, flying, dedupeMap, log, received, evicted, throws>>

\* A script throws: report() of client-error.js sends a few, and not at once.
Throw(g, e) ==
    LET page == loaded[g]
        held == \/ page.reportCount >= MAX_REPORTS
                \/ page.lastReportAt # Never /\ clock - page.lastReportAt < MIN_INTERVAL_MS
    IN  /\ throws < MaxThrows /\ throws' = throws + 1
        /\ ~held
        /\ loaded' = [loaded EXCEPT ![g] = [reportCount |-> @.reportCount + 1, lastReportAt |-> clock]]
        /\ flying' = flying \cup {[key |-> <<g, e>>, n |-> throws]}
        /\ UNCHANGED <<clock, dedupeMap, log, received, evicted>>

\* A fresh page of the sender counts from nothing.
Reload(g) ==
    /\ loaded[g] # FreshPage
    /\ loaded' = [loaded EXCEPT ![g] = FreshPage]
    /\ UNCHANGED <<clock, flying, dedupeMap, log, received, evicted, throws>>

\* The connection or the rate limit swallows it, and nobody is told.
Lose(b) ==
    /\ flying' = flying \ {b}
    /\ UNCHANGED <<clock, loaded, dedupeMap, log, received, evicted, throws>>

Held(map) == {k \in Keys : map[k] # Never}
Full(map) == Cardinality(Held(map)) >= RATE_LIMIT_TRACKED_MAX

\* What the map can look like with room for one more key.
sweepAndEvictUnderCap(map) ==
    LET swept == [k \in Keys |-> IF clock >= map[k] THEN Never ELSE map[k]]
        soonest == {k \in Held(swept) : \A j \in Held(swept) : swept[k] <= swept[j]}
    IN  IF ~Full(map) THEN {map}
        ELSE IF ~Full(swept) THEN {swept}
        ELSE {[swept EXCEPT ![k] = Never] : k \in soonest}

\* Mutant of noteReport: a key that was seen before is never logged again.
noteReportForGood(key, seen, map) ==
    IF dedupeMap[key] # Never THEN seen = TRUE /\ map = dedupeMap
    ELSE seen = FALSE /\ \E room \in sweepAndEvictUnderCap(dedupeMap) :
            map = [room EXCEPT ![key] = clock + CLIENT_ERROR_DEDUPE_WINDOW_MS]

\* Whether the report was seen already, and the map after it.
noteReport(key, seen, map) ==
    IF dedupeMap[key] # Never /\ clock < dedupeMap[key] THEN seen = TRUE /\ map = dedupeMap
    ELSE /\ seen = FALSE
         /\ \E room \in IF dedupeMap[key] # Never THEN {dedupeMap} ELSE sweepAndEvictUnderCap(dedupeMap) :
                map = [room EXCEPT ![key] = clock + CLIENT_ERROR_DEDUPE_WINDOW_MS]

\* POST /client-error: the answer is 204 whatever became of it.
Note(b) ==
    /\ \E seen \in BOOLEAN :
        /\ noteReport(b.key, seen, dedupeMap')
        /\ log' = IF seen THEN log ELSE Append(log, [key |-> b.key, at |-> clock])
    /\ flying' = flying \ {b}
    /\ received' = received \cup {[key |-> b.key, at |-> clock]}
    /\ evicted' = {k \in evicted : k # b.key} \cup
                  {k \in Held(dedupeMap) : dedupeMap'[k] = Never /\ clock < dedupeMap[k]}
    /\ UNCHANGED <<clock, loaded, throws>>

BeaconNext ==
    \/ Tick
    \/ \E g \in Senders : Reload(g) \/ \E e \in Crashes : Throw(g, e)
    \/ \E b \in flying : Lose(b) \/ Note(b)

BeaconSpec == BeaconInit /\ [][BeaconNext]_beaconVars

-----------------------------------------------------------------------------
(* Properties.                                                             *)

Lines(k) == {i \in DOMAIN log : log[i].key = k}

\* Every beacon the server took is in the log or repeats a line of the last
\* window; a line repeats another only when the map ran out of room for it.
CrashesAreLogged ==
    LET w == CLIENT_ERROR_DEDUPE_WINDOW_MS
    IN  /\ \A r \in received : \E i \in Lines(r.key) : log[i].at <= r.at /\ r.at - log[i].at < w
        /\ Cardinality(Held(dedupeMap)) <= RATE_LIMIT_TRACKED_MAX
        /\ \A k \in Keys \ evicted : \A i \in Lines(k) : clock - log[i].at < w => dedupeMap[k] > clock

=============================================================================
