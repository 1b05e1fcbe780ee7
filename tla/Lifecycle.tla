----------------------------- MODULE Lifecycle ------------------------------
(***************************************************************************)
(* The server process and the wrapper that restarts it: the drain on a     *)
(* signal with its forced end (utils/shutdown.js), the crash that ends a   *)
(* process at once (app.js), and the wrapper's restarts, which stop when   *)
(* they come too often (scripts/serve-resilient.js).                       *)
(*                                                                         *)
(* Time is counted in ticks and held as ages and as time left, so nothing  *)
(* bounds how long the system runs.  A timer fires before time passes on.  *)
(***************************************************************************)
EXTENDS Integers, Sequences, FiniteSets

CONSTANTS
    Conns,          \* connections of guests
    MAX_RESTARTS, WINDOW, BACKOFF,      \* serve-resilient.js, in ticks
    timeoutMs,      \* the drain's backstop, in ticks
    MaxPending      \* bound on signals sent and not delivered

VARIABLES
    wrapper,        \* "running", "stopped" (exit 0) or "gaveUp" (exit 1)
    restartTimes,   \* ages of the restarts it remembers, oldest first
    relaunch,       \* ticks until launch, or Never
    child,          \* "none", "booting", "serving" or "draining"
    pending,        \* signals on their way to the child
    forceTimer,     \* ticks until the forced exit, or Never
    conn,           \* connection -> "closed", "busy", or "left": its client gone, its handler not done
    restarts,       \* history: ages of all restarts no older than the window
    draining,       \* history: ticks since the first signal was handled, up to timeoutMs + 1
    stopping,       \* history: ticks since the wrapper was told to stop, up to timeoutMs + 1
    last            \* history: how the last child ended, after how long a drain, cutting whom

lifeVars == <<wrapper, restartTimes, relaunch, child, pending, forceTimer, conn,
              restarts, draining, stopping, last>>

Never == -1
Older(ages, n) == [i \in DOMAIN ages |-> IF ages[i] > n THEN ages[i] ELSE ages[i] + 1]
Up(n, m) == IF n > m THEN n ELSE n + 1
Down(n) == IF n = Never THEN Never ELSE n - 1
Busy == {c \in Conns : conn[c] = "busy"}

-----------------------------------------------------------------------------
(* The wrapper.                                                            *)

Launched == child' = "booting" /\ pending' = 0

LifeInit ==
    /\ wrapper = "running" /\ restartTimes = <<>> /\ relaunch = Never
    /\ child = "booting" /\ pending = 0 /\ forceTimer = Never
    /\ conn = [c \in Conns |-> "closed"]
    /\ restarts = <<>> /\ draining = Never /\ stopping = Never
    /\ last = [how |-> "none", after |-> Never, cut |-> {}]

launch ==
    /\ wrapper = "running" /\ relaunch = 0
    /\ relaunch' = Never /\ Launched
    /\ UNCHANGED <<wrapper, restartTimes, forceTimer, conn, restarts, draining, stopping, last>>

\* while (restartTimes.length > 0 && now - restartTimes[0] > window) shift()
Within(ages, window) ==
    LET shifts == {n \in 0 .. Len(ages) : \A i \in 1 .. n : ages[i] > window}
    IN  SubSeq(ages, 1 + (CHOOSE n \in shifts : \A m \in shifts : m <= n), Len(ages))

\* Mutant of Remembered: a restart exactly a window ago is forgotten.
RememberedShort == Within(restartTimes, WINDOW - 1)
\* The restarts of the window, both of its ends included.
Remembered == Within(restartTimes, WINDOW)

\* child.on('exit'): a child killed by a stop signal ends the wrapper too; any
\* other exit, the drained one included, is followed by a restart.
exited(how) ==
    IF wrapper # "running" THEN UNCHANGED <<wrapper, restartTimes, relaunch, restarts>>
    ELSE IF how = "signal" THEN wrapper' = "stopped" /\ UNCHANGED <<restartTimes, relaunch, restarts>>
    ELSE IF Len(Remembered) >= MAX_RESTARTS
    THEN wrapper' = "gaveUp" /\ restartTimes' = Remembered /\ UNCHANGED <<relaunch, restarts>>
    ELSE /\ restartTimes' = Append(Remembered, 0) /\ relaunch' = BACKOFF
         /\ restarts' = Append(Within(restarts, WINDOW), 0)
         /\ UNCHANGED wrapper

-----------------------------------------------------------------------------
(* The server.                                                             *)

\* The process is gone, and every connection and handler with it.
Die(how) ==
    /\ child' = "none" /\ pending' = 0 /\ forceTimer' = Never /\ draining' = Never
    /\ conn' = [c \in Conns |-> "closed"]
    /\ last' = [how |-> how, after |-> draining, cut |-> Busy]
    /\ exited(how) /\ UNCHANGED stopping

\* The modules have loaded and the socket listens; the handlers are installed.
Listen ==
    /\ child = "booting" /\ child' = "serving"
    /\ UNCHANGED <<wrapper, restartTimes, relaunch, pending, forceTimer, conn, restarts, draining,
                   stopping, last>>

\* uncaughtException, a failed start, or a kill from outside.
Crash == child # "none" /\ Die("crash")

\* Mutant of shutdown: every signal arms the timer anew.
shutdownAgain ==
    /\ forceTimer' = timeoutMs
    /\ draining' = IF child = "draining" THEN draining ELSE 0

\* The first signal arms the backstop and closes the listening socket; later
\* ones do nothing.
shutdown ==
    IF child = "draining" THEN UNCHANGED <<forceTimer, draining>> ELSE forceTimer' = timeoutMs /\ draining' = 0

\* A signal reaches the child.  Before the handlers are there it kills.
Deliver ==
    /\ pending > 0
    /\ IF child = "booting" THEN Die("signal")
       ELSE /\ pending' = pending - 1 /\ child' = "draining" /\ shutdown
            /\ UNCHANGED <<wrapper, restartTimes, relaunch, conn, restarts, stopping, last>>

\* Mutant of Drained: the callback does not wait for what is under way.
DrainedAtOnce == child = "draining" /\ Die("drained")
\* server.close calls back once no connection is open: the database is closed
\* and the process exits with 0.
Drained == child = "draining" /\ Busy = {} /\ Die("drained")

\* The backstop: exit with 1, whatever is under way.
Force == child = "draining" /\ forceTimer = 0 /\ Die("forced")

-----------------------------------------------------------------------------
(* Around them.                                                            *)

\* A signal for the child only, sent by an operator.
SignalChild ==
    /\ child # "none" /\ pending < MaxPending /\ pending' = pending + 1
    /\ UNCHANGED <<wrapper, restartTimes, relaunch, child, forceTimer, conn, restarts, draining,
                   stopping, last>>

\* The wrapper passes its signal on and exits at once; on Ctrl+C the child has
\* it from the terminal as well.
SignalWrapper(both) ==
    /\ wrapper = "running"
    /\ wrapper' = "stopped" /\ relaunch' = Never /\ stopping' = 0
    /\ pending' = IF child = "none" THEN 0 ELSE IF both /\ pending + 2 <= MaxPending THEN pending + 2
                  ELSE IF pending < MaxPending THEN pending + 1 ELSE pending
    /\ UNCHANGED <<restartTimes, child, forceTimer, conn, restarts, draining, last>>

Connection(c, from, to) ==
    /\ conn[c] = from /\ conn' = [conn EXCEPT ![c] = to]
    /\ UNCHANGED <<wrapper, restartTimes, relaunch, child, pending, forceTimer, restarts, draining,
                   stopping, last>>

Connect(c) == child = "serving" /\ Connection(c, "closed", "busy")
Answer(c) == Connection(c, "busy", "closed")
Leave(c) == Connection(c, "busy", "left")
HandlerEnds(c) == Connection(c, "left", "closed")

\* Signals arrive within a tick.  After the wrapper gave up nothing happens.
Tick ==
    /\ wrapper # "gaveUp"
    /\ relaunch # 0 /\ forceTimer # 0 /\ pending = 0
    /\ restartTimes' = Older(restartTimes, WINDOW) /\ restarts' = Older(restarts, WINDOW)
    /\ relaunch' = Down(relaunch) /\ forceTimer' = Down(forceTimer)
    /\ draining' = IF draining = Never THEN Never ELSE Up(draining, timeoutMs)
    /\ stopping' = IF stopping = Never THEN Never ELSE Up(stopping, timeoutMs)
    /\ UNCHANGED <<wrapper, child, pending, conn, last>>

LifeNext ==
    \/ launch \/ Listen \/ Crash \/ Deliver \/ Drained \/ Force \/ Tick
    \/ SignalChild \/ SignalWrapper(TRUE) \/ SignalWrapper(FALSE)
    \/ \E c \in Conns : Connect(c) \/ Answer(c) \/ Leave(c) \/ HandlerEnds(c)

LifeSpec == LifeInit /\ [][LifeNext]_lifeVars

-----------------------------------------------------------------------------
(* A drain ends no later than its backstop, counted from the first signal  *)
(* however many follow and though an upload may hang for ever; so does     *)
(* whatever runs when the wrapper is told to stop (utils/shutdown.js).     *)
DrainIsBounded == draining <= timeoutMs /\ (child # "none" => stopping <= timeoutMs)

(* And it is patient: unless the process crashes, a request whose client   *)
(* waits is cut only when the whole of that time has passed.               *)
DrainIsPatient ==
    last.cut # {} /\ last.how \in {"drained", "forced"} => last.after >= timeoutMs

(* No window, its ends included, sees more than MAX_RESTARTS restarts      *)
(* (serve-resilient.js: "stops restarting if 10 or more restarts happen    *)
(* within 60 seconds").                                                    *)
LoopsEnd == Cardinality({i \in DOMAIN restarts : restarts[i] <= WINDOW}) <= MAX_RESTARTS

(* A wrapper that gives up has seen a full window of restarts: a server    *)
(* that lasts always returns.                                              *)
OnlyLoopsEnd ==
    wrapper = "gaveUp" => Cardinality({i \in DOMAIN restarts : restarts[i] <= WINDOW}) >= MAX_RESTARTS

LifeKeepsItsWord == DrainIsBounded /\ DrainIsPatient /\ LoopsEnd /\ OnlyLoopsEnd
=============================================================================
