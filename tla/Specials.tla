------------------------------ MODULE Specials ------------------------------
(***************************************************************************)
(* Special tasks: the one-day challenge, the lucky task of a day and the   *)
(* flash.  The three live in columns of their own on the task row, each    *)
(* with its own form rules, and nothing in the schema keeps them apart:    *)
(* that a task is never two things at once, and that a day has one lucky   *)
(* task, is up to the edit handler and to the passing of time.  A guest's  *)
(* photo banks what the task pays at the moment the upload began.          *)
(*                                                                         *)
(* The host's requests are synchronous, an upload is two steps: the task   *)
(* row is read, a thumbnail is awaited, the row is inserted.               *)
(***************************************************************************)
EXTENDS EventClock, FiniteSets

CONSTANTS
    Tasks, Photos,
    EventDays,      \* the configured wedding days
    FormDays,       \* days a form may post, configured or not
    Bonuses,        \* amounts a form may post for a one-day challenge
    MinBonus, MaxBonus,
    Minutes,        \* flash lengths, in ticks
    Zones,          \* zones the calendar is checked for
    PlayedZones,    \* bound: the zones in which the event is played
    Horizon,        \* bound on time
    MaxEdits        \* bound on the host's requests

ASSUME SpecialsAssumption ==
    /\ EventDays \subseteq FormDays /\ FormDays \subseteq Nat
    /\ Bonuses \subseteq Nat /\ MinBonus \in Nat \ {0} /\ MaxBonus \in Nat
    /\ Minutes \subseteq Nat \ {0}
    /\ Zones \subseteq [jump : Int, before : Int, after : Int]
    /\ PlayedZones \subseteq Zones
    /\ Horizon \in Nat /\ MaxEdits \in Nat

\* No day begins twice: clocks that are put back are not put back over midnight.
ASSUME DaysGoOn ==
    \A z \in PlayedZones : eventLocalDate(z, z.jump - 1) <= eventLocalDate(z, z.jump)

VARIABLES
    zone,       \* the event's timezone
    now,        \* Date.now()
    task,       \* task -> its row, or NoTask
    photo,      \* photo -> its upload: see NoPhoto
    edits       \* requests of the host so far

vars == <<zone, now, task, photo, edits>>

None == -99     \* NULL
Blank == [live |-> TRUE, there |-> TRUE, date |-> None, bonus |-> None,
          lucky |-> None, flash |-> None, ends |-> None]
NoTask == [Blank EXCEPT !.there = FALSE]
NoPhoto == [stage |-> "none", of |-> None, reason |-> "none", amount |-> 0,
            day |-> None, overtaken |-> FALSE]

today == eventLocalDate(zone, now)

-----------------------------------------------------------------------------
(* services/tasks.js: what a row is, and pays, at an instant.              *)

isSealed(row) == row.date # None /\ row.date > today
isOnDay(row) == row.date # None /\ row.date = today

flashState(row) ==
    CASE row.flash = None -> "none"
      [] row.flash # None /\ now < row.flash -> "scheduled"
      [] row.flash # None /\ now >= row.flash /\ now < row.ends -> "active"
      [] OTHER -> "expired"

\* SPECIAL_RULES: the kinds a row is spoken for by.
SpokenFor(row) ==
    {k \in {"daily", "flash", "lucky"} :
        CASE k = "daily" -> isSealed(row) \/ isOnDay(row)
          [] k = "flash" -> flashState(row) \in {"scheduled", "active"}
          [] OTHER -> row.lucky # None /\ row.lucky >= today}

\* findSpecialRule: the first of the list.
whatSpecial(row) ==
    LET kinds == SpokenFor(row)
    IN  IF "daily" \in kinds THEN "daily"
        ELSE IF "flash" \in kinds THEN "flash"
        ELSE IF "lucky" \in kinds THEN "lucky" ELSE "none"

bonusForTask(row) ==
    CASE whatSpecial(row) = "daily" /\ isOnDay(row) -> [reason |-> "daily", amount |-> row.bonus]
      [] whatSpecial(row) = "flash" /\ flashState(row) = "active" -> [reason |-> "flash", amount |-> 1]
      [] whatSpecial(row) = "lucky" /\ row.lucky = today -> [reason |-> "lucky", amount |-> 1]
      [] OTHER -> [reason |-> "none", amount |-> 0]

-----------------------------------------------------------------------------
(* routes/admin/task-form.js: what a form writes, or why it is refused.    *)

\* A form as posted: mode is the raw special_mode, "absent" when missing.
Forms ==
    [mode : {"none", "hidden", "absent"}, cancel : BOOLEAN]
    \cup [mode : {"oneday"}, cancel : BOOLEAN, day : FormDays, bonus : Bonuses]
    \cup [mode : {"lucky"}, cancel : BOOLEAN, day : FormDays]
    \cup [mode : {"flash"}, cancel : {FALSE}, start : {"now"}, minutes : Minutes]
    \cup [mode : {"flash"}, cancel : {FALSE}, start : {"later"}, minutes : Minutes,
          day : FormDays, hour : {0, TicksPerDay \div 2}]
    \cup [mode : {"flash"}, cancel : {TRUE}]

Posted(t) == {p \in Photos : photo[p].stage = "posted" /\ photo[p].of = t}

\* Mutant of locks: only an earlier change of the date is refused.
locksTheDate(t, old, new) == new.date # old.date /\ Posted(t) # {}

\* Whether photos already posted stand in the way of a changed pair.
locks(t, old, new) == new # old /\ Posted(t) # {}

resolveSpecialPairWrite(t, row, f) ==
    LET old == [date |-> row.date, bonus |-> row.bonus]
        new == IF f.mode = "oneday" THEN [date |-> f.day, bonus |-> f.bonus]
               ELSE IF f.mode = "none" THEN [date |-> None, bonus |-> None] ELSE old
        valid == f.mode = "oneday" /\ new # old =>
                    f.day \in EventDays /\ f.bonus \in MinBonus .. MaxBonus
    IN  [ok |-> valid /\ ~locks(t, old, new), date |-> new.date, bonus |-> new.bonus]

resolveLuckyPairWrite(row, f) ==
    LET new == IF f.mode = "lucky" THEN f.day
               ELSE IF f.mode = "none" THEN None ELSE row.lucky
    IN  [ok |-> f.mode = "lucky" /\ new # row.lucky => f.day \in EventDays, lucky |-> new]

\* Whether a form leaves the task visible (normalizeMode, isTaskLive).
StaysLive(row, f) ==
    IF f.mode \in {"none", "oneday"} THEN TRUE
    ELSE IF f.mode = "hidden" THEN FALSE ELSE row.live

resolveFlashWrite(row, f) ==
    LET keep == [ok |-> TRUE, flash |-> row.flash, ends |-> row.ends]
        clear == [ok |-> TRUE, flash |-> None, ends |-> None]
        start == IF f.start = "now" THEN now ELSE eventLocalInstant(zone, f.day, f.hour)
        replay == /\ f.start = "now" /\ flashState(row) \in {"scheduled", "active"}
                  /\ f.minutes = row.ends - row.flash
    IN  IF f.cancel \/ f.mode = "none" THEN clear
        ELSE IF f.mode # "flash" THEN keep
        ELSE IF f.minutes \in Minutes /\ replay THEN keep
        ELSE [ok |-> /\ StaysLive(row, f)
                     /\ f.minutes \in Minutes
                     /\ f.start = "later" => f.day \in EventDays
                     /\ start >= now,
              flash |-> start, ends |-> start + f.minutes]

\* Mutant of checkExclusivity: every special may be set on any row.
checkNothing(row, f) == TRUE

\* A special may be set only on a row that is free, or is that kind already.
checkExclusivity(row, f) ==
    LET setting == IF f.mode = "oneday" THEN "daily" ELSE f.mode
    IN  f.mode \in {"oneday", "lucky", "flash"} => whatSpecial(row) \in {"none", setting}

-----------------------------------------------------------------------------
Init ==
    /\ zone \in Zones /\ now = 0
    /\ task = [t \in Tasks |-> NoTask] /\ photo = [p \in Photos |-> NoPhoto]
    /\ edits = 0

Tick == now < Horizon /\ now' = now + 1 /\ UNCHANGED <<zone, task, photo, edits>>

\* An upload that read the row of t before the host wrote it.
Overtake(t) ==
    photo' = [p \in Photos |->
                IF photo[p].stage = "began" /\ photo[p].of = t
                THEN [photo[p] EXCEPT !.overtaken = TRUE] ELSE photo[p]]

\* Mutant of ClearLucky: the day's earlier pick stays.
ClearNothing(rows, t, day) == rows

\* The save's last statement: no other task keeps the lucky day it took.
ClearLucky(rows, t, day) ==
    [u \in Tasks |-> IF u # t /\ day # None /\ rows[u].lucky = day
                     THEN [rows[u] EXCEPT !.lucky = None] ELSE rows[u]]

Request == edits < MaxEdits /\ edits' = edits + 1 /\ UNCHANGED <<zone, now>>

\* The columns a form that is accepted writes.
Written(t, row, f) ==
    LET pair == resolveSpecialPairWrite(t, row, f)
        flash == resolveFlashWrite(row, f)
    IN  [live |-> StaysLive(row, f), there |-> TRUE, date |-> pair.date, bonus |-> pair.bonus,
         lucky |-> resolveLuckyPairWrite(row, f).lucky,
         flash |-> flash.flash, ends |-> flash.ends]

Save(t, row, f) ==
    LET new == Written(t, row, f)
    IN  task' = ClearLucky([task EXCEPT ![t] = new], t, new.lucky)

\* POST /admin/tasks.  A new task has no photos and nothing set, so only the
\* form's own values can refuse it.
AcceptsNew(f) ==
    /\ resolveSpecialPairWrite(None, Blank, f).ok
    /\ resolveLuckyPairWrite(Blank, f).ok
    /\ resolveFlashWrite(Blank, f).ok

CreateTask(t) ==
    \E f \in Forms :
        /\ task[t] = NoTask /\ Posted(t) = {}
        /\ AcceptsNew(f)
        /\ Request /\ Save(t, Blank, f) /\ UNCHANGED photo

\* POST /admin/tasks/:id/edit, in the order of its refusals.  A one-day pair
\* that is refused still lets the same form cancel a lucky pick.
Accepts(t, row, f) ==
    /\ resolveSpecialPairWrite(t, row, f).ok
    /\ resolveLuckyPairWrite(row, f).ok
    /\ resolveFlashWrite(row, f).ok
    /\ checkExclusivity(row, f)

CancelsLucky(t, row, f) ==
    ~resolveSpecialPairWrite(t, row, f).ok /\ resolveLuckyPairWrite(row, f).lucky = None /\ row.lucky # None

EditTask(t) ==
    \E f \in Forms :
        LET row == task[t] IN
        /\ row # NoTask
        /\ Request
        /\ \/ Accepts(t, row, f) /\ Save(t, row, f)
           \/ CancelsLucky(t, row, f) /\ task' = [task EXCEPT ![t].lucky = None]
        /\ Overtake(t)

\* POST /admin/tasks/:id/active.
ToggleActive(t) ==
    /\ task[t] # NoTask /\ Request
    /\ task' = [task EXCEPT ![t].live = ~@]
    /\ Overtake(t)

\* POST /admin/tasks/:id/delete takes the photos along.
DeleteTask(t) ==
    /\ task[t] # NoTask /\ Request
    /\ task' = [task EXCEPT ![t] = NoTask]
    /\ photo' = [p \in Photos |-> IF photo[p].of = t /\ photo[p].stage = "posted"
                                  THEN NoPhoto
                                  ELSE IF photo[p].of = t
                                  THEN [photo[p] EXCEPT !.overtaken = TRUE] ELSE photo[p]]

\* submitPhoto up to the await: the row and the clock are read.
BeginUpload(p, t) ==
    /\ photo[p].stage = "none"
    /\ task[t] # NoTask /\ task[t].live /\ ~isSealed(task[t])
    /\ LET pays == bonusForTask(task[t])
       IN  photo' = [photo EXCEPT ![p] =
                       [stage |-> "began", of |-> t, reason |-> pays.reason,
                        amount |-> pays.amount, day |-> today, overtaken |-> FALSE]]
    /\ UNCHANGED <<zone, now, task, edits>>

\* The rest of it.  The insert fails when the task is gone.
FinishUpload(p) ==
    /\ photo[p].stage = "began"
    /\ photo' = [photo EXCEPT ![p] =
                    IF task[@.of] = NoTask THEN NoPhoto ELSE [@ EXCEPT !.stage = "posted"]]
    /\ UNCHANGED <<zone, now, task, edits>>

Next ==
    /\ zone \in PlayedZones
    /\ \/ Tick
       \/ \E t \in Tasks : CreateTask(t) \/ EditTask(t) \/ ToggleActive(t) \/ DeleteTask(t)
       \/ \E p \in Photos : FinishUpload(p) \/ \E t \in Tasks : BeginUpload(p, t)

Spec == Init /\ [][Next]_vars

-----------------------------------------------------------------------------
(* No sequence of edits, and no passing of time, makes a task two special  *)
(* things at once, and no day gets two lucky tasks: the columns would      *)
(* allow both, and then the first rule of the list would quietly win.      *)
SpecialsAreExclusive ==
    /\ \A t \in Tasks : Cardinality(SpokenFor(task[t])) <= 1
    /\ \A t, u \in Tasks : task[t].lucky # None /\ task[t].lucky = task[u].lucky => t = u

(* A posted photo's one-day bonus can always be explained by the task as   *)
(* it stands, the day it was taken on and the amount: the lock on a task   *)
(* somebody has posted to holds against every form.  Only an edit that     *)
(* overtakes the upload itself, between its read of the task and its       *)
(* insert, escapes it.                                                     *)
BankedBonusIsExplained ==
    \A p \in Photos :
        photo[p].stage = "posted" /\ photo[p].reason = "daily" /\ ~photo[p].overtaken =>
            LET row == task[photo[p].of]
            IN  row.date = photo[p].day /\ row.bonus = photo[p].amount

Days == EventDays
Instants == -TicksPerDay .. (Max(EventDays) + 2) * TicksPerDay

(* The instant computed for a wall time shows that time whenever any       *)
(* instant does.  A time the clocks skip becomes one they show later, by   *)
(* no more than they skip: not, as the comment on eventLocalInstant has    *)
(* it, the first moment after the skip (half past two becomes half past    *)
(* three).  And a day whose midnight comes once, or whose midnight starts  *)
(* a skip, opens at its first instant, so that today and the opening of    *)
(* days never disagree.                                                    *)
LocalInstantIsRight ==
    now = 0 /\ edits = 0 =>        \* the zone never changes
    \A day \in Days, h \in 0 .. TicksPerDay - 1 :
        LET w == day * TicksPerDay + h
            u == eventLocalInstant(zone, day, h)
        IN  /\ \A v \in Instants : wallClock(zone, v) = w => wallClock(zone, u) = w
            /\ wallClock(zone, u) # w => wallClock(zone, u) \in w .. w + (zone.after - zone.before)
            /\ h = 0 /\ OpensOnce(zone, day) =>
                  \A v \in Instants : v < u <=> eventLocalDate(zone, v) < day

(* The three kinds of special stay apart, what a photo banked can be       *)
(* explained, and an instant shows the wall time asked for                 *)
(* (routes/admin/tasks.js, services/submissions.js, event-days.js).        *)
SpecialsKeepTheirWord == SpecialsAreExclusive /\ BankedBonusIsExplained /\ LocalInstantIsRight

(* The comment on eventLocalInstant: a wall time the clocks show twice     *)
(* resolves to its first occurrence, never its second.                     *)
AmbiguousIsFirst ==
    \A day \in Days, h \in 0 .. TicksPerDay - 1 :
        \A v \in Instants : wallClock(zone, v) = day * TicksPerDay + h
                               => eventLocalInstant(zone, day, h) <= v
=============================================================================
