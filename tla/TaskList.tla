------------------------------ MODULE TaskList ------------------------------
(***************************************************************************)
(* What a guest sees of the tasks: the list with its markers, one locked   *)
(* box at most, the clocks that keep ticking on a page left open           *)
(* (public/js/task-countdown.js), the page of one task, and the counts of  *)
(* the home page and the rules.  Each is computed when it is asked for;    *)
(* what an upload then is paid is decided by Specials, later.              *)
(***************************************************************************)
EXTENDS Specials

LOCAL INSTANCE SequencesExt

CONSTANT Mornings       \* the tables of tasks and photos a guest may find

VARIABLES
    order,      \* task -> sort_order
    hidden,     \* photos that are taken down
    list,       \* the task list as loaded, with its time; NoList before
    painted     \* when the page's clocks were last painted

listVars == <<order, hidden, list, painted>>

NoList == [at |-> None, todo |-> <<>>, done |-> {}, total |-> 0, tasks |-> <<>>]

-----------------------------------------------------------------------------
(* routes/guest/shared.js, services/tasks.js                               *)

Live == {t \in Tasks : task[t] # NoTask /\ task[t].live}
Done(t) == \E p \in Posted(t) : p \notin hidden

\* Mutant of suppressedChallengeIds: a challenge that is done takes the box.
suppressedWithDone ==
    {t \in Live : isSealed(task[t]) /\ \E u \in Live \ {t} : isSealed(task[u]) /\ task[u].date <= task[t].date
                                        /\ (task[u].date < task[t].date \/ order[u] < order[t])}

\* Of the sealed challenges one is shown: the next to open, then by the host's
\* order, then the older.  One that is done neither goes nor counts.
suppressedChallengeIds ==
    LET sealed == {t \in Live : isSealed(task[t]) /\ ~Done(t)}
        key(t) == <<task[t].date, order[t], t>>
        before(t, u) == LET i == CHOOSE n \in 1 .. 3 : key(t)[n] # key(u)[n] /\ \A m \in 1 .. n - 1 : key(t)[m] = key(u)[m]
                        IN  key(t)[i] < key(u)[i]
    IN  {t \in sealed : \E u \in sealed \ {t} : before(u, t)}

reachableLiveTaskCount == Cardinality(Live \ suppressedChallengeIds)

isPastDay(row) == row.date # None /\ row.date < today

\* The bonus of the first rule whose time has passed; a lucky day is a secret.
missedBonusForTask(row) ==
    IF isPastDay(row) THEN row.bonus ELSE IF flashState(row) = "expired" THEN 1 ELSE 0

-----------------------------------------------------------------------------
(* GET /tasks                                                              *)

\* Mutant of unlockAt: the day's midnight in UTC.
unlockAtUTC(row) == row.date * TicksPerDay
\* The midnight at which the day of a challenge begins.
unlockAt(row) == dayOpensAt(zone, row.date)

\* Mutant of Marked: a flash is advertised while its window is open.
MarkedByWindow(t) ==
    LET row == task[t]
        flash == flashState(row) \in {"scheduled", "active"}
    IN  [task |-> t, locked |-> isSealed(row), isToday |-> isOnDay(row), flash |-> flash,
         bonus |-> IF flash THEN 1 ELSE IF isOnDay(row) THEN row.bonus ELSE 0,
         unlockAt |-> IF row.date = None THEN None ELSE unlockAt(row),
         endsAt |-> IF flash THEN row.ends ELSE None, missed |-> 0]

\* A row and its markers: a bonus that can be had wins over one that is missed.
Marked(t) ==
    LET row == task[t]
        flash == bonusForTask(row).reason = "flash"
        isToday == isOnDay(row) /\ row.bonus > 0
    IN  [task |-> t, locked |-> isSealed(row), isToday |-> isToday, flash |-> flash,
         bonus |-> IF flash THEN bonusForTask(row).amount ELSE IF isToday THEN row.bonus ELSE 0,
         unlockAt |-> IF row.date = None THEN None ELSE unlockAt(row),
         endsAt |-> IF flash THEN row.ends ELSE None,
         missed |-> IF isToday \/ flash THEN 0 ELSE missedBonusForTask(row)]

\* views/tasks.ejs: what can be had now first, then the box, then the rest in
\* the host's order.
specialRank(r) == IF r.flash THEN 0 ELSE IF r.isToday THEN 1 ELSE IF r.locked THEN 2 ELSE 3

TaskListPage ==
    LET rows == {Marked(t) : t \in Live \ suppressedChallengeIds}
        before(r, s) == \/ specialRank(r) < specialRank(s)
                        \/ /\ specialRank(r) = specialRank(s)
                           /\ \/ order[r.task] < order[s.task]
                              \/ order[r.task] = order[s.task] /\ r.task < s.task
    IN  [at |-> now, todo |-> SetToSortSeq({r \in rows : ~Done(r.task)}, before),
         done |-> {r.task : r \in {s \in rows : Done(s.task)}}, total |-> Cardinality(rows), tasks |-> task]

\* GET /tasks/:id: whether there is a page.
TaskPage(t) == t \in Live /\ (isSealed(task[t]) => Posted(t) # {})

\* GET /: the progress bar, with the profile photo as one more task.
Progress(avatar) ==
    LET total == reachableLiveTaskCount + 1
        completed == Cardinality({t \in Tasks : Done(t)}) + avatar
    IN  [total |-> total, completed |-> IF completed > total THEN total ELSE completed]

-----------------------------------------------------------------------------
(* public/js/task-countdown.js                                             *)

Rows == {list.todo[i] : i \in DOMAIN list.todo}

\* paint: the countdown has run out.
Unlocking(r) == r.locked /\ painted >= r.unlockAt
\* paintFlash: the marker says that it is over, the price is the ordinary one.
FlashEnded(r) == r.flash /\ painted >= r.endsAt
PaintedBonus(r) == IF FlashEnded(r) THEN 0 ELSE r.bonus

-----------------------------------------------------------------------------
ListInit ==
    /\ zone \in PlayedZones /\ now = TicksPerDay /\ edits = 0
    /\ \E m \in Mornings : task = m.task /\ order = m.order /\ photo = m.photo
    /\ hidden = {} /\ list = NoList /\ painted = None

\* The list is loaded; its script paints at once.
Visit ==
    /\ list' = TaskListPage /\ painted' = now
    /\ UNCHANGED <<vars, order, hidden>>

\* The script's interval.
Paint ==
    /\ list # NoList /\ painted # now
    /\ painted' = now
    /\ UNCHANGED <<vars, order, hidden, list>>

\* A photo is taken down, or restored.
Moderate(p) ==
    /\ photo[p].stage = "posted" /\ edits < MaxEdits
    /\ edits' = edits + 1
    /\ hidden' = IF p \in hidden THEN hidden \ {p} ELSE hidden \cup {p}
    /\ UNCHANGED <<zone, now, task, photo, order, list, painted>>

ListNext ==
    \/ Visit \/ Paint
    \/ \E p \in Photos : Moderate(p)
    \/ /\ \/ Tick
          \/ \E t \in Tasks : ToggleActive(t) \/ DeleteTask(t) \/ \E p \in Photos : BeginUpload(p, t)
          \/ \E p \in Photos : FinishUpload(p)
       /\ hidden' = {p \in hidden : photo'[p].stage = "posted"}
       /\ UNCHANGED <<order, list, painted>>

ListSpec == ListInit /\ [][ListNext]_<<vars, listVars>>

-----------------------------------------------------------------------------
(* What the list promises is what the task pays: a row that is not locked  *)
(* has a page, takes an upload, and banks the bonus its marker names - a   *)
(* lucky one is nobody's marker -, and one that is missed pays nothing.    *)
(* Read at the moment the page is loaded.                                  *)
MarkersAreTrue ==
    list.at = now /\ list.tasks = task =>
        \A r \in Rows :
            LET pays == bonusForTask(task[r.task])
            IN  /\ ~r.locked => /\ TaskPage(r.task) /\ ~isSealed(task[r.task])
                                /\ r.bonus = IF pays.reason = "lucky" THEN 0 ELSE pays.amount
                /\ r.locked /\ Posted(r.task) = {} => ~TaskPage(r.task)
                /\ r.missed > 0 => r.bonus = 0

(* The page left open: a flash is struck out from the very moment it pays  *)
(* no more, and a box says that it opens from the very moment it does, as  *)
(* long as no host changes the task.                                       *)
ClocksAreTrue ==
    painted = now =>
        \A r \in {s \in Rows : task[s.task] = list.tasks[s.task]} :
            LET pays == bonusForTask(task[r.task])
            IN  /\ r.flash => PaintedBonus(r) = IF pays.reason = "flash" THEN pays.amount ELSE 0
                /\ r.locked => (Unlocking(r) <=> ~isSealed(task[r.task]))

(* One box at most, for the challenge that opens next; every other live    *)
(* task is in the list once.  The home page, the rules and the list count  *)
(* the same tasks, and the bar never shows less than what is done.         *)
ListIsWhole ==
    LET sealed == {t \in Live : isSealed(task[t]) /\ ~Done(t)}
        boxes == {r \in Rows : r.locked}
        listed == {r.task : r \in Rows}
    IN  list # NoList /\ list = TaskListPage =>
            /\ Cardinality(boxes) = IF sealed = {} THEN 0 ELSE 1
            /\ \A r \in boxes, t \in sealed : task[r.task].date <= task[t].date
            /\ listed \cup list.done = (Live \ sealed) \cup {r.task : r \in boxes}
            /\ listed \cap list.done = {} /\ Len(list.todo) = Cardinality(listed)
            /\ list.total = Len(list.todo) + Cardinality(list.done)
            /\ list.total = reachableLiveTaskCount
            /\ \A avatar \in {0, 1} :
                 LET bar == Progress(avatar)
                 IN  bar.total = list.total + 1 /\ bar.completed \in Cardinality(list.done) + avatar .. bar.total

ListKeepsItsWord == MarkersAreTrue /\ ClocksAreTrue /\ ListIsWhole
=============================================================================
