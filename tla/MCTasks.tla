------------------------------ MODULE MCTasks ------------------------------
(***************************************************************************)
(* What the hosts do with the tasks and what the guests see of them, in    *)
(* five parts of which one is chosen at the start.  Specials: days of four *)
(* ticks, clocks that jump by two of them, east and west of UTC, and an    *)
(* event of two days played in a zone that springs forward on the first of *)
(* them.  The dialogs of the Tasks page, on days of two ticks; the         *)
(* guests' list, in two zones that spring forward, one of them over a      *)
(* midnight; the hosts' order, on two pages; the hosts' checklist and      *)
(* configuration, on three days.                                           *)
(***************************************************************************)
EXTENDS Specials, TLC

CONSTANTS
    t1, t2, p1,
    Ranked, Items, DeskForms, MaxDay, MaxDeeds      \* HostDesk: tasks, items, forms and bounds

\* Days are numbers, 0 for none.
ASSUME DeskAssumption ==
    /\ Ranked \in Nat /\ Items \in Nat /\ MaxDay \in Nat
    /\ DeskForms \subseteq [zone : Nat, start : Nat, end : Nat, ceremony : Nat,
                            thresholds : {"absent", "ordered", "unordered"}]

VARIABLES
    part,
    boardZone, boardNow, boardTask, boardPhoto, boardEdits,             \* TaskDialog and TaskList
    badge, page, edit, create, shown, picker, touched, told,            \* TaskDialog
    order, hidden, list, painted,                                       \* TaskList
    sort_order, cards, dragCard, posts, drops, last, agreed,            \* TaskOrder
    eventDay, settings, special_date, off, scheduled, collected, awarded, bugs, \* HostDesk
    checked, rendered, wanted, saved, torn, before, deeds

boardVars == <<boardZone, boardNow, boardTask, boardPhoto, boardEdits>>
dialogVars == <<badge, page, edit, create, shown, picker, touched, told>>
listVars == <<order, hidden, list, painted>>
orderVars == <<sort_order, cards, dragCard, posts, drops, last, agreed>>
deskVars ==
    <<eventDay, settings, special_date, off, scheduled, collected, awarded, bugs, checked, rendered, wanted,
      saved, torn, before, deeds>>

-----------------------------------------------------------------------------
MCTasks == {t1, t2}
MCPhotos == {p1}
MCEventDays == {1, 2}
MCFormDays == {1, 2, 3}
MCBonuses == {1, 2}
MCMinutes == {2}
Zone(jump, off1, off2) == [jump |-> jump, before |-> off1, after |-> off2]
MCPlayedZones == {Zone(6, -1, 1)}
MCZones == MCPlayedZones \cup
    {Zone(j, b, b + d) : j \in 4 .. 12, b \in -3 .. 3, d \in {-2, 0, 2}}

Row(date, lucky, flash, ends) ==
    [Blank EXCEPT !.date = date, !.bonus = IF date = None THEN None ELSE 1,
                  !.lucky = lucky, !.flash = flash, !.ends = ends]
Hid(row) == [row EXCEPT !.live = FALSE]

\* Boards of the Tasks page, on the first of two days: challenges and lucky
\* days of the event and outside of it, and flashes that are over, end next,
\* or start next.
Boards ==
    LET rows == {<<Row(2, None, None, None), Row(3, None, None, None)>>,
                 <<Row(0, 2, None, None), Row(None, 0, None, None)>>,
                 <<Row(None, None, 2, 3), Row(None, 3, None, None)>>,
                 <<Row(1, None, 1, 2), Row(None, None, 3, 5)>>}
    IN  {t1 :> r[1] @@ t2 :> r[2] : r \in rows} \cup {t2 :> r[1] @@ t1 :> r[2] : r \in rows}

\* Which of the tasks is which says nothing: no definition chooses a task.
TasksAreAlike == Permutations(MCTasks)

Dialog == INSTANCE TaskDialog WITH
    TicksPerDay <- 2, Horizon <- 3, EventDays <- {1, 2}, FormDays <- 0 .. 3,
    Bonuses <- {1}, Minutes <- {1, 2}, Zones <- {Zone(99, 0, 0)},
    PlayedZones <- {Zone(99, 0, 0)}, MaxEdits <- 1,
    zone <- boardZone, now <- boardNow, task <- boardTask, photo <- boardPhoto, edits <- boardEdits,
    MaxTouches <- 2, Icons <- {"star", "ring"}

\* Tables a guest may find, with the photo of a task that was posted: the
\* second of them by an upload the host's edit overtook.
Mornings ==
    LET taken(of) == p1 :> IF of = None THEN NoPhoto ELSE [NoPhoto EXCEPT !.stage = "posted", !.of = of]
        morning(r, s, places, of) == [task |-> <<r, s>>, order |-> places, photo |-> taken(of)]
    IN  {morning(Row(2, None, None, None), Row(1, None, None, None), <<0, 1>>, None),
         morning(Row(2, None, None, None), Row(2, None, None, None), <<1, 0>>, 2),
         morning(Row(2, None, None, None), Row(2, None, None, None), <<3, 4>>, None),
         morning(Row(None, 1, None, None), Row(None, None, 5, 7), <<1, 0>>, 1),
         morning(Row(0, 1, None, None), Row(None, None, 4, 6), <<0, 1>>, None),
         morning(Hid(Row(1, None, None, None)), Row(1, None, 2, 4), <<0, 1>>, 1)}

List == INSTANCE TaskList WITH
    Tasks <- {1, 2}, Horizon <- 10, MaxEdits <- 1,
    PlayedZones <- {Zone(6, -1, 1), Zone(9, -1, 1)},
    zone <- boardZone, now <- boardNow, task <- boardTask, photo <- boardPhoto, edits <- boardEdits

Order == INSTANCE TaskOrder WITH
    Ids <- {1, 2, 3}, Pages <- {"one", "two"}, MaxDrops <- 2,
    Orders <- {<<0, 1, 2>>, 2 :> 0 @@ 3 :> 2}

\* A plain form; one of a single night with its thresholds; a ceremony on the
\* last night; thresholds out of order; an end before the start; a ceremony
\* before the start.
MCDeskForms ==
    LET form(start, end, ceremony, thresholds) ==
            [zone |-> 1, start |-> start, end |-> end, ceremony |-> ceremony, thresholds |-> thresholds]
    IN  {form(1, 2, 0, "absent"), form(1, 1, 1, "ordered"), form(2, 2, 2, "ordered"),
         form(1, 2, 1, "unordered"), form(2, 1, 0, "absent"), form(2, 2, 1, "absent")}

Desk == INSTANCE HostDesk WITH
    Tasks <- 1 .. Ranked, Forms <- DeskForms, MANUAL_ITEMS <- 1 .. Items,
    today <- eventDay, hidden <- off, flash <- scheduled, photo <- collected

-----------------------------------------------------------------------------
NoBoard ==
    boardZone = None /\ boardNow = None /\ boardTask = None /\ boardPhoto = None /\ boardEdits = None
NoDialog ==
    /\ badge = None /\ page = None /\ edit = None /\ create = None
    /\ shown = None /\ picker = None /\ touched = None /\ told = None
NoList == order = None /\ hidden = None /\ list = None /\ painted = None
NoOrder ==
    /\ sort_order = None /\ cards = None /\ dragCard = None /\ posts = None
    /\ drops = None /\ last = None /\ agreed = None
NoDesk ==
    /\ eventDay = None /\ settings = None /\ special_date = None /\ off = None /\ scheduled = None
    /\ collected = None /\ awarded = None /\ bugs = None /\ checked = None /\ rendered = None
    /\ wanted = None /\ saved = None /\ torn = None /\ before = None /\ deeds = None
\* Specials at rest.
Quiet ==
    /\ zone \in PlayedZones /\ now = Horizon /\ edits = 0
    /\ task = [t \in Tasks |-> NoTask] /\ photo = [p \in Photos |-> NoPhoto]

TasksInit ==
    \/ part = "specials" /\ Init /\ NoBoard /\ NoDialog /\ NoList /\ NoOrder /\ NoDesk
    \/ part = "dialog" /\ Dialog!DialogInit /\ Quiet /\ NoList /\ NoOrder /\ NoDesk
    \/ part = "list" /\ List!ListInit /\ Quiet /\ NoDialog /\ NoOrder /\ NoDesk
    \/ part = "order" /\ Order!OrderInit /\ Quiet /\ NoBoard /\ NoDialog /\ NoList /\ NoDesk
    \/ part = "desk" /\ Desk!DeskInit /\ Quiet /\ NoBoard /\ NoDialog /\ NoList /\ NoOrder

TasksNext ==
    /\ UNCHANGED part
    /\ \/ part = "specials" /\ UNCHANGED <<boardVars, dialogVars, listVars, orderVars, deskVars>> /\ Next
       \/ part = "dialog" /\ UNCHANGED <<vars, listVars, orderVars, deskVars>> /\ Dialog!DialogNext
       \/ part = "list" /\ UNCHANGED <<vars, dialogVars, orderVars, deskVars>> /\ List!ListNext
       \/ part = "order" /\ UNCHANGED <<vars, boardVars, dialogVars, listVars, deskVars>> /\ Order!OrderNext
       \/ part = "desk" /\ UNCHANGED <<vars, boardVars, dialogVars, listVars, orderVars>> /\ Desk!DeskNext

TasksSpec ==
    TasksInit /\ [][TasksNext]_<<part, vars, boardVars, dialogVars, listVars, orderVars, deskVars>>

-----------------------------------------------------------------------------
(* The properties of each part, stated in its module; SpecialsKeepTheirWord *)
(* is Specials' own.                                                       *)

\* A dialog saved untouched keeps the task, and what is chosen in one is what
\* is saved; a save is held back in sight (public/js/admin-tasks.js).
DialogsKeepTheirWord ==
    [][part = "dialog" => Dialog!UntouchedSaveKeeps /\ Dialog!ChoicesLand /\ Dialog!BlockedInSight']_
        <<boardVars, dialogVars>>

\* The markers, the clocks and the counts of the task list are what the tasks
\* pay (routes/guest/tasks.js, task-countdown.js).  Hosts' drags leave one
\* order of it, the one their pages show (admin-tasks.js, tasks-manage.js).
ListIsTrue ==
    /\ part = "list" => List!ListKeepsItsWord
    /\ part = "order" => Order!OrderIsKept

\* The checklist leads on and comes to an end, and the configuration holds
\* together (services/host-checklist.js, routes/admin/config.js).
DeskKeepsItsWord == part = "desk" => Desk!DeskKeepsItsWord
=============================================================================
