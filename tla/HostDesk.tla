------------------------------ MODULE HostDesk ------------------------------
(***************************************************************************)
(* The host's dashboard: one list of what the event still needs, worked    *)
(* out from the tables on every load (services/host-checklist.js), two     *)
(* rows of it ticked off by hand (routes/admin/dashboard.js), and the      *)
(* configuration most of it depends on, saved as a row of settings per     *)
(* field (routes/admin/config.js, db/event-config.js).                     *)
(*                                                                         *)
(* Days are numbers and NoDay is no date.  The process can die between any *)
(* two writes of a save.                                                   *)
(***************************************************************************)
EXTENDS Integers, Sequences, FiniteSets

CONSTANTS
    Tasks,              \* numbered by age
    MANUAL_ITEMS,       \* numbered in the order they stand
    Forms,              \* what a configuration form may post
    MaxDay, MaxDeeds    \* bounds

VARIABLES
    today,          \* the event's day
    settings,       \* the configuration, a field unset at first
    special_date,   \* task -> its day, or NoDay
    hidden,         \* the tasks that are not live
    flash,          \* whether a flash task is scheduled
    photo,          \* task -> its photo: "none", "shown", "down" (by the host), or "again": down still,
                    \* and replaced by its guest
    awarded,        \* the tasks whose badge was released
    bugs,           \* whether a bug report is open
    checked,        \* manual item -> checked
    rendered,       \* manual item -> checked, as the host's page has it
    wanted,         \* history: manual item -> what its last tap asked for
    saved,          \* history: the form that was saved last
    torn,           \* history: its save was cut short
    before,         \* history: the open rows before the night, when the last step was one
    deeds

deskVars ==
    <<today, settings, special_date, hidden, flash, photo, awarded, bugs, checked, rendered, wanted,
      saved, torn, before, deeds>>

NoDay == 0
\* The dates of a configuration are dates, in order, with the ceremony inside.
InOrder(form) ==
    /\ form.zone # NoDay /\ form.start # NoDay /\ form.end # NoDay /\ form.start <= form.end
    /\ form.ceremony # NoDay => form.start <= form.ceremony /\ form.ceremony <= form.end

Stored(form) ==
    [zone |-> form.zone, start |-> form.start, end |-> form.end, ceremony |-> form.ceremony, thresholds |-> "ordered"]
Unset == [zone |-> NoDay, start |-> NoDay, end |-> NoDay, ceremony |-> NoDay, thresholds |-> "ordered"]

-----------------------------------------------------------------------------
(* services/host-checklist.js: the rows.                                   *)

Row(id, task) == [id |-> id, task |-> task]
One(cond, id) == IF cond THEN <<Row(id, NoDay)>> ELSE <<>>
Each(id, S) ==
    LET place == [x \in S |-> Cardinality({y \in S : y <= x})]
    IN  [n \in 1 .. Cardinality(S) |-> Row(id, CHOOSE x \in S : place[x] = n)]

configSet == settings.zone # NoDay /\ settings.start # NoDay /\ settings.end # NoDay

hasChallengeOn(day) == \E t \in Tasks : special_date[t] = day

\* Today's challenge, and tomorrow's once today's is set.
dailyRows(state) ==
    LET todays == hasChallengeOn(today)
        tomorrows == hasChallengeOn(today + 1)
    IN  IF ~configSet THEN <<>>
        ELSE CASE state = "open" -> One(~todays, "daily-today") \o One(todays /\ ~tomorrows, "daily-tomorrow")
               [] state = "done" -> One(todays, "daily-today") \o One(todays /\ tomorrows, "daily-tomorrow")

eventOver == settings.end # NoDay /\ settings.end < today

\* Mutant of isDoneCollecting: on the day after, and no longer.
isDoneTheDayAfter(t) ==
    IF special_date[t] # NoDay THEN special_date[t] + 1 = today ELSE eventOver

\* A dated task is done with its day, any other with the event.
isDoneCollecting(t) ==
    IF special_date[t] # NoDay THEN special_date[t] < today ELSE eventOver

\* Mutant of rankRows: a photo that is down is waiting for its rank as well.
rankRowsOfAll ==
    Each("rank-award",
         {t \in Tasks \ hidden : isDoneCollecting(t) /\ photo[t] # "none" /\ t \notin awarded})

\* Only photos that can be seen wait for their rank.
rankRows ==
    Each("rank-award",
         {t \in Tasks \ hidden : isDoneCollecting(t) /\ photo[t] = "shown" /\ t \notin awarded})

openRows ==
    One(~configSet, "config") \o dailyRows("open") \o One(~flash, "flash") \o rankRows
        \o One(\E t \in Tasks : photo[t] = "again", "resubmitted")

Manual(value) == Each("manual", {m \in MANUAL_ITEMS : checked[m] = value})

doneRows == dailyRows("done") \o One(flash, "flash") \o One(Tasks # hidden, "tasks-live") \o Manual(TRUE)

pinned == One(bugs, "bugs")

\* Mutant of tipRows: tips as soon as the open rows are done.
tipRowsEarly == One(openRows = <<>> /\ pinned = <<>>, "tip")

tipRows == One(openRows = <<>> /\ Manual(FALSE) = <<>> /\ pinned = <<>>, "tip")

buildRows == pinned \o openRows \o Manual(FALSE) \o tipRows \o doneRows

-----------------------------------------------------------------------------
(* What changes them.                                                      *)

\* A new event, or one under way: each day has its task, the oldest of them a
\* photo.
DeskInit ==
    /\ today = 1 /\ bugs = FALSE /\ hidden = {} /\ awarded = {}
    /\ settings \in {Unset} \cup {Stored(form) : form \in {f \in Forms : InOrder(f)}}
    /\ \E ready \in BOOLEAN :
         /\ flash = ready
         /\ special_date = [t \in Tasks |-> IF ready THEN t ELSE NoDay]
         /\ photo = [t \in Tasks |-> IF ready /\ t = 1 THEN "shown" ELSE "none"]
         /\ checked = [m \in MANUAL_ITEMS |-> ready]
    /\ rendered = checked /\ wanted = checked
    /\ saved = settings /\ torn = FALSE /\ before = {} /\ deeds = 0

Elements(rows) == {rows[i] : i \in DOMAIN rows}
Deed == deeds < MaxDeeds /\ deeds' = deeds + 1 /\ before' = {}

Midnight ==
    /\ today < MaxDay /\ today' = today + 1 /\ before' = Elements(openRows)
    /\ UNCHANGED <<settings, special_date, hidden, flash, photo, awarded, bugs, checked, rendered, wanted, saved,
                   torn, deeds>>

\* Mutant of Accepts: the ceremony's day is judged by the stored dates.
AcceptsByStored(form) ==
    /\ form.zone # NoDay /\ form.start # NoDay /\ form.end # NoDay /\ form.start <= form.end
    /\ form.ceremony # NoDay => settings.start <= form.ceremony /\ form.ceremony <= settings.end
    /\ form.thresholds \in {"absent", "ordered"}

\* POST /admin/config, what it refuses: one bad field and nothing is saved.
Accepts(form) ==
    /\ InOrder(form)
    /\ form.thresholds \in {"absent", "ordered"}

\* setEventConfig and setAutoBadgeThresholds: a write per field, in this order,
\* of which the first n are made; a blank day of the ceremony keeps the old.
Written(form, n) ==
    [zone |-> IF n >= 1 THEN form.zone ELSE settings.zone,
     start |-> IF n >= 2 THEN form.start ELSE settings.start,
     end |-> IF n >= 3 THEN form.end ELSE settings.end,
     ceremony |-> IF n >= 4 /\ form.ceremony # NoDay THEN form.ceremony ELSE settings.ceremony,
     thresholds |-> IF n >= 5 /\ form.thresholds # "absent" THEN form.thresholds ELSE settings.thresholds]

Configure(form, n) ==
    /\ Deed
    /\ settings' = IF Accepts(form) THEN Written(form, n) ELSE settings
    /\ saved' = IF Accepts(form) THEN form ELSE saved
    /\ torn' = IF Accepts(form) THEN n < 5 ELSE torn
    /\ UNCHANGED <<today, special_date, hidden, flash, photo, awarded, bugs, checked, rendered, wanted>>

\* The board's saves, as far as the list goes.
Schedule(t, day) ==
    /\ Deed
    /\ special_date' = [special_date EXCEPT ![t] = day]
    /\ UNCHANGED <<today, settings, hidden, flash, photo, awarded, bugs, checked, rendered, wanted, saved, torn>>

\* A flash is armed or cancelled.
Flash ==
    /\ Deed /\ flash' = ~flash
    /\ UNCHANGED <<today, settings, special_date, hidden, photo, awarded, bugs, checked, rendered, wanted, saved,
                   torn>>

\* A task is hidden or shown again.
Board(t) ==
    /\ Deed /\ hidden' = IF t \in hidden THEN hidden \ {t} ELSE hidden \cup {t}
    /\ UNCHANGED <<today, settings, special_date, flash, photo, awarded, bugs, checked, rendered, wanted, saved,
                   torn>>

\* A guest posts; the host takes down and restores; a photo replaced while it
\* is down stays down.
Photograph(t) ==
    /\ Deed
    /\ \E after \in {"shown", "down", "again"} :
         /\ \/ photo[t] = "none" /\ after = "shown"
            \/ photo[t] = "shown" /\ after = "down"
            \/ photo[t] = "down" /\ after \in {"again", "shown"}
            \/ photo[t] = "again" /\ after = "shown"
         /\ photo' = [photo EXCEPT ![t] = after]
    /\ UNCHANGED <<today, settings, special_date, hidden, flash, awarded, bugs, checked, rendered, wanted, saved, torn>>

\* releaseRanking, of the task's photo or of nobody: the badge is out, unless
\* the photo named cannot be seen.
Release(t, named) ==
    /\ Deed
    /\ awarded' = IF named /\ photo[t] # "shown" THEN awarded ELSE awarded \cup {t}
    /\ UNCHANGED <<today, settings, special_date, hidden, flash, photo, bugs, checked, rendered, wanted, saved, torn>>

Bug(open) ==
    /\ Deed /\ bugs' = open
    /\ UNCHANGED <<today, settings, special_date, hidden, flash, photo, awarded, checked, rendered, wanted, saved, torn>>

\* GET /admin: the page the host has from now on.
Load ==
    /\ rendered # checked /\ rendered' = checked /\ before' = {}
    /\ UNCHANGED <<today, settings, special_date, hidden, flash, photo, awarded, bugs, checked, wanted, saved, torn,
                   deeds>>

\* Mutant of Toggle: the opposite of what is stored.
ToggleStored(m) ==
    /\ Deed
    /\ checked' = [checked EXCEPT ![m] = ~@]
    /\ wanted' = [wanted EXCEPT ![m] = ~rendered[m]]
    /\ UNCHANGED <<today, settings, special_date, hidden, flash, photo, awarded, bugs, rendered, saved, torn>>

\* POST /admin/checklist/:id/toggle: the opposite of what the form was rendered
\* with, once or twice before the answer is there.
Toggle(m) ==
    /\ Deed
    /\ checked' = [checked EXCEPT ![m] = ~rendered[m]]
    /\ wanted' = [wanted EXCEPT ![m] = ~rendered[m]]
    /\ UNCHANGED <<today, settings, special_date, hidden, flash, photo, awarded, bugs, rendered, saved, torn>>

DeskNext ==
    \/ Midnight \/ Load
    \/ \E form \in Forms, n \in 0..5 : Configure(form, n)
    \/ \E t \in Tasks : \/ \E day \in NoDay..MaxDay : Schedule(t, day)
                        \/ Photograph(t) \/ Board(t)
                        \/ \E named \in BOOLEAN : Release(t, named)
    \/ Flash
    \/ \E open \in BOOLEAN : Bug(open)
    \/ \E m \in MANUAL_ITEMS : Toggle(m)

DeskSpec == DeskInit /\ [][DeskNext]_deskVars

-----------------------------------------------------------------------------
(* Properties.                                                             *)

RankRows(rows) == {r \in rows : r.id = "rank-award"}

\* The last day on which a task collects photos.
LastDay(t) == IF special_date[t] # NoDay THEN special_date[t] ELSE settings.end

\* Nothing is left for the host to do: the event is set up and its next two
\* days have their challenge, every photo in sight that can be ranked has been,
\* none waits for a second look, and no bug is open.
HostIsFree ==
    /\ settings.zone # NoDay /\ settings.start # NoDay /\ settings.end # NoDay
    /\ \A day \in {today, today + 1} : \E t \in Tasks : special_date[t] = day
    /\ flash /\ ~bugs
    /\ \A t \in Tasks : /\ photo[t] # "again"
                        /\ photo[t] = "shown" /\ LastDay(t) < today => t \in hidden \cup awarded
    /\ \A m \in MANUAL_ITEMS : wanted[m]

\* The list leads somewhere: it comes down to its tips exactly when the host
\* is free, a tick by hand counting as the page it was made on asked, however
\* often it was tapped there; and the night alone ends no ranking that is due.
ListLeadsOn ==
    /\ HostIsFree <=> \E r \in Elements(buildRows) : r.id = "tip"
    /\ RankRows(before) \subseteq Elements(openRows)

\* What is stored hangs together unless a save was cut short: the dates are in
\* order, the ceremony is one of their days if the last form named one, and
\* the thresholds of the badges ascend whatever was cut.
ConfigHoldsTogether ==
    /\ ~torn /\ configSet =>
           /\ settings.start <= settings.end
           /\ saved.ceremony # NoDay => settings.start <= settings.ceremony /\ settings.ceremony <= settings.end
    /\ settings.thresholds = "ordered"

DeskKeepsItsWord == ListLeadsOn /\ ConfigHoldsTogether

=============================================================================
