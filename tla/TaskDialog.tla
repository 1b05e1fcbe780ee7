----------------------------- MODULE TaskDialog -----------------------------
(***************************************************************************)
(* The Tasks page of the host (routes/admin/tasks.js GET,                  *)
(* public/js/admin-tasks.js, badge-picker.js): a snapshot of the board,    *)
(* one edit dialog that all cards share, one create dialog, and a badge    *)
(* picker that both share.  A dialog is filled when it is opened and posts *)
(* what stands in it when it is saved, perhaps minutes later and after     *)
(* another host's edit.  What the server makes of the post is Specials.    *)
(***************************************************************************)
EXTENDS Specials

CONSTANTS
    Boards,         \* the tables of tasks a page may be loaded from
    Icons,          \* icons of the picker
    MaxTouches      \* bound: what the host changes in the dialogs of one page

VARIABLES
    badge,      \* server: task -> [icon, name]
    page,       \* the board as rendered: task -> [row, kind, badge]
    edit,       \* the fields of the edit dialog
    create,     \* the fields of the create dialog
    shown,      \* "none", "edit" or "create": the dialog on screen
    picker,     \* the badge picker: NoPicker while closed
    touched,    \* history: what the host chose since the dialog opened
    told        \* the answer to the last save

dialogVars == <<badge, page, edit, create, shown, picker, touched, told>>
server == <<zone, now, task, photo, edits, badge>>

Ribbon == [icon |-> "ribbon", name |-> "Task Badge"]
NoName == ""
Untouched ==
    [mode |-> NoName, day |-> None, lucky |-> None, minutes |-> None, cancel |-> FALSE, icon |-> NoName, count |-> 0]
NoPicker == [icon |-> NoName, name |-> NoName, auto |-> NoName, there |-> FALSE]

\* The fields as the page is rendered: nothing chosen, stale inputs disabled.
Cleared ==
    [of |-> None, mode |-> "none", day |-> None, bonus |-> None, staleDay |-> None,
     lucky |-> None, staleLucky |-> None, minutes |-> None, cancel |-> FALSE, icon |-> NoName,
     name |-> NoName, panel |-> "none"]

firstDay == CHOOSE d \in EventDays : \A e \in EventDays : d <= e
Chip(d) == IF d \in EventDays THEN d ELSE None
Stale(d) == IF d \in EventDays THEN None ELSE d

-----------------------------------------------------------------------------
(* The page.                                                               *)

storedMode(row) == IF ~row.live THEN "hidden" ELSE IF row.date # None THEN "oneday" ELSE "none"

\* GET /admin/tasks: what the cards carry.
Rendered(rows, badges) ==
    [t \in Tasks |-> [row |-> rows[t], kind |-> whatSpecial(rows[t]), badge |-> badges[t]]]

\* The page is loaded anew: both dialogs are closed and as rendered.
Load ==
    /\ page' = [t \in Tasks |-> [row |-> task'[t], kind |-> whatSpecial(task'[t]), badge |-> badge'[t]]]
    /\ edit' = Cleared /\ create' = Cleared /\ shown' = "none" /\ picker' = NoPicker /\ touched' = Untouched

Reload == UNCHANGED server /\ Load /\ told' = "none"

\* Which option the dialog opens on: the kind that owns the task, or the mode
\* stored, or a lucky day that has passed.
openMode(card) ==
    IF card.row.lucky # None /\ card.kind \in {"none", "lucky"} THEN "lucky"
    ELSE IF card.kind = "flash" THEN "flash" ELSE storedMode(card.row)

\* Mutant of openDays: the stale input of the last task stays.
openDaysOnly(row) ==
    [day |-> Chip(row.date), bonus |-> row.bonus, staleDay |-> IF row.date = None THEN edit.staleDay ELSE Stale(row.date),
     lucky |-> Chip(row.lucky), staleLucky |-> IF row.lucky = None THEN edit.staleLucky ELSE Stale(row.lucky)]

\* The day chips of both pairs, or, for a day outside the event's, the hidden
\* input that carries it.
openDays(row) ==
    [day |-> Chip(row.date), bonus |-> row.bonus, staleDay |-> Stale(row.date),
     lucky |-> Chip(row.lucky), staleLucky |-> Stale(row.lucky)]

openMinutes(row) == IF row.flash = None THEN None ELSE row.ends - row.flash

\* Mutant of openBadge: a badge picked for the task opened before stays.
openBadgeAsIs == [icon |-> edit.icon, name |-> edit.name]
\* Blank: leave the task's badge alone.
openBadge == [icon |-> NoName, name |-> NoName]

\* Mutant of openCancel: a Cancel pressed for the task opened before stays.
openCancelAsIs == edit.cancel
\* The hidden field the strip's Cancel sets.
openCancel == FALSE

\* openEdit
openEdit(t) ==
    LET card == page[t]
        days == openDays(card.row)
    IN  /\ shown = "none" /\ card.row # NoTask
        /\ shown' = "edit" /\ touched' = [Untouched EXCEPT !.count = touched.count]
        /\ edit' = [of |-> t, mode |-> openMode(card), day |-> days.day, bonus |-> days.bonus,
                    staleDay |-> days.staleDay, lucky |-> days.lucky, staleLucky |-> days.staleLucky,
                    minutes |-> openMinutes(card.row), cancel |-> openCancel, icon |-> openBadge.icon,
                    name |-> openBadge.name, panel |-> openMode(card)]
        /\ told' = "none"
        /\ UNCHANGED <<server, page, create, picker>>

\* resetCreate: no special, the first day and the smallest bonus ready in the
\* closed panels.
resetCreate ==
    /\ shown = "none"
    /\ shown' = "create" /\ touched' = [Untouched EXCEPT !.count = touched.count]
    /\ create' = [Cleared EXCEPT !.mode = "none", !.panel = "none", !.day = firstDay, !.bonus = MinBonus,
                                 !.lucky = firstDay]
    /\ told' = "none"
    /\ UNCHANGED <<server, page, edit, picker>>

-----------------------------------------------------------------------------
(* What the host does in a dialog.                                         *)

Current == IF shown = "edit" THEN edit ELSE create

Fill(d) == IF shown = "edit" THEN edit' = d /\ UNCHANGED create ELSE create' = d /\ UNCHANGED edit

Touch(was) ==
    /\ shown # "none" /\ picker = NoPicker /\ touched.count < MaxTouches
    /\ touched' = [was EXCEPT !.count = touched.count + 1]
    /\ told' = "none"
    /\ UNCHANGED <<server, page, shown, picker>>

\* Mutant of syncSpecialPanels: the panels stay as they were opened.
syncNothing(d) == d
\* Only the panel of the option chosen is enabled: the others neither post nor
\* are validated.
syncSpecialPanels(d) == [d EXCEPT !.panel = d.mode]

\* Mutant of promote: the defaults replace a stale day.
promoteAlways(d) ==
    CASE d.mode = "oneday" -> [d EXCEPT !.day = IF @ = None THEN firstDay ELSE @, !.bonus = IF @ = None THEN MinBonus ELSE @]
      [] d.mode = "lucky" -> [d EXCEPT !.lucky = IF @ = None THEN firstDay ELSE @]
      [] OTHER -> d

\* The edit dialog's change handler: an option without a day gets the first.
promote(d) ==
    CASE d.mode = "oneday" ->
            [d EXCEPT !.day = IF @ = None /\ d.staleDay = None THEN firstDay ELSE @,
                      !.bonus = IF @ = None THEN MinBonus ELSE @]
      [] d.mode = "lucky" -> [d EXCEPT !.lucky = IF @ = None /\ d.staleLucky = None THEN firstDay ELSE @]
      [] OTHER -> d

ChooseMode(mode) ==
    LET d == syncSpecialPanels([Current EXCEPT !.mode = mode])
    IN  /\ Current.mode # mode
        /\ Fill(IF shown = "edit" THEN promote(d) ELSE d)
        /\ Touch([touched EXCEPT !.mode = mode])

\* Mutant of dropStale: the chip is posted beside the stale day.
keepStale(d, field) == d
\* A chip takes the place of the stale input.
dropStale(d, field) ==
    IF field = "day" THEN [d EXCEPT !.staleDay = None] ELSE [d EXCEPT !.staleLucky = None]

\* A day chip of the panel that is open.
ChooseDay(day) ==
    \/ /\ Current.mode = "oneday"
       /\ Fill(dropStale([Current EXCEPT !.day = day], "day"))
       /\ Touch([touched EXCEPT !.day = day])
    \/ /\ Current.mode = "lucky"
       /\ Fill(dropStale([Current EXCEPT !.lucky = day], "lucky"))
       /\ Touch([touched EXCEPT !.lucky = day])

\* Zero is below the field's min.
TypeMinutes(n) ==
    /\ Current.mode = "flash"
    /\ Fill([Current EXCEPT !.minutes = n])
    /\ Touch([touched EXCEPT !.minutes = n])

Close ==
    /\ shown # "none" /\ picker = NoPicker
    /\ shown' = "none" /\ told' = "none"
    /\ UNCHANGED <<server, page, edit, create, picker, touched>>

\* openFor: the picker on top of the dialog.  The create dialog's button knows
\* no badge.
openPicker ==
    /\ shown # "none" /\ picker = NoPicker /\ touched.count < MaxTouches
    /\ picker' = [icon |-> NoName, there |-> TRUE, auto |-> NoName,
                  name |-> IF shown = "edit" THEN page[edit.of].badge.name ELSE NoName]
    /\ UNCHANGED <<server, page, edit, create, shown, touched, told>>

\* selectIcon: the icon's name, unless the host has one of his own there.
selectIcon(icon) ==
    /\ picker.there
    /\ picker' = IF picker.name \in {NoName, picker.auto}
                 THEN [picker EXCEPT !.icon = icon, !.name = icon, !.auto = icon]
                 ELSE [picker EXCEPT !.icon = icon]
    /\ UNCHANGED <<server, page, edit, create, shown, touched, told>>

closePicker ==
    /\ picker.there /\ picker' = NoPicker
    /\ UNCHANGED <<server, page, edit, create, shown, touched, told>>

\* The picker's submit puts the choice into the hidden fields of the dialog.
reflectPick ==
    /\ picker.there /\ picker.icon # NoName
    /\ Fill([Current EXCEPT !.icon = picker.icon, !.name = picker.name])
    /\ touched' = [touched EXCEPT !.icon = picker.icon, !.count = @ + 1]
    /\ picker' = NoPicker
    /\ UNCHANGED <<server, page, shown, told>>

-----------------------------------------------------------------------------
(* Saving.                                                                 *)

\* Two values of one field arrive as a list, which is no day.
Value(chip, stale) == IF stale = None THEN chip ELSE IF chip = None THEN stale ELSE None

\* The hidden flash_cancel is posted whatever the option.
PostedForm(d) ==
    CASE d.mode = "oneday" -> [mode |-> "oneday", cancel |-> d.cancel, day |-> Value(d.day, d.staleDay), bonus |-> d.bonus]
      [] d.mode = "lucky" -> [mode |-> "lucky", cancel |-> d.cancel, day |-> Value(d.lucky, d.staleLucky)]
      [] d.mode = "flash" /\ ~d.cancel -> [mode |-> "flash", cancel |-> FALSE, start |-> "now", minutes |-> d.minutes]
      [] OTHER -> [mode |-> d.mode, cancel |-> d.cancel]

\* The browser does not submit a form with an invalid enabled field.
Invalid(d) == d.panel = "flash" /\ d.minutes = 0

Submit == picker = NoPicker

Blocked ==
    /\ Submit /\ shown # "none" /\ Invalid(Current) /\ told # "blocked"
    /\ told' = "blocked"
    /\ UNCHANGED <<server, page, edit, create, shown, picker, touched>>

\* setTaskBadge: a blank name keeps the old one.
NewBadge(old, d) == IF d.icon = NoName THEN old ELSE [icon |-> d.icon, name |-> d.name]

Answer(ok) == told' = IF ok THEN "saved" ELSE "refused"

\* POST /admin/tasks/:id/edit of the fields d, and the page that follows.
Post(d) ==
    LET t == edit.of
        row == task[t]
        f == PostedForm(d)
        ok == row # NoTask /\ Accepts(t, row, f)
    IN  /\ edits' = edits + 1 /\ UNCHANGED <<zone, now>>
        /\ IF ok THEN Save(t, row, f) /\ badge' = [badge EXCEPT ![t] = NewBadge(@, d)]
           ELSE /\ UNCHANGED badge
                /\ task' = IF row # NoTask /\ CancelsLucky(t, row, f) THEN [task EXCEPT ![t].lucky = None] ELSE task
        /\ Overtake(t) /\ Load /\ Answer(ok)

SaveEdit == shown = "edit" /\ Submit /\ ~Invalid(edit) /\ Post(edit)

\* The last step of the wizard waits for a badge.
SaveNew(t) ==
    LET f == PostedForm(create)
    IN  /\ shown = "create" /\ Submit /\ ~Invalid(create) /\ create.icon # NoName
        /\ task[t] = NoTask
        /\ edits' = edits + 1 /\ UNCHANGED <<zone, now, photo>>
        /\ IF AcceptsNew(f) THEN Save(t, Blank, f) /\ badge' = [badge EXCEPT ![t] = NewBadge(Ribbon, create)]
           ELSE UNCHANGED <<task, badge>>
        /\ Load /\ Answer(AcceptsNew(f))

\* The dialog's Delete submits the form of the task it was opened for.
DeleteShown ==
    /\ shown = "edit" /\ Submit
    /\ IF task[edit.of] = NoTask THEN UNCHANGED <<zone, now, task, photo, edits>> ELSE DeleteTask(edit.of)
    /\ badge' = [badge EXCEPT ![edit.of] = Ribbon] /\ Load /\ told' = "deleted"

\* The strip's Cancel sets flash_cancel and submits the form, which the browser
\* may hold back: the field stays set.
CancelFlash ==
    LET d == [edit EXCEPT !.cancel = TRUE]
    IN  /\ shown = "edit" /\ Submit /\ edit.mode = "flash" /\ page[edit.of].kind = "flash"
        /\ \/ ~Invalid(d) /\ Post(d)
           \/ /\ Invalid(d)
              /\ edit' = d /\ touched' = [touched EXCEPT !.cancel = TRUE] /\ told' = "blocked"
              /\ UNCHANGED <<server, page, create, shown, picker>>

-----------------------------------------------------------------------------
\* Time, and another host.
Elsewhere ==
    /\ \/ Tick
       \/ \E t \in Tasks : ToggleActive(t) \/ DeleteTask(t)
    /\ badge' = [t \in Tasks |-> IF task'[t] = NoTask THEN Ribbon ELSE badge[t]]
    /\ UNCHANGED <<page, edit, create, shown, picker, touched, told>>

DialogInit ==
    /\ zone \in PlayedZones /\ now = TicksPerDay /\ edits = 0
    /\ task \in Boards
    /\ photo \in [Photos -> {NoPhoto} \cup
          {[NoPhoto EXCEPT !.stage = "posted", !.of = t] : t \in {u \in Tasks : task[u] # NoTask}}]
    /\ badge = [t \in Tasks |-> Ribbon]
    /\ page = Rendered(task, badge)
    /\ edit = Cleared /\ create = Cleared /\ shown = "none" /\ picker = NoPicker /\ touched = Untouched
    /\ told = "none"

\* Bound: one request from the page, and MaxEdits of other hosts before it.
DialogNext ==
    /\ told \in {"none", "blocked"}
    /\ \/ Elsewhere \/ Reload \/ resetCreate \/ Close
       \/ openPicker \/ closePicker \/ reflectPick \/ \E icon \in Icons : selectIcon(icon)
       \/ \E mode \in {"none", "hidden", "oneday", "lucky", "flash"} : ChooseMode(mode)
       \/ \E day \in EventDays : ChooseDay(day)
       \/ \E n \in {0} \cup Minutes : TypeMinutes(n)
       \/ Blocked \/ SaveEdit \/ DeleteShown \/ CancelFlash
       \/ \E t \in Tasks : openEdit(t) \/ SaveNew(t)

DialogSpec == DialogInit /\ [][DialogNext]_<<vars, dialogVars>>

-----------------------------------------------------------------------------
(* Properties.                                                             *)

\* The task is as the page showed it, and owned by the same rule.
UpToDate(t) == task[t] = page[t].row /\ whatSpecial(task[t]) = page[t].kind

\* A flash that is over is nobody's any more.
Kept(old, new) ==
    \/ new = old
    \/ flashState(old) = "expired" /\ new = [old EXCEPT !.flash = None, !.ends = None]

\* Saving a dialog in which nothing was chosen, be it for a new title, is
\* accepted and changes nothing else of the task, whichever tasks the dialog
\* was opened for before: unless somebody else or the passing of time made of
\* the task something other than the page showed.
UntouchedSaveKeeps ==
    SaveEdit /\ touched = [Untouched EXCEPT !.count = touched.count] /\ UpToDate(edit.of) =>
        told' = "saved" /\ Kept(task[edit.of], task'[edit.of]) /\ badge' = badge

\* What the host chose is what an accepted save writes, of either dialog.  A
\* Cancel held back by the form is such a choice and, until the dialog is opened
\* again, the last word on the flash: minutes typed after it are not written.  A
\* save with a day of the event is never refused when the task is new, or is
\* free, unchanged and without a photo.
Lands(new, d) ==
    /\ d.mode = "oneday" /\ touched.day # None => new.date = touched.day
    /\ d.mode = "lucky" /\ touched.lucky # None => new.lucky = touched.lucky
    /\ touched.cancel => new.flash = None
    /\ d.mode = "flash" /\ touched.minutes # None /\ ~touched.cancel => new.ends - new.flash = touched.minutes

Free(t) == UpToDate(t) /\ whatSpecial(task[t]) = "none" /\ Posted(t) = {}

ChoicesLand ==
    /\ SaveEdit =>
        /\ told' = "saved" => /\ Lands(task'[edit.of], edit)
                              /\ badge'[edit.of].icon = IF touched.icon = NoName THEN badge[edit.of].icon ELSE touched.icon
        /\ Free(edit.of) /\ (edit.mode = "lucky" \/ (edit.mode = "oneday" /\ touched.day # None)) => told' = "saved"
    /\ \A t \in Tasks : SaveNew(t) =>
        /\ told' = "saved" => Lands(task'[t], create) /\ badge'[t].icon = touched.icon
        /\ create.mode \in {"none", "hidden", "oneday", "lucky"} => told' = "saved"

\* A save is held back only for a field the host can see.
BlockedInSight == told = "blocked" => Current.mode = "flash"
=============================================================================
