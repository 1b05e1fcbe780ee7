---------------------------- MODULE Submissions ----------------------------
(***************************************************************************)
(* The life of a task photo: POST /tasks/:id/submit, the service function  *)
(* submitPhoto behind it, the three actors that flip a photo's visibility  *)
(* (the owning guest, the host, and submitPhoto itself), and the two host  *)
(* actions that hard-delete photos (delete a guest, delete a task).        *)
(*                                                                         *)
(* Node runs one synchronous stretch of JavaScript at a time.  A request   *)
(* gives the event loop away only where submitPhoto awaits makeThumb; the  *)
(* process may be killed anywhere.  So a synchronous stretch is split into *)
(* the steps that reach the disk or commit a transaction, and no other     *)
(* handler runs between them (LoopIsFree), but Crash may.                  *)
(*                                                                         *)
(* A photo is named by the request that uploaded it: the original and its  *)
(* thumbnail both get names derived from one random file name.             *)
(***************************************************************************)
EXTENDS FiniteSets

CONSTANTS
    Guests,     \* guest rows that exist when the behaviour starts
    Tasks,      \* task rows that exist when the behaviour starts
    Requests,   \* uploads; also the names of the photos they store
    Rules,      \* the special rules a host can use: daily, flash, lucky
    Target,     \* request -> the (guest, task) its URL and session name
    OldPhoto,   \* the photo of a row that predates takedown attribution
    NoRow,      \* there is no submissions row for a (guest, task) pair
    NoOne       \* nothing is being hard-deleted

Pairs  == Guests \X Tasks
Photos == Requests \cup {OldPhoto}
Pays   == Rules \cup {"none"}

Row == [photo       : Photos,
        down        : BOOLEAN,
        by          : {"admin", "guest", "none"},
        resubmitted : BOOLEAN,
        bonus       : Pays]

ASSUME SubmissionsAssumption ==
    /\ Rules \subseteq {"daily", "flash", "lucky"}
    /\ Target \in [Requests -> Pairs]
    /\ OldPhoto \notin Requests
    /\ NoRow \notin Row
    /\ NoOne \notin Guests \cup Tasks \cup Pairs
    /\ Guests \cap Tasks = {}

VARIABLES
    guests,     \* the guests table
    mode,       \* task -> "live", "sealed" (a future day), "hidden", "deleted"
    subs,       \* (guest, task) -> its submissions row, or NoRow
    originals,  \* photos whose original is on disk
    thumbs,     \* photos whose thumbnail is on disk
    credited,   \* guest -> the tasks its last badge recount saw as visible
    pc,         \* request -> where it is
    seen,       \* request -> the row it last read (`existing`, then `fresh`)
    offer,      \* request -> the bonus rule read before makeThumb
    answer,     \* request -> what became of it, and what the guest was told
    purge,      \* the hard delete of a guest's or a task's photos in progress
    faulted     \* history: a crash, or a failure the code logs and swallows

store  == <<guests, mode, subs, originals, thumbs, credited>>
upload == <<pc, seen, offer, answer>>
vars   == <<store, upload, purge, faulted>>

-----------------------------------------------------------------------------
(* Reading the tables *)

GuestOf(p) == p[1]
TaskOf(p)  == p[2]
Exists(p)  == subs[p] # NoRow

\* photos.hiddenByOwningGuest and photos.isStickyTakedown
HiddenByOwner(row) == row.down /\ row.by = "guest"
Sticky(row)        == row.down /\ ~HiddenByOwner(row)

\* The tasks a guest's badge recount credits: its visible task photos.
VisibleTasks(table, g) ==
    {t \in Tasks : table[<<g, t>>] # NoRow /\ ~table[<<g, t>>].down}

Recount(table, g) == [credited EXCEPT ![g] = VisibleTasks(table, g)]

\* Mutant: a change of the task list recounts nobody.
RecountNobody(table) == credited

RecountAll(table) == [g \in Guests |-> VisibleTasks(table, g)]

Answers == {"none", "created", "replaced", "reinstated", "replaced_hidden",
            "task_inactive", "thumb_failed", "not_found", "refused",
            "replace_failed", "insert_failed", "lost"}
PCs     == {"unsent", "stored", "thumb", "ready", "committed", "unhidden",
            "half_swept", "written", "done"}

\* A request that is part-way through a synchronous stretch.
MidStretch(r) == pc[r] \in {"committed", "unhidden", "half_swept", "written"}

Idle == [of |-> NoOne, left |-> {}, at |-> NoOne, step |-> "next"]

LoopIsFree == purge = Idle /\ \A r \in Requests : ~MidStretch(r)

-----------------------------------------------------------------------------
(* The empty database, or one holding a row that was hidden before takedown *)
(* attribution existed: the migration leaves its taken_down_by NULL.        *)

OldRow == [photo |-> OldPhoto, down |-> TRUE, by |-> "none",
           resubmitted |-> FALSE, bonus |-> "none"]

Init ==
    /\ guests = Guests
    /\ mode \in [Tasks -> {"live", "sealed", "hidden"}]
    /\ \E old \in {{}} \cup {{p} : p \in Pairs} :
         /\ subs = [p \in Pairs |-> IF p \in old THEN OldRow ELSE NoRow]
         /\ originals = {ph \in {OldPhoto} : old # {}}
         /\ thumbs = originals
    /\ credited = [g \in Guests |-> {}]
    /\ pc     = [r \in Requests |-> "unsent"]
    /\ seen   = [r \in Requests |-> NoRow]
    /\ offer  = [r \in Requests |-> "none"]
    /\ answer = [r \in Requests |-> "none"]
    /\ purge = Idle
    /\ faulted = FALSE

-----------------------------------------------------------------------------
(* POST /tasks/:id/submit up to makeThumb *)

\* The request ends: its local variables die with it.
Reply(r, what) ==
    /\ pc' = [pc EXCEPT ![r] = "done"]
    /\ answer' = [answer EXCEPT ![r] = what]
    /\ seen' = [seen EXCEPT ![r] = NoRow]
    /\ offer' = [offer EXCEPT ![r] = "none"]

\* multer has written the original; its callback is still to run.
Store(r) ==
    /\ pc[r] = "unsent"
    /\ pc' = [pc EXCEPT ![r] = "stored"]
    /\ originals' = originals \cup {r}
    /\ UNCHANGED <<guests, mode, subs, thumbs, credited, seen,
                   offer, answer, purge, faulted>>

\* The address names no task id (an input, read before anything else): a 404,
\* and what multer has stored stays behind.
MissesTask(r) ==
    /\ LoopIsFree
    /\ pc[r] = "stored"
    /\ Reply(r, "not_found")
    /\ UNCHANGED <<store, purge, faulted>>

\* The form's token does not match: the stored original is taken back.
RefuseCsrf(r) ==
    /\ LoopIsFree
    /\ pc[r] = "stored"
    /\ originals' = originals \ {r}
    /\ Reply(r, "refused")
    /\ UNCHANGED <<guests, mode, subs, thumbs, credited, purge, faulted>>

\* A live task takes anyone's photo; a sealed one only a replacement.
Accepts(p) ==
    \/ mode[TaskOf(p)] = "live"
    \/ mode[TaskOf(p)] = "sealed" /\ Exists(p)

\* submitPhoto's reads, with the request holding its upload slot.  Which rule
\* pays at this instant hangs on the task's columns and the clock; nothing else
\* here reads it, so it is an input.
Admit(r) ==
    /\ LoopIsFree
    /\ pc[r] = "stored"
    /\ Accepts(Target[r])
    /\ pc' = [pc EXCEPT ![r] = "thumb"]
    /\ seen' = [seen EXCEPT ![r] = subs[Target[r]]]
    /\ \E b \in Pays : offer' = [offer EXCEPT ![r] = b]
    /\ UNCHANGED <<store, answer, purge, faulted>>

\* Mutant: the pointless upload is not cleaned up.
TurnAwayKeeping(r) ==
    /\ LoopIsFree
    /\ pc[r] = "stored"
    /\ ~Accepts(Target[r])
    /\ Reply(r, "task_inactive")
    /\ UNCHANGED <<store, purge, faulted>>

TurnAway(r) ==
    /\ LoopIsFree
    /\ pc[r] = "stored"
    /\ ~Accepts(Target[r])
    /\ originals' = originals \ {r}
    /\ Reply(r, "task_inactive")
    /\ UNCHANGED <<guests, mode, subs, thumbs, credited, purge, faulted>>

\* sharp works off the event loop: its file may appear at any time.
ThumbMade(r) ==
    /\ pc[r] = "thumb"
    /\ pc' = [pc EXCEPT ![r] = "ready"]
    /\ thumbs' = thumbs \cup {r}
    /\ UNCHANGED <<guests, mode, subs, originals, credited, seen,
                   offer, answer, purge, faulted>>

ThumbFailed(r) ==
    /\ LoopIsFree
    /\ pc[r] = "thumb"
    /\ originals' = originals \ {r}
    /\ Reply(r, "thumb_failed")
    /\ UNCHANGED <<guests, mode, subs, thumbs, credited, purge, faulted>>

-----------------------------------------------------------------------------
(* submitPhoto after makeThumb: the replace branch *)

\* Mutant: decide from the row read before makeThumb.
StaleRow(r) == seen[r]

\* The row as the handler reads it again now; a row deleted meanwhile leaves
\* only the copy read before makeThumb.
Fresh(r) == IF Exists(Target[r]) THEN subs[Target[r]] ELSE seen[r]

\* Mutant: every replacement banks what is on offer.
BonusRebanked(r, row) == IF offer[r] = "none" THEN row.bonus ELSE offer[r]

\* A replace banks the bonus read before makeThumb at most once, and never
\* the lucky one.
BonusAfter(r, row) ==
    IF offer[r] # "lucky" /\ row.bonus = "none" THEN offer[r] ELSE row.bonus

\* Mutant: a row the host has hidden keeps its old photo.
ReplacedIfShown(row, r, fresh) ==
    [row EXCEPT !.photo = IF Sticky(fresh) THEN @ ELSE r,
                !.bonus = BonusAfter(r, fresh),
                !.resubmitted = @ \/ Sticky(fresh)]

\* The columns replaceAndBank writes on the row, decided from the fresh copy.
Replaced(row, r, fresh) ==
    [row EXCEPT !.photo = r,
                !.bonus = BonusAfter(r, fresh),
                !.resubmitted = @ \/ Sticky(fresh)]

\* replaceAndBank commits (its UPDATE may match no row).
Replace(r) ==
    /\ LoopIsFree
    /\ pc[r] = "ready"
    /\ seen[r] # NoRow
    /\ LET p == Target[r] IN
         subs' = IF Exists(p) THEN [subs EXCEPT ![p] = Replaced(@, r, Fresh(r))]
                              ELSE subs
    /\ seen' = [seen EXCEPT ![r] = Fresh(r)]
    /\ pc' = [pc EXCEPT ![r] = "committed"]
    /\ UNCHANGED <<guests, mode, originals, thumbs, credited,
                   offer, answer, purge, faulted>>

\* Mutant: the superseded files were swept before the transaction.
ReplaceFailsAfterSweep(r) ==
    /\ LoopIsFree
    /\ pc[r] = "ready"
    /\ seen[r] # NoRow
    /\ originals' = originals \ {r, Fresh(r).photo}
    /\ thumbs' = thumbs \ {r, Fresh(r).photo}
    /\ Reply(r, "replace_failed")
    /\ UNCHANGED <<guests, mode, subs, credited, purge, faulted>>

\* replaceAndBank throws: rolled back, and both new files are taken back.
ReplaceFails(r) ==
    /\ LoopIsFree
    /\ pc[r] = "ready"
    /\ seen[r] # NoRow
    /\ originals' = originals \ {r}
    /\ thumbs' = thumbs \ {r}
    /\ Reply(r, "replace_failed")
    /\ UNCHANGED <<guests, mode, subs, credited, purge, faulted>>

\* Mutant: the pending-decision flag survives the restore.
ShownStillPending(row) == [row EXCEPT !.down = FALSE, !.by = "none"]

Shown(row) == [row EXCEPT !.down = FALSE, !.by = "none", !.resubmitted = FALSE]

\* A row its owner had hidden comes back: photos.restoreSubmission, guarded.
Unhide(r) ==
    /\ pc[r] = "committed"
    /\ HiddenByOwner(seen[r])
    /\ LET p == Target[r] IN
         IF Exists(p)
         THEN /\ subs' = [subs EXCEPT ![p] = Shown(@)]
              /\ credited' = Recount(subs', GuestOf(p))
         ELSE UNCHANGED <<subs, credited>>
    /\ answer' = [answer EXCEPT ![r] = "reinstated"]
    /\ pc' = [pc EXCEPT ![r] = "unhidden"]
    /\ UNCHANGED <<guests, mode, originals, thumbs, seen, offer,
                   purge, faulted>>

\* Mutant: the reward is promised before the un-hide is known to succeed.
UnhideFailsRewarded(r) ==
    /\ pc[r] = "committed"
    /\ HiddenByOwner(seen[r])
    /\ answer' = [answer EXCEPT ![r] = "reinstated"]
    /\ pc' = [pc EXCEPT ![r] = "unhidden"]
    /\ faulted' = TRUE
    /\ UNCHANGED <<store, seen, offer, purge>>

\* The un-hide throws and is swallowed: the row stays hidden.
UnhideFails(r) ==
    /\ pc[r] = "committed"
    /\ HiddenByOwner(seen[r])
    /\ pc' = [pc EXCEPT ![r] = "unhidden"]
    /\ faulted' = TRUE
    /\ UNCHANGED <<store, seen, offer, answer, purge>>

NothingToUnhide(r) ==
    /\ pc[r] = "committed"
    /\ ~HiddenByOwner(seen[r])
    /\ pc' = [pc EXCEPT ![r] = "unhidden"]
    /\ UNCHANGED <<store, seen, offer, answer, purge, faulted>>

\* The superseded files go only after the commit, the original first.
SweepOriginal(r) ==
    /\ pc[r] = "unhidden"
    /\ originals' = originals \ {seen[r].photo}
    /\ pc' = [pc EXCEPT ![r] = "half_swept"]
    /\ UNCHANGED <<guests, mode, subs, thumbs, credited, seen,
                   offer, answer, purge, faulted>>

SweepThumb(r) ==
    /\ pc[r] = "half_swept"
    /\ thumbs' = thumbs \ {seen[r].photo}
    /\ pc' = [pc EXCEPT ![r] = "written"]
    /\ UNCHANGED <<guests, mode, subs, originals, credited, seen,
                   offer, answer, purge, faulted>>

SweepFails(r) ==
    /\ pc[r] \in {"unhidden", "half_swept"}
    /\ pc' = [pc EXCEPT ![r] = "written"]
    /\ faulted' = TRUE
    /\ UNCHANGED <<store, seen, offer, answer, purge>>

-----------------------------------------------------------------------------
(* submitPhoto after makeThumb: the insert branch, and the common tail *)

\* UNIQUE(guest_id, task_id) and the two foreign keys.
CanInsert(p) ==
    /\ ~Exists(p)
    /\ GuestOf(p) \in guests
    /\ mode[TaskOf(p)] # "deleted"

NewRow(r) == [photo |-> r, down |-> FALSE, by |-> "none",
              resubmitted |-> FALSE, bonus |-> offer[r]]

Insert(r) ==
    /\ LoopIsFree
    /\ pc[r] = "ready"
    /\ seen[r] = NoRow
    /\ CanInsert(Target[r])
    /\ subs' = [subs EXCEPT ![Target[r]] = NewRow(r)]
    /\ pc' = [pc EXCEPT ![r] = "written"]
    /\ UNCHANGED <<guests, mode, originals, thumbs, credited,
                   seen, offer, answer, purge, faulted>>

\* The INSERT throws out of submitPhoto; the route reports the failure and
\* leaves both new files where they are.
InsertFails(r) ==
    /\ LoopIsFree
    /\ pc[r] = "ready"
    /\ seen[r] = NoRow
    /\ ~CanInsert(Target[r])
    /\ Reply(r, "insert_failed")
    /\ UNCHANGED <<store, purge, faulted>>

\* Mutant: a status its callers do not know.
StatusRenamed(r) ==
    IF seen[r] = NoRow THEN "inserted"
    ELSE IF Sticky(seen[r]) THEN "replaced_hidden" ELSE "replaced"

Status(r) ==
    CASE seen[r] = NoRow            -> "created"
      [] answer[r] = "reinstated"   -> "reinstated"
      [] OTHER -> IF Sticky(seen[r]) THEN "replaced_hidden" ELSE "replaced"

\* The badge recount of the submitting guest, then the answer.
Finish(r) ==
    /\ pc[r] = "written"
    /\ credited' = Recount(subs, GuestOf(Target[r]))
    /\ Reply(r, Status(r))
    /\ UNCHANGED <<guests, mode, subs, originals, thumbs, purge, faulted>>

\* The recount throws and is swallowed.
FinishUncounted(r) ==
    /\ pc[r] = "written"
    /\ faulted' = TRUE
    /\ Reply(r, Status(r))
    /\ UNCHANGED <<store, purge>>

-----------------------------------------------------------------------------
(* Visibility: the owner's delete, the host's takedown and restore.  Each  *)
(* is one transaction holding the flag and the owner's badge recount.      *)

SetVisibility(p, row) ==
    /\ subs' = [subs EXCEPT ![p] = row]
    /\ credited' = Recount(subs', GuestOf(p))
    /\ UNCHANGED <<guests, mode, originals, thumbs, upload, purge, faulted>>

\* POST /p/:submissionId/delete: never over a host takedown.
GuestDeletes(p) ==
    /\ LoopIsFree
    /\ GuestOf(p) \in guests
    /\ Exists(p)
    /\ ~Sticky(subs[p])
    /\ SetVisibility(p, [subs[p] EXCEPT !.down = TRUE, !.by = "guest"])

\* POST /admin/photos/:id/takedown
HostTakesDown(p) ==
    /\ LoopIsFree
    /\ Exists(p)
    /\ SetVisibility(p, [subs[p] EXCEPT !.down = TRUE, !.by = "admin"])

\* POST /admin/photos/:id/restore
HostRestores(p) ==
    /\ LoopIsFree
    /\ Exists(p)
    /\ SetVisibility(p, Shown(subs[p]))

-----------------------------------------------------------------------------
(* Tasks change under an upload: the host edits one, or the clock moves.   *)

\* Hide, un-hide or re-date a task; every guest's badges are recounted.
HostEditsTask(t) ==
    /\ LoopIsFree
    /\ mode[t] # "deleted"
    /\ \E m \in {"live", "sealed", "hidden"} : mode' = [mode EXCEPT ![t] = m]
    /\ credited' = RecountAll(subs)
    /\ UNCHANGED <<guests, subs, originals, thumbs, upload, purge, faulted>>

\* The day of a sealed task arrives.
DayComes(t) ==
    /\ mode[t] = "sealed"
    /\ mode' = [mode EXCEPT ![t] = "live"]
    /\ UNCHANGED <<guests, subs, originals, thumbs, credited, upload,
                   purge, faulted>>

-----------------------------------------------------------------------------
(* POST /admin/guests/:id/delete and /admin/tasks/:id/delete: hardDelete   *)
(* each photo (original, thumbnail, row), then the parent row, whose       *)
(* cascade takes any row a failed hardDelete left behind.                  *)

Owned(x)   == {p \in Pairs : Exists(p) /\ x \in {GuestOf(p), TaskOf(p)}}
Present(x) == x \in guests \/ (x \in Tasks /\ mode[x] # "deleted")

StartPurge(x) ==
    /\ LoopIsFree
    /\ Present(x)
    /\ purge' = [of |-> x, left |-> Owned(x), at |-> NoOne, step |-> "next"]
    /\ UNCHANGED <<store, upload, faulted>>

PurgeOriginal(p) ==
    /\ purge.step = "next" /\ p \in purge.left
    /\ originals' = originals \ {subs[p].photo}
    /\ purge' = [purge EXCEPT !.at = p, !.step = "thumb"]
    /\ UNCHANGED <<guests, mode, subs, thumbs, credited, upload, faulted>>

PurgeThumb(p) ==
    /\ purge.step = "thumb" /\ p = purge.at
    /\ thumbs' = thumbs \ {subs[p].photo}
    /\ purge' = [purge EXCEPT !.step = "row"]
    /\ UNCHANGED <<guests, mode, subs, originals, credited, upload, faulted>>

PurgeRow(p) ==
    /\ purge.step = "row" /\ p = purge.at
    /\ subs' = [subs EXCEPT ![p] = NoRow]
    /\ purge' = [purge EXCEPT !.left = @ \ {p}, !.at = NoOne, !.step = "next"]
    /\ UNCHANGED <<guests, mode, originals, thumbs, credited, upload, faulted>>

\* unlink fails with something other than ENOENT: logged, on to the next one.
PurgeSkips(p) ==
    /\ \/ purge.step = "next" /\ p \in purge.left
       \/ purge.step = "thumb" /\ p = purge.at
    /\ purge' = [purge EXCEPT !.left = @ \ {p}, !.at = NoOne, !.step = "next"]
    /\ faulted' = TRUE
    /\ UNCHANGED <<store, upload>>

\* The parent row goes.  Only a task's deletion recounts everyone's badges; a
\* guest's own died with the cascade.
FinishPurge ==
    /\ purge.of # NoOne
    /\ purge.left = {}
    /\ LET x == purge.of IN
         /\ guests' = guests \ {x}
         /\ mode' = [t \in Tasks |-> IF t = x THEN "deleted" ELSE mode[t]]
         /\ subs' = [p \in Pairs |-> IF p \in Owned(x) THEN NoRow ELSE subs[p]]
         /\ credited' = IF x \in Tasks THEN RecountAll(subs')
                                       ELSE [credited EXCEPT ![x] = {}]
    /\ purge' = Idle
    /\ UNCHANGED <<originals, thumbs, upload, faulted>>

-----------------------------------------------------------------------------
(* The process dies; serve-resilient starts another on the same data.      *)

InFlight(r) == pc[r] \notin {"unsent", "done"}

Crash ==
    /\ purge # Idle \/ \E r \in Requests : InFlight(r)
    /\ pc' = [r \in Requests |-> IF InFlight(r) THEN "done" ELSE pc[r]]
    /\ answer' = [r \in Requests |-> IF InFlight(r) THEN "lost" ELSE answer[r]]
    /\ seen' = [r \in Requests |-> NoRow]
    /\ offer' = [r \in Requests |-> "none"]
    /\ purge' = Idle
    /\ faulted' = TRUE
    /\ UNCHANGED store

-----------------------------------------------------------------------------

UploadStep(r) ==
    \/ Store(r) \/ MissesTask(r) \/ RefuseCsrf(r) \/ Admit(r) \/ TurnAway(r)
    \/ ThumbMade(r) \/ ThumbFailed(r)
    \/ Replace(r) \/ ReplaceFails(r)
    \/ Unhide(r) \/ UnhideFails(r) \/ NothingToUnhide(r)
    \/ SweepOriginal(r) \/ SweepThumb(r) \/ SweepFails(r)
    \/ Insert(r) \/ InsertFails(r)
    \/ Finish(r) \/ FinishUncounted(r)

ModerationStep(p) == GuestDeletes(p) \/ HostTakesDown(p) \/ HostRestores(p)

PurgeStep ==
    \/ \E x \in Guests \cup Tasks : StartPurge(x)
    \/ \E p \in Pairs : \/ PurgeOriginal(p) \/ PurgeThumb(p)
                        \/ PurgeRow(p) \/ PurgeSkips(p)
    \/ FinishPurge

Next ==
    \/ \E r \in Requests : UploadStep(r)
    \/ \E p \in Pairs : ModerationStep(p)
    \/ \E t \in Tasks : HostEditsTask(t) \/ DayComes(t)
    \/ PurgeStep
    \/ Crash

Spec == Init /\ [][Next]_vars

-----------------------------------------------------------------------------
(* Properties *)

Saved == {"created", "replaced", "reinstated", "replaced_hidden"}

Gone(p)  == GuestOf(p) \notin guests \/ mode[TaskOf(p)] = "deleted"
Whole(p) == subs[p].photo \in originals \cap thumbs
Holds(p, ph) == Exists(p) /\ subs[p].photo = ph

\* r is being told something in this step (a crash tells nobody anything).
Answering(r) == pc[r] # "done" /\ pc'[r] = "done" /\ answer'[r] # "lost"

\* Every variable holds what its table or request field can hold.
TypeOK ==
    /\ guests \subseteq Guests
    /\ mode \in [Tasks -> {"live", "sealed", "hidden", "deleted"}]
    /\ subs \in [Pairs -> Row \cup {NoRow}]
    /\ originals \subseteq Photos
    /\ thumbs \subseteq Photos
    /\ credited \in [Guests -> SUBSET Tasks]
    /\ pc \in [Requests -> PCs]
    /\ seen \in [Requests -> Row \cup {NoRow}]
    /\ offer \in [Requests -> Pays]
    /\ answer \in [Requests -> Answers]
    /\ purge \in [of   : Guests \cup Tasks \cup {NoOne},
                  left : SUBSET Pairs,
                  at   : Pairs \cup {NoOne},
                  step : {"next", "thumb", "row"}]
    /\ faulted \in BOOLEAN

\* A row in the table has both of its files on disk from the moment it is
\* written, whatever overlapping uploads sweep or roll back and wherever the
\* process dies; only the hard delete of that very row may break it.
RowsStayWhole ==
    [][\A p \in Pairs :
         subs'[p] # NoRow /\ (Exists(p) => Whole(p))
             => Whole(p)' \/ purge'.at = p]_vars

\* Issue 190: a photo the host took down (or whose takedown predates
\* attribution) comes back only when the host restores it, never because an
\* upload that had read the row earlier, or the owner's own delete followed
\* by a replacement, writes it again.
HostTakedownIsSticky ==
    [][\A p \in Pairs :
         Exists(p) /\ Sticky(subs[p]) /\ subs'[p] # NoRow
             => Sticky(subs'[p]) \/ HostRestores(p)]_vars

\* A bonus, once banked on a row, is never lost, raised or swapped by later
\* replacements, and the lucky bonus is never gained by replacing.
BonusIsBankedOnce ==
    [][\A p \in Pairs :
         Exists(p) /\ subs'[p] # NoRow
             => /\ subs[p].bonus # "none" => subs'[p].bonus = subs[p].bonus
                /\ subs'[p].bonus = "lucky" => subs[p].bonus = "lucky"]_vars

\* A photo waiting for a host decision is one the host has hidden.
ResubmittedIsPending ==
    \A p \in Pairs : Exists(p) /\ subs[p].resubmitted => Sticky(subs[p])

\* A guest told that a photo was saved has that photo in the row, and one
\* told that it was not has left no trace in any row, unless the host deleted
\* the guest or the task in the meantime.
AnswerIsTruthful ==
    [][\A r \in Requests : Answering(r) =>
         IF answer'[r] \in Saved THEN Holds(Target[r], r)' \/ Gone(Target[r])'
         ELSE \A p \in Pairs : ~Holds(p, r)']_vars

\* The success card celebrates only a photo that can be seen, "it will appear
\* once the hosts approve it" is said only of a row that waits for them, and
\* "Photo replaced!" of a visible one unless the un-hide failed.
AnswerMatchesVisibility ==
    [][\A r \in Requests : Answering(r) /\ Holds(Target[r], r)' =>
         LET row == subs'[Target[r]] IN
         /\ answer'[r] \in {"created", "reinstated"} => ~row.down
         /\ answer'[r] = "replaced_hidden" => Sticky(row) /\ row.resubmitted
         /\ answer'[r] = "replaced" => ~row.down \/ faulted]_vars

\* While no step has failed, a file that no row refers to belongs to an upload
\* still under way, to one whose INSERT was refused, to one sent to an address
\* that is no task id (neither of these two deletes what it had stored), or to
\* a guest or task that was deleted under the upload.
LeaksAreAccountedFor ==
    LoopIsFree /\ ~faulted =>
        \A ph \in originals \cup thumbs :
            \/ \E p \in Pairs : Holds(p, ph)
            \/ /\ ph \in Requests
               /\ \/ InFlight(ph)
                  \/ answer[ph] \in {"insert_failed", "not_found"}
                  \/ Gone(Target[ph])

\* While no step has failed, the badge engine's last recount of a guest saw
\* exactly the task photos that are visible now.
BadgesAreFresh ==
    LoopIsFree /\ ~faulted =>
        \A g \in guests : credited[g] = VisibleTasks(subs, g)

\* What services/photos/paths.js says of its cleanup helpers: an upload that
\* the UNIQUE constraint rejects leaves no stray file behind.
NoStrayAfterDuplicate ==
    \A r \in Requests :
        answer[r] = "insert_failed" /\ ~Gone(Target[r]) => r \notin originals

=============================================================================
