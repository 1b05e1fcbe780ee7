------------------------- MODULE SubmissionsProofs -------------------------
(***************************************************************************)
(* What Submissions promises, for every set of guests, tasks and uploads.  *)
(*                                                                         *)
(* The argument rests on three facts no property states by itself: at most *)
(* one synchronous stretch is under way (OneStretch), a photo in a row has *)
(* been written there by the upload it is named after, for the pair that   *)
(* upload is for (PhotoOwners), and what an upload has read about its row  *)
(* before makeThumb is still enough to know whose files it may sweep       *)
(* (ReadsAreUsable).  Files and badges need more (AccountsInv): a recount  *)
(* differs from what is visible only for the pair of the stretch or of the *)
(* hard delete under way, and a hard delete misses no row.                 *)
(***************************************************************************)
EXTENDS Submissions, TLAPS

\* A request whose photo no row can hold yet.
Early(r) == pc[r] \in {"unsent", "stored", "thumb", "ready"}

\* A request between its commit and the end of its sweep.
Sweeping(r) == pc[r] \in {"committed", "unhidden", "half_swept"}

OneStretch ==
    /\ \A r, s \in Requests : MidStretch(r) /\ MidStretch(s) => r = s
    /\ \A r \in Requests : MidStretch(r) => purge = Idle

\* A hard delete in progress works on existing rows of its guest or task.
PurgeIsSound ==
    /\ purge.of = NoOne => purge = Idle
    /\ \A p \in purge.left : Exists(p) /\ purge.of \in {GuestOf(p), TaskOf(p)}
    /\ purge.step # "next" => purge.at \in purge.left

PhotoOwners ==
    /\ \A p \in Pairs : Exists(p) /\ subs[p].photo \in Requests
           => Target[subs[p].photo] = p /\ ~Early(subs[p].photo)
    /\ \A p, q \in Pairs : Exists(p) /\ Exists(q) /\ subs[p].photo = subs[q].photo
           => p = q

FilesArrive ==
    \A r \in Requests :
        /\ pc[r] \in {"stored", "thumb", "ready"} => r \in originals
        /\ pc[r] = "ready" => r \in thumbs

ReadsAreUsable ==
    \A r \in Requests : seen[r] # NoRow =>
        /\ \A q \in Requests : q = seen[r].photo => ~Early(q)
        /\ \A p \in Pairs : Exists(p) /\ subs[p].photo = seen[r].photo
               => p = Target[r] /\ ~Sweeping(r)

\* Only an upload that has read its row carries a copy of it, and it commits a
\* replacement only with such a copy.
CopiesAreHeld ==
    \A r \in Requests :
        /\ pc[r] \in {"unsent", "stored", "done"} => seen[r] = NoRow
        /\ Sweeping(r) => seen[r] # NoRow

\* A row that an upload has read is lost only with its guest or its task, and
\* neither is anything that an upload has written.
RowsAreKept ==
    \A r \in Requests :
        /\ seen[r] # NoRow /\ ~Exists(Target[r])
               => \/ Gone(Target[r])
                  \/ purge.of \in {GuestOf(Target[r]), TaskOf(Target[r])}
        /\ MidStretch(r) => Holds(Target[r], r) \/ Gone(Target[r])

\* What an upload's stretch knows of its row's visibility.
Knows(r, row) ==
    /\ pc[r] = "committed" =>
           /\ row.down = seen[r].down /\ row.by = seen[r].by
           /\ Sticky(seen[r]) => row.resubmitted
    /\ pc[r] \in {"unhidden", "half_swept", "written"} =>
           IF seen[r] = NoRow \/ answer[r] = "reinstated" THEN ~row.down
           ELSE IF Sticky(seen[r]) THEN Sticky(row) /\ row.resubmitted
           ELSE ~row.down \/ faulted

VisibilityIsKnown ==
    \A r \in Requests : Holds(Target[r], r) => Knows(r, subs[Target[r]])

\* Nothing has been answered before the request is over or reinstated its row.
NotAnsweredYet ==
    \A r \in Requests : Early(r) \/ pc[r] = "committed" => answer[r] = "none"

\* The foreign keys: a row's guest and task exist.
RowsHaveParents == \A p \in Pairs : Exists(p) => ~Gone(p)

IInv ==
    /\ TypeOK
    /\ RowsHaveParents
    /\ OneStretch
    /\ PurgeIsSound
    /\ PhotoOwners
    /\ FilesArrive
    /\ ReadsAreUsable
    /\ CopiesAreHeld
    /\ RowsAreKept
    /\ VisibilityIsKnown
    /\ NotAnsweredYet
    /\ ResubmittedIsPending

-----------------------------------------------------------------------------
(* Types *)

\* The columns of a row after a replacement, a restore and an insert.
LEMMA ReplacedFields ==
    ASSUME NEW r \in Requests, NEW row \in Row, NEW fresh \in Row,
           offer \in [Requests -> Pays]
    PROVE  LET new == Replaced(row, r, fresh) IN
           /\ new \in Row
           /\ new.photo = r /\ new.down = row.down /\ new.by = row.by
           /\ new.bonus = BonusAfter(r, fresh)
           /\ new.resubmitted = (row.resubmitted \/ Sticky(fresh))
<1>1. BonusAfter(r, fresh) \in Pays
    BY DEF BonusAfter, Row
<1>2. Sticky(fresh) \in BOOLEAN /\ row.resubmitted \in BOOLEAN
    BY DEF Sticky, Row
<1> DEFINE late == row.resubmitted \/ Sticky(fresh)
<1>3. late \in BOOLEAN
    BY <1>2
<1> DEFINE a == [row EXCEPT !.photo = r]
           b == [a EXCEPT !.bonus = BonusAfter(r, fresh)]
           c == [b EXCEPT !.resubmitted = late]
<1> HIDE DEF late
<1>4. /\ a \in Row
      /\ a.photo = r /\ a.down = row.down /\ a.by = row.by
    BY DEF Row, Photos
<1> HIDE DEF a
<1>5. /\ b \in Row
      /\ b.photo = r /\ b.down = row.down /\ b.by = row.by
      /\ b.bonus = BonusAfter(r, fresh)
    BY <1>1, <1>4 DEF Row
<1> HIDE DEF b
<1>6. /\ c \in Row
      /\ c.photo = r /\ c.down = row.down /\ c.by = row.by
      /\ c.bonus = BonusAfter(r, fresh) /\ c.resubmitted = late
    BY <1>3, <1>5 DEF Row
<1>7. Replaced(row, r, fresh) = c
    BY DEF Replaced, a, b, late
<1> QED
    BY <1>6, <1>7 DEF late

LEMMA ShownFields ==
    ASSUME NEW row \in Row
    PROVE  /\ Shown(row) \in Row
           /\ Shown(row).photo = row.photo /\ Shown(row).bonus = row.bonus
           /\ ~Shown(row).down /\ ~Shown(row).resubmitted
    BY DEF Shown, Row

LEMMA NewRowFields ==
    ASSUME NEW r \in Requests, offer \in [Requests -> Pays]
    PROVE  NewRow(r) \in Row
    BY DEF NewRow, Row, Photos

\* A recount leaves a set of tasks for each guest.
LEMMA RecountsAreSets ==
    ASSUME credited \in [Guests -> SUBSET Tasks], NEW table
    PROVE  /\ \A g \in Guests : Recount(table, g) \in [Guests -> SUBSET Tasks]
           /\ RecountAll(table) \in [Guests -> SUBSET Tasks]
    BY DEF Recount, RecountAll, VisibleTasks

\* What a request names is a guest and a task.
LEMMA TargetsArePairs ==
    ASSUME NEW p \in Pairs
    PROVE  GuestOf(p) \in Guests /\ TaskOf(p) \in Tasks
    BY DEF GuestOf, TaskOf, Pairs

LEMMA TypeStarts == Init => TypeOK
<1> SUFFICES ASSUME Init PROVE TypeOK
    OBVIOUS
<1> USE SubmissionsAssumption
<1>1. OldRow \in Row
    BY DEF OldRow, Row, Photos, Pays
<1>2. PICK old \in {{}} \cup {{p} : p \in Pairs} :
        /\ subs = [p \in Pairs |-> IF p \in old THEN OldRow ELSE NoRow]
        /\ originals = {ph \in {OldPhoto} : old # {}}
        /\ thumbs = originals
    BY DEF Init
<1>3. subs \in [Pairs -> Row \cup {NoRow}]
    BY <1>1, <1>2
<1>4. originals \subseteq Photos /\ thumbs \subseteq Photos
    BY <1>2 DEF Photos
<1> QED
    BY <1>3, <1>4 DEF Init, TypeOK, Idle, PCs, Answers, Pays

LEMMA TypeHolds == TypeOK /\ [Next]_vars => TypeOK'
<1> SUFFICES ASSUME TypeOK, [Next]_vars PROVE TypeOK'
    OBVIOUS
<1> USE SubmissionsAssumption
<1>1. ASSUME NEW r \in Requests, UploadStep(r) PROVE TypeOK'
  <2>0. Target[r] \in Pairs /\ GuestOf(Target[r]) \in Guests
      BY TargetsArePairs
  <2>1. CASE Store(r)
      BY <2>1 DEF TypeOK, Store, Photos, PCs
  <2>2. CASE RefuseCsrf(r)
      BY <2>2 DEF TypeOK, RefuseCsrf, Reply, Answers, PCs, Pays
  <2>3. CASE Admit(r)
      BY <2>3, <2>0 DEF TypeOK, Admit, PCs, store
  <2>4. CASE TurnAway(r)
      BY <2>4 DEF TypeOK, TurnAway, Reply, Answers, PCs, Pays
  <2>5. CASE ThumbMade(r)
      BY <2>5 DEF TypeOK, ThumbMade, Photos, PCs
  <2>6. CASE ThumbFailed(r)
      BY <2>6 DEF TypeOK, ThumbFailed, Reply, Answers, PCs, Pays
  <2>7. CASE Replace(r)
    <3>1. Fresh(r) \in Row
        BY <2>7, <2>0 DEF TypeOK, Replace, Fresh, Exists
    <3>2. Exists(Target[r]) => Replaced(subs[Target[r]], r, Fresh(r)) \in Row
        BY <3>1, <2>0, ReplacedFields DEF TypeOK, Exists
    <3>3. subs' \in [Pairs -> Row \cup {NoRow}]
        BY <2>7, <3>2, <2>0 DEF TypeOK, Replace
    <3> QED
        BY <2>7, <3>1, <3>3 DEF TypeOK, Replace, PCs
  <2>8. CASE ReplaceFails(r)
      BY <2>8 DEF TypeOK, ReplaceFails, Reply, Answers, PCs, Pays
  <2>9. CASE Unhide(r)
    <3>1. Exists(Target[r]) => Shown(subs[Target[r]]) \in Row
        BY <2>0, ShownFields DEF TypeOK, Exists
    <3>2. subs' \in [Pairs -> Row \cup {NoRow}]
        BY <2>9, <3>1, <2>0 DEF TypeOK, Unhide
    <3>3. credited' \in [Guests -> SUBSET Tasks]
      <4>1. Recount(subs', GuestOf(Target[r])) \in [Guests -> SUBSET Tasks]
          BY <2>0, RecountsAreSets DEF TypeOK
      <4> QED
          BY <2>9, <4>1 DEF TypeOK, Unhide
    <3> QED
        BY <2>9, <3>2, <3>3 DEF TypeOK, Unhide, PCs, Answers
  <2>10. CASE UnhideFails(r) \/ NothingToUnhide(r) \/ SweepFails(r)
      BY <2>10 DEF TypeOK, UnhideFails, NothingToUnhide, SweepFails, PCs, store
  <2>11. CASE SweepOriginal(r) \/ SweepThumb(r)
      BY <2>11 DEF TypeOK, SweepOriginal, SweepThumb, PCs
  <2>12. CASE Insert(r)
    <3>1. NewRow(r) \in Row
        BY NewRowFields DEF TypeOK
    <3>2. subs' \in [Pairs -> Row \cup {NoRow}]
        BY <2>12, <3>1, <2>0 DEF TypeOK, Insert
    <3> QED
        BY <2>12, <3>2 DEF TypeOK, Insert, PCs
  <2>13. CASE InsertFails(r) \/ MissesTask(r)
      BY <2>13 DEF TypeOK, InsertFails, MissesTask, Reply, Answers, PCs, Pays, store
  <2>14. CASE Finish(r)
    <3>1. credited' \in [Guests -> SUBSET Tasks]
        BY <2>14, <2>0, RecountsAreSets DEF TypeOK, Finish
    <3>2. Status(r) \in Answers
        BY DEF Status, Answers
    <3> QED
        BY <2>14, <3>1, <3>2 DEF TypeOK, Finish, Reply, PCs, Pays
  <2>15. CASE FinishUncounted(r)
    <3>1. Status(r) \in Answers
        BY DEF Status, Answers
    <3> QED
        BY <2>15, <3>1 DEF TypeOK, FinishUncounted, Reply, PCs, Pays, store
  <2> QED
      BY <1>1, <2>1, <2>2, <2>3, <2>4, <2>5, <2>6, <2>7, <2>8, <2>9, <2>10,
         <2>11, <2>12, <2>13, <2>14, <2>15 DEF UploadStep
<1>2. ASSUME NEW p \in Pairs, ModerationStep(p) PROVE TypeOK'
  <2> DEFINE row == subs'[p]
  <2>1. PICK new \in Row : SetVisibility(p, new)
    <3>1. subs[p] \in Row
        BY <1>2 DEF TypeOK, ModerationStep, GuestDeletes, HostTakesDown,
                    HostRestores, Exists
    <3>2. /\ [subs[p] EXCEPT !.down = TRUE, !.by = "guest"] \in Row
          /\ [subs[p] EXCEPT !.down = TRUE, !.by = "admin"] \in Row
        BY <3>1 DEF Row
    <3>3. Shown(subs[p]) \in Row
        BY <3>1 DEF Row, Shown
    <3> QED
        BY <1>2, <3>2, <3>3 DEF ModerationStep, GuestDeletes, HostTakesDown,
                                HostRestores
  <2>2. subs' \in [Pairs -> Row \cup {NoRow}]
      BY <2>1 DEF TypeOK, SetVisibility
  <2>3. credited' \in [Guests -> SUBSET Tasks]
      BY <2>1, RecountsAreSets, TargetsArePairs DEF TypeOK, SetVisibility
  <2> QED
      BY <2>1, <2>2, <2>3 DEF TypeOK, SetVisibility, upload
<1>3. ASSUME NEW t \in Tasks, HostEditsTask(t) \/ DayComes(t) PROVE TypeOK'
  <2>1. credited' \in [Guests -> SUBSET Tasks]
    <3>1. CASE HostEditsTask(t)
        BY <3>1, RecountsAreSets DEF TypeOK, HostEditsTask
    <3>2. CASE DayComes(t)
        BY <3>2 DEF TypeOK, DayComes
    <3> QED
        BY <1>3, <3>1, <3>2
  <2> QED
      BY <1>3, <2>1 DEF TypeOK, HostEditsTask, DayComes, upload
<1>4. ASSUME PurgeStep PROVE TypeOK'
  <2>1. ASSUME NEW x \in Guests \cup Tasks, StartPurge(x) PROVE TypeOK'
      BY <2>1 DEF TypeOK, StartPurge, Owned, store, upload
  <2>2. ASSUME NEW p \in Pairs, PurgeOriginal(p) PROVE TypeOK'
      BY <2>2 DEF TypeOK, PurgeOriginal, upload
  <2>3. ASSUME NEW p \in Pairs, PurgeThumb(p) PROVE TypeOK'
      BY <2>3 DEF TypeOK, PurgeThumb, upload
  <2>4. ASSUME NEW p \in Pairs, PurgeRow(p) PROVE TypeOK'
      BY <2>4 DEF TypeOK, PurgeRow, upload
  <2>5. ASSUME NEW p \in Pairs, PurgeSkips(p) PROVE TypeOK'
      BY <2>5 DEF TypeOK, PurgeSkips, store, upload
  <2>6. CASE FinishPurge
    <3>1. credited' \in [Guests -> SUBSET Tasks]
        BY <2>6 DEF TypeOK, FinishPurge, RecountAll, VisibleTasks
    <3>2. subs' \in [Pairs -> Row \cup {NoRow}]
        BY <2>6 DEF TypeOK, FinishPurge
    <3> QED
        BY <2>6, <3>1, <3>2 DEF TypeOK, FinishPurge, Idle, upload
  <2> QED
      BY <1>4, <2>1, <2>2, <2>3, <2>4, <2>5, <2>6 DEF PurgeStep
<1>5. CASE Crash
    BY <1>5 DEF TypeOK, Crash, Idle, PCs, Answers, Pays, store
<1>6. CASE UNCHANGED vars
    BY <1>6 DEF TypeOK, vars, store, upload
<1> QED
    BY <1>1, <1>2, <1>3, <1>4, <1>5, <1>6 DEF Next

\* Every table, and every request's own state, keeps the type its code gives it.
THEOREM TypeCorrect == Spec => []TypeOK
    BY TypeStarts, TypeHolds, PTL DEF Spec

-----------------------------------------------------------------------------
(* Frames: what each kind of step leaves alone. *)

\* An upload changes its own state, its own row and no other, deletes no row,
\* never goes back, and enters a synchronous stretch only on a free loop.
LEMMA UploadFrame ==
    ASSUME TypeOK, NEW r \in Requests, UploadStep(r)
    PROVE  /\ guests' = guests /\ mode' = mode /\ purge' = purge
           /\ \A s \in Requests \ {r} :
                  /\ pc'[s] = pc[s] /\ seen'[s] = seen[s]
                  /\ offer'[s] = offer[s] /\ answer'[s] = answer[s]
           /\ \A p \in Pairs \ {Target[r]} : subs'[p] = subs[p]
           /\ \A p \in Pairs : Exists(p) => Exists(p)'
           /\ ~Early(r) => ~Early(r)'
           /\ MidStretch(r)' => MidStretch(r) \/ LoopIsFree
           /\ subs' # subs => MidStretch(r)'
           /\ faulted => faulted'
<1> USE SubmissionsAssumption
<1>0. Target[r] \in Pairs
    OBVIOUS
<1>1. CASE Store(r)
    BY <1>1 DEF TypeOK, Store, Exists, Early, MidStretch
<1>2. CASE RefuseCsrf(r) \/ TurnAway(r) \/ ThumbFailed(r) \/ ReplaceFails(r)
           \/ InsertFails(r) \/ MissesTask(r) \/ Finish(r) \/ FinishUncounted(r)
    BY <1>2 DEF TypeOK, RefuseCsrf, TurnAway, ThumbFailed, ReplaceFails,
                InsertFails, MissesTask, Finish, FinishUncounted, Reply, Exists, Early,
                MidStretch, store
<1>3. CASE Admit(r) \/ ThumbMade(r)
    BY <1>3 DEF TypeOK, Admit, ThumbMade, Exists, Early, MidStretch, store
<1>4. CASE UnhideFails(r) \/ NothingToUnhide(r) \/ SweepOriginal(r)
           \/ SweepThumb(r) \/ SweepFails(r)
    BY <1>4 DEF TypeOK, UnhideFails, NothingToUnhide, SweepOriginal,
                SweepThumb, SweepFails, Exists, Early, MidStretch, store
<1>5. CASE Replace(r)
  <2>1. Exists(Target[r]) => Replaced(subs[Target[r]], r, Fresh(r)) \in Row
      BY <1>0, <1>5, ReplacedFields DEF TypeOK, Exists, Fresh
  <2>2. Exists(Target[r]) => subs' = [subs EXCEPT ![Target[r]] =
                                         Replaced(@, r, Fresh(r))]
      BY <1>5 DEF Replace
  <2>3. ~Exists(Target[r]) => subs' = subs
      BY <1>5 DEF Replace
  <2>4. /\ \A p \in Pairs \ {Target[r]} : subs'[p] = subs[p]
        /\ \A p \in Pairs : Exists(p) => Exists(p)'
      BY <1>0, <2>1, <2>2, <2>3 DEF TypeOK, Exists
  <2> QED
      BY <1>5, <2>4 DEF TypeOK, Replace, Early, MidStretch
<1>6. CASE Unhide(r)
  <2>1. Exists(Target[r]) => Shown(subs[Target[r]]) \in Row
      BY <1>0, ShownFields DEF TypeOK, Exists
  <2>2. /\ \A p \in Pairs \ {Target[r]} : subs'[p] = subs[p]
        /\ \A p \in Pairs : Exists(p) => Exists(p)'
      BY <1>0, <1>6, <2>1 DEF TypeOK, Unhide, Exists
  <2> QED
      BY <1>6, <2>2 DEF TypeOK, Unhide, Early, MidStretch
<1>7. CASE Insert(r)
  <2>1. NewRow(r) \in Row
      BY NewRowFields DEF TypeOK
  <2> QED
      BY <1>0, <1>7, <2>1 DEF TypeOK, Insert, Exists, Early, MidStretch
<1> QED
    BY <1>1, <1>2, <1>3, <1>4, <1>5, <1>6, <1>7, UploadStep(r) DEF UploadStep

\* The photo in an upload's row is the one before the step, or its own, now.
LEMMA UploadPhotos ==
    ASSUME TypeOK, NEW r \in Requests, UploadStep(r), Exists(Target[r])'
    PROVE  \/ Exists(Target[r]) /\ subs'[Target[r]].photo = subs[Target[r]].photo
           \/ subs'[Target[r]].photo = r /\ Early(r) /\ ~Early(r)'
<1> USE SubmissionsAssumption
<1>1. CASE subs' = subs
    BY <1>1 DEF Exists
<1>2. CASE Replace(r)
  <2>1. CASE Exists(Target[r])
    <3>1. subs[Target[r]] \in Row /\ Fresh(r) \in Row
        BY <2>1 DEF TypeOK, Exists, Fresh
    <3>2. Replaced(subs[Target[r]], r, Fresh(r)).photo = r
        BY <3>1, ReplacedFields DEF TypeOK
    <3>3. subs'[Target[r]] = Replaced(subs[Target[r]], r, Fresh(r))
        BY <1>2, <2>1 DEF Replace, TypeOK
    <3> QED
        BY <1>2, <3>2, <3>3 DEF Replace, Early, TypeOK
  <2>2. CASE ~Exists(Target[r])
      BY <1>2, <2>2 DEF Replace, Exists
  <2> QED
      BY <2>1, <2>2
<1>3. CASE Unhide(r)
  <2>1. CASE Exists(Target[r])
      BY <1>3, <2>1, ShownFields DEF Unhide, TypeOK, Exists
  <2>2. CASE ~Exists(Target[r])
      BY <1>3, <2>2 DEF Unhide, Exists
  <2> QED
      BY <2>1, <2>2
<1>4. CASE Insert(r)
    BY <1>4 DEF Insert, NewRow, TypeOK, Early
<1> QED
    BY <1>1, <1>2, <1>3, <1>4
       DEF UploadStep, Store, RefuseCsrf, Admit, TurnAway, ThumbMade, ThumbFailed,
           ReplaceFails, UnhideFails, NothingToUnhide, SweepOriginal, SweepThumb,
           SweepFails, InsertFails, MissesTask, Finish, FinishUncounted, store

\* What an upload knows of its row is dropped, or read from the row itself.
LEMMA UploadReads ==
    ASSUME TypeOK, NEW r \in Requests, UploadStep(r)
    PROVE  seen'[r] \in {seen[r], NoRow, subs[Target[r]]}
    BY DEF TypeOK, UploadStep, Store, RefuseCsrf, Admit, TurnAway, ThumbMade,
           ThumbFailed, Replace, Fresh, ReplaceFails, Unhide, UnhideFails,
           NothingToUnhide, SweepOriginal, SweepThumb, SweepFails, Insert,
           InsertFails, MissesTask, Finish, FinishUncounted, Reply

\* Moderation runs on a free loop and changes one row's visibility.
LEMMA ModerationFrame ==
    ASSUME TypeOK, NEW p \in Pairs, ModerationStep(p)
    PROVE  /\ LoopIsFree
           /\ UNCHANGED <<guests, mode, originals, thumbs, upload, purge>>
           /\ Exists(p)
           /\ subs' = [subs EXCEPT ![p] = subs'[p]]
           /\ subs'[p] \in Row
           /\ subs'[p].photo = subs[p].photo /\ subs'[p].bonus = subs[p].bonus
<1>1. subs[p] \in Row /\ Exists(p) /\ LoopIsFree
    BY DEF TypeOK, ModerationStep, GuestDeletes, HostTakesDown, HostRestores, Exists
<1>2. PICK new \in Row : SetVisibility(p, new) /\ new.photo = subs[p].photo
                                               /\ new.bonus = subs[p].bonus
  <2>1. ASSUME NEW new \in {[subs[p] EXCEPT !.down = TRUE, !.by = "guest"],
                            [subs[p] EXCEPT !.down = TRUE, !.by = "admin"],
                            Shown(subs[p])}
        PROVE  new \in Row /\ new.photo = subs[p].photo /\ new.bonus = subs[p].bonus
      BY <1>1 DEF Row, Shown
  <2>2. \E new \in {[subs[p] EXCEPT !.down = TRUE, !.by = "guest"],
                    [subs[p] EXCEPT !.down = TRUE, !.by = "admin"],
                    Shown(subs[p])} : SetVisibility(p, new)
      BY DEF ModerationStep, GuestDeletes, HostTakesDown, HostRestores
  <2> QED
      BY <2>1, <2>2
<1>3. subs' = [subs EXCEPT ![p] = new] /\ subs'[p] = new
    BY <1>2 DEF SetVisibility, TypeOK
<1> QED
    BY <1>1, <1>2, <1>3 DEF SetVisibility

\* A change of a task, or of its day, leaves photos and uploads alone.
LEMMA TaskFrame ==
    ASSUME TypeOK, NEW t \in Tasks, HostEditsTask(t) \/ DayComes(t)
    PROVE  /\ UNCHANGED <<guests, subs, originals, thumbs, upload, purge, faulted>>
           /\ \A p \in Pairs : Gone(p) => Gone(p)'
<1>1. UNCHANGED <<guests, subs, originals, thumbs, upload, purge, faulted>>
    BY DEF HostEditsTask, DayComes
<1>2. \A p \in Pairs : mode[TaskOf(p)] = "deleted" => mode'[TaskOf(p)] = "deleted"
    BY TargetsArePairs DEF TypeOK, HostEditsTask, DayComes
<1> QED
    BY <1>1, <1>2 DEF Gone

\* A hard delete touches no upload; rows go, and what it deletes stays deleted.
LEMMA PurgeFrame ==
    ASSUME TypeOK, PurgeStep
    PROVE  /\ UNCHANGED upload
           /\ \A p \in Pairs : subs'[p] \in {subs[p], NoRow}
           /\ \A p \in Pairs : Gone(p) => Gone(p)'
           /\ LoopIsFree \/ purge # Idle
<1>1. ASSUME NEW x \in Guests \cup Tasks, StartPurge(x) PROVE LoopIsFree
    BY <1>1 DEF StartPurge
<1>2. \A p \in Pairs : PurgeOriginal(p) \/ PurgeThumb(p) \/ PurgeRow(p) \/ PurgeSkips(p)
          => purge # Idle
  <2>1. \A p \in Pairs : PurgeOriginal(p) \/ PurgeThumb(p) \/ PurgeRow(p) \/ PurgeSkips(p)
            => p \in purge.left \/ purge.step # "next"
      BY DEF PurgeOriginal, PurgeThumb, PurgeRow, PurgeSkips
  <2> QED
      BY <2>1 DEF Idle
<1>3. FinishPurge => purge # Idle
    BY DEF FinishPurge, Idle
<1>4. \A p \in Pairs : subs'[p] \in {subs[p], NoRow}
  <2>1. ASSUME NEW p \in Pairs, PurgeOriginal(p) \/ PurgeThumb(p) \/ PurgeSkips(p)
        PROVE  subs' = subs
      BY <2>1 DEF PurgeOriginal, PurgeThumb, PurgeSkips, store
  <2>2. ASSUME NEW x \in Guests \cup Tasks, StartPurge(x) PROVE subs' = subs
      BY <2>2 DEF StartPurge, store
  <2>3. ASSUME NEW q \in Pairs, PurgeRow(q)
        PROVE  \A p \in Pairs : subs'[p] \in {subs[p], NoRow}
      BY <2>3 DEF TypeOK, PurgeRow
  <2>4. ASSUME FinishPurge PROVE \A p \in Pairs : subs'[p] \in {subs[p], NoRow}
      BY <2>4 DEF FinishPurge
  <2> QED
      BY <2>1, <2>2, <2>3, <2>4 DEF PurgeStep
<1>5. UNCHANGED upload
    BY DEF PurgeStep, StartPurge, PurgeOriginal, PurgeThumb, PurgeRow,
           PurgeSkips, FinishPurge
<1>6. \A p \in Pairs : Gone(p) => Gone(p)'
  <2>1. ASSUME NEW p \in Pairs, mode[TaskOf(p)] = "deleted"
        PROVE  mode'[TaskOf(p)] = "deleted"
      BY <2>1, TargetsArePairs
         DEF TypeOK, PurgeStep, StartPurge, PurgeOriginal, PurgeThumb, PurgeRow,
             PurgeSkips, FinishPurge, store
  <2>2. guests' \subseteq guests
      BY DEF PurgeStep, StartPurge, PurgeOriginal, PurgeThumb, PurgeRow,
             PurgeSkips, FinishPurge, store
  <2> QED
      BY <2>1, <2>2 DEF Gone
<1> QED
    BY <1>1, <1>2, <1>3, <1>4, <1>5, <1>6 DEF PurgeStep

-----------------------------------------------------------------------------
(* The inductive invariant holds at the start and is kept by every step.   *)

LEMMA InvariantStarts == Init => IInv
<1> SUFFICES ASSUME Init PROVE IInv
    OBVIOUS
<1>1. TypeOK
    BY TypeStarts
<1>2. PICK old \in {{}} \cup {{p} : p \in Pairs} :
        subs = [p \in Pairs |-> IF p \in old THEN OldRow ELSE NoRow]
    BY DEF Init
<1>3. \A p \in Pairs : Exists(p) => p \in old /\ subs[p] = OldRow
    BY <1>2 DEF Exists
<1>4. /\ \A r \in Requests : pc[r] = "unsent" /\ seen[r] = NoRow /\ answer[r] = "none"
      /\ purge = Idle
    BY DEF Init
<1>5. OneStretch /\ PurgeIsSound /\ FilesArrive /\ ReadsAreUsable
    BY <1>4 DEF OneStretch, MidStretch, PurgeIsSound, Idle, FilesArrive, ReadsAreUsable
<1>6. PhotoOwners
    BY <1>3, SubmissionsAssumption DEF PhotoOwners, OldRow
<1>9. RowsHaveParents
    BY TargetsArePairs DEF RowsHaveParents, Gone, Init
<1>7. CopiesAreHeld /\ RowsAreKept /\ VisibilityIsKnown /\ NotAnsweredYet
    BY <1>4 DEF CopiesAreHeld, RowsAreKept, VisibilityIsKnown, Knows,
                NotAnsweredYet, Sweeping, MidStretch
<1>8. ResubmittedIsPending
    BY <1>3 DEF ResubmittedIsPending, OldRow
<1> QED
    BY <1>1, <1>5, <1>6, <1>7, <1>8, <1>9 DEF IInv

\* While one upload is in a synchronous stretch, no other step reaches a row.
LEMMA StretchIsAlone ==
    ASSUME TypeOK, OneStretch, NEW s \in Requests, MidStretch(s)
    PROVE  /\ \A r \in Requests \ {s} : UploadStep(r) => subs' = subs
           /\ \A p \in Pairs : ~ModerationStep(p)
           /\ ~PurgeStep
<1>1. purge = Idle /\ ~LoopIsFree
    BY DEF OneStretch, LoopIsFree
<1>2. \A r \in Requests \ {s} : UploadStep(r) => ~MidStretch(r)'
    BY <1>1, UploadFrame DEF OneStretch
<1> QED
    BY <1>1, <1>2, UploadFrame, ModerationFrame, PurgeFrame

LEMMA OneStretchHolds == IInv /\ [Next]_vars => OneStretch'
<1> SUFFICES ASSUME IInv, [Next]_vars PROVE OneStretch'
    OBVIOUS
<1> USE DEF IInv
<1>1. ASSUME NEW r \in Requests, UploadStep(r) PROVE OneStretch'
  <2>1. \A s \in Requests \ {r} : MidStretch(s)' => MidStretch(s)
      BY <1>1, UploadFrame DEF MidStretch
  <2>2. MidStretch(r)' => MidStretch(r) \/ LoopIsFree
      BY <1>1, UploadFrame
  <2>3. purge' = purge
      BY <1>1, UploadFrame
  <2> QED
      BY <2>1, <2>2, <2>3 DEF OneStretch, LoopIsFree
<1>2. ASSUME NEW p \in Pairs, ModerationStep(p) PROVE OneStretch'
    BY <1>2, ModerationFrame DEF OneStretch, MidStretch, upload
<1>3. ASSUME NEW t \in Tasks, HostEditsTask(t) \/ DayComes(t) PROVE OneStretch'
    BY <1>3, TaskFrame DEF OneStretch, MidStretch, upload
<1>4. CASE PurgeStep
  <2>1. \A r \in Requests : ~MidStretch(r)
      BY <1>4, StretchIsAlone
  <2> QED
      BY <1>4, <2>1, PurgeFrame DEF OneStretch, MidStretch, upload
<1>5. CASE Crash
    BY <1>5 DEF Crash, OneStretch, MidStretch, InFlight, TypeOK, PCs
<1>6. CASE UNCHANGED vars
    BY <1>6 DEF vars, upload, OneStretch, MidStretch
<1> QED
    BY <1>1, <1>2, <1>3, <1>4, <1>5, <1>6 DEF Next

LEMMA PurgeIsSoundHolds == IInv /\ [Next]_vars => PurgeIsSound'
<1> SUFFICES ASSUME IInv, [Next]_vars PROVE PurgeIsSound'
    OBVIOUS
<1> USE DEF IInv
<1>1. ASSUME purge' = purge, \A p \in Pairs : Exists(p) => Exists(p)'
      PROVE  PurgeIsSound'
    BY <1>1 DEF PurgeIsSound, TypeOK
<1>2. ASSUME NEW r \in Requests, UploadStep(r) PROVE PurgeIsSound'
    BY <1>1, <1>2, UploadFrame
<1>3. ASSUME NEW p \in Pairs, ModerationStep(p) PROVE PurgeIsSound'
  <2>1. \A q \in Pairs : Exists(q) => Exists(q)'
      BY <1>3, ModerationFrame, SubmissionsAssumption DEF TypeOK, Exists
  <2> QED
      BY <1>1, <1>3, <2>1, ModerationFrame
<1>4. ASSUME NEW t \in Tasks, HostEditsTask(t) \/ DayComes(t) PROVE PurgeIsSound'
    BY <1>1, <1>4, TaskFrame DEF Exists
<1>5. CASE PurgeStep
  <2>1. ASSUME NEW x \in Guests \cup Tasks, StartPurge(x) PROVE PurgeIsSound'
      BY <2>1, SubmissionsAssumption DEF StartPurge, Owned, PurgeIsSound, Exists, store
  <2>2. ASSUME NEW p \in Pairs, PurgeOriginal(p) PROVE PurgeIsSound'
    <3>1. p \in purge.left /\ subs' = subs
        BY <2>2 DEF PurgeOriginal
    <3>2. purge'.of = purge.of /\ purge'.left = purge.left /\ purge'.at = p
        BY <2>2 DEF PurgeOriginal, TypeOK
    <3> QED
        BY <3>1, <3>2 DEF PurgeIsSound, Exists, Idle
  <2>3. ASSUME NEW p \in Pairs, PurgeThumb(p) PROVE PurgeIsSound'
    <3>1. purge.step = "thumb" /\ subs' = subs
        BY <2>3 DEF PurgeThumb
    <3>2. purge'.of = purge.of /\ purge'.left = purge.left /\ purge'.at = purge.at
        BY <2>3 DEF PurgeThumb, TypeOK
    <3> QED
        BY <3>1, <3>2 DEF PurgeIsSound, Exists, Idle
  <2>4. ASSUME NEW p \in Pairs, PurgeRow(p) PROVE PurgeIsSound'
    <3>1. purge.step = "row" /\ \A q \in Pairs \ {p} : subs'[q] = subs[q]
        BY <2>4 DEF PurgeRow, TypeOK
    <3>2. /\ purge'.of = purge.of /\ purge'.left = purge.left \ {p}
          /\ purge'.step = "next"
        BY <2>4 DEF PurgeRow, TypeOK
    <3> QED
        BY <3>1, <3>2 DEF PurgeIsSound, Exists, Idle, TypeOK
  <2>5. ASSUME NEW p \in Pairs, PurgeSkips(p) PROVE PurgeIsSound'
    <3>1. subs' = subs /\ (p \in purge.left \/ purge.step = "thumb")
        BY <2>5 DEF PurgeSkips, store
    <3>2. /\ purge'.of = purge.of /\ purge'.left = purge.left \ {p}
          /\ purge'.step = "next"
        BY <2>5 DEF PurgeSkips, TypeOK
    <3> QED
        BY <3>1, <3>2 DEF PurgeIsSound, Exists, Idle
  <2>6. CASE FinishPurge
      BY <2>6 DEF FinishPurge, PurgeIsSound, Idle
  <2> QED
      BY <1>5, <2>1, <2>2, <2>3, <2>4, <2>5, <2>6 DEF PurgeStep
<1>6. CASE Crash
    BY <1>6 DEF Crash, PurgeIsSound, Idle
<1>7. CASE UNCHANGED vars
    BY <1>1, <1>7 DEF vars, store, Exists
<1> QED
    BY <1>2, <1>3, <1>4, <1>5, <1>6, <1>7 DEF Next

LEMMA PhotoOwnersHolds == IInv /\ [Next]_vars => PhotoOwners'
<1> SUFFICES ASSUME IInv, [Next]_vars PROVE PhotoOwners'
    OBVIOUS
<1> USE SubmissionsAssumption DEF IInv
<1>1. ASSUME \A p \in Pairs : Exists(p)' => Exists(p) /\ subs'[p].photo = subs[p].photo,
             \A s \in Requests : ~Early(s) => ~Early(s)'
      PROVE  PhotoOwners'
    BY <1>1 DEF PhotoOwners
<1>2. ASSUME NEW r \in Requests, UploadStep(r) PROVE PhotoOwners'
  <2>1. \A p \in Pairs : Exists(p)' =>
            \/ Exists(p) /\ subs'[p].photo = subs[p].photo
            \/ p = Target[r] /\ subs'[p].photo = r /\ Early(r) /\ ~Early(r)'
      BY <1>2, UploadFrame, UploadPhotos DEF Exists
  <2>2. \A s \in Requests : ~Early(s) => ~Early(s)'
      BY <1>2, UploadFrame DEF Early
  <2>3. ASSUME NEW p \in Pairs, NEW q \in Pairs, Exists(p)', Exists(q)',
               subs'[p].photo = subs'[q].photo
        PROVE  p = q
      BY <2>1, <2>3 DEF PhotoOwners
  <2> QED
      BY <2>1, <2>2, <2>3 DEF PhotoOwners
<1>3. ASSUME NEW p \in Pairs, ModerationStep(p) PROVE PhotoOwners'
  <2>1. \A q \in Pairs : Exists(q)' => Exists(q) /\ subs'[q].photo = subs[q].photo
      BY <1>3, ModerationFrame DEF TypeOK, Exists
  <2> QED
      BY <1>1, <1>3, <2>1, ModerationFrame DEF upload, Early
<1>4. ASSUME NEW t \in Tasks, HostEditsTask(t) \/ DayComes(t) PROVE PhotoOwners'
    BY <1>1, <1>4, TaskFrame DEF upload, Early, Exists
<1>5. CASE PurgeStep
    BY <1>1, <1>5, PurgeFrame DEF upload, Early, Exists
<1>6. CASE Crash
    BY <1>1, <1>6 DEF Crash, Early, InFlight, Exists, store, TypeOK
<1>7. CASE UNCHANGED vars
    BY <1>1, <1>7 DEF vars, store, upload, Early, Exists
<1> QED
    BY <1>2, <1>3, <1>4, <1>5, <1>6, <1>7 DEF Next

LEMMA FilesArriveHolds == IInv /\ [Next]_vars => FilesArrive'
<1> SUFFICES ASSUME IInv, [Next]_vars PROVE FilesArrive'
    OBVIOUS
<1> USE SubmissionsAssumption DEF IInv
<1>1. ASSUME UNCHANGED <<originals, thumbs, pc>> PROVE FilesArrive'
    BY <1>1 DEF FilesArrive
<1>2. ASSUME NEW r \in Requests, UploadStep(r) PROVE FilesArrive'
  <2>1. CASE Store(r)
      BY <2>1 DEF FilesArrive, Store, TypeOK
  <2>2. CASE RefuseCsrf(r) \/ TurnAway(r) \/ ThumbFailed(r) \/ ReplaceFails(r)
             \/ InsertFails(r) \/ MissesTask(r) \/ Finish(r) \/ FinishUncounted(r)
      BY <2>2 DEF FilesArrive, RefuseCsrf, TurnAway, ThumbFailed, ReplaceFails,
                  InsertFails, MissesTask, Finish, FinishUncounted, Reply, TypeOK, store
  <2>3. CASE Admit(r) \/ ThumbMade(r) \/ UnhideFails(r) \/ NothingToUnhide(r)
             \/ SweepFails(r) \/ Replace(r) \/ Unhide(r) \/ Insert(r)
      BY <2>3 DEF FilesArrive, Admit, ThumbMade, UnhideFails, NothingToUnhide,
                  SweepFails, Replace, Unhide, Insert, TypeOK, store
  <2>4. CASE SweepOriginal(r) \/ SweepThumb(r)
    <3>1. seen[r] # NoRow
        BY <2>4 DEF SweepOriginal, SweepThumb, CopiesAreHeld, Sweeping
    <3>2. \A s \in Requests : s = seen[r].photo => ~Early(s)
        BY <3>1 DEF ReadsAreUsable
    <3> QED
        BY <2>4, <3>2 DEF SweepOriginal, SweepThumb, FilesArrive, Early, TypeOK
  <2> QED
      BY <1>2, <2>1, <2>2, <2>3, <2>4 DEF UploadStep
<1>3. ASSUME NEW p \in Pairs, ModerationStep(p) PROVE FilesArrive'
    BY <1>1, <1>3, ModerationFrame DEF upload
<1>4. ASSUME NEW t \in Tasks, HostEditsTask(t) \/ DayComes(t) PROVE FilesArrive'
    BY <1>1, <1>4, TaskFrame DEF upload
<1>5. CASE PurgeStep
  <2>1. ASSUME NEW p \in Pairs, PurgeOriginal(p) \/ PurgeThumb(p) PROVE FilesArrive'
    <3>1. Exists(p)
        BY <2>1 DEF PurgeOriginal, PurgeThumb, PurgeIsSound
    <3>2. \A s \in Requests : s = subs[p].photo => ~Early(s)
        BY <3>1 DEF PhotoOwners
    <3> QED
        BY <2>1, <3>2 DEF PurgeOriginal, PurgeThumb, FilesArrive, Early, upload
  <2>2. ASSUME NEW p \in Pairs, PurgeRow(p) \/ PurgeSkips(p) PROVE FilesArrive'
      BY <1>1, <2>2 DEF PurgeRow, PurgeSkips, store, upload
  <2>3. ASSUME NEW x \in Guests \cup Tasks, StartPurge(x) PROVE FilesArrive'
      BY <1>1, <2>3 DEF StartPurge, store, upload
  <2>4. CASE FinishPurge
      BY <1>1, <2>4 DEF FinishPurge, upload
  <2> QED
      BY <1>5, <2>1, <2>2, <2>3, <2>4 DEF PurgeStep
<1>6. CASE Crash
    BY <1>6 DEF Crash, InFlight, FilesArrive, store, TypeOK
<1>7. CASE UNCHANGED vars
    BY <1>1, <1>7 DEF vars, store, upload
<1> QED
    BY <1>2, <1>3, <1>4, <1>5, <1>6, <1>7 DEF Next

LEMMA ReadsAreUsableHolds == IInv /\ [Next]_vars => ReadsAreUsable'
<1> SUFFICES ASSUME IInv, [Next]_vars PROVE ReadsAreUsable'
    OBVIOUS
<1> USE SubmissionsAssumption DEF IInv
<1>1. ASSUME \A p \in Pairs : Exists(p)' => Exists(p) /\ subs'[p].photo = subs[p].photo,
             UNCHANGED upload
      PROVE  ReadsAreUsable'
    BY <1>1 DEF ReadsAreUsable, Early, Sweeping, upload
<1>2. ASSUME NEW r \in Requests, UploadStep(r) PROVE ReadsAreUsable'
  <2>1. \A p \in Pairs : Exists(p)' =>
            \/ Exists(p) /\ subs'[p].photo = subs[p].photo
            \/ p = Target[r] /\ subs'[p].photo = r /\ Early(r)
      BY <1>2, UploadFrame, UploadPhotos DEF Exists
  <2>2. \A s \in Requests : ~Early(s) => ~Early(s)'
      BY <1>2, UploadFrame DEF Early
  <2>3. \A s \in Requests : seen[s] # NoRow /\ (Sweeping(s)' => Sweeping(s)) =>
            \A p \in Pairs : Exists(p)' /\ subs'[p].photo = seen[s].photo
                => p = Target[s] /\ ~Sweeping(s)'
      BY <2>1 DEF ReadsAreUsable
  <2>4. ASSUME NEW s \in Requests \ {r}, seen'[s] # NoRow
        PROVE  /\ \A q \in Requests : q = seen'[s].photo => ~Early(q)'
               /\ \A p \in Pairs : Exists(p)' /\ subs'[p].photo = seen'[s].photo
                      => p = Target[s] /\ ~Sweeping(s)'
    <3>1. seen'[s] = seen[s] /\ Sweeping(s)' = Sweeping(s)
        BY <1>2, UploadFrame DEF Sweeping
    <3> QED
        BY <2>2, <2>3, <2>4, <3>1 DEF ReadsAreUsable
  <2>5. ASSUME seen'[r] # NoRow
        PROVE  /\ \A q \in Requests : q = seen'[r].photo => ~Early(q)'
               /\ \A p \in Pairs : Exists(p)' /\ subs'[p].photo = seen'[r].photo
                      => p = Target[r] /\ ~Sweeping(r)'
    <3>1. CASE seen'[r] = seen[r] /\ (Sweeping(r)' => Sweeping(r))
        BY <2>2, <2>3, <2>5, <3>1 DEF ReadsAreUsable
    <3>2. CASE Admit(r)
      <4>1. seen'[r] = subs[Target[r]] /\ subs' = subs /\ ~Sweeping(r)'
          BY <3>2 DEF Admit, TypeOK, Sweeping, store
      <4> QED
          BY <2>2, <2>5, <4>1 DEF PhotoOwners, Exists
    <3>3. CASE Replace(r)
      <4>1. CASE Exists(Target[r])
        <5>1. seen'[r] = subs[Target[r]] /\ subs'[Target[r]].photo = r
            BY <3>3, <4>1, ReplacedFields DEF Replace, Fresh, TypeOK, Exists
        <5>2. seen'[r].photo # r /\ pc[r] = "ready"
            BY <3>3, <4>1, <5>1 DEF Replace, PhotoOwners, Early
        <5>3. \A p \in Pairs : Exists(p)' /\ subs'[p].photo = seen'[r].photo => FALSE
            BY <2>1, <4>1, <5>1, <5>2 DEF PhotoOwners
        <5> QED
            BY <2>2, <4>1, <5>1, <5>3 DEF PhotoOwners
      <4>2. CASE ~Exists(Target[r])
        <5>1. seen'[r] = seen[r] /\ subs' = subs
            BY <3>3, <4>2 DEF Replace, Fresh, TypeOK
        <5> QED
            BY <2>2, <2>5, <4>2, <5>1 DEF ReadsAreUsable, Exists
      <4> QED
          BY <4>1, <4>2
    <3>4. CASE ~Admit(r) /\ ~Replace(r)
      <4>1. seen'[r] = seen[r] /\ (Sweeping(r)' => Sweeping(r))
          BY <1>2, <2>5, <3>4
             DEF UploadStep, Store, RefuseCsrf, TurnAway, ThumbMade, ThumbFailed,
                 ReplaceFails, Unhide, UnhideFails, NothingToUnhide, SweepOriginal,
                 SweepThumb, SweepFails, Insert, InsertFails, MissesTask, Finish,
                 FinishUncounted, Reply, TypeOK, Sweeping
      <4> QED
          BY <3>1, <4>1
    <3> QED
        BY <3>2, <3>3, <3>4
  <2> QED
      BY <2>4, <2>5 DEF ReadsAreUsable
<1>3. ASSUME NEW p \in Pairs, ModerationStep(p) PROVE ReadsAreUsable'
  <2>1. \A q \in Pairs : Exists(q)' => Exists(q) /\ subs'[q].photo = subs[q].photo
      BY <1>3, ModerationFrame DEF TypeOK, Exists
  <2> QED
      BY <1>1, <1>3, <2>1, ModerationFrame
<1>4. ASSUME NEW t \in Tasks, HostEditsTask(t) \/ DayComes(t) PROVE ReadsAreUsable'
    BY <1>1, <1>4, TaskFrame DEF Exists
<1>5. CASE PurgeStep
    BY <1>1, <1>5, PurgeFrame DEF Exists
<1>6. CASE Crash
    BY <1>6 DEF Crash, ReadsAreUsable
<1>7. CASE UNCHANGED vars
    BY <1>1, <1>7 DEF vars, store, Exists
<1> QED
    BY <1>2, <1>3, <1>4, <1>5, <1>6, <1>7 DEF Next

LEMMA CopiesAreHeldHolds == IInv /\ [Next]_vars => CopiesAreHeld'
<1> SUFFICES ASSUME IInv, [Next]_vars PROVE CopiesAreHeld'
    OBVIOUS
<1> USE SubmissionsAssumption DEF IInv
<1>1. ASSUME UNCHANGED <<pc, seen>> PROVE CopiesAreHeld'
    BY <1>1 DEF CopiesAreHeld, Sweeping
<1>2. ASSUME NEW r \in Requests, UploadStep(r) PROVE CopiesAreHeld'
  <2>1. CASE RefuseCsrf(r) \/ TurnAway(r) \/ ThumbFailed(r) \/ ReplaceFails(r)
             \/ InsertFails(r) \/ MissesTask(r) \/ Finish(r) \/ FinishUncounted(r)
      BY <2>1 DEF CopiesAreHeld, Sweeping, RefuseCsrf, TurnAway, ThumbFailed,
                  ReplaceFails, InsertFails, MissesTask, Finish, FinishUncounted, Reply, TypeOK
  <2>2. CASE Store(r) \/ Admit(r) \/ ThumbMade(r) \/ Insert(r)
      BY <2>2 DEF CopiesAreHeld, Sweeping, Store, Admit, ThumbMade, Insert, TypeOK
  <2>3. CASE Replace(r)
    <3>1. seen'[r] # NoRow
        BY <2>3 DEF Replace, Fresh, Exists, TypeOK
    <3> QED
        BY <2>3, <3>1 DEF CopiesAreHeld, Sweeping, Replace, TypeOK
  <2>4. CASE Unhide(r) \/ UnhideFails(r) \/ NothingToUnhide(r)
             \/ SweepOriginal(r) \/ SweepThumb(r) \/ SweepFails(r)
      BY <2>4 DEF CopiesAreHeld, Sweeping, Unhide, UnhideFails, NothingToUnhide,
                  SweepOriginal, SweepThumb, SweepFails, TypeOK
  <2> QED
      BY <1>2, <2>1, <2>2, <2>3, <2>4 DEF UploadStep
<1>3. ASSUME NEW p \in Pairs, ModerationStep(p) PROVE CopiesAreHeld'
    BY <1>1, <1>3, ModerationFrame DEF upload
<1>4. ASSUME NEW t \in Tasks, HostEditsTask(t) \/ DayComes(t) PROVE CopiesAreHeld'
    BY <1>1, <1>4, TaskFrame DEF upload
<1>5. CASE PurgeStep
    BY <1>1, <1>5, PurgeFrame DEF upload
<1>6. CASE Crash
    BY <1>6 DEF Crash, CopiesAreHeld, Sweeping, InFlight, TypeOK
<1>7. CASE UNCHANGED vars
    BY <1>1, <1>7 DEF vars, upload
<1> QED
    BY <1>2, <1>3, <1>4, <1>5, <1>6, <1>7 DEF Next

\* A row that a request has read is lost only with its guest or its task.
LEMMA ReadRowsAreKept ==
    ASSUME IInv, [Next]_vars, NEW r \in Requests, seen'[r] # NoRow, ~Exists(Target[r])'
    PROVE  \/ Gone(Target[r])'
           \/ purge'.of \in {GuestOf(Target[r]), TaskOf(Target[r])}
<1> USE SubmissionsAssumption DEF IInv
<1> DEFINE p == Target[r]
<1>0. p \in Pairs /\ GuestOf(p) \in Guests /\ TaskOf(p) \in Tasks
    BY TargetsArePairs
<1>1. ASSUME seen[r] # NoRow, ~Exists(p), Gone(p) => Gone(p)', purge' = purge
      PROVE  \/ Gone(p)'
             \/ purge'.of \in {GuestOf(p), TaskOf(p)}
    BY <1>1 DEF RowsAreKept
<1>2. ASSUME NEW s \in Requests, UploadStep(s)
      PROVE  \/ Gone(p)'
             \/ purge'.of \in {GuestOf(p), TaskOf(p)}
  <2>1. ~Exists(p) /\ (Gone(p) => Gone(p)') /\ purge' = purge
      BY <1>0, <1>2, UploadFrame DEF Gone
  <2>2. seen[r] # NoRow
      BY <1>0, <1>2, <2>1, UploadFrame, UploadReads DEF Exists
  <2> QED
      BY <1>1, <2>1, <2>2
<1>3. ASSUME NEW q \in Pairs, ModerationStep(q)
      PROVE  \/ Gone(p)'
             \/ purge'.of \in {GuestOf(p), TaskOf(p)}
  <2>1. ~Exists(p)
      BY <1>0, <1>3, ModerationFrame DEF Exists, TypeOK
  <2> QED
      BY <1>1, <1>3, <2>1, ModerationFrame DEF upload, Gone
<1>4. ASSUME NEW t \in Tasks, HostEditsTask(t) \/ DayComes(t)
      PROVE  \/ Gone(p)'
             \/ purge'.of \in {GuestOf(p), TaskOf(p)}
    BY <1>0, <1>1, <1>4, TaskFrame DEF upload, Exists
<1>5. ASSUME PurgeStep
      PROVE  \/ Gone(p)'
             \/ purge'.of \in {GuestOf(p), TaskOf(p)}
  <2>0. seen[r] # NoRow
      BY <1>5, PurgeFrame DEF upload
  <2>1. ASSUME NEW x \in Guests \cup Tasks, StartPurge(x)
        PROVE  Gone(p)'
    <3>1. ~Exists(p) /\ purge = Idle
        BY <2>1 DEF StartPurge, LoopIsFree, Exists, store
    <3>2. purge.of = NoOne
        BY <3>1 DEF Idle
    <3> QED
        BY <1>0, <1>5, <2>0, <3>1, <3>2, PurgeFrame DEF RowsAreKept
  <2>2. ASSUME NEW q \in Pairs, PurgeOriginal(q) \/ PurgeThumb(q) \/ PurgeSkips(q)
        PROVE  \/ Gone(p)'
               \/ purge'.of \in {GuestOf(p), TaskOf(p)}
    <3>1. ~Exists(p)
        BY <2>2 DEF PurgeOriginal, PurgeThumb, PurgeSkips, Exists, store
    <3>2. purge'.of = purge.of
      <4>1. CASE PurgeOriginal(q)
          BY <4>1 DEF PurgeOriginal, TypeOK
      <4>2. CASE PurgeThumb(q)
          BY <4>2 DEF PurgeThumb, TypeOK
      <4>3. CASE PurgeSkips(q)
          BY <4>3 DEF PurgeSkips, TypeOK
      <4> QED
          BY <2>2, <4>1, <4>2, <4>3
    <3> QED
        BY <1>0, <1>5, <2>0, <3>1, <3>2, PurgeFrame DEF RowsAreKept
  <2>3. ASSUME NEW q \in Pairs, PurgeRow(q)
        PROVE  \/ Gone(p)'
               \/ purge'.of \in {GuestOf(p), TaskOf(p)}
    <3>1. purge'.of = purge.of
        BY <2>3 DEF PurgeRow, TypeOK
    <3>2. CASE p = q
        BY <2>3, <3>1, <3>2 DEF PurgeRow, PurgeIsSound
    <3>3. CASE p # q
      <4>1. ~Exists(p)
          BY <1>0, <2>3, <3>3 DEF PurgeRow, Exists, TypeOK
      <4> QED
          BY <1>0, <1>5, <2>0, <3>1, <4>1, PurgeFrame DEF RowsAreKept
    <3> QED
        BY <3>2, <3>3
  <2>4. ASSUME FinishPurge PROVE Gone(p)'
    <3>1. Exists(p) => p \in Owned(purge.of)
        BY <1>0, <2>4 DEF FinishPurge, Exists
    <3>2. Gone(p) \/ purge.of \in {GuestOf(p), TaskOf(p)}
        BY <1>0, <2>0, <3>1 DEF Owned, RowsAreKept
    <3>3. purge.of \in {GuestOf(p), TaskOf(p)} => Gone(p)'
        BY <1>0, <2>4 DEF FinishPurge, Gone
    <3> QED
        BY <1>0, <1>5, <3>2, <3>3, PurgeFrame
  <2> QED
      BY <1>5, <2>1, <2>2, <2>3, <2>4 DEF PurgeStep
<1>6. CASE Crash
    BY <1>6 DEF Crash
<1>7. CASE UNCHANGED vars
    BY <1>1, <1>7 DEF vars, store, upload, Exists, Gone
<1> QED
    BY <1>2, <1>3, <1>4, <1>5, <1>6, <1>7 DEF Next

\* Nothing takes a photo out of a row in the stretch that wrote it there.
LEMMA WrittenPhotosStay ==
    ASSUME IInv, [Next]_vars, NEW s \in Requests, MidStretch(s)'
    PROVE  Holds(Target[s], s)' \/ Gone(Target[s])'
<1> USE SubmissionsAssumption DEF IInv
<1>0. Target[s] \in Pairs
    OBVIOUS
<1>1. ASSUME MidStretch(s), subs' = subs, Gone(Target[s]) => Gone(Target[s])'
      PROVE  Holds(Target[s], s)' \/ Gone(Target[s])'
    BY <1>1 DEF RowsAreKept, Holds, Exists
<1>2. ASSUME NEW r \in Requests, UploadStep(r), s # r
      PROVE  Holds(Target[s], s)' \/ Gone(Target[s])'
    BY <1>1, <1>2, UploadFrame, StretchIsAlone DEF MidStretch, Gone
<1>3. CASE UploadStep(s)
  <2>1. Gone(Target[s]) => Gone(Target[s])'
      BY <1>3, UploadFrame DEF Gone
  <2>2. CASE Replace(s)
    <3>1. CASE Exists(Target[s])
        BY <2>2, <3>1, ReplacedFields
           DEF Replace, Fresh, Holds, Exists, TypeOK
    <3>2. CASE ~Exists(Target[s])
      <4>1. purge.of = NoOne
          BY <2>2 DEF Replace, LoopIsFree, Idle
      <4> QED
          BY <1>0, <2>1, <2>2, <3>2, <4>1, TargetsArePairs DEF Replace, RowsAreKept
    <3> QED
        BY <3>1, <3>2
  <2>3. CASE Insert(s)
      BY <2>3, NewRowFields DEF Insert, NewRow, Holds, Exists, TypeOK
  <2>4. CASE Unhide(s)
      BY <1>0, <2>1, <2>4, ShownFields
         DEF Unhide, Holds, Exists, RowsAreKept, MidStretch, TypeOK
  <2>5. CASE subs' = subs /\ MidStretch(s)
      BY <1>1, <2>1, <2>5
  <2> QED
      BY <1>3, <2>2, <2>3, <2>4, <2>5
         DEF UploadStep, Store, RefuseCsrf, Admit, TurnAway, ThumbMade, ThumbFailed,
             ReplaceFails, UnhideFails, NothingToUnhide, SweepOriginal, SweepThumb,
             SweepFails, InsertFails, MissesTask, Finish, FinishUncounted, Reply, MidStretch,
             TypeOK, store
<1>4. ASSUME NEW p \in Pairs, ModerationStep(p) PROVE FALSE
    BY <1>4, ModerationFrame, StretchIsAlone DEF upload, MidStretch
<1>5. ASSUME NEW t \in Tasks, HostEditsTask(t) \/ DayComes(t)
      PROVE  Holds(Target[s], s)' \/ Gone(Target[s])'
    BY <1>0, <1>1, <1>5, TaskFrame DEF upload, MidStretch
<1>6. CASE PurgeStep
    BY <1>6, PurgeFrame, StretchIsAlone DEF upload, MidStretch
<1>7. CASE Crash
    BY <1>7 DEF Crash, InFlight, MidStretch, TypeOK
<1>8. CASE UNCHANGED vars
    BY <1>1, <1>8 DEF vars, store, upload, MidStretch, Gone
<1> QED
    BY <1>2, <1>3, <1>4, <1>5, <1>6, <1>7, <1>8 DEF Next

LEMMA RowsAreKeptHolds == IInv /\ [Next]_vars => RowsAreKept'
    BY ReadRowsAreKept, WrittenPhotosStay DEF RowsAreKept

LEMMA VisibilityIsKnownHolds == IInv /\ [Next]_vars => VisibilityIsKnown'
<1> SUFFICES ASSUME IInv, [Next]_vars, NEW s \in Requests,
                    Holds(Target[s], s)', MidStretch(s)'
             PROVE  Knows(s, subs[Target[s]])'
    BY DEF VisibilityIsKnown, Knows, MidStretch
<1> USE SubmissionsAssumption DEF IInv
<1> DEFINE p == Target[s]
<1>0. p \in Pairs
    OBVIOUS
<1>1. ASSUME MidStretch(s), subs' = subs, pc'[s] = pc[s], seen'[s] = seen[s],
             answer'[s] = answer[s], faulted => faulted'
      PROVE  Knows(s, subs[p])'
  <2>1. Holds(p, s)
      BY <1>1 DEF Holds, Exists
  <2>2. Knows(s, subs[p])
      BY <2>1 DEF VisibilityIsKnown, Knows
  <2> QED
      BY <1>1, <2>2 DEF Knows
<1>2. ASSUME NEW r \in Requests, UploadStep(r), s # r
      PROVE  Knows(s, subs[p])'
  <2>1. pc'[s] = pc[s] /\ seen'[s] = seen[s] /\ answer'[s] = answer[s]
      BY <1>2, UploadFrame
  <2>2. MidStretch(s)
      BY <2>1 DEF MidStretch
  <2>3. subs' = subs /\ (faulted => faulted')
      BY <1>2, <2>2, UploadFrame, StretchIsAlone
  <2> QED
      BY <1>1, <2>1, <2>2, <2>3
<1>3. CASE UploadStep(s)
  <2>1. CASE Replace(s)
    <3>1. Exists(p)
        BY <2>1 DEF Replace, Holds, Exists
    <3>2. /\ seen'[s] = subs[p] /\ pc'[s] = "committed"
          /\ subs'[p] = Replaced(subs[p], s, subs[p])
        BY <2>1, <3>1 DEF Replace, Fresh, TypeOK
    <3>3. /\ subs'[p].down = subs[p].down /\ subs'[p].by = subs[p].by
          /\ subs'[p].resubmitted = (subs[p].resubmitted \/ Sticky(subs[p]))
        BY <3>1, <3>2, ReplacedFields DEF TypeOK, Exists
    <3> QED
        BY <3>2, <3>3 DEF Knows
  <2>2. CASE Insert(s)
    <3>1. subs'[p] = NewRow(s) /\ seen'[s] = NoRow /\ pc'[s] = "written"
        BY <2>2 DEF Insert, TypeOK
    <3> QED
        BY <3>1 DEF Knows, NewRow
  <2>3. CASE Unhide(s)
    <3>1. Exists(p)
        BY <2>3 DEF Unhide, Holds, Exists
    <3>2. subs'[p] = Shown(subs[p]) /\ pc'[s] = "unhidden" /\ answer'[s] = "reinstated"
        BY <2>3, <3>1 DEF Unhide, TypeOK
    <3>3. ~subs'[p].down
        BY <3>1, <3>2, ShownFields DEF TypeOK, Exists
    <3> QED
        BY <3>2, <3>3 DEF Knows
  <2>4. CASE UnhideFails(s) \/ NothingToUnhide(s)
    <3>1. /\ subs' = subs /\ pc[s] = "committed" /\ pc'[s] = "unhidden"
          /\ seen' = seen /\ answer' = answer
          /\ HiddenByOwner(seen[s]) => faulted'
        BY <2>4 DEF UnhideFails, NothingToUnhide, TypeOK, store
    <3>2. Holds(p, s) /\ seen[s] # NoRow /\ answer[s] # "reinstated"
        BY <3>1 DEF Holds, Exists, CopiesAreHeld, Sweeping, NotAnsweredYet
    <3>3. Knows(s, subs[p])
        BY <3>2 DEF VisibilityIsKnown, Knows
    <3> QED
        BY <3>1, <3>2, <3>3 DEF Knows, Sticky, HiddenByOwner
  <2>5. CASE SweepOriginal(s) \/ SweepThumb(s) \/ SweepFails(s)
    <3>1. /\ subs' = subs /\ seen' = seen /\ answer' = answer
          /\ pc[s] \in {"unhidden", "half_swept"}
          /\ pc'[s] \in {"half_swept", "written"}
          /\ faulted => faulted'
        BY <2>5 DEF SweepOriginal, SweepThumb, SweepFails, TypeOK, store
    <3>2. Knows(s, subs[p])
        BY <3>1 DEF Holds, Exists, VisibilityIsKnown, Knows
    <3> QED
        BY <3>1, <3>2 DEF Knows
  <2> QED
      BY <1>3, <2>1, <2>2, <2>3, <2>4, <2>5
         DEF UploadStep, Store, RefuseCsrf, Admit, TurnAway, ThumbMade, ThumbFailed,
             ReplaceFails, InsertFails, MissesTask, Finish, FinishUncounted, Reply, MidStretch,
             TypeOK
<1>4. ASSUME NEW q \in Pairs, ModerationStep(q) PROVE FALSE
    BY <1>4, ModerationFrame, StretchIsAlone DEF upload, MidStretch
<1>5. ASSUME NEW t \in Tasks, HostEditsTask(t) \/ DayComes(t)
      PROVE  Knows(s, subs[p])'
    BY <1>1, <1>5, TaskFrame DEF upload, MidStretch
<1>6. CASE PurgeStep
    BY <1>6, PurgeFrame, StretchIsAlone DEF upload, MidStretch
<1>7. CASE Crash
    BY <1>7 DEF Crash, InFlight, MidStretch, TypeOK
<1>8. CASE UNCHANGED vars
    BY <1>1, <1>8 DEF vars, store, upload, MidStretch
<1> QED
    BY <1>2, <1>3, <1>4, <1>5, <1>6, <1>7, <1>8 DEF Next

LEMMA NotAnsweredYetHolds == IInv /\ [Next]_vars => NotAnsweredYet'
<1> SUFFICES ASSUME IInv, [Next]_vars PROVE NotAnsweredYet'
    OBVIOUS
<1> USE SubmissionsAssumption DEF IInv
<1>1. ASSUME UNCHANGED <<pc, answer>> PROVE NotAnsweredYet'
    BY <1>1 DEF NotAnsweredYet, Early
<1>2. ASSUME NEW r \in Requests, UploadStep(r) PROVE NotAnsweredYet'
  <2>1. Early(r)' \/ pc'[r] = "committed" => answer'[r] = "none"
      BY <1>2 DEF UploadStep, Store, RefuseCsrf, Admit, TurnAway, ThumbMade,
                  ThumbFailed, Replace, ReplaceFails, Unhide, UnhideFails,
                  NothingToUnhide, SweepOriginal, SweepThumb, SweepFails, Insert,
                  InsertFails, MissesTask, Finish, FinishUncounted, Reply, NotAnsweredYet,
                  Early, TypeOK
  <2> QED
      BY <1>2, <2>1, UploadFrame DEF NotAnsweredYet, Early
<1>3. ASSUME NEW p \in Pairs, ModerationStep(p) PROVE NotAnsweredYet'
    BY <1>1, <1>3, ModerationFrame DEF upload
<1>4. ASSUME NEW t \in Tasks, HostEditsTask(t) \/ DayComes(t) PROVE NotAnsweredYet'
    BY <1>1, <1>4, TaskFrame DEF upload
<1>5. CASE PurgeStep
    BY <1>1, <1>5, PurgeFrame DEF upload
<1>6. CASE Crash
    BY <1>6 DEF Crash, NotAnsweredYet, Early, InFlight, TypeOK
<1>7. CASE UNCHANGED vars
    BY <1>1, <1>7 DEF vars, upload
<1> QED
    BY <1>2, <1>3, <1>4, <1>5, <1>6, <1>7 DEF Next

LEMMA ResubmittedIsPendingHolds == IInv /\ [Next]_vars => ResubmittedIsPending'
<1> SUFFICES ASSUME IInv, [Next]_vars PROVE ResubmittedIsPending'
    OBVIOUS
<1> USE SubmissionsAssumption DEF IInv
<1>1. ASSUME \A p \in Pairs : subs'[p] \in {subs[p], NoRow}
      PROVE  ResubmittedIsPending'
    BY <1>1 DEF ResubmittedIsPending, Exists
<1>2. ASSUME NEW r \in Requests, UploadStep(r) PROVE ResubmittedIsPending'
  <2> DEFINE p == Target[r]
  <2> SUFFICES ASSUME Exists(p)', subs'[p] # subs[p], subs'[p].resubmitted
               PROVE  Sticky(subs'[p])
      BY <1>2, UploadFrame DEF ResubmittedIsPending, Exists
  <2>1. CASE Replace(r)
    <3>1. Exists(p) /\ subs'[p] = Replaced(subs[p], r, subs[p])
        BY <2>1 DEF Replace, Fresh, TypeOK
    <3>2. /\ subs'[p].down = subs[p].down /\ subs'[p].by = subs[p].by
          /\ subs'[p].resubmitted = (subs[p].resubmitted \/ Sticky(subs[p]))
      <4>1. subs[p] \in Row
          BY <3>1 DEF TypeOK, Exists
      <4>2. LET new == Replaced(subs[p], r, subs[p]) IN
            /\ new.down = subs[p].down /\ new.by = subs[p].by
            /\ new.resubmitted = (subs[p].resubmitted \/ Sticky(subs[p]))
          BY <4>1, ReplacedFields DEF TypeOK
      <4> QED
          BY <3>1, <4>2
    <3>3. Sticky(subs[p])
      <4>1. subs[p].resubmitted => Sticky(subs[p])
          BY <3>1 DEF ResubmittedIsPending
      <4>2. subs[p].resubmitted \/ Sticky(subs[p])
          BY <3>2
      <4> QED
          BY <4>1, <4>2
    <3> QED
        BY <3>2, <3>3 DEF Sticky, HiddenByOwner
  <2>2. CASE Unhide(r)
    <3>1. Exists(p) /\ subs'[p] = Shown(subs[p])
        BY <2>2 DEF Unhide, TypeOK
    <3> QED
        BY <3>1, ShownFields DEF TypeOK, Exists
  <2>3. CASE Insert(r)
      BY <2>3 DEF Insert, NewRow, TypeOK
  <2> QED
      BY <1>2, <2>1, <2>2, <2>3
         DEF UploadStep, Store, RefuseCsrf, Admit, TurnAway, ThumbMade, ThumbFailed,
             ReplaceFails, UnhideFails, NothingToUnhide, SweepOriginal, SweepThumb,
             SweepFails, InsertFails, MissesTask, Finish, FinishUncounted, store
<1>3. ASSUME NEW p \in Pairs, ModerationStep(p) PROVE ResubmittedIsPending'
  <2>1. \A q \in Pairs \ {p} : subs'[q] = subs[q]
      BY <1>3, ModerationFrame DEF TypeOK
  <2>2. subs'[p].resubmitted => Sticky(subs'[p])
    <3>0. subs[p] \in Row
        BY <1>3, ModerationFrame DEF TypeOK, Exists
    <3>1. CASE GuestDeletes(p)
      <4>1. ~subs[p].resubmitted
          BY <3>1 DEF GuestDeletes, ResubmittedIsPending
      <4>2. subs'[p] = [subs[p] EXCEPT !.down = TRUE, !.by = "guest"]
          BY <3>1 DEF GuestDeletes, SetVisibility, TypeOK
      <4> QED
          BY <3>0, <4>1, <4>2 DEF Row
    <3>2. CASE HostTakesDown(p)
      <4>1. subs'[p] = [subs[p] EXCEPT !.down = TRUE, !.by = "admin"]
          BY <3>2 DEF HostTakesDown, SetVisibility, TypeOK
      <4> QED
          BY <3>0, <4>1 DEF Row, Sticky, HiddenByOwner
    <3>3. CASE HostRestores(p)
        BY <3>0, <3>3, ShownFields DEF HostRestores, SetVisibility, TypeOK
    <3> QED
        BY <1>3, <3>1, <3>2, <3>3 DEF ModerationStep
  <2> QED
      BY <2>1, <2>2 DEF ResubmittedIsPending, Exists
<1>4. ASSUME NEW t \in Tasks, HostEditsTask(t) \/ DayComes(t) PROVE ResubmittedIsPending'
    BY <1>1, <1>4, TaskFrame
<1>5. CASE PurgeStep
    BY <1>1, <1>5, PurgeFrame
<1>6. CASE Crash
    BY <1>1, <1>6 DEF Crash, store
<1>7. CASE UNCHANGED vars
    BY <1>1, <1>7 DEF vars, store
<1> QED
    BY <1>2, <1>3, <1>4, <1>5, <1>6, <1>7 DEF Next

LEMMA RowsHaveParentsHolds == IInv /\ [Next]_vars => RowsHaveParents'
<1> SUFFICES ASSUME IInv, [Next]_vars, NEW p \in Pairs, Exists(p)' PROVE ~Gone(p)'
    BY DEF RowsHaveParents
<1> USE SubmissionsAssumption DEF IInv
<1>0. TaskOf(p) \in Tasks
    BY TargetsArePairs
<1>1. ASSUME UNCHANGED <<guests, mode>>, Exists(p) PROVE ~Gone(p)'
    BY <1>1 DEF RowsHaveParents, Gone
<1>2. ASSUME NEW r \in Requests, UploadStep(r) PROVE ~Gone(p)'
  <2>1. CASE Insert(r) /\ p = Target[r]
      BY <2>1 DEF Insert, CanInsert, Gone
  <2>2. CASE Exists(p)
      BY <1>1, <1>2, <2>2, UploadFrame
  <2>3. CASE Insert(r) /\ p # Target[r]
      BY <1>2, <2>2, <2>3, UploadFrame DEF Exists
  <2>4. CASE Replace(r) \/ Unhide(r)
    <3>1. CASE Exists(Target[r])
        BY <1>2, <2>2, <3>1, UploadFrame DEF Exists
    <3>2. CASE ~Exists(Target[r])
        BY <2>2, <2>4, <3>2 DEF Replace, Unhide, Exists
    <3> QED
        BY <3>1, <3>2
  <2>5. CASE subs' = subs
      BY <2>2, <2>5 DEF Exists
  <2> QED
      BY <1>2, <2>1, <2>3, <2>4, <2>5
         DEF UploadStep, Store, RefuseCsrf, Admit, TurnAway, ThumbMade, ThumbFailed,
             ReplaceFails, UnhideFails, NothingToUnhide, SweepOriginal, SweepThumb,
             SweepFails, InsertFails, MissesTask, Finish, FinishUncounted, store
<1>3. ASSUME NEW q \in Pairs, ModerationStep(q) PROVE ~Gone(p)'
  <2>1. Exists(p)
      BY <1>3, ModerationFrame DEF Exists, TypeOK
  <2> QED
      BY <1>1, <1>3, <2>1, ModerationFrame
<1>4. ASSUME NEW t \in Tasks, HostEditsTask(t) \/ DayComes(t) PROVE ~Gone(p)'
  <2>1. Exists(p) /\ guests' = guests
      BY <1>4, TaskFrame DEF Exists
  <2>2. mode'[TaskOf(p)] = "deleted" => mode[TaskOf(p)] = "deleted"
      BY <1>0, <1>4 DEF HostEditsTask, DayComes, TypeOK
  <2> QED
      BY <2>1, <2>2 DEF RowsHaveParents, Gone
<1>5. CASE PurgeStep
  <2>1. ASSUME NEW x \in Guests \cup Tasks, StartPurge(x) PROVE ~Gone(p)'
      BY <1>1, <2>1 DEF StartPurge, store, Exists
  <2>2. ASSUME NEW q \in Pairs, PurgeOriginal(q) \/ PurgeThumb(q) \/ PurgeSkips(q)
        PROVE  ~Gone(p)'
      BY <1>1, <2>2 DEF PurgeOriginal, PurgeThumb, PurgeSkips, store, Exists
  <2>3. ASSUME NEW q \in Pairs, PurgeRow(q) PROVE ~Gone(p)'
      BY <1>1, <1>5, <2>3, PurgeFrame DEF PurgeRow, Exists
  <2>4. CASE FinishPurge
    <3>1. Exists(p) /\ p \notin Owned(purge.of)
        BY <2>4 DEF FinishPurge, Exists
    <3>2. purge.of \notin {GuestOf(p), TaskOf(p)}
        BY <3>1 DEF Owned
    <3> QED
        BY <1>0, <2>4, <3>1, <3>2 DEF FinishPurge, RowsHaveParents, Gone
  <2> QED
      BY <1>5, <2>1, <2>2, <2>3, <2>4 DEF PurgeStep
<1>6. CASE Crash
    BY <1>1, <1>6 DEF Crash, store, Exists
<1>7. CASE UNCHANGED vars
    BY <1>1, <1>7 DEF vars, store, Exists
<1> QED
    BY <1>2, <1>3, <1>4, <1>5, <1>6, <1>7 DEF Next

LEMMA InvariantIsKept == IInv /\ [Next]_vars => IInv'
    BY TypeHolds, RowsHaveParentsHolds, OneStretchHolds, PurgeIsSoundHolds, PhotoOwnersHolds,
       FilesArriveHolds, ReadsAreUsableHolds, CopiesAreHeldHolds, RowsAreKeptHolds,
       VisibilityIsKnownHolds, NotAnsweredYetHolds, ResubmittedIsPendingHolds
       DEF IInv

LEMMA InvariantAlways == Spec => []IInv
    BY InvariantStarts, InvariantIsKept, PTL DEF Spec

-----------------------------------------------------------------------------
(* The theorems: what the inductive invariant is for.                      *)

\* A photo in the host's queue of resubmissions is one the host has hidden.
THEOREM ResubmissionsArePending == Spec => []ResubmittedIsPending
    BY InvariantAlways, PTL DEF IInv

\* No step but the host's restore, or the deletion of the row, ends a takedown.
LEMMA TakedownStep ==
    ASSUME IInv, [Next]_vars, NEW p \in Pairs,
           Exists(p), Sticky(subs[p]), subs'[p] # NoRow
    PROVE  Sticky(subs'[p]) \/ HostRestores(p)
<1> USE SubmissionsAssumption DEF IInv
<1>1. ASSUME subs'[p] = subs[p] PROVE Sticky(subs'[p])
    BY <1>1
<1>2. ASSUME NEW r \in Requests, UploadStep(r), subs'[p] # subs[p]
      PROVE  Sticky(subs'[p])
  <2>1. p = Target[r]
      BY <1>2, UploadFrame
  <2>2. CASE Replace(r)
    <3>1. subs'[p] = Replaced(subs[p], r, subs[p])
        BY <2>1, <2>2 DEF Replace, Fresh, TypeOK
    <3>2. LET new == Replaced(subs[p], r, subs[p]) IN
          new.down = subs[p].down /\ new.by = subs[p].by
        BY ReplacedFields DEF TypeOK, Exists
    <3> QED
        BY <3>1, <3>2 DEF Sticky, HiddenByOwner
  <2>3. CASE Unhide(r)
    <3>1. Holds(p, r)
        BY <2>1, <2>3 DEF Unhide, RowsAreKept, MidStretch, RowsHaveParents
    <3>2. Knows(r, subs[p])
        BY <2>1, <3>1 DEF VisibilityIsKnown
    <3> QED
        BY <2>3, <3>2 DEF Unhide, Knows, Sticky, HiddenByOwner
  <2>4. CASE Insert(r)
      BY <2>1, <2>4 DEF Insert, CanInsert
  <2> QED
      BY <1>2, <2>2, <2>3, <2>4
         DEF UploadStep, Store, RefuseCsrf, Admit, TurnAway, ThumbMade, ThumbFailed,
             ReplaceFails, UnhideFails, NothingToUnhide, SweepOriginal, SweepThumb,
             SweepFails, InsertFails, MissesTask, Finish, FinishUncounted, store
<1>3. ASSUME NEW q \in Pairs, ModerationStep(q), subs'[p] # subs[p]
      PROVE  Sticky(subs'[p]) \/ HostRestores(p)
  <2>1. p = q /\ subs[p] \in Row
      BY <1>3, ModerationFrame DEF TypeOK, Exists
  <2>2. CASE HostTakesDown(p)
    <3>1. subs'[p] = [subs[p] EXCEPT !.down = TRUE, !.by = "admin"]
        BY <2>2 DEF HostTakesDown, SetVisibility, TypeOK
    <3> QED
        BY <2>1, <3>1 DEF Row, Sticky, HiddenByOwner
  <2>3. ~GuestDeletes(p)
      BY DEF GuestDeletes
  <2> QED
      BY <1>3, <2>1, <2>2, <2>3 DEF ModerationStep
<1>4. ASSUME NEW t \in Tasks, HostEditsTask(t) \/ DayComes(t) PROVE subs' = subs
    BY <1>4, TaskFrame
<1>5. CASE PurgeStep
    BY <1>1, <1>5, PurgeFrame
<1>6. CASE Crash \/ UNCHANGED vars
    BY <1>1, <1>6 DEF Crash, vars, store
<1> QED
    BY <1>1, <1>2, <1>3, <1>4, <1>5, <1>6 DEF Next

\* Only the host's own restore brings a taken-down photo back.
THEOREM TakedownsStick == Spec => HostTakedownIsSticky
<1>1. IInv /\ [Next]_vars =>
        [\A p \in Pairs :
           Exists(p) /\ Sticky(subs[p]) /\ subs'[p] # NoRow
               => Sticky(subs'[p]) \/ HostRestores(p)]_vars
    BY TakedownStep
<1> QED
    BY <1>1, InvariantAlways, PTL DEF Spec, HostTakedownIsSticky

\* A row keeps its bonus, and gains one only by a replacement, never the lucky one.
LEMMA BonusStep ==
    ASSUME IInv, [Next]_vars, NEW p \in Pairs, Exists(p), subs'[p] # NoRow
    PROVE  /\ subs[p].bonus # "none" => subs'[p].bonus = subs[p].bonus
           /\ subs'[p].bonus = "lucky" => subs[p].bonus = "lucky"
<1> USE SubmissionsAssumption DEF IInv
<1> DEFINE Kept == /\ subs[p].bonus # "none" => subs'[p].bonus = subs[p].bonus
                   /\ subs'[p].bonus = "lucky" => subs[p].bonus = "lucky"
<1>1. ASSUME subs'[p] = subs[p] PROVE Kept
    BY <1>1
<1>2. ASSUME NEW r \in Requests, UploadStep(r), subs'[p] # subs[p] PROVE Kept
  <2>1. p = Target[r] /\ subs[p] \in Row
      BY <1>2, UploadFrame DEF TypeOK, Exists
  <2>2. CASE Replace(r)
    <3>1. subs'[p] = Replaced(subs[p], r, subs[p])
        BY <2>1, <2>2 DEF Replace, Fresh, TypeOK
    <3>2. Replaced(subs[p], r, subs[p]).bonus = BonusAfter(r, subs[p])
        BY <2>1, ReplacedFields DEF TypeOK
    <3> QED
        BY <3>1, <3>2 DEF BonusAfter
  <2>3. CASE Unhide(r)
      BY <2>1, <2>3, ShownFields DEF Unhide, TypeOK
  <2>4. CASE Insert(r)
      BY <2>1, <2>4 DEF Insert, CanInsert
  <2> QED
      BY <1>2, <2>2, <2>3, <2>4
         DEF UploadStep, Store, RefuseCsrf, Admit, TurnAway, ThumbMade, ThumbFailed,
             ReplaceFails, UnhideFails, NothingToUnhide, SweepOriginal, SweepThumb,
             SweepFails, InsertFails, MissesTask, Finish, FinishUncounted, store
<1>3. ASSUME NEW q \in Pairs, ModerationStep(q) PROVE Kept
    BY <1>3, ModerationFrame DEF TypeOK
<1>4. ASSUME NEW t \in Tasks, HostEditsTask(t) \/ DayComes(t) PROVE Kept
    BY <1>4, TaskFrame
<1>5. CASE PurgeStep
    BY <1>1, <1>5, PurgeFrame
<1>6. CASE Crash \/ UNCHANGED vars
    BY <1>1, <1>6 DEF Crash, vars, store
<1> QED
    BY <1>1, <1>2, <1>3, <1>4, <1>5, <1>6 DEF Next

\* A banked bonus survives every later replacement, takedown and restore.
THEOREM BonusesAreBankedOnce == Spec => BonusIsBankedOnce
<1>1. IInv /\ [Next]_vars =>
        [\A p \in Pairs :
           Exists(p) /\ subs'[p] # NoRow
               => /\ subs[p].bonus # "none" => subs'[p].bonus = subs[p].bonus
                  /\ subs'[p].bonus = "lucky" => subs[p].bonus = "lucky"]_vars
    BY BonusStep
<1> QED
    BY <1>1, InvariantAlways, PTL DEF Spec, BonusIsBankedOnce

\* Files leave the disk only when no row needs them.
LEMMA WholeStep ==
    ASSUME IInv, [Next]_vars, NEW p \in Pairs, subs'[p] # NoRow, Exists(p) => Whole(p)
    PROVE  Whole(p)' \/ purge'.at = p
<1> USE SubmissionsAssumption DEF IInv
<1>1. ASSUME Exists(p), subs'[p].photo = subs[p].photo,
             subs[p].photo \in originals => subs[p].photo \in originals',
             subs[p].photo \in thumbs => subs[p].photo \in thumbs'
      PROVE  Whole(p)'
    BY <1>1 DEF Whole
<1>2. ASSUME NEW r \in Requests, UploadStep(r) PROVE Whole(p)'
  <2>1. CASE Replace(r) \/ Insert(r)
    <3>1. /\ pc[r] = "ready" /\ r \in originals /\ r \in thumbs
          /\ originals' = originals /\ thumbs' = thumbs
        BY <2>1 DEF Replace, Insert, FilesArrive
    <3>2. \/ Exists(p) /\ subs'[p].photo = subs[p].photo
          \/ subs'[p].photo = r
        BY <1>2, UploadFrame, UploadPhotos DEF Exists
    <3> QED
        BY <1>1, <3>1, <3>2 DEF Whole
  <2>2. CASE Unhide(r)
    <3>1. Exists(p) /\ subs'[p].photo = subs[p].photo
      <4>1. CASE p = Target[r]
          BY <2>2, <4>1, ShownFields DEF Unhide, Exists, TypeOK
      <4>2. CASE p # Target[r]
          BY <1>2, <4>2, UploadFrame DEF Exists
      <4> QED
          BY <4>1, <4>2
    <3> QED
        BY <1>1, <2>2, <3>1 DEF Unhide
  <2>3. CASE RefuseCsrf(r) \/ TurnAway(r) \/ ThumbFailed(r) \/ ReplaceFails(r)
    <3>1. /\ Early(r) /\ subs' = subs
          /\ originals' = originals \ {r} /\ thumbs' \in {thumbs, thumbs \ {r}}
        BY <2>3 DEF RefuseCsrf, TurnAway, ThumbFailed, ReplaceFails, Early
    <3>2. Exists(p) /\ subs[p].photo # r
        BY <3>1 DEF PhotoOwners, Exists
    <3> QED
        BY <1>1, <3>1, <3>2
  <2>4. CASE SweepOriginal(r) \/ SweepThumb(r)
    <3>1. /\ Sweeping(r) /\ subs' = subs
          /\ originals' \in {originals, originals \ {seen[r].photo}}
          /\ thumbs' \in {thumbs, thumbs \ {seen[r].photo}}
        BY <2>4 DEF SweepOriginal, SweepThumb, Sweeping
    <3>2. Exists(p) /\ subs[p].photo # seen[r].photo
        BY <3>1 DEF ReadsAreUsable, CopiesAreHeld, Exists
    <3> QED
        BY <1>1, <3>1, <3>2
  <2>5. CASE subs' = subs /\ originals \subseteq originals' /\ thumbs \subseteq thumbs'
      BY <1>1, <2>5 DEF Exists
  <2> QED
      BY <1>2, <2>1, <2>2, <2>3, <2>4, <2>5
         DEF UploadStep, Store, Admit, ThumbMade, UnhideFails, NothingToUnhide,
             SweepFails, InsertFails, MissesTask, Finish, FinishUncounted, store
<1>3. ASSUME NEW q \in Pairs, ModerationStep(q) PROVE Whole(p)'
  <2>1. Exists(p) /\ subs'[p].photo = subs[p].photo
      BY <1>3, ModerationFrame DEF Exists, TypeOK
  <2> QED
      BY <1>1, <1>3, <2>1, ModerationFrame
<1>4. ASSUME NEW t \in Tasks, HostEditsTask(t) \/ DayComes(t) PROVE Whole(p)'
    BY <1>1, <1>4, TaskFrame DEF Exists
<1>5. CASE PurgeStep
  <2>0. Exists(p) /\ subs'[p] = subs[p]
      BY <1>5, PurgeFrame DEF Exists
  <2>1. ASSUME NEW q \in Pairs, PurgeOriginal(q) \/ PurgeThumb(q), p # q
        PROVE  Whole(p)'
    <3>1. Exists(q)
        BY <2>1 DEF PurgeOriginal, PurgeThumb, PurgeIsSound
    <3>2. subs[p].photo # subs[q].photo
        BY <2>0, <2>1, <3>1 DEF PhotoOwners
    <3> QED
        BY <1>1, <2>0, <2>1, <3>2 DEF PurgeOriginal, PurgeThumb
  <2>2. CASE PurgeOriginal(p)
      BY <2>2 DEF PurgeOriginal, TypeOK
  <2>3. CASE PurgeThumb(p)
      BY <2>3 DEF PurgeThumb, TypeOK
  <2>4. ASSUME NEW q \in Pairs, PurgeRow(q) \/ PurgeSkips(q) PROVE Whole(p)'
      BY <1>1, <2>0, <2>4 DEF PurgeRow, PurgeSkips, store
  <2>5. ASSUME NEW x \in Guests \cup Tasks, StartPurge(x) PROVE Whole(p)'
      BY <1>1, <2>0, <2>5 DEF StartPurge, store
  <2>6. CASE FinishPurge
      BY <1>1, <2>0, <2>6 DEF FinishPurge
  <2> QED
      BY <1>5, <2>1, <2>2, <2>3, <2>4, <2>5, <2>6 DEF PurgeStep
<1>6. CASE Crash \/ UNCHANGED vars
    BY <1>1, <1>6 DEF Crash, vars, store, Exists
<1> QED
    BY <1>2, <1>3, <1>4, <1>5, <1>6 DEF Next

\* No sweep, rollback or crash takes the files of a row that stays.
THEOREM FilesOutliveSweeps == Spec => RowsStayWhole
<1>1. IInv /\ [Next]_vars =>
        [\A p \in Pairs :
           subs'[p] # NoRow /\ (Exists(p) => Whole(p))
               => Whole(p)' \/ purge'.at = p]_vars
    BY WholeStep
<1> QED
    BY <1>1, InvariantAlways, PTL DEF Spec, RowsStayWhole

\* An answer comes from an upload that gives up early or one that finishes.
LEMMA WhoAnswers ==
    ASSUME IInv, [Next]_vars, NEW r \in Requests, Answering(r)
    PROVE  \/ /\ Early(r) /\ subs' = subs
              /\ answer'[r] \notin Saved
           \/ /\ pc[r] = "written"
              /\ UNCHANGED <<guests, mode, subs>>
              /\ answer'[r] = Status(r)
              /\ faulted => faulted'
<1> USE SubmissionsAssumption DEF IInv
<1>1. CASE UploadStep(r)
  <2>1. CASE RefuseCsrf(r) \/ TurnAway(r) \/ ThumbFailed(r) \/ ReplaceFails(r)
             \/ InsertFails(r) \/ MissesTask(r)
      BY <2>1 DEF RefuseCsrf, TurnAway, ThumbFailed, ReplaceFails, InsertFails, MissesTask,
                  Reply, Early, Saved, TypeOK, store
  <2>2. CASE Finish(r) \/ FinishUncounted(r)
      BY <2>2 DEF Finish, FinishUncounted, Reply, TypeOK, store
  <2> QED
      BY <1>1, <2>1, <2>2
         DEF UploadStep, Store, Admit, ThumbMade, Replace, Unhide, UnhideFails,
             NothingToUnhide, SweepOriginal, SweepThumb, SweepFails, Insert,
             Answering, TypeOK
<1>2. ASSUME NEW s \in Requests \ {r}, UploadStep(s) PROVE FALSE
    BY <1>2, UploadFrame DEF Answering
<1>3. ASSUME NEW p \in Pairs, ModerationStep(p) PROVE FALSE
    BY <1>3, ModerationFrame DEF Answering, upload
<1>4. ASSUME NEW t \in Tasks, HostEditsTask(t) \/ DayComes(t) PROVE FALSE
    BY <1>4, TaskFrame DEF Answering, upload
<1>5. ASSUME PurgeStep PROVE FALSE
    BY <1>5, PurgeFrame DEF Answering, upload
<1>6. ASSUME Crash PROVE FALSE
    BY <1>6 DEF Crash, Answering, InFlight, TypeOK
<1>7. ASSUME UNCHANGED vars PROVE FALSE
    BY <1>7 DEF Answering, vars, upload
<1> QED
    BY <1>1, <1>2, <1>3, <1>4, <1>5, <1>6, <1>7 DEF Next

LEMMA StatusIsSaved ==
    ASSUME NEW r \in Requests PROVE Status(r) \in Saved
    BY DEF Status, Saved

LEMMA TruthStep ==
    ASSUME IInv, [Next]_vars, NEW r \in Requests, Answering(r)
    PROVE  IF answer'[r] \in Saved THEN Holds(Target[r], r)' \/ Gone(Target[r])'
           ELSE \A p \in Pairs : ~Holds(p, r)'
<1> USE SubmissionsAssumption DEF IInv
<1>1. CASE Early(r) /\ subs' = subs /\ answer'[r] \notin Saved
    BY <1>1 DEF PhotoOwners, Holds, Exists
<1>2. CASE /\ pc[r] = "written" /\ UNCHANGED <<guests, mode, subs>>
           /\ answer'[r] = Status(r)
  <2>1. Holds(Target[r], r) \/ Gone(Target[r])
      BY <1>2 DEF RowsAreKept, MidStretch
  <2> QED
      BY <1>2, <2>1, StatusIsSaved DEF Holds, Exists, Gone
<1> QED
    BY <1>1, <1>2, WhoAnswers

\* A guest is told "saved" of a photo that its row holds, and of no other.
THEOREM AnswersAreTruthful == Spec => AnswerIsTruthful
<1>1. IInv /\ [Next]_vars =>
        [\A r \in Requests : Answering(r) =>
           IF answer'[r] \in Saved THEN Holds(Target[r], r)' \/ Gone(Target[r])'
           ELSE \A p \in Pairs : ~Holds(p, r)']_vars
    BY TruthStep
<1> QED
    BY <1>1, InvariantAlways, PTL DEF Spec, AnswerIsTruthful

LEMMA MatchStep ==
    ASSUME IInv, [Next]_vars, NEW r \in Requests, Answering(r), Holds(Target[r], r)'
    PROVE  LET row == subs'[Target[r]] IN
           /\ answer'[r] \in {"created", "reinstated"} => ~row.down
           /\ answer'[r] = "replaced_hidden" => Sticky(row) /\ row.resubmitted
           /\ answer'[r] = "replaced" => ~row.down \/ faulted
<1> USE SubmissionsAssumption DEF IInv
<1>1. ~(Early(r) /\ subs' = subs)
    BY DEF PhotoOwners, Holds, Exists
<1>2. /\ pc[r] = "written" /\ subs' = subs
      /\ answer'[r] = Status(r)
    BY <1>1, WhoAnswers
<1>3. Knows(r, subs[Target[r]])
    BY <1>2 DEF VisibilityIsKnown, Holds, Exists
<1>4. CASE seen[r] = NoRow
    BY <1>2, <1>3, <1>4 DEF Status, Knows
<1>5. CASE seen[r] # NoRow /\ answer[r] = "reinstated"
    BY <1>2, <1>3, <1>5 DEF Status, Knows
<1>6. CASE seen[r] # NoRow /\ answer[r] # "reinstated"
    BY <1>2, <1>3, <1>6 DEF Status, Knows
<1> QED
    BY <1>4, <1>5, <1>6

\* What a guest is told of a photo's visibility is how its row stands.
THEOREM AnswersMatchVisibility == Spec => AnswerMatchesVisibility
<1>1. IInv /\ [Next]_vars =>
        [\A r \in Requests : Answering(r) /\ Holds(Target[r], r)' =>
           LET row == subs'[Target[r]] IN
           /\ answer'[r] \in {"created", "reinstated"} => ~row.down
           /\ answer'[r] = "replaced_hidden" => Sticky(row) /\ row.resubmitted
           /\ answer'[r] = "replaced" => ~row.down \/ faulted]_vars
    BY MatchStep
<1> QED
    BY <1>1, InvariantAlways, PTL DEF Spec, AnswerMatchesVisibility

-----------------------------------------------------------------------------
(* Files and badges while no step has failed *)

\* The upload stretch, or the hard delete, under way still owes a recount of
\* this guest's credit for this task.
RecountOwed(p) ==
    \/ \E r \in Requests : MidStretch(r) /\ Target[r] = p
    \/ purge.of \in {GuestOf(p), TaskOf(p)}

Visible(p) == Exists(p) /\ ~subs[p].down

Follows(p) == TaskOf(p) \in credited[GuestOf(p)] <=> Visible(p)

CreditFollows == ~faulted => \A p \in Pairs : Follows(p) \/ RecountOwed(p)

\* Files come with their steps, and a refused INSERT or address ends its upload.
FilesComeInOrder ==
    \A r \in Requests :
        /\ pc[r] = "unsent" => r \notin originals
        /\ pc[r] \in {"unsent", "stored", "thumb"} => r \notin thumbs
        /\ answer[r] \in {"insert_failed", "not_found"} => pc[r] = "done"

\* A hard delete takes a row only once the row's files are gone, and while
\* nothing has failed the rows it has not reached yet are all there are.
PurgeIsClean ==
    /\ purge.step \in {"thumb", "row"} => subs[purge.at].photo \notin originals
    /\ purge.step = "row" => subs[purge.at].photo \notin thumbs
    /\ ~faulted /\ purge.of # NoOne => Owned(purge.of) = purge.left

\* A file is held by a row, or its upload says why it is not.
Accounted(ph) ==
    \/ \E p \in Pairs : Holds(p, ph)
    \/ /\ ph \in Requests
       /\ \/ InFlight(ph)
          \/ answer[ph] \in {"insert_failed", "not_found"}
          \/ Gone(Target[ph])

\* A replaced photo that its upload is about to sweep at one of these steps.
Superseded(ph, steps) ==
    \E r \in Requests : pc[r] \in steps /\ seen[r] # NoRow /\ seen[r].photo = ph

FilesAreExplained ==
    ~faulted =>
        /\ \A ph \in originals :
               Accounted(ph) \/ Superseded(ph, {"committed", "unhidden"})
        /\ \A ph \in thumbs :
               Accounted(ph) \/ Superseded(ph, {"committed", "unhidden", "half_swept"})

AccountsInv == CreditFollows /\ FilesComeInOrder /\ PurgeIsClean /\ FilesAreExplained

LEMMA FaultsStay ==
    ASSUME TypeOK, [Next]_vars
    PROVE  /\ faulted => faulted'
           /\ Crash => faulted'
<1>1. ASSUME NEW r \in Requests, UploadStep(r) PROVE faulted => faulted'
    BY <1>1, UploadFrame
<1>2. ASSUME NEW p \in Pairs, ModerationStep(p) PROVE faulted' = faulted
    BY <1>2 DEF ModerationStep, GuestDeletes, HostTakesDown, HostRestores, SetVisibility
<1>3. ASSUME NEW t \in Tasks, HostEditsTask(t) \/ DayComes(t) PROVE faulted' = faulted
    BY <1>3, TaskFrame
<1>4. ASSUME PurgeStep PROVE faulted => faulted'
    BY <1>4 DEF PurgeStep, StartPurge, PurgeOriginal, PurgeThumb, PurgeRow,
                PurgeSkips, FinishPurge
<1>5. ASSUME Crash PROVE faulted'
    BY <1>5 DEF Crash
<1>6. ASSUME UNCHANGED vars PROVE faulted' = faulted
    BY <1>6 DEF vars
<1> QED
    BY <1>1, <1>2, <1>3, <1>4, <1>5, <1>6 DEF Next

\* A recount credits its guest with what is visible and nobody else.
LEMMA RecountsAreExact ==
    ASSUME credited \in [Guests -> SUBSET Tasks], NEW table, NEW p \in Pairs,
           NEW g \in Guests
    PROVE  /\ g = GuestOf(p) =>
                (TaskOf(p) \in Recount(table, g)[GuestOf(p)]
                    <=> table[p] # NoRow /\ ~table[p].down)
           /\ g # GuestOf(p) => Recount(table, g)[GuestOf(p)] = credited[GuestOf(p)]
           /\ TaskOf(p) \in RecountAll(table)[GuestOf(p)]
                    <=> table[p] # NoRow /\ ~table[p].down
<1>1. GuestOf(p) \in Guests /\ TaskOf(p) \in Tasks /\ <<GuestOf(p), TaskOf(p)>> = p
    BY TargetsArePairs DEF Pairs, GuestOf, TaskOf
<1>2. TaskOf(p) \in VisibleTasks(table, GuestOf(p)) <=> table[p] # NoRow /\ ~table[p].down
    BY <1>1 DEF VisibleTasks
<1>3. Recount(table, g)[GuestOf(p)] =
        IF g = GuestOf(p) THEN VisibleTasks(table, g) ELSE credited[GuestOf(p)]
    BY <1>1 DEF Recount
<1>4. RecountAll(table)[GuestOf(p)] = VisibleTasks(table, GuestOf(p))
    BY <1>1 DEF RecountAll
<1> QED
    BY <1>2, <1>3, <1>4

\* A guest's credit for a task is what can be seen, unless a recount is owed.
LEMMA CreditFollowsHolds == IInv /\ CreditFollows /\ PurgeIsClean /\ [Next]_vars => CreditFollows'
<1> SUFFICES ASSUME IInv, CreditFollows, PurgeIsClean, [Next]_vars, ~faulted',
                    NEW p \in Pairs
             PROVE  Follows(p)' \/ RecountOwed(p)'
    BY DEF CreditFollows
<1> USE SubmissionsAssumption DEF IInv
<1>0. /\ ~faulted /\ ~Crash
      /\ Follows(p) \/ RecountOwed(p)
      /\ GuestOf(p) \in Guests /\ TaskOf(p) \in Tasks
    BY FaultsStay, TargetsArePairs DEF CreditFollows
<1> DEFINE exact == TaskOf(p) \in credited'[GuestOf(p)]
                        <=> subs'[p] # NoRow /\ ~subs'[p].down
<1>1. exact => Follows(p)'
    BY DEF Follows, Visible, Exists
<1> HIDE DEF exact
<1>2. ASSUME subs'[p] = subs[p], credited'[GuestOf(p)] = credited[GuestOf(p)],
             RecountOwed(p) => RecountOwed(p)'
      PROVE  Follows(p)' \/ RecountOwed(p)'
    BY <1>0, <1>2 DEF Follows, Visible, Exists
<1>3. ASSUME NEW r \in Requests, UploadStep(r) PROVE Follows(p)' \/ RecountOwed(p)'
  <2>0. /\ purge' = purge /\ \A s \in Requests \ {r} : pc'[s] = pc[s]
        /\ p # Target[r] => subs'[p] = subs[p]
        /\ Target[r] \in Pairs /\ GuestOf(Target[r]) \in Guests
      BY <1>3, UploadFrame, TargetsArePairs
  <2>1. ASSUME MidStretch(r) => MidStretch(r)'
        PROVE  RecountOwed(p) => RecountOwed(p)'
      BY <2>0, <2>1 DEF RecountOwed, MidStretch
  <2>2. CASE MidStretch(r)' /\ p = Target[r]
      BY <2>2 DEF RecountOwed
  <2>3. CASE Finish(r) /\ GuestOf(p) = GuestOf(Target[r])
    <3>1. credited' = Recount(subs, GuestOf(Target[r])) /\ subs' = subs
        BY <2>3 DEF Finish
    <3>2. exact
        BY <2>3, <3>1, <2>0, RecountsAreExact DEF exact, TypeOK
    <3> QED
        BY <1>1, <3>2
  <2>4. CASE Finish(r) /\ GuestOf(p) # GuestOf(Target[r])
    <3>1. credited' = Recount(subs, GuestOf(Target[r])) /\ subs' = subs
        BY <2>4 DEF Finish
    <3>2. credited'[GuestOf(p)] = credited[GuestOf(p)]
        BY <2>4, <3>1, <2>0, RecountsAreExact DEF TypeOK
    <3>3. RecountOwed(p) => RecountOwed(p)'
        BY <2>0, <2>4 DEF RecountOwed, MidStretch
    <3> QED
        BY <1>2, <3>1, <3>2, <3>3
  <2>5. CASE Unhide(r) /\ p # Target[r]
    <3>1. RecountOwed(p) => RecountOwed(p)'
        BY <2>1, <2>5 DEF Unhide, MidStretch, TypeOK
    <3>2. CASE credited' = credited
        BY <1>2, <2>0, <2>5, <3>1, <3>2
    <3>3. CASE credited' = Recount(subs', GuestOf(Target[r])) /\ GuestOf(p) = GuestOf(Target[r])
      <4>1. exact
          BY <3>3, <2>0, RecountsAreExact DEF exact, TypeOK
      <4> QED
          BY <1>1, <4>1
    <3>4. CASE credited' = Recount(subs', GuestOf(Target[r])) /\ GuestOf(p) # GuestOf(Target[r])
      <4>1. credited'[GuestOf(p)] = credited[GuestOf(p)]
          BY <3>4, <2>0, RecountsAreExact DEF TypeOK
      <4> QED
          BY <1>2, <2>0, <2>5, <3>1, <4>1
    <3> QED
        BY <2>5, <3>2, <3>3, <3>4 DEF Unhide
  <2>6. CASE Replace(r) \/ Unhide(r) \/ Insert(r)
    <3>1. MidStretch(r)'
        BY <2>6 DEF Replace, Unhide, Insert, MidStretch, TypeOK
    <3>2. CASE p # Target[r] /\ ~Unhide(r)
      <4>1. credited' = credited
          BY <2>6, <3>2 DEF Replace, Insert
      <4> QED
          BY <1>2, <2>0, <2>1, <3>1, <3>2, <4>1
    <3> QED
        BY <2>2, <2>5, <3>1, <3>2
  <2>7. CASE UNCHANGED <<subs, credited>> /\ (MidStretch(r) => MidStretch(r)')
      BY <1>2, <2>1, <2>7
  <2>8. CASE Store(r) \/ RefuseCsrf(r) \/ Admit(r) \/ TurnAway(r) \/ ThumbMade(r)
             \/ ThumbFailed(r) \/ ReplaceFails(r) \/ InsertFails(r) \/ MissesTask(r)
    <3>1. UNCHANGED <<subs, credited>> /\ ~MidStretch(r)
        BY <2>8 DEF Store, RefuseCsrf, Admit, TurnAway, ThumbMade, ThumbFailed,
                    ReplaceFails, InsertFails, MissesTask, MidStretch, store
    <3> QED
        BY <2>7, <3>1
  <2>9. CASE UnhideFails(r) \/ NothingToUnhide(r) \/ SweepOriginal(r)
             \/ SweepThumb(r) \/ SweepFails(r)
    <3>1. UNCHANGED <<subs, credited>> /\ MidStretch(r)'
        BY <2>9 DEF UnhideFails, NothingToUnhide, SweepOriginal, SweepThumb,
                    SweepFails, MidStretch, TypeOK, store
    <3> QED
        BY <2>7, <3>1
  <2>10. ~FinishUncounted(r)
      BY DEF FinishUncounted
  <2> QED
      BY <1>3, <2>3, <2>4, <2>6, <2>8, <2>9, <2>10 DEF UploadStep
<1>4. ASSUME NEW q \in Pairs, ModerationStep(q) PROVE Follows(p)' \/ RecountOwed(p)'
  <2>1. /\ credited' = Recount(subs', GuestOf(q)) /\ purge' = purge /\ pc' = pc
        /\ p # q => subs'[p] = subs[p]
        /\ GuestOf(q) \in Guests
      BY <1>4, TargetsArePairs
         DEF ModerationStep, GuestDeletes, HostTakesDown, HostRestores,
             SetVisibility, TypeOK, upload
  <2>2. CASE GuestOf(p) = GuestOf(q)
    <3>1. exact
        BY <2>1, <2>2, RecountsAreExact DEF exact, TypeOK
    <3> QED
        BY <1>1, <3>1
  <2>3. CASE GuestOf(p) # GuestOf(q)
    <3>1. credited'[GuestOf(p)] = credited[GuestOf(p)]
        BY <2>1, <2>3, RecountsAreExact DEF TypeOK
    <3> QED
        BY <1>2, <2>1, <2>3, <3>1 DEF RecountOwed, MidStretch
  <2> QED
      BY <2>2, <2>3
<1>5. ASSUME NEW t \in Tasks, HostEditsTask(t) \/ DayComes(t)
      PROVE  Follows(p)' \/ RecountOwed(p)'
  <2>1. UNCHANGED <<subs, upload, purge>>
      BY <1>5, TaskFrame
  <2>2. CASE HostEditsTask(t)
    <3>1. exact
        BY <2>1, <2>2, <1>0, RecountsAreExact DEF exact, HostEditsTask, TypeOK
    <3> QED
        BY <1>1, <3>1
  <2>3. CASE DayComes(t)
      BY <1>2, <2>1, <2>3 DEF DayComes, RecountOwed, MidStretch, upload
  <2> QED
      BY <1>5, <2>2, <2>3
<1>6. CASE PurgeStep
  <2>0. pc' = pc
      BY <1>6, PurgeFrame DEF upload
  <2>1. ASSUME NEW x \in Guests \cup Tasks, StartPurge(x)
        PROVE  Follows(p)' \/ RecountOwed(p)'
    <3>1. purge = Idle /\ NoOne \notin {GuestOf(p), TaskOf(p)}
        BY <2>1, <1>0 DEF StartPurge, LoopIsFree
    <3>2. RecountOwed(p) => RecountOwed(p)'
        BY <2>0, <3>1 DEF RecountOwed, MidStretch, Idle
    <3> QED
        BY <1>2, <2>1, <3>2 DEF StartPurge, store
  <2>2. ASSUME purge'.of = purge.of, subs'[p] = subs[p], credited' = credited
        PROVE  Follows(p)' \/ RecountOwed(p)'
    <3>1. RecountOwed(p) => RecountOwed(p)'
        BY <2>0, <2>2 DEF RecountOwed, MidStretch
    <3> QED
        BY <1>2, <2>2, <3>1
  <2>3. ASSUME NEW q \in Pairs, PurgeOriginal(q) \/ PurgeThumb(q)
        PROVE  Follows(p)' \/ RecountOwed(p)'
    <3>1. UNCHANGED <<subs, credited>>
        BY <2>3 DEF PurgeOriginal, PurgeThumb
    <3>2. purge'.of = purge.of
      <4>1. CASE PurgeOriginal(q)
          BY <4>1 DEF PurgeOriginal, TypeOK
      <4>2. CASE PurgeThumb(q)
          BY <4>2 DEF PurgeThumb, TypeOK
      <4> QED
          BY <2>3, <4>1, <4>2
    <3> QED
        BY <2>2, <3>1, <3>2
  <2>4. ASSUME NEW q \in Pairs, PurgeRow(q)
        PROVE  Follows(p)' \/ RecountOwed(p)'
    <3>1. purge'.of = purge.of /\ credited' = credited
        BY <2>4 DEF PurgeRow, TypeOK
    <3>2. CASE p # q
        BY <2>2, <2>4, <3>1, <3>2 DEF PurgeRow, TypeOK
    <3>3. CASE p = q
      <4>1. p \in purge.left
          BY <2>4, <3>3 DEF PurgeRow, PurgeIsSound
      <4> QED
          BY <3>1, <4>1 DEF PurgeIsSound, RecountOwed
    <3> QED
        BY <3>2, <3>3
  <2>5. ASSUME NEW q \in Pairs, PurgeSkips(q) PROVE FALSE
      BY <2>5 DEF PurgeSkips
  <2>6. CASE FinishPurge
    <3>1. /\ Owned(purge.of) = {} /\ purge.of \in Guests \cup Tasks
          /\ purge.of # NoOne
        BY <1>0, <2>6 DEF FinishPurge, PurgeIsClean, TypeOK
    <3>2. subs' = subs
        BY <2>6, <3>1 DEF FinishPurge, TypeOK
    <3>3. CASE purge.of \in Tasks
      <4>1. exact
          BY <2>6, <3>3, <1>0, RecountsAreExact DEF exact, FinishPurge, TypeOK
      <4> QED
          BY <1>1, <4>1
    <3>4. CASE purge.of \in Guests /\ GuestOf(p) = purge.of
      <4>1. ~Exists(p)
          BY <3>1, <3>4 DEF Owned
      <4>2. credited'[GuestOf(p)] = {}
          BY <2>6, <3>4, <1>0 DEF FinishPurge, TypeOK
      <4>3. exact
          BY <3>2, <4>1, <4>2 DEF exact, Exists
      <4> QED
          BY <1>1, <4>3
    <3>5. CASE purge.of \in Guests /\ GuestOf(p) # purge.of
      <4>1. credited'[GuestOf(p)] = credited[GuestOf(p)]
          BY <2>6, <3>5, <1>0 DEF FinishPurge, TypeOK
      <4>2. RecountOwed(p) => RecountOwed(p)'
          BY <1>0, <2>0, <3>5 DEF RecountOwed, MidStretch
      <4> QED
          BY <1>2, <3>2, <4>1, <4>2
    <3> QED
        BY <3>1, <3>3, <3>4, <3>5
  <2> QED
      BY <1>6, <2>1, <2>3, <2>4, <2>5, <2>6 DEF PurgeStep
<1>7. CASE UNCHANGED vars
    BY <1>2, <1>7 DEF vars, store, upload, RecountOwed, MidStretch
<1> QED
    BY <1>0, <1>3, <1>4, <1>5, <1>6, <1>7 DEF Next

\* No file is there before its step, and a refused upload is over.
LEMMA FilesComeInOrderHolds == IInv /\ FilesComeInOrder /\ [Next]_vars => FilesComeInOrder'
<1> SUFFICES ASSUME IInv, FilesComeInOrder, [Next]_vars PROVE FilesComeInOrder'
    OBVIOUS
<1> USE SubmissionsAssumption DEF IInv
<1>1. ASSUME originals' \subseteq originals, thumbs' \subseteq thumbs,
             UNCHANGED <<pc, answer>>
      PROVE  FilesComeInOrder'
    BY <1>1 DEF FilesComeInOrder
<1>2. ASSUME NEW r \in Requests, UploadStep(r) PROVE FilesComeInOrder'
  <2>1. CASE Store(r) \/ ThumbMade(r)
      BY <2>1 DEF Store, ThumbMade, FilesComeInOrder, TypeOK
  <2>2. CASE RefuseCsrf(r) \/ TurnAway(r) \/ ThumbFailed(r) \/ ReplaceFails(r)
             \/ InsertFails(r) \/ MissesTask(r)
      BY <2>2 DEF RefuseCsrf, TurnAway, ThumbFailed, ReplaceFails, InsertFails, MissesTask,
                  Reply, FilesComeInOrder, TypeOK, store
  <2>3. CASE Finish(r) \/ FinishUncounted(r)
    <3>1. Status(r) \notin {"insert_failed", "not_found"}
        BY DEF Status
    <3> QED
        BY <2>3, <3>1 DEF Finish, FinishUncounted, Reply, FilesComeInOrder, TypeOK, store
  <2>4. CASE Admit(r) \/ Replace(r) \/ Unhide(r) \/ UnhideFails(r) \/ NothingToUnhide(r)
             \/ SweepOriginal(r) \/ SweepThumb(r) \/ SweepFails(r) \/ Insert(r)
    <3>1. /\ originals' \subseteq originals /\ thumbs' \subseteq thumbs
          /\ pc'[r] \notin {"unsent", "stored"} /\ pc[r] # "done"
          /\ pc'[r] = "thumb" => pc[r] = "stored"
          /\ answer'[r] \in {answer[r], "reinstated"}
          /\ \A s \in Requests \ {r} : pc'[s] = pc[s] /\ answer'[s] = answer[s]
        BY <2>4 DEF Admit, Replace, Unhide, UnhideFails, NothingToUnhide, SweepOriginal,
                    SweepThumb, SweepFails, Insert, TypeOK, store
    <3>2. answer[r] \notin {"insert_failed", "not_found"}
        BY <3>1 DEF FilesComeInOrder
    <3> QED
        BY <3>1, <3>2 DEF FilesComeInOrder
  <2> QED
      BY <1>2, <2>1, <2>2, <2>3, <2>4 DEF UploadStep
<1>3. ASSUME NEW p \in Pairs, ModerationStep(p) PROVE FilesComeInOrder'
    BY <1>1, <1>3, ModerationFrame DEF upload
<1>4. ASSUME NEW t \in Tasks, HostEditsTask(t) \/ DayComes(t) PROVE FilesComeInOrder'
    BY <1>1, <1>4, TaskFrame DEF upload
<1>5. CASE PurgeStep
  <2>1. originals' \subseteq originals /\ thumbs' \subseteq thumbs
      BY <1>5 DEF PurgeStep, StartPurge, PurgeOriginal, PurgeThumb, PurgeRow,
                  PurgeSkips, FinishPurge, store
  <2> QED
      BY <1>1, <1>5, <2>1, PurgeFrame DEF upload
<1>6. CASE Crash
    BY <1>6 DEF Crash, InFlight, FilesComeInOrder, store, TypeOK
<1>7. CASE UNCHANGED vars
    BY <1>1, <1>7 DEF vars, store, upload
<1> QED
    BY <1>2, <1>3, <1>4, <1>5, <1>6, <1>7 DEF Next

\* A hard delete leaves no file of the rows it takes, and misses no row.
LEMMA PurgeIsCleanHolds == IInv /\ PurgeIsClean /\ [Next]_vars => PurgeIsClean'
<1> SUFFICES ASSUME IInv, PurgeIsClean, [Next]_vars PROVE PurgeIsClean'
    OBVIOUS
<1> USE SubmissionsAssumption DEF IInv
<1>1. ASSUME purge' = Idle PROVE PurgeIsClean'
    BY <1>1 DEF PurgeIsClean, Idle
<1>2. ASSUME NEW r \in Requests, UploadStep(r) PROVE PurgeIsClean'
  <2>0. purge' = purge /\ (faulted => faulted')
      BY <1>2, UploadFrame
  <2>1. CASE purge = Idle
      BY <1>1, <2>0, <2>1
  <2>2. CASE purge # Idle
    <3>1. ~LoopIsFree /\ ~MidStretch(r)
        BY <2>2 DEF LoopIsFree, OneStretch
    <3>2. Store(r) \/ ThumbMade(r)
        BY <1>2, <3>1 DEF UploadStep, RefuseCsrf, Admit, TurnAway, ThumbFailed, Replace,
             ReplaceFails, Unhide, UnhideFails, NothingToUnhide, SweepOriginal, SweepThumb,
             SweepFails, Insert, InsertFails, MissesTask, Finish, FinishUncounted, MidStretch
    <3>3. subs' = subs /\ Early(r)
        BY <3>2 DEF Store, ThumbMade, Early
    <3>4. originals' \subseteq originals \cup {r} /\ thumbs' \subseteq thumbs \cup {r}
        BY <3>2 DEF Store, ThumbMade
    <3>5. purge.step # "next" => subs[purge.at].photo # r
        BY <3>3 DEF PurgeIsSound, PhotoOwners, TypeOK
    <3>6. Owned(purge.of)' = Owned(purge.of)
        BY <2>0, <3>3 DEF Owned, Exists
    <3> QED
        BY <2>0, <3>3, <3>4, <3>5, <3>6 DEF PurgeIsClean
  <2> QED
      BY <2>1, <2>2
<1>3. ASSUME NEW p \in Pairs, ModerationStep(p) PROVE PurgeIsClean'
    BY <1>1, <1>3, ModerationFrame DEF LoopIsFree
<1>4. ASSUME NEW t \in Tasks, HostEditsTask(t) \/ DayComes(t) PROVE PurgeIsClean'
  <2>1. UNCHANGED <<subs, originals, thumbs, purge, faulted>>
      BY <1>4, TaskFrame
  <2> QED
      BY <2>1 DEF PurgeIsClean, Owned, Exists
<1>5. CASE PurgeStep
  <2>1. ASSUME NEW x \in Guests \cup Tasks, StartPurge(x) PROVE PurgeIsClean'
      BY <2>1 DEF StartPurge, PurgeIsClean, Owned, Exists, store
  <2>2. ASSUME NEW p \in Pairs, PurgeOriginal(p) PROVE PurgeIsClean'
    <3>1. /\ purge'.of = purge.of /\ purge'.left = purge.left
          /\ purge'.at = p /\ purge'.step = "thumb"
        BY <2>2 DEF PurgeOriginal, TypeOK
    <3>2. UNCHANGED <<subs, faulted>> /\ originals' = originals \ {subs[p].photo}
        BY <2>2 DEF PurgeOriginal
    <3> QED
        BY <3>1, <3>2 DEF PurgeIsClean, Owned, Exists
  <2>3. ASSUME NEW p \in Pairs, PurgeThumb(p) PROVE PurgeIsClean'
    <3>1. /\ purge'.of = purge.of /\ purge'.left = purge.left
          /\ purge'.at = p /\ purge'.step = "row"
          /\ purge.at = p /\ purge.step = "thumb"
        BY <2>3 DEF PurgeThumb, TypeOK
    <3>2. /\ UNCHANGED <<subs, faulted, originals>>
          /\ thumbs' = thumbs \ {subs[p].photo}
        BY <2>3 DEF PurgeThumb
    <3> QED
        BY <3>1, <3>2 DEF PurgeIsClean, Owned, Exists
  <2>4. ASSUME NEW p \in Pairs, PurgeRow(p) PROVE PurgeIsClean'
    <3>1. /\ purge'.of = purge.of /\ purge'.left = purge.left \ {p}
          /\ purge'.step = "next" /\ faulted' = faulted
        BY <2>4 DEF PurgeRow, TypeOK
    <3>2. \A q \in Pairs : subs'[q] = IF q = p THEN NoRow ELSE subs[q]
        BY <2>4 DEF PurgeRow, TypeOK
    <3>3. Owned(purge.of)' = Owned(purge.of) \ {p}
        BY <3>1, <3>2 DEF Owned, Exists
    <3> QED
        BY <3>1, <3>3 DEF PurgeIsClean
  <2>5. ASSUME NEW p \in Pairs, PurgeSkips(p) PROVE PurgeIsClean'
    <3>1. purge'.step = "next" /\ faulted'
        BY <2>5 DEF PurgeSkips, TypeOK
    <3> QED
        BY <3>1 DEF PurgeIsClean
  <2>6. CASE FinishPurge
      BY <1>1, <2>6 DEF FinishPurge
  <2> QED
      BY <1>5, <2>1, <2>2, <2>3, <2>4, <2>5, <2>6 DEF PurgeStep
<1>6. CASE Crash
    BY <1>1, <1>6 DEF Crash
<1>7. CASE UNCHANGED vars
    BY <1>7 DEF vars, store, PurgeIsClean, Owned, Exists
<1> QED
    BY <1>2, <1>3, <1>4, <1>5, <1>6, <1>7 DEF Next

\* The photo a step takes out of a row is one its upload is about to sweep, or
\* one whose files a hard delete has already removed.
LEMMA HeldFilesStay ==
    ASSUME IInv, PurgeIsClean, [Next]_vars, ~faulted',
           NEW p \in Pairs, NEW ph, Holds(p, ph)
    PROVE  \/ Holds(p, ph)'
           \/ Superseded(ph, {"committed"})'
           \/ ph \notin originals' \cup thumbs'
<1> USE SubmissionsAssumption DEF IInv
<1>0. ~faulted /\ ~Crash
    BY FaultsStay
<1>1. ASSUME subs'[p] # NoRow, subs'[p].photo = subs[p].photo PROVE Holds(p, ph)'
    BY <1>1 DEF Holds, Exists
<1>2. ASSUME NEW r \in Requests, UploadStep(r)
      PROVE  Holds(p, ph)' \/ Superseded(ph, {"committed"})'
  <2>1. CASE p # Target[r]
      BY <1>1, <1>2, <2>1, UploadFrame DEF Holds, Exists
  <2>2. CASE p = Target[r] /\ Replace(r)
    <3>1. pc'[r] = "committed" /\ seen'[r] = subs[p]
        BY <2>2 DEF Replace, Fresh, Holds, TypeOK
    <3> QED
        BY <3>1 DEF Superseded, Holds, Exists
  <2>3. CASE p = Target[r] /\ Unhide(r)
      BY <1>1, <2>3, ShownFields DEF Unhide, TypeOK, Holds, Exists
  <2>4. CASE p = Target[r] /\ Insert(r)
      BY <2>4 DEF Insert, CanInsert, Holds
  <2>5. CASE subs' = subs
      BY <1>1, <2>5 DEF Holds, Exists
  <2> QED
      BY <1>2, <2>1, <2>2, <2>3, <2>4, <2>5
         DEF UploadStep, Store, RefuseCsrf, Admit, TurnAway, ThumbMade, ThumbFailed,
             ReplaceFails, UnhideFails, NothingToUnhide, SweepOriginal, SweepThumb,
             SweepFails, InsertFails, MissesTask, Finish, FinishUncounted, store
<1>3. ASSUME NEW q \in Pairs, ModerationStep(q) PROVE Holds(p, ph)'
  <2>1. subs'[p] # NoRow /\ subs'[p].photo = subs[p].photo
      BY <1>3, ModerationFrame DEF TypeOK, Holds, Exists
  <2> QED
      BY <1>1, <2>1
<1>4. ASSUME NEW t \in Tasks, HostEditsTask(t) \/ DayComes(t) PROVE Holds(p, ph)'
    BY <1>1, <1>4, TaskFrame DEF Holds, Exists
<1>5. CASE PurgeStep
  <2>1. CASE subs'[p] = subs[p]
      BY <1>1, <2>1 DEF Holds, Exists
  <2>2. ASSUME NEW q \in Pairs, PurgeRow(q), p = q PROVE ph \notin originals' \cup thumbs'
      BY <2>2 DEF PurgeRow, PurgeIsClean, Holds
  <2>3. ASSUME NEW q \in Pairs, PurgeRow(q), p # q PROVE subs'[p] = subs[p]
      BY <2>3 DEF PurgeRow, TypeOK
  <2>4. CASE FinishPurge
    <3>1. Owned(purge.of) = {}
        BY <1>0, <2>4 DEF FinishPurge, PurgeIsClean
    <3> QED
        BY <2>1, <2>4, <3>1 DEF FinishPurge
  <2>5. ASSUME NEW x \in Guests \cup Tasks, StartPurge(x) PROVE subs' = subs
      BY <2>5 DEF StartPurge, store
  <2>6. ASSUME NEW q \in Pairs, PurgeOriginal(q) \/ PurgeThumb(q) \/ PurgeSkips(q)
        PROVE  subs' = subs
      BY <2>6 DEF PurgeOriginal, PurgeThumb, PurgeSkips, store
  <2> QED
      BY <1>5, <2>1, <2>2, <2>3, <2>4, <2>5, <2>6 DEF PurgeStep
<1>6. CASE UNCHANGED vars
    BY <1>1, <1>6 DEF vars, store, Holds, Exists
<1> QED
    BY <1>0, <1>2, <1>3, <1>4, <1>5, <1>6 DEF Next

\* What an upload's pair lost with its guest or task is lost for good.
LEMMA GoneStays ==
    ASSUME TypeOK, [Next]_vars, NEW p \in Pairs, Gone(p)
    PROVE  Gone(p)'
    BY UploadFrame, ModerationFrame, TaskFrame, PurgeFrame
       DEF Next, Gone, vars, store, Crash

\* An upload whose row does not hold its photo keeps its reason.
LEMMA ReasonsStay ==
    ASSUME IInv, IInv', FilesComeInOrder, [Next]_vars, ~faulted', NEW r \in Requests,
           InFlight(r) \/ answer[r] \in {"insert_failed", "not_found"}
    PROVE  Accounted(r)' \/ r \notin originals' \cup thumbs'
<1> USE SubmissionsAssumption DEF IInv
<1>0. ~Crash /\ Target[r] \in Pairs
    BY FaultsStay
<1>1. ASSUME pc'[r] = pc[r], answer'[r] = answer[r] PROVE Accounted(r)'
    BY <1>1 DEF Accounted, InFlight
<1>2. CASE UploadStep(r)
  <2>1. CASE RefuseCsrf(r) \/ TurnAway(r) \/ ThumbFailed(r) \/ ReplaceFails(r)
      BY <2>1 DEF RefuseCsrf, TurnAway, ThumbFailed, ReplaceFails, FilesComeInOrder
  <2>2. CASE InsertFails(r) \/ MissesTask(r)
      BY <2>2 DEF InsertFails, MissesTask, Reply, Accounted, TypeOK
  <2>3. CASE Finish(r)
    <3>1. Holds(Target[r], r) \/ Gone(Target[r])
        BY <2>3 DEF Finish, RowsAreKept, MidStretch
    <3>2. UNCHANGED <<guests, mode, subs>>
        BY <2>3 DEF Finish
    <3> QED
        BY <1>0, <3>1, <3>2 DEF Accounted, Holds, Exists, Gone
  <2>4. ~FinishUncounted(r)
      BY DEF FinishUncounted
  <2>5. CASE Store(r) \/ Admit(r) \/ ThumbMade(r) \/ Replace(r) \/ Unhide(r)
             \/ UnhideFails(r) \/ NothingToUnhide(r) \/ SweepOriginal(r)
             \/ SweepThumb(r) \/ SweepFails(r) \/ Insert(r)
    <3>1. pc'[r] \notin {"unsent", "done"}
        BY <2>5 DEF Store, Admit, ThumbMade, Replace, Unhide, UnhideFails,
                    NothingToUnhide, SweepOriginal, SweepThumb, SweepFails, Insert, TypeOK
    <3> QED
        BY <3>1 DEF Accounted, InFlight
  <2> QED
      BY <1>2, <2>1, <2>2, <2>3, <2>4, <2>5 DEF UploadStep
<1>3. ASSUME NEW s \in Requests \ {r}, UploadStep(s) PROVE Accounted(r)'
    BY <1>1, <1>3, UploadFrame
<1>4. ASSUME NEW q \in Pairs, ModerationStep(q) PROVE Accounted(r)'
    BY <1>1, <1>4, ModerationFrame DEF upload
<1>5. ASSUME NEW t \in Tasks, HostEditsTask(t) \/ DayComes(t) PROVE Accounted(r)'
    BY <1>1, <1>5, TaskFrame DEF upload
<1>6. CASE PurgeStep
    BY <1>1, <1>6, PurgeFrame DEF upload
<1>7. CASE UNCHANGED vars
    BY <1>1, <1>7 DEF vars, upload
<1> QED
    BY <1>0, <1>2, <1>3, <1>4, <1>5, <1>6, <1>7 DEF Next

\* A file that is accounted for stays so, is about to be swept, or goes.
LEMMA AccountsStay ==
    ASSUME IInv, IInv', FilesComeInOrder, PurgeIsClean, [Next]_vars, ~faulted',
           NEW ph, Accounted(ph)
    PROVE  \/ Accounted(ph)'
           \/ Superseded(ph, {"committed"})'
           \/ ph \notin originals' \cup thumbs'
<1>1. ASSUME NEW p \in Pairs, Holds(p, ph)
      PROVE  \/ Accounted(ph)'
             \/ Superseded(ph, {"committed"})'
             \/ ph \notin originals' \cup thumbs'
    BY <1>1, HeldFilesStay DEF Accounted
<1>2. ASSUME ph \in Requests, InFlight(ph) \/ answer[ph] \in {"insert_failed", "not_found"}
      PROVE  Accounted(ph)' \/ ph \notin originals' \cup thumbs'
    BY <1>2, ReasonsStay
<1>3. ASSUME ph \in Requests, Gone(Target[ph]) PROVE Accounted(ph)'
  <2>1. Gone(Target[ph])'
      BY <1>3, GoneStays, SubmissionsAssumption DEF IInv
  <2> QED
      BY <1>3, <2>1 DEF Accounted
<1> QED
    BY <1>1, <1>2, <1>3 DEF Accounted

\* A superseded file is swept before its upload goes on.
LEMMA SweepsFinish ==
    ASSUME IInv, [Next]_vars, ~faulted', NEW ph
    PROVE  /\ Superseded(ph, {"committed", "unhidden"})
                => Superseded(ph, {"committed", "unhidden"})' \/ ph \notin originals'
           /\ Superseded(ph, {"committed", "unhidden", "half_swept"})
                => \/ Superseded(ph, {"committed", "unhidden", "half_swept"})'
                   \/ ph \notin thumbs'
<1> USE SubmissionsAssumption DEF IInv
<1> SUFFICES ASSUME NEW r \in Requests, Sweeping(r), seen[r] # NoRow, seen[r].photo = ph
             PROVE  /\ pc[r] # "half_swept" =>
                         \/ pc'[r] \in {"committed", "unhidden"} /\ seen'[r] = seen[r]
                         \/ ph \notin originals'
                    /\ \/ pc'[r] \in {"committed", "unhidden", "half_swept"}
                          /\ seen'[r] = seen[r]
                       \/ ph \notin thumbs'
    BY DEF Superseded, Sweeping
<1>0. ~Crash
    BY FaultsStay
<1>1. ASSUME pc'[r] = pc[r], seen'[r] = seen[r]
      PROVE  /\ pc[r] # "half_swept" =>
                  \/ pc'[r] \in {"committed", "unhidden"} /\ seen'[r] = seen[r]
                  \/ ph \notin originals'
             /\ \/ pc'[r] \in {"committed", "unhidden", "half_swept"}
                   /\ seen'[r] = seen[r]
                \/ ph \notin thumbs'
    BY <1>1 DEF Sweeping
<1>2. CASE UploadStep(r)
  <2>1. Unhide(r) \/ NothingToUnhide(r) \/ SweepOriginal(r) \/ SweepThumb(r)
      BY <1>2 DEF UploadStep, Store, RefuseCsrf, Admit, TurnAway, ThumbMade,
           ThumbFailed, Replace, ReplaceFails, UnhideFails, SweepFails, Insert,
           InsertFails, MissesTask, Finish, FinishUncounted, Sweeping
  <2> QED
      BY <2>1 DEF Unhide, NothingToUnhide, SweepOriginal, SweepThumb, TypeOK
<1>3. ASSUME NEW s \in Requests \ {r}, UploadStep(s)
      PROVE  pc'[r] = pc[r] /\ seen'[r] = seen[r]
    BY <1>3, UploadFrame
<1>4. ASSUME NEW q \in Pairs, ModerationStep(q) PROVE pc' = pc /\ seen' = seen
    BY <1>4, ModerationFrame DEF upload
<1>5. ASSUME NEW t \in Tasks, HostEditsTask(t) \/ DayComes(t)
      PROVE  pc' = pc /\ seen' = seen
    BY <1>5, TaskFrame DEF upload
<1>6. ASSUME PurgeStep PROVE pc' = pc /\ seen' = seen
    BY <1>6, PurgeFrame DEF upload
<1>7. ASSUME UNCHANGED vars PROVE pc' = pc /\ seen' = seen
    BY <1>7 DEF vars, upload
<1> QED
    BY <1>0, <1>1, <1>2, <1>3, <1>4, <1>5, <1>6, <1>7 DEF Next

\* A file that was not there before is that of an upload under way.
LEMMA NewFilesAreUploads ==
    ASSUME TypeOK, [Next]_vars, NEW ph, ph \in originals' \cup thumbs'
    PROVE  /\ ph \in originals' => ph \in originals \/ Accounted(ph)'
           /\ ph \in thumbs' => ph \in thumbs \/ Accounted(ph)'
<1>1. ASSUME NEW r \in Requests, UploadStep(r)
      PROVE  /\ ph \in originals' => ph \in originals \/ Accounted(ph)'
             /\ ph \in thumbs' => ph \in thumbs \/ Accounted(ph)'
  <2>1. CASE Store(r) \/ ThumbMade(r)
    <3>1. /\ InFlight(r)'
          /\ originals' \subseteq originals \cup {r} /\ thumbs' \subseteq thumbs \cup {r}
        BY <2>1 DEF Store, ThumbMade, InFlight, TypeOK
    <3> QED
        BY <3>1 DEF Accounted
  <2>2. CASE originals' \subseteq originals /\ thumbs' \subseteq thumbs
      BY <2>2
  <2> QED
      BY <1>1, <2>1, <2>2
         DEF UploadStep, RefuseCsrf, Admit, TurnAway, ThumbFailed, Replace,
             ReplaceFails, Unhide, UnhideFails, NothingToUnhide, SweepOriginal,
             SweepThumb, SweepFails, Insert, InsertFails, MissesTask, Finish, FinishUncounted, store
<1>2. ASSUME NEW p \in Pairs, ModerationStep(p)
      PROVE  originals' = originals /\ thumbs' = thumbs
    BY <1>2, ModerationFrame
<1>3. ASSUME NEW t \in Tasks, HostEditsTask(t) \/ DayComes(t)
      PROVE  originals' = originals /\ thumbs' = thumbs
    BY <1>3, TaskFrame
<1>4. ASSUME PurgeStep PROVE originals' \subseteq originals /\ thumbs' \subseteq thumbs
    BY <1>4 DEF PurgeStep, StartPurge, PurgeOriginal, PurgeThumb, PurgeRow,
                PurgeSkips, FinishPurge, store
<1>5. ASSUME Crash \/ UNCHANGED vars PROVE originals' = originals /\ thumbs' = thumbs
    BY <1>5 DEF Crash, vars, store
<1> QED
    BY <1>1, <1>2, <1>3, <1>4, <1>5 DEF Next

\* Every file on disk is held by a row, about to be swept, or its upload says
\* why it is there.
LEMMA FilesAreExplainedHolds ==
    IInv /\ IInv' /\ AccountsInv /\ [Next]_vars => FilesAreExplained'
<1> SUFFICES ASSUME IInv, IInv', AccountsInv, [Next]_vars, ~faulted'
             PROVE  /\ \A ph \in originals' :
                           Accounted(ph)' \/ Superseded(ph, {"committed", "unhidden"})'
                    /\ \A ph \in thumbs' :
                           \/ Accounted(ph)'
                           \/ Superseded(ph, {"committed", "unhidden", "half_swept"})'
    BY DEF FilesAreExplained
<1>0. ~faulted
    BY FaultsStay DEF IInv
<1>1. \A ph : Superseded(ph, {"committed"})' =>
                  /\ Superseded(ph, {"committed", "unhidden"})'
                  /\ Superseded(ph, {"committed", "unhidden", "half_swept"})'
    BY DEF Superseded
<1>2. ASSUME NEW ph, Accounted(ph), ph \in originals' \cup thumbs'
      PROVE  Accounted(ph)' \/ Superseded(ph, {"committed"})'
    BY <1>2, AccountsStay DEF AccountsInv
<1>3. ASSUME NEW ph \in originals'
      PROVE  Accounted(ph)' \/ Superseded(ph, {"committed", "unhidden"})'
  <2>1. ph \in originals \/ Accounted(ph)'
      BY NewFilesAreUploads DEF IInv
  <2>2. ph \in originals => Accounted(ph) \/ Superseded(ph, {"committed", "unhidden"})
      BY <1>0 DEF AccountsInv, FilesAreExplained
  <2> QED
      BY <1>1, <1>2, <2>1, <2>2, SweepsFinish
<1>4. ASSUME NEW ph \in thumbs'
      PROVE  Accounted(ph)' \/ Superseded(ph, {"committed", "unhidden", "half_swept"})'
  <2>1. ph \in thumbs \/ Accounted(ph)'
      BY NewFilesAreUploads DEF IInv
  <2>2. ph \in thumbs =>
            Accounted(ph) \/ Superseded(ph, {"committed", "unhidden", "half_swept"})
      BY <1>0 DEF AccountsInv, FilesAreExplained
  <2> QED
      BY <1>1, <1>2, <2>1, <2>2, SweepsFinish
<1> QED
    BY <1>3, <1>4

LEMMA AccountsStart == Init => AccountsInv
<1> SUFFICES ASSUME Init PROVE AccountsInv
    OBVIOUS
<1> USE SubmissionsAssumption
<1>1. PICK old \in {{}} \cup {{p} : p \in Pairs} :
        /\ subs = [p \in Pairs |-> IF p \in old THEN OldRow ELSE NoRow]
        /\ originals = {ph \in {OldPhoto} : old # {}}
        /\ thumbs = originals
    BY DEF Init
<1>2. /\ \A r \in Requests : pc[r] = "unsent" /\ answer[r] = "none"
      /\ purge = Idle /\ credited = [g \in Guests |-> {}]
    BY DEF Init
<1>3. \A p \in Pairs : ~Visible(p)
    BY <1>1 DEF Visible, Exists, OldRow
<1>4. \A p \in Pairs : Follows(p)
    BY <1>2, <1>3, TargetsArePairs DEF Follows
<1>5. FilesComeInOrder
    BY <1>1, <1>2 DEF FilesComeInOrder
<1>6. PurgeIsClean
    BY <1>2 DEF PurgeIsClean, Idle
<1>7. \A ph \in originals : \E p \in Pairs : Holds(p, ph)
  <2>1. ASSUME NEW ph \in originals PROVE \E p \in Pairs : Holds(p, ph)
    <3>1. ph = OldPhoto /\ old # {}
        BY <1>1, <2>1
    <3>2. PICK p \in Pairs : p \in old
        BY <1>1, <3>1
    <3>3. subs[p] = OldRow /\ OldRow \in Row
        BY <1>1, <3>2 DEF OldRow, Row, Photos, Pays
    <3>4. OldRow # NoRow
        BY <3>3
    <3> QED
        BY <3>1, <3>3, <3>4 DEF Holds, Exists, OldRow
  <2> QED
      BY <2>1
<1>8. FilesAreExplained
    BY <1>1, <1>7 DEF FilesAreExplained, Accounted
<1> QED
    BY <1>4, <1>5, <1>6, <1>8 DEF AccountsInv, CreditFollows

LEMMA AccountsAlways == Spec => [](IInv /\ AccountsInv)
<1>1. Init => IInv /\ AccountsInv
    BY InvariantStarts, AccountsStart
<1>2. IInv /\ AccountsInv /\ [Next]_vars => (IInv /\ AccountsInv)'
    BY InvariantIsKept, CreditFollowsHolds, FilesComeInOrderHolds, PurgeIsCleanHolds,
       FilesAreExplainedHolds DEF AccountsInv
<1> QED
    BY <1>1, <1>2, PTL DEF Spec

\* While nothing has failed, the badge engine's last recount of a guest saw
\* exactly what is visible now, whichever way the photos were moderated.
THEOREM BadgesStayFresh == Spec => []BadgesAreFresh
<1>1. IInv /\ AccountsInv => BadgesAreFresh
  <2> SUFFICES ASSUME IInv, AccountsInv, LoopIsFree, ~faulted, NEW g \in guests
               PROVE  credited[g] = VisibleTasks(subs, g)
      BY DEF BadgesAreFresh
  <2>0. g \in Guests /\ credited[g] \subseteq Tasks
      BY DEF IInv, TypeOK
  <2>1. ASSUME NEW t \in Tasks PROVE t \in credited[g] <=> t \in VisibleTasks(subs, g)
    <3>1. /\ <<g, t>> \in Pairs
          /\ GuestOf(<<g, t>>) = g /\ TaskOf(<<g, t>>) = t
        BY <2>0 DEF Pairs, GuestOf, TaskOf
    <3>2. ~RecountOwed(<<g, t>>)
        BY <2>0, <3>1, SubmissionsAssumption DEF RecountOwed, LoopIsFree, Idle
    <3>3. Follows(<<g, t>>)
        BY <3>1, <3>2 DEF AccountsInv, CreditFollows
    <3> QED
        BY <3>1, <3>3 DEF Follows, Visible, Exists, VisibleTasks
  <2>2. VisibleTasks(subs, g) \subseteq Tasks
      BY DEF VisibleTasks
  <2> QED
      BY <2>0, <2>1, <2>2
<1> QED
    BY <1>1, AccountsAlways, PTL

\* While nothing has failed, no step of an upload, a moderation or a hard
\* delete leaves a file that nothing accounts for.
THEOREM LeaksAlwaysAccounted == Spec => []LeaksAreAccountedFor
<1>1. IInv /\ AccountsInv => LeaksAreAccountedFor
  <2> SUFFICES ASSUME IInv, AccountsInv, LoopIsFree, ~faulted, NEW ph \in originals \cup thumbs
               PROVE  Accounted(ph)
      BY DEF LeaksAreAccountedFor, Accounted
  <2>1. ~Superseded(ph, {"committed", "unhidden"})
      BY DEF Superseded, LoopIsFree, MidStretch
  <2>2. ~Superseded(ph, {"committed", "unhidden", "half_swept"})
      BY DEF Superseded, LoopIsFree, MidStretch
  <2> QED
      BY <2>1, <2>2 DEF AccountsInv, FilesAreExplained
<1> QED
    BY <1>1, AccountsAlways, PTL

=============================================================================
