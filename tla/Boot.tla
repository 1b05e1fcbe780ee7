-------------------------------- MODULE Boot --------------------------------
(***************************************************************************)
(* What happens to an event's database between the start of the process    *)
(* and the first request: applySchema, the guarded migrations in the order *)
(* of src/db.js, the correction of self-likes (src/app.js).  A database    *)
(* comes from any earlier version of the app or is empty; the process may  *)
(* die after any statement, and every start begins at the top.             *)
(*                                                                         *)
(* A migration is the sequence of databases its committed statements leave *)
(* behind: empty when its guard finds nothing to do, one long when it is   *)
(* one transaction.  Of each table there is one row, as far as a migration *)
(* reads or writes it, and the set of the columns and indexes it has.      *)
(***************************************************************************)
EXTENDS Databases

CONSTANTS
    Origins,        \* the databases the process may find
    MaxStarts       \* bound: starts of the process

VARIABLES
    db,         \* the database file
    pc,         \* the step of the boot that is next; Down, or Serving
    starts,     \* how often the process was started
    origin,     \* history: the database before the first start, or last written
    cut         \* history: steps a death interrupted and no start takes up

bootVars == <<db, pc, starts, origin, cut>>

-----------------------------------------------------------------------------
(* The database: shape is what its tables have, values the columns that    *)
(* still hold what was written in them, children the tables whose rows are *)
(* all there.                                                              *)

Table == [tasks |-> {"is_active", "special_mode", "special_date", "flash_start_at", "flash_minutes",
                     "flash_bonus", "lucky_date", "lucky_bonus", "live_since", "worth_3_to_5"},
          submissions |-> {"photo_index", "thumb_index", "guest_index", "photo_bonus", "task_id_null",
                           "bonus_amount", "bonus_reason", "resubmitted", "taken_down_by"},
          badges |-> {"metric", "task_id", "task_id_index"},
          guest_badges |-> {"points", "note", "submission_id", "cascade", "celebrated_at", "rank"},
          guests |-> {"avatar_point_awarded", "pinned", "contact", "contact_type", "pin", "contact_index",
                      "recap_checked_at", "is_couple", "blocked"},
          bug_reports |-> {"resolved_index", "status", "status_index", "guest_id_null"},
          settings |-> {}]

\* The tables whose rows go with a dropped table's, by ON DELETE CASCADE.
Referring == [tasks |-> {"submissions", "badges", "guest_badges"}, submissions |-> {"guest_badges"},
              badges |-> {"guest_badges"}, guest_badges |-> {}]

Has(d, column) == column \in d.shape
Add(d, columns) == [d EXCEPT !.shape = @ \cup columns]

\* ALTER TABLE ... ADD COLUMN, one after the other, those that are missing.
AddEach(d, columns) == [i \in 1 .. Len(columns) |-> Add(d, {columns[j] : j \in 1 .. i})]

\* Mutant of foreign_keys: the rebuilds leave them enforced.
foreign_keys_on == "ON"
\* The pragma around every rebuild.
foreign_keys == "OFF"

\* CREATE TABLE x_new, INSERT ... SELECT of the copied columns, DROP TABLE x,
\* RENAME: in one transaction.
Rebuild(d, table, copied, new) ==
    [d EXCEPT !.shape = (@ \ Table[table]) \cup (@ \cap copied) \cup new,
              !.values = @ \ (Table[table] \ copied),
              !.children = IF foreign_keys = "ON" THEN @ \ Referring[table] ELSE @]

After(path, d) == IF path = <<>> THEN d ELSE path[Len(path)]

-----------------------------------------------------------------------------
(* Schema: what CREATE TABLE IF NOT EXISTS gives a table that is missing.  *)

guests == {"contact", "contact_type", "pin"}
tasks == Table.tasks \ {"is_active"}
submissions == {"task_id_null"}
badges == {"metric"}
bug_reports == {"status", "guest_id_null"}

CreateTable(d, table, columns) ==
    IF table \in d.tables THEN d
    ELSE [d EXCEPT !.tables = @ \cup {table}, !.shape = @ \cup columns]

applySchema(d) ==
    LET d1 == CreateTable(d, "guests", guests)
        d2 == CreateTable(d1, "tasks", tasks)
        d3 == CreateTable(d2, "submissions", submissions)
        d4 == CreateTable(d3, "badges", badges)
        d5 == CreateTable(d4, "guest_badges", {})
        d6 == CreateTable(d5, "bug_reports", bug_reports)
    IN  <<d1, d2, d3, d4, d5, d6>> \o AddEach(d6, <<"photo_index", "thumb_index", "guest_index">>)

-----------------------------------------------------------------------------
(* migrations-tasks.js                                                     *)

ensureTaskWorthAndMode(d) ==
    IF Has(d, "special_mode") \/ ~Has(d, "is_active") THEN <<>>
    ELSE <<[Rebuild(d, "tasks", {}, {"special_mode"}) EXCEPT
              !.task.worth = 1, !.task.mode = IF d.task.active THEN "none" ELSE "hidden"]>>

ensureTaskSpecialDayColumns(d) ==
    IF Has(d, "special_date") THEN <<>>
    ELSE <<Rebuild(d, "tasks", {"special_mode"}, {"special_date"})>>

ensureTaskFlashColumns(d) == AddEach(d, <<"flash_start_at", "flash_minutes", "flash_bonus">>)
ensureTaskLuckyColumns(d) == AddEach(d, <<"lucky_date", "lucky_bonus">>)
ensureTaskLiveSinceColumn(d) == AddEach(d, <<"live_since">>)

ensureTaskWorthRange(d) ==
    IF Has(d, "worth_3_to_5") THEN <<>>
    ELSE <<[Rebuild(d, "tasks", tasks, {"worth_3_to_5"}) EXCEPT !.task.worth = @ + 2]>>

(* migrations-submissions.js                                               *)

ensurePhotoBonusColumn(d) == AddEach(d, <<"photo_bonus">>)

ensureTaskIdNullable(d) ==
    IF Has(d, "task_id_null") THEN <<>>
    ELSE <<Rebuild(d, "submissions", {"photo_bonus"}, {"task_id_null", "photo_index", "thumb_index"})>>

ensureSubmissionsBonusColumns(d) == AddEach(d, <<"bonus_amount", "bonus_reason">>)
ensureResubmittedColumn(d) == AddEach(d, <<"resubmitted">>)

ensureTakenDownByColumn(d) ==
    IF Has(d, "taken_down_by") THEN <<>>
    ELSE <<[Add(d, {"taken_down_by"}) EXCEPT !.photo.by = IF d.photo.down THEN "admin" ELSE "nobody"]>>

(* migrations-badges.js                                                    *)

ensureBadgeTypeCheckWidened(d) ==
    IF Has(d, "metric") THEN <<>> ELSE <<Rebuild(d, "badges", {}, {"metric"})>>

ensureBadgeTaskIdColumn(d) == AddEach(d, <<"task_id", "task_id_index">>)

ensureGuestBadgeAwardColumns(d) ==
    LET named == AddEach(d, <<"points", "note">>)
    IN  IF Has(d, "submission_id") THEN named
        ELSE Append(named, Add(After(named, d), {"submission_id", "cascade"}))

ensureGuestBadgeSubmissionCascade(d) ==
    IF ~Has(d, "submission_id") \/ Has(d, "cascade") THEN <<>>
    ELSE <<Rebuild(d, "guest_badges", {"points", "note", "submission_id"}, {"cascade"})>>

ensureGuestBadgeCelebratedAtColumn(d) ==
    IF Has(d, "celebrated_at") THEN <<>>
    ELSE LET added == Add(d, {"celebrated_at"})
         IN  <<added, [added EXCEPT !.badge.celebrated = TRUE]>>

ensureGuestBadgeRankColumn(d) == AddEach(d, <<"rank">>)

\* The catalog's rows: inserted, or their names and descriptions brought up
\* to date.  The threshold a milestone has stays, and is what is described.
Upsert(d, code) ==
    LET known == code \in d.codes
        threshold == IF known THEN d.bloom.threshold ELSE 5
    IN  [d EXCEPT !.codes = @ \cup {code},
                  !.bloom = IF code = "BLOOM" THEN [threshold |-> threshold, described |-> threshold] ELSE @]

ensureBadgeCatalog(d) ==
    LET bloom == Upsert(d, "BLOOM") IN <<bloom, Upsert(bloom, "COMPLETIONIST")>>

\* Retired codes: what is held of them, then their catalog rows.
Retire(d, code) ==
    LET unheld == [d EXCEPT !.held = @ \ {code}]
    IN  <<unheld, [unheld EXCEPT !.codes = @ \ {code}]>>

ensureRetiredBadgesRemoved(d) == Retire(d, "MOSTLIKED")
ensureSpecialBadgeCollisionsRemoved(d) == Retire(d, "CROWDFAV")
ensureBadgeWinnersTableDropped(d) == <<[d EXCEPT !.tables = @ \ {"badge_winners"}]>>

ensureAutoMetricBadgePointsBackfilled(d) ==
    LET auto == [d EXCEPT !.badge.bloom = IF "BLOOM" \in d.held /\ @ = 0 THEN 1 ELSE @]
    IN  <<auto, [auto EXCEPT !.badge.sweep = IF "COMPLETIONIST" \in d.held /\ @ \in {0, 1} THEN 3 ELSE @]>>

(* migrations-guests.js                                                    *)

ensurePinnedColumn(d) == AddEach(d, <<"pinned">>)
ensureGuestIdentityColumns(d) == AddEach(d, <<"contact", "contact_type", "pin", "contact_index">>)

ensureAvatarPointAwardedRetired(d) ==
    IF ~Has(d, "avatar_point_awarded") THEN <<>>
    ELSE <<[d EXCEPT !.shape = @ \ {"avatar_point_awarded"}, !.values = @ \ {"avatar_point_awarded"},
              !.guest.points = IF d.guest.flagged /\ @ > 0 THEN @ - 1 ELSE @]>>

ensureRecapCheckedAtColumn(d) ==
    IF Has(d, "recap_checked_at") THEN <<>>
    ELSE LET added == Add(d, {"recap_checked_at"})
         IN  <<added, [added EXCEPT !.guest.checked = TRUE]>>

ensureIsCoupleColumn(d) == AddEach(d, <<"is_couple">>)
ensureBlockedColumn(d) == AddEach(d, <<"blocked">>)

(* migrations-ops.js                                                       *)

ensureBugReportStatusColumn(d) ==
    LET added == Add(d, {"status"})
        filled == [added EXCEPT !.bug.status = IF d.bug.resolved THEN "closed" ELSE "open"]
        column == IF Has(d, "status") THEN <<>> ELSE <<added, filled>>
        dropped == [After(column, d) EXCEPT !.shape = @ \ {"resolved_index"}]
    IN  column \o <<dropped, Add(dropped, {"status_index"})>>

ensureBugReportGuestIdNullable(d) == AddEach(d, <<"guest_id_null">>)
ensureSettingsTable(d) == <<CreateTable(d, "settings", {})>>

(* app.js: likes of one's own photos go, and then the crown is recounted.  *)
cleanupSelfLikes(d) ==
    IF ~d.selfLike THEN <<>>
    ELSE LET removed == [d EXCEPT !.selfLike = FALSE] IN <<removed, [removed EXCEPT !.crown = FALSE]>>

-----------------------------------------------------------------------------
(* The boot sequence of db.js, then app.js.                                *)

Down == 0
Serving == 34

Step(i, d) ==
    CASE i = 1 -> applySchema(d)
      [] i = 2 -> ensureTaskWorthAndMode(d)
      [] i = 3 -> ensureTaskSpecialDayColumns(d)
      [] i = 4 -> ensureTaskFlashColumns(d)
      [] i = 5 -> ensureTaskLuckyColumns(d)
      [] i = 6 -> ensureTaskLiveSinceColumn(d)
      [] i = 7 -> ensureTaskWorthRange(d)
      [] i = 8 -> ensurePhotoBonusColumn(d)
      [] i = 9 -> ensureBadgeTypeCheckWidened(d)
      [] i = 10 -> ensureBadgeTaskIdColumn(d)
      [] i = 11 -> ensureGuestBadgeAwardColumns(d)
      [] i = 12 -> ensureGuestBadgeSubmissionCascade(d)
      [] i = 13 -> ensureGuestBadgeCelebratedAtColumn(d)
      [] i = 14 -> ensureGuestBadgeRankColumn(d)
      [] i = 15 -> ensurePinnedColumn(d)
      [] i = 16 -> ensureGuestIdentityColumns(d)
      [] i = 17 -> ensureTaskIdNullable(d)
      [] i = 18 -> ensureSubmissionsBonusColumns(d)
      [] i = 19 -> ensureBadgeCatalog(d)
      [] i = 20 -> ensureRetiredBadgesRemoved(d)
      [] i = 21 -> ensureSpecialBadgeCollisionsRemoved(d)
      [] i = 22 -> ensureBadgeWinnersTableDropped(d)
      [] i = 23 -> ensureAutoMetricBadgePointsBackfilled(d)
      [] i = 24 -> ensureResubmittedColumn(d)
      [] i = 25 -> ensureTakenDownByColumn(d)
      [] i = 26 -> ensureAvatarPointAwardedRetired(d)
      [] i = 27 -> ensureRecapCheckedAtColumn(d)
      [] i = 28 -> ensureIsCoupleColumn(d)
      [] i = 29 -> ensureBlockedColumn(d)
      [] i = 30 -> ensureBugReportStatusColumn(d)
      [] i = 31 -> ensureBugReportGuestIdNullable(d)
      [] i = 32 -> ensureSettingsTable(d)
      [] i = 33 -> cleanupSelfLikes(d)

-----------------------------------------------------------------------------
(* A database that comes from the app, at any of its versions.             *)

Columns == UNION {Table[t] : t \in DOMAIN Table}
Codes == {"BLOOM", "COMPLETIONIST", "MOSTLIKED", "CROWDFAV"}
Children == {"submissions", "badges", "guest_badges"}

Files ==
    [tables : SUBSET (DOMAIN Table \cup {"badge_winners"}), shape : SUBSET Columns,
     values : SUBSET Columns, children : SUBSET Children,
     task : [active : BOOLEAN, worth : Nat, mode : {"none", "hidden", "oneday"}],
     photo : [down : BOOLEAN, by : {"nobody", "admin", "guest"}],
     guest : [points : Nat, flagged : BOOLEAN, checked : BOOLEAN],
     badge : [bloom : Nat, sweep : Nat, celebrated : BOOLEAN],
     codes : SUBSET Codes, held : SUBSET Codes, bloom : [threshold : Nat, described : Nat],
     bug : [resolved : BOOLEAN, status : {"open", "closed", "tracked"}],
     selfLike : BOOLEAN, crown : BOOLEAN]

\* What the app adds to a table it adds in an order: where a rebuild is still
\* to come, nothing is there that came later.
Orderly(d) ==
    /\ d.values \subseteq d.shape \ Indexes
    /\ \A t \in DOMAIN Table : t \notin d.tables => d.shape \cap Table[t] = {}
    /\ Has(d, "is_active") => d.shape \cap Table.tasks = {"is_active"}
    /\ "tasks" \in d.tables => Has(d, "is_active") \/ Has(d, "special_mode")
    /\ ~Has(d, "special_date") => d.shape \cap Table.tasks \subseteq {"is_active", "special_mode"}
    /\ ~Has(d, "task_id_null") => d.shape \cap Table.submissions \subseteq {"photo_bonus"} \cup Indexes
    /\ ~Has(d, "metric") => d.shape \cap Table.badges = {}
    /\ ~Has(d, "cascade") => d.shape \cap Table.guest_badges \subseteq {"points", "note", "submission_id"}

FromTheApp(d) == d \in Files /\ d.children = Children /\ Orderly(d)

-----------------------------------------------------------------------------
BootInit ==
    /\ origin \in Origins /\ db = origin
    /\ pc = Down /\ starts = 0 /\ cut = {}

Start ==
    /\ pc = Down /\ starts < MaxStarts
    /\ pc' = 1 /\ starts' = starts + 1
    /\ UNCHANGED <<db, origin, cut>>

\* One step of the boot, whole; after the last one the server listens.
Migrate ==
    /\ pc \in 1 .. Serving - 1
    /\ db' = After(Step(pc, db), db)
    /\ pc' = pc + 1
    /\ UNCHANGED <<starts, origin, cut>>

\* The process dies after some of the step's statements.  The next start
\* takes the step up where it was left, or finds that it has been made.
Die ==
    /\ pc \in 1 .. Serving - 1
    /\ LET path == Step(pc, db)
       IN  \E k \in 0 .. Len(path) :
            LET left == After(SubSeq(path, 1, k), db)
            IN  /\ db' = left
                /\ cut' = IF After(Step(pc, left), left) # After(path, db) THEN cut \cup {pc} ELSE cut
    /\ pc' = Down
    /\ UNCHANGED <<starts, origin>>

\* What hosts and guests write while it serves: what no migration may touch.
Edited(d) ==
    [d EXCEPT !.task = [d.task EXCEPT !.worth = 5, !.mode = "oneday"],
       !.photo = [down |-> TRUE, by |-> "guest"], !.guest = [d.guest EXCEPT !.points = 2, !.checked = FALSE],
       !.badge = [d.badge EXCEPT !.celebrated = FALSE], !.bloom = [threshold |-> 2, described |-> 2],
       !.bug = [d.bug EXCEPT !.status = "tracked"], !.values = d.shape \ Indexes]

Write ==
    /\ pc = Serving
    /\ db' = Edited(db) /\ origin' = db' /\ cut' = {}
    /\ UNCHANGED <<pc, starts>>

\* The server is stopped, or dies.
Stop ==
    /\ pc = Serving /\ pc' = Down
    /\ UNCHANGED <<db, starts, origin, cut>>

BootNext == Start \/ Migrate \/ Die \/ Write \/ Stop

BootSpec == BootInit /\ [][BootNext]_bootVars

-----------------------------------------------------------------------------
(* What a served database is.                                              *)

Retired == {"is_active", "avatar_point_awarded", "resolved_index"}

\* Every table has the shape the app's statements are written for.
ShapeIsWhole(d) ==
    /\ {"guests", "tasks", "submissions", "badges", "guest_badges", "bug_reports", "settings"} \subseteq d.tables
    /\ "badge_winners" \notin d.tables /\ d.shape \cap Retired = {}
    /\ Columns \ d.shape \subseteq Retired \cup {"guest_index"}

\* What the columns of the first database say of its rows, said in the
\* columns of today.
Converted(o) ==
    LET shape == After(applySchema(o), o).shape
    IN  [worth |-> IF "is_active" \in shape THEN 3 ELSE IF "worth_3_to_5" \in shape THEN o.task.worth
                   ELSE o.task.worth + 2,
         mode |-> IF "is_active" \notin shape THEN o.task.mode ELSE IF o.task.active THEN "none" ELSE "hidden",
         by |-> IF "taken_down_by" \in shape THEN o.photo.by ELSE IF o.photo.down THEN "admin" ELSE "nobody",
         points |-> IF "avatar_point_awarded" \in shape /\ o.guest.flagged /\ o.guest.points > 0
                    THEN o.guest.points - 1 ELSE o.guest.points,
         badges |-> <<{"BLOOM", "COMPLETIONIST"}, o.held \ {"MOSTLIKED", "CROWDFAV"}>>,
         described |-> IF "BLOOM" \in o.codes THEN o.bloom.threshold ELSE 5,
         bloom |-> IF "BLOOM" \in o.held /\ o.badge.bloom = 0 THEN 1 ELSE o.badge.bloom,
         sweep |-> IF "COMPLETIONIST" \in o.held /\ o.badge.sweep < 2 THEN 3 ELSE o.badge.sweep,
         celebrated |-> "celebrated_at" \in shape => o.badge.celebrated,
         checked |-> "recap_checked_at" \in shape => o.guest.checked,
         status |-> IF "status" \in shape THEN o.bug.status ELSE IF o.bug.resolved THEN "closed" ELSE "open",
         crown |-> o.crown /\ ~o.selfLike]

Said(d) ==
    [worth |-> d.task.worth, mode |-> d.task.mode, by |-> d.photo.by, points |-> d.guest.points,
     badges |-> <<d.codes, d.held>>, described |-> d.bloom.described, bloom |-> d.badge.bloom,
     sweep |-> d.badge.sweep, celebrated |-> d.badge.celebrated, checked |-> d.guest.checked,
     status |-> d.bug.status, crown |-> d.crown]

\* The backfills that are no transaction with the column they fill, or with
\* the correction that calls for them.
Unfilled == {f \in {"celebrated", "checked", "status", "crown"} :
                CASE f = "celebrated" -> 13 \in cut
                  [] f = "checked" -> 27 \in cut
                  [] f = "status" -> 30 \in cut
                  [] f = "crown" -> 33 \in cut}

(* From any earlier version, through deaths at any statement and starts    *)
(* over, the database that serves has the whole shape, has lost no row and *)
(* no column that is still in use, and says of its rows what it said       *)
(* before - each conversion made once, however often the process starts -  *)
(* but for the four backfills that a death right before them skips.        *)
BootConverges ==
    /\ cut \subseteq {13, 27, 30, 33}
    /\ pc = Serving =>
        /\ ShapeIsWhole(db)
        /\ db.children = Children
        /\ origin.values \ Retired \subseteq db.values
        /\ \A f \in DOMAIN Said(db) \ Unfilled : Said(db)[f] = Converted(origin)[f]

(* What the comments of ensureGuestBadgeCelebratedAtColumn and of          *)
(* ensureBugReportStatusColumn say: the column and its backfill run        *)
(* together, once.                                                         *)
BackfillsAreMade == pc = Serving => Said(db) = Converted(origin)
=============================================================================
