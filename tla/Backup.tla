------------------------------- MODULE Backup -------------------------------
(***************************************************************************)
(* scripts/backup.js beside the running server: the server writes photos   *)
(* and their rows, deletes them, and may be in the middle of a write at    *)
(* any time; the script runs now and again, in one of three modes, and may *)
(* be killed between any two of its steps.                                 *)
(*                                                                         *)
(* A file is known by its photo and its directory.  A database snapshot is *)
(* taken by the backup API of SQLite and is the rows of one moment         *)
(* (external); the directory it goes to is made first, so a run cut short  *)
(* leaves a directory without a database.  One run at a time: a schedule   *)
(* starts the script, and nothing starts a second one beside it.           *)
(***************************************************************************)
EXTENDS Integers, Sequences, SequencesExt, FiniteSetsExt

CONSTANTS
    Photos,                  \* photos a guest may upload
    BACKUP_RETENTION_COUNT,  \* database snapshots a run keeps; 0 keeps all
    MaxRuns                  \* bound on the runs of the script

VARIABLES
    files,      \* file -> "absent", "half" (being written), "whole", "gone"
    rows,       \* photos with a row in the live database
    store,      \* file -> the same, in the shared photo store
    snapshots,  \* the snapshot directories, oldest first
    run,        \* the run of the script: its mode, its step, the names left
    runs,       \* runs started so far
    safe        \* history: a database snapshot was completed

backupVars == <<files, rows, store, snapshots, run, runs, safe>>

Directories == {"uploads", "thumbs"}
Files == Photos \X Directories
Modes == {"db-only", "photos-only", "default"}
Idle == [mode |-> "none", step |-> "idle", names |-> {}]

BackupInit ==
    /\ files = [f \in Files |-> "absent"]
    /\ rows = {}
    /\ store = [f \in Files |-> "absent"]
    /\ snapshots = <<>>
    /\ run = Idle
    /\ runs = 0
    /\ safe = FALSE

-----------------------------------------------------------------------------
(* The server.                                                             *)

\* The upload a thumbnail is made from.
Upload(f) == <<f[1], "uploads">>

\* A file is opened under its final name, and some time later is whole; the
\* thumbnail is made from the whole upload.
Write(f) ==
    /\ f[2] = "thumbs" => files[Upload(f)] = "whole"
    /\ \/ files[f] = "absent" /\ files' = [files EXCEPT ![f] = "half"]
       \/ files[f] = "half" /\ files' = [files EXCEPT ![f] = "whole"]
    /\ UNCHANGED <<rows, store, snapshots, run, runs, safe>>

\* The row is inserted once the upload and its thumbnail are written.
Insert(p) ==
    /\ p \notin rows
    /\ \A d \in Directories : files[<<p, d>>] = "whole"
    /\ rows' = rows \cup {p}
    /\ UNCHANGED <<files, store, snapshots, run, runs, safe>>

\* A photo is uploaded again: the row names the new files, the old ones go
\* later.
Replace(p, q) ==
    /\ p \in rows /\ q \notin rows
    /\ \A d \in Directories : files[<<q, d>>] = "whole"
    /\ rows' = (rows \ {p}) \cup {q}
    /\ UNCHANGED <<files, store, snapshots, run, runs, safe>>

\* A file goes: of a photo replaced, refused, or about to be deleted for
\* good; the upload first.
Unlink(f) ==
    /\ f[2] = "thumbs" => files[Upload(f)] = "gone"
    /\ files[f] = "whole"
    /\ files' = [files EXCEPT ![f] = "gone"]
    /\ UNCHANGED <<rows, store, snapshots, run, runs, safe>>

\* The row is deleted after its files.
DeleteRow(p) ==
    /\ p \in rows /\ \A d \in Directories : files[<<p, d>>] = "gone"
    /\ rows' = rows \ {p}
    /\ UNCHANGED <<files, store, snapshots, run, runs, safe>>

-----------------------------------------------------------------------------
(* The script.                                                             *)

\* Mutant of Steps: the photos are listed before the rows are copied.
PhotosFirst(mode) ==
    (IF mode = "db-only" THEN <<>> ELSE <<"uploads", "thumbs">>)
        \o (IF mode = "photos-only" THEN <<>> ELSE <<"mkdir", "backup">>)

\* What a run of a mode does, in order; pruning comes last.
Steps(mode) ==
    (IF mode = "photos-only" THEN <<>> ELSE <<"mkdir", "backup">>)
        \o (IF mode = "db-only" THEN <<>> ELSE <<"uploads", "thumbs">>)

After(step) ==
    LET steps == Steps(run.mode) \o <<"prune">>
    IN  steps[1 + CHOOSE i \in 1 .. Len(steps) : steps[i] = step]

Present(where, d) == {f \in Files : f[2] = d /\ where[f] \in {"half", "whole"}}

\* The names of a directory that the store does not have.
newFileNames(d) == Present(files, d) \ Present(store, d)

\* A run begins, unless the disk budget refuses it, which touches nothing.
Start(mode) ==
    /\ run = Idle /\ runs < MaxRuns
    /\ run' = [mode |-> mode, step |-> Head(Steps(mode)), names |-> {}]
    /\ runs' = runs + 1
    /\ UNCHANGED <<files, rows, store, snapshots, safe>>

\* The snapshot's directory is made, empty.
MakeDirectory ==
    /\ run.step = "mkdir"
    /\ snapshots' = Append(snapshots, [whole |-> FALSE, rows |-> {}, photos |-> FALSE])
    /\ run' = [run EXCEPT !.step = After("mkdir")]
    /\ UNCHANGED <<files, rows, store, runs, safe>>

\* The database is in it.
backupDatabase ==
    /\ run.step = "backup"
    /\ snapshots' = [snapshots EXCEPT ![Len(snapshots)].whole = TRUE, ![Len(snapshots)].rows = rows]
    /\ run' = [run EXCEPT !.step = After("backup")]
    /\ safe' = TRUE
    /\ UNCHANGED <<files, rows, store, runs>>

\* A directory is listed once, and the names the store lacks are then copied.
ListNew(d) ==
    /\ run.step = d
    /\ run' = IF newFileNames(d) = {} THEN [run EXCEPT !.step = After(d)]
              ELSE [run EXCEPT !.step = "copy", !.names = newFileNames(d)]
    /\ UNCHANGED <<files, rows, store, snapshots, runs, safe>>

\* One file is copied as it is now; one deleted since the listing ends the run
\* with an error.
Copy(f) ==
    /\ run.step = "copy" /\ f \in run.names
    /\ IF files[f] = "gone"
       THEN run' = Idle /\ UNCHANGED store
       ELSE /\ store' = [store EXCEPT ![f] = files[f]]
            /\ run' = IF run.names = {f} THEN [run EXCEPT !.step = After(f[2]), !.names = {}]
                      ELSE [run EXCEPT !.names = @ \ {f}]
    /\ UNCHANGED <<files, rows, snapshots, runs, safe>>

\* Killed in the middle of a copy.
KilledCopying(f) ==
    /\ run.step = "copy" /\ f \in run.names /\ files[f] # "gone"
    /\ store' = [store EXCEPT ![f] = "half"]
    /\ run' = Idle
    /\ UNCHANGED <<files, rows, snapshots, runs, safe>>

\* Killed, or failed, between two steps.
Killed ==
    /\ run # Idle
    /\ run' = Idle
    /\ UNCHANGED <<files, rows, store, snapshots, runs, safe>>

\* Mutant of pruneBackups: the oldest are kept.
pruneNewest(all) ==
    IF BACKUP_RETENTION_COUNT = 0 THEN all
    ELSE SubSeq(all, 1, Min({Len(all), BACKUP_RETENTION_COUNT}))

\* The newest directories are kept, whole or not.
pruneBackups(all) ==
    IF BACKUP_RETENTION_COUNT = 0 THEN all
    ELSE SubSeq(all, Max({1, Len(all) - BACKUP_RETENTION_COUNT + 1}), Len(all))

\* The end of a run that did not fail: a run that wrote a snapshot prunes.
Finish ==
    /\ run.step = "prune"
    /\ LET marked == IF run.mode = "default" THEN [snapshots EXCEPT ![Len(snapshots)].photos = TRUE]
                     ELSE snapshots
       IN  snapshots' = IF run.mode = "photos-only" THEN snapshots ELSE pruneBackups(marked)
    /\ run' = Idle
    /\ UNCHANGED <<files, rows, store, runs, safe>>

BackupNext ==
    \/ \E f \in Files : Write(f) \/ Unlink(f) \/ Copy(f) \/ KilledCopying(f)
    \/ \E p \in Photos : Insert(p) \/ DeleteRow(p) \/ \E q \in Photos : Replace(p, q)
    \/ \E mode \in Modes : Start(mode)
    \/ \E d \in Directories : ListNew(d)
    \/ MakeDirectory \/ backupDatabase \/ Killed \/ Finish

BackupSpec == BackupInit /\ [][BackupNext]_backupVars

-----------------------------------------------------------------------------
(* Properties.                                                             *)

\* Of every row of a snapshot whose run ended well the store has both files,
\* uploads and replacements going on meanwhile or not, unless the server had
\* deleted them first: the rows are copied before the directories are listed.
\* It may have a file half written for ever, though: one copied while it was
\* being uploaded, or whose copy was cut short, has its name and is skipped
\* (backup.js:111).
SnapshotHasItsPhotos ==
    \A s \in Range(snapshots) : s.photos =>
        \A f \in Files : f[1] \in s.rows => store[f] # "absent" \/ files[f] = "gone"

\* Once one database snapshot was completed there is always one to restore,
\* however many later runs were killed half way, leaving a directory that is
\* counted and kept like any other, and whatever the retention count is
\* (backup.js:258).
SnapshotSurvives == safe => \E s \in Range(snapshots) : s.whole

=============================================================================
