----------------------------- MODULE MCServer ------------------------------
(***************************************************************************)
(* Five parts of the server that share no state, in one run: which of them *)
(* runs is chosen at the start, and the others rest.  Access: three        *)
(* contacts of which the lockout map holds two, two addresses of which a   *)
(* limiter holds one.  Boot: three starts of every database of Databases.  *)
(* Backup: two photos and two runs of the script.  Lifecycle: the server,  *)
(* its wrapper and two connections.  Export: two memories of one guest and *)
(* another's photo of a task, or the one that takes its place.             *)
(***************************************************************************)
EXTENDS Access, TLC

CONSTANTS
    second, third,      \* contacts, interchangeable
    Origins, MaxStarts,
    Photos, BACKUP_RETENTION_COUNT, MaxRuns,
    Conns, MAX_RESTARTS, WINDOW, BACKOFF, timeoutMs, MaxPending,
    Submitted, Authors, Subjects, Named, Memory, MaxMeddling

ASSUME ServerAssumption ==
    /\ {MAX_RESTARTS, WINDOW, BACKOFF, timeoutMs, MaxPending} \subseteq Nat \ {0}
    /\ {BACKUP_RETENTION_COUNT, MaxRuns} \subseteq Nat

VARIABLES
    part,                                                           \* the part that runs
    db, pc, starts, origin, cut,                                    \* Boot
    files, rows, store, snapshots, run, runs, safe,                 \* Backup
    wrapper, restartTimes, relaunch, child, pending, forceTimer,    \* Lifecycle
    conn, restarts, draining, stopping, last,
    row, disk, step, sheet, queue, zip, met, meddling               \* Export

Boot      == INSTANCE Boot
\* The databases the process may find were made by the app, or are empty.
ASSUME OriginsAssumption == \A d \in Origins : Boot!FromTheApp(d)

\* No two tasks have a place and a title in common (TaskOrder).
ASSUME NamesAssumption ==
    \A t, u \in {Subjects[r] : r \in Submitted} \ {Memory} : Named[t] = Named[u] => t = u

Backup    == INSTANCE Backup
Lifecycle == INSTANCE Lifecycle
Export    ==
    INSTANCE Export WITH
        Rows <- Submitted, GuestOf <- Authors, TaskOf <- Subjects, Placed <- Named

MCContacts == {"a@x", second, third}
MCSpelled == [A |-> "a@x", b |-> second, c |-> third, junk |-> None]
MCSymmetry == Permutations({second, third})

MCAuthors == <<1, 1, 2, 2>>
MCSubjects == <<Memory, Memory, "t", "t">>
MCNamed == [t |-> <<1, "cake">>]

LOCAL Found == INSTANCE Databases
MCOrigins == Found!Databases

-----------------------------------------------------------------------------
bootVars   == <<db, pc, starts, origin, cut>>
backupVars == <<files, rows, store, snapshots, run, runs, safe>>
lifeVars   ==
    <<wrapper, restartTimes, relaunch, child, pending, forceTimer, conn, restarts, draining, stopping,
      last>>
exportVars == <<row, disk, step, sheet, queue, zip, met, meddling>>

NoBoot == db = None /\ pc = None /\ starts = None /\ origin = None /\ cut = None
NoBackup ==
    /\ files = None /\ rows = None /\ store = None /\ snapshots = None /\ run = None
    /\ runs = None /\ safe = None
NoLifecycle ==
    /\ wrapper = None /\ restartTimes = None /\ relaunch = None /\ child = None /\ pending = None
    /\ forceTimer = None /\ conn = None /\ restarts = None /\ draining = None /\ stopping = None
    /\ last = None
NoExport ==
    /\ row = None /\ disk = None /\ step = None /\ sheet = None /\ queue = None /\ zip = None
    /\ met = None /\ meddling = None

ServerInit ==
    /\ Init
    /\ part \in {"access", "boot", "backup", "lifecycle", "export"}
    /\ IF part = "boot" THEN Boot!BootInit ELSE NoBoot
    /\ IF part = "backup" THEN Backup!BackupInit ELSE NoBackup
    /\ IF part = "lifecycle" THEN Lifecycle!LifeInit ELSE NoLifecycle
    /\ IF part = "export" THEN Export!ExportInit ELSE NoExport

\* Bound: the host's lockout and the guests' are followed one at a time, since
\* they share nothing but the clock and the restarts.
OneLockout ==
    \/ counted = <<>> /\ admin.until = 0 /\ comparing = [right |-> 0, wrong |-> 0]
    \/ /\ \A c \in Contacts : ~entry[c].present /\ guesses[c] = <<>>
       /\ \A l \in Limiters, d \in Devices : ~bucket[l][d].present /\ admitted[l][d] = <<>>

\* Bounds: the photo posted first is called 1, as the two are alike, and the
\* files of one of them stay.
PhotosInOrder ==
    /\ files[<<2, "uploads">>] # "absent" => files[<<1, "uploads">>] # "absent"
    /\ \E p \in Photos : files[<<p, "uploads">>] # "gone"

ServerNext ==
    /\ UNCHANGED part
    /\ \/ part = "access" /\ UNCHANGED <<bootVars, backupVars, lifeVars, exportVars>> /\ Next
                         /\ OneLockout'
       \/ part = "boot" /\ UNCHANGED <<vars, backupVars, lifeVars, exportVars>> /\ Boot!BootNext
       \/ part = "backup" /\ UNCHANGED <<vars, bootVars, lifeVars, exportVars>> /\ Backup!BackupNext
                         /\ PhotosInOrder'
       \/ part = "lifecycle" /\ UNCHANGED <<vars, bootVars, backupVars, exportVars>> /\ Lifecycle!LifeNext
       \/ part = "export" /\ UNCHANGED <<vars, bootVars, backupVars, lifeVars>> /\ Export!ExportNext

ServerSpec == ServerInit /\ [][ServerNext]_<<part, vars, bootVars, backupVars, lifeVars, exportVars>>

-----------------------------------------------------------------------------
(* The properties of each part, stated in its module; WindowsHold,         *)
(* OnlyOwnPagesAct and LockoutsAreKept are Access's own.                   *)

\* Whatever version of a database the process finds and wherever it dies, the
\* boots after it end in the schema and the data a single boot would have made,
\* but for the backfills a death skips (db/index.js).
DataSurvives == part = "boot" => Boot!BootConverges

\* What the operator's scripts promise: a drain is bounded and patient, a crash
\* loop ends, and only a loop does (utils/shutdown.js, serve-resilient.js); a
\* snapshot has its photos, and one is always kept (scripts/backup.js).
ScriptsKeepTheirWord ==
    /\ part = "lifecycle" => Lifecycle!LifeKeepsItsWord
    /\ part = "backup" => Backup!SnapshotHasItsPhotos /\ Backup!SnapshotSurvives

\* The archive has every photo that stayed, once, under a name of its own, and
\* the sheet says of it what was so (services/export.js).
KeepsakeIsWhole == part = "export" => Export!KeepsakeIsWhole
=============================================================================
