------------------------------- MODULE Export -------------------------------
(***************************************************************************)
(* The keepsake: one download with a spreadsheet of everything and a       *)
(* folder of originals per guest (services/export.js, GET /admin/export).  *)
(* The sheets are read in one go, the workbook is written behind an await, *)
(* the rows are read again for the folders, and the files themselves are   *)
(* opened later still, so the party goes on in between: photos are posted, *)
(* replaced, hidden and deleted with their guests.                         *)
(*                                                                         *)
(* A row's file is known by a version, raised when the photo is replaced;  *)
(* its bytes stay readable to whoever has opened them.  The archiver is    *)
(* external: it appends what it is given, folder after folder, or fails.   *)
(***************************************************************************)
EXTENDS Integers

CONSTANTS
    Rows,           \* submissions, those there are at first and those to come
    GuestOf,        \* row -> its guest, a number
    TaskOf,         \* row -> its task, or Memory
    Memory,
    Placed,         \* task -> the sort order and the cleaned title its entry is named by
    MaxMeddling     \* bound

VARIABLES
    row,            \* row -> [there, down, version]
    disk,           \* the files, as <<row, version>>
    step,           \* where the request is: "start", "sheets", "folders", "sent" or "broken"
    sheet,          \* the rows of the Submissions sheet, with what it says of each
    queue,          \* entries still to be read: [name, file, open]
    zip,            \* the entries of the archive
    met,            \* history: the rows that stayed as they were, with their file
    meddling

exportVars == <<row, disk, step, sheet, queue, zip, met, meddling>>

\* uq_sub: a guest has one photo of a task, and any number of memories.
UNIQUE(r, s) == TaskOf[r] # Memory /\ TaskOf[r] = TaskOf[s] /\ GuestOf[r] = GuestOf[s] => r = s

ExportInit ==
    /\ \E gone \in SUBSET Rows, down \in SUBSET Rows, lost \in SUBSET Rows :
        /\ \A r, s \in Rows \ gone : UNIQUE(r, s)
        /\ row = [r \in Rows |-> [there |-> r \notin gone, down |-> r \in down \ gone, version |-> 0]]
        /\ disk = {<<r, 0>> : r \in Rows \ (gone \cup lost)}
    /\ step = "start" /\ sheet = {} /\ queue = {} /\ zip = {} /\ met = {} /\ meddling = 0

There == {r \in Rows : row[r].there}
FileOf(r) == <<r, row[r].version>>
Whole == {r \in There : FileOf(r) \in disk}

-----------------------------------------------------------------------------
(* The party goes on.                                                      *)

Meddle ==
    /\ step \in {"sheets", "folders"}
    /\ meddling < MaxMeddling /\ meddling' = meddling + 1
    /\ met' = met \cap {r \in Rows : row'[r].there /\ row'[r].version = row[r].version /\ FileOf(r) \in disk'}
    /\ UNCHANGED <<step, sheet, queue, zip>>

\* A photo is posted: its file is there before its row.
Post(r) ==
    /\ ~row[r].there /\ row[r].version = 0 /\ \A s \in There : UNIQUE(r, s)
    /\ row' = [row EXCEPT ![r].there = TRUE]
    /\ disk' = disk \cup {<<r, 0>>}
    /\ Meddle

\* A guest replaces a photo: the row first, then the old file.
Replace(r) ==
    /\ row[r].there
    /\ row' = [row EXCEPT ![r].version = @ + 1]
    /\ disk' = (disk \ {FileOf(r)}) \cup {<<r, row[r].version + 1>>}
    /\ Meddle

Hide(r) ==
    /\ row[r].there /\ row' = [row EXCEPT ![r].down = ~@]
    /\ UNCHANGED disk /\ Meddle

\* The host deletes a guest, rows and files.
DeleteGuest(g) ==
    /\ \E r \in There : GuestOf[r] = g
    /\ row' = [r \in Rows |-> IF row[r].there /\ GuestOf[r] = g
                              THEN [there |-> FALSE, down |-> row[r].down, version |-> row[r].version + 1]
                              ELSE row[r]]
    /\ disk' = {f \in disk : ~(row[f[1]].there /\ GuestOf[f[1]] = g)}
    /\ Meddle

-----------------------------------------------------------------------------
(* The request.                                                            *)

\* buildSummaryBuffer: all rows, hidden ones labelled.
buildSummaryBuffer ==
    /\ step = "start"
    /\ step' = "sheets"
    /\ sheet' = {[row |-> r, takenDown |-> row[r].down] : r \in There}
    /\ met' = Whole
    /\ UNCHANGED <<row, disk, queue, zip, meddling>>

\* Mutant of EntryName: a memory is named like a task's photo, by its task.
EntryNameOfTask(r) == <<GuestOf[r], "task", IF TaskOf[r] = Memory THEN <<0, Memory>> ELSE Placed[TaskOf[r]]>>

\* <guest>/task-<sort order>-<title>, or <guest>/memory-<id>.
EntryName(r) ==
    IF TaskOf[r] = Memory THEN <<GuestOf[r], "memory", r>> ELSE <<GuestOf[r], "task", Placed[TaskOf[r]]>>

\* Mutant of Collected: what is hidden stays behind.
CollectedShown == {r \in Whole : ~row[r].down}

\* The rows whose original is on the disk; a missing one is skipped.
Collected == Whole

\* streamExportZip after the workbook is written: the folders' rows, the files
\* checked, and a stream made for each at once.
Collect ==
    /\ step = "sheets"
    /\ step' = "folders"
    /\ queue' = {[name |-> EntryName(r), file |-> FileOf(r), open |-> FALSE] : r \in Collected}
    /\ UNCHANGED <<row, disk, sheet, zip, met, meddling>>

\* A stream opens its file, in any order and before its turn to be read.
Open(e) ==
    /\ step = "folders" /\ ~e.open /\ e.file \in disk
    /\ queue' = (queue \ {e}) \cup {[name |-> e.name, file |-> e.file, open |-> TRUE]}
    /\ UNCHANGED <<row, disk, step, sheet, zip, met, meddling>>

\* Its file went since it was checked: the stream errors and the download
\* breaks off, rather than end as a whole archive that lacks it.
Break(e) ==
    /\ step = "folders" /\ ~e.open /\ e.file \notin disk
    /\ step' = "broken"
    /\ UNCHANGED <<row, disk, sheet, queue, zip, met, meddling>>

\* The next entry is read to its end, its file still there or not: a guest's
\* folder before the next guest's.
append(e) ==
    /\ step = "folders" /\ e.open /\ \A f \in queue : GuestOf[e.file[1]] <= GuestOf[f.file[1]]
    /\ zip' = zip \cup {[name |-> e.name, file |-> e.file]}
    /\ queue' = queue \ {e}
    /\ UNCHANGED <<row, disk, step, sheet, met, meddling>>

finalize ==
    /\ step = "folders" /\ queue = {}
    /\ step' = "sent"
    /\ UNCHANGED <<row, disk, sheet, queue, zip, met, meddling>>

ExportNext ==
    \/ \E r \in Rows : Post(r) \/ Replace(r) \/ Hide(r) \/ DeleteGuest(GuestOf[r])
    \/ buildSummaryBuffer \/ Collect \/ finalize
    \/ \E e \in queue : Open(e) \/ Break(e) \/ append(e)

ExportSpec == ExportInit /\ [][ExportNext]_exportVars

-----------------------------------------------------------------------------
(* Properties.                                                             *)

\* A download that ends whole keeps everything that stayed: a photo whose row
\* and file were there all along, hidden or not, is a row of the sheet and one
\* entry under its guest, and no entry overwrites another.  An entry the sheet
\* lacks was posted meanwhile; a broken one only follows from meddling.
KeepsakeIsWhole ==
    /\ step = "sent" =>
        /\ \A r \in met : /\ \E e \in zip : e.file = FileOf(r) /\ e.name[1] = GuestOf[r]
                          /\ \E s \in sheet : s.row = r
        /\ \A e, f \in zip : e.name = f.name => e = f
        /\ \A e \in zip : (\A s \in sheet : s.row # e.file[1]) => meddling > 0
        /\ meddling = 0 => {s.row : s \in sheet} \cap Whole = {e.file[1] : e \in zip}
    /\ step = "broken" => meddling > 0

=============================================================================
