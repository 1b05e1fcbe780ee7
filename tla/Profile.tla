------------------------------- MODULE Profile -------------------------------
(***************************************************************************)
(* One guest's row from POST /join on: profile edits that overlap, the     *)
(* removal of the profile photo, and the host who resets the PIN or        *)
(* deletes the guest.                                                      *)
(*                                                                         *)
(* attachGuest reads the whole row before multer has read the body of a    *)
(* multipart form, and POST /me/edit writes what it does not change back   *)
(* from that copy, after saveAvatar has waited for the avatar gate and for *)
(* sharp.  Only those two waits give the event loop away.  The stretch     *)
(* from saveAvatar's UPDATE to the answer is split into the steps that     *)
(* reach the disk or commit, since the process may die between them.       *)
(*                                                                         *)
(* The name and the social links are kept and written back like the PIN,   *)
(* which stands for the three.  An avatar file is named by the request     *)
(* that uploaded it.                                                       *)
(***************************************************************************)
EXTENDS FiniteSets

CONSTANTS
    Requests,   \* POST /join or POST /me/edit; also the avatar files they make
    Pins,       \* what a PIN may be
    Blank,      \* the PIN field of an edit left empty
    NoPhoto,    \* guests.avatar_path is NULL
    NoRow,      \* there is no guest row (or no copy of one)
    Nobody      \* nobody has joined yet

Row == [avatar : Requests \cup {NoPhoto}, pin : Pins]

ASSUME ProfileAssumption ==
    /\ Blank \notin Pins
    /\ NoPhoto \notin Requests
    /\ Nobody \notin Requests
    /\ NoRow \notin Row

VARIABLES
    row,        \* the guest row
    files,      \* avatars in the uploads directory
    credited,   \* the last threshold recount saw a profile photo
    joiner,     \* the request that created the row
    pc,         \* request -> where it is
    copy,       \* request -> the row as attachGuest read it
    form,       \* request -> the PIN it brings, and whether it brings a photo
    answer,     \* request -> what became of it
    chore,      \* the removal of the photo, or of the guest, in progress
    overlap,    \* history: something ran while a request was under way
    faulted     \* history: a crash, or a failure the code logs and swallows

request == <<pc, copy, form, answer>>
vars == <<row, files, credited, joiner, request, chore, overlap, faulted>>

Form    == [pin : Pins \cup {Blank}, photo : BOOLEAN]
Answers == {"none", "joined", "saved", "busy", "failed", "refused", "lost"}
PCs     == {"unsent", "sent", "avatar", "written", "set", "swept", "skipped",
            "saved", "done"}

Exists   == row # NoRow
HasPhoto == Exists /\ row.avatar # NoPhoto
IsEdit(r) == copy[r] # NoRow

InFlight(r)   == pc[r] \notin {"unsent", "done"}
MidStretch(r) == pc[r] \in {"set", "swept", "skipped", "saved"}
AnyInFlight   == \E r \in Requests : InFlight(r)
LoopIsFree    == chore = "none" /\ \A r \in Requests : ~MidStretch(r)

Init ==
    /\ row = NoRow
    /\ files = {}
    /\ credited = FALSE
    /\ joiner = Nobody
    /\ pc = [r \in Requests |-> "unsent"]
    /\ copy = [r \in Requests |-> NoRow]
    /\ form \in [Requests -> Form]
    /\ answer = [r \in Requests |-> "none"]
    /\ chore = "none"
    /\ overlap = FALSE
    /\ faulted = FALSE

Goto(r, where) == pc' = [pc EXCEPT ![r] = where]

Reply(r, what) ==
    /\ Goto(r, "done")
    /\ answer' = [answer EXCEPT ![r] = what]
    /\ copy' = [copy EXCEPT ![r] = NoRow]

-----------------------------------------------------------------------------
(* POST /join and POST /me/edit up to saveAvatar *)

\* A valid signup: the row is inserted, then its photo is saved if there is one.
Join(r) ==
    /\ LoopIsFree
    /\ pc[r] = "unsent" /\ form[r].pin # Blank
    /\ joiner = Nobody
    /\ row' = [avatar |-> NoPhoto, pin |-> form[r].pin]
    /\ joiner' = r
    /\ IF form[r].photo THEN Goto(r, "avatar") /\ UNCHANGED <<answer, copy>>
                        ELSE Reply(r, "joined")
    /\ UNCHANGED <<files, credited, form, chore, overlap, faulted>>

\* attachGuest: the headers of an edit are in, its body is still to come.
Arrive(r) ==
    /\ LoopIsFree
    /\ pc[r] = "unsent"
    /\ Exists
    /\ copy' = [copy EXCEPT ![r] = row]
    /\ Goto(r, "sent")
    /\ overlap' = (overlap \/ AnyInFlight)
    /\ UNCHANGED <<row, files, credited, joiner, form, answer, chore, faulted>>

\* multer's error, a bad token or a malformed PIN: nothing is written.
Refuse(r) ==
    /\ LoopIsFree
    /\ pc[r] = "sent"
    /\ Reply(r, "refused")
    /\ UNCHANGED <<row, files, credited, joiner, form, chore, overlap, faulted>>

\* The body is parsed and brings a photo.
StartAvatar(r) ==
    /\ LoopIsFree
    /\ pc[r] = "sent" /\ form[r].photo
    /\ Goto(r, "avatar")
    /\ UNCHANGED <<row, files, credited, joiner, copy, form, answer, chore,
                   overlap, faulted>>

-----------------------------------------------------------------------------
(* saveAvatar: its gate, sharp, and the UPDATE of its own *)

\* Mutant: a busy avatar gate costs the guest the rest of the edit.
AvatarSkippedAll(r) ==
    /\ LoopIsFree
    /\ pc[r] = "avatar"
    /\ IF IsEdit(r) THEN Reply(r, "busy") ELSE Reply(r, "joined")
    /\ UNCHANGED <<row, files, credited, joiner, form, chore, overlap, faulted>>

\* The avatar gate is full, or its wait ran out: the edit goes on without.
AvatarSkipped(r) ==
    /\ LoopIsFree
    /\ pc[r] = "avatar"
    /\ IF IsEdit(r)
       THEN /\ Goto(r, "skipped")
            /\ answer' = [answer EXCEPT ![r] = "busy"]
            /\ UNCHANGED copy
       ELSE Reply(r, "joined")
    /\ UNCHANGED <<row, files, credited, joiner, form, chore, overlap, faulted>>

\* The bytes are no image: an edit ends there, a signup swallows it.
AvatarFails(r) ==
    /\ LoopIsFree
    /\ pc[r] = "avatar"
    /\ Reply(r, IF IsEdit(r) THEN "failed" ELSE "joined")
    /\ UNCHANGED <<row, files, credited, joiner, form, chore, overlap, faulted>>

\* sharp's file may appear at any time.
AvatarWritten(r) ==
    /\ pc[r] = "avatar"
    /\ files' = files \cup {r}
    /\ Goto(r, "written")
    /\ UNCHANGED <<row, credited, joiner, copy, form, answer, chore, overlap,
                   faulted>>

\* _setGuestAvatar (which may match no row); a signup is over with it.
AvatarSet(r) ==
    /\ LoopIsFree
    /\ pc[r] = "written"
    /\ row' = IF Exists THEN [row EXCEPT !.avatar = r] ELSE row
    /\ IF IsEdit(r) THEN Goto(r, "set") /\ UNCHANGED <<answer, copy>>
                    ELSE Reply(r, "joined")
    /\ UNCHANGED <<files, credited, joiner, form, chore, overlap, faulted>>

-----------------------------------------------------------------------------
(* POST /me/edit after saveAvatar *)

\* Mutant: no superseded avatar is ever deleted.
SweptNothing(r) == files

\* The avatar of the copy is deleted, not the one the row named a moment ago.
Swept(r) == files \ {copy[r].avatar}

SweepOld(r) ==
    /\ pc[r] = "set"
    /\ files' = Swept(r)
    /\ Goto(r, "swept")
    /\ UNCHANGED <<row, credited, joiner, copy, form, answer, chore, overlap,
                   faulted>>

SweepFails(r) ==
    /\ pc[r] = "set"
    /\ Goto(r, "swept")
    /\ faulted' = TRUE
    /\ UNCHANGED <<row, files, credited, joiner, copy, form, answer, chore,
                   overlap>>

\* Mutant: the row keeps the avatar of the copy.
EditedKeepingPhoto(r) ==
    [avatar |-> copy[r].avatar,
     pin    |-> IF form[r].pin = Blank THEN copy[r].pin ELSE form[r].pin]

\* Mutant: a PIN field left blank wipes the PIN.
EditedBlank(r) ==
    [avatar |-> IF pc[r] = "swept" THEN r ELSE copy[r].avatar,
     pin    |-> form[r].pin]

\* What the edit did not bring is written back from its copy.
Edited(r) ==
    [avatar |-> IF pc[r] = "swept" THEN r ELSE copy[r].avatar,
     pin    |-> IF form[r].pin = Blank THEN copy[r].pin ELSE form[r].pin]

Save(r) ==
    /\ \/ pc[r] \in {"swept", "skipped"}
       \/ LoopIsFree /\ pc[r] = "sent" /\ ~form[r].photo
    /\ row' = IF Exists THEN Edited(r) ELSE row
    /\ Goto(r, "saved")
    /\ UNCHANGED <<files, credited, joiner, copy, form, answer, chore, overlap,
                   faulted>>

Finish(r) == Reply(r, IF answer[r] = "busy" THEN "busy" ELSE "saved")

\* The threshold recount, then the answer.
Recount(r) ==
    /\ pc[r] = "saved"
    /\ credited' = HasPhoto
    /\ Finish(r)
    /\ UNCHANGED <<row, files, joiner, form, chore, overlap, faulted>>

RecountFails(r) ==
    /\ pc[r] = "saved"
    /\ faulted' = TRUE
    /\ Finish(r)
    /\ UNCHANGED <<row, files, credited, joiner, form, chore, overlap>>

-----------------------------------------------------------------------------
(* POST /me/avatar/delete: the file, the column, the recount *)

Chore(from, to) == chore = from /\ chore' = to

\* A chore begins in a turn of its own.
Begin(to) ==
    /\ LoopIsFree
    /\ Exists
    /\ Chore("none", to)
    /\ overlap' = (overlap \/ AnyInFlight)

RemoveFile ==
    /\ Begin("unlinked")
    /\ HasPhoto
    /\ \/ files' = files \ {row.avatar} /\ UNCHANGED faulted
       \/ faulted' = TRUE /\ UNCHANGED files
    /\ UNCHANGED <<row, credited, joiner, request>>

RemovePath ==
    /\ Chore("unlinked", "cleared")
    /\ row' = [row EXCEPT !.avatar = NoPhoto]
    /\ UNCHANGED <<files, credited, joiner, request, overlap, faulted>>

\* Mutant: the removal does not recount.
RemoveForgets ==
    /\ Chore("cleared", "none")
    /\ UNCHANGED <<row, files, credited, joiner, request, overlap, faulted>>

RemoveRecount ==
    /\ Chore("cleared", "none")
    /\ \/ credited' = HasPhoto /\ UNCHANGED faulted
       \/ faulted' = TRUE /\ UNCHANGED credited
    /\ UNCHANGED <<row, files, joiner, request, overlap>>

-----------------------------------------------------------------------------
(* The host, the rest of the program, the process *)

\* POST /admin/guests/:id/edit and /identity
HostSetsPin ==
    /\ LoopIsFree
    /\ Exists
    /\ \E p \in Pins : row' = [row EXCEPT !.pin = p]
    /\ UNCHANGED <<files, credited, joiner, request, chore, overlap, faulted>>

\* POST /admin/guests/:id/delete: the avatar file, then the row and, with it,
\* its badges.
HostUnlinks ==
    /\ Begin("closing")
    /\ \/ files' = files \ {row.avatar} /\ UNCHANGED faulted
       \/ faulted' = TRUE /\ UNCHANGED files
    /\ UNCHANGED <<row, credited, joiner, request>>

HostDeletes ==
    /\ Chore("closing", "none")
    /\ row' = NoRow
    /\ credited' = FALSE
    /\ UNCHANGED <<files, joiner, request, overlap, faulted>>

\* Any change of the guest's task photos recounts the thresholds too.
OtherRecount ==
    /\ LoopIsFree
    /\ Exists
    /\ credited' = HasPhoto
    /\ UNCHANGED <<row, files, joiner, request, chore, overlap, faulted>>

Crash ==
    /\ chore # "none" \/ AnyInFlight
    /\ pc' = [r \in Requests |-> IF InFlight(r) THEN "done" ELSE pc[r]]
    /\ answer' = [r \in Requests |-> IF InFlight(r) THEN "lost" ELSE answer[r]]
    /\ copy' = [r \in Requests |-> NoRow]
    /\ chore' = "none"
    /\ faulted' = TRUE
    /\ UNCHANGED <<row, files, credited, joiner, form, overlap>>

RequestStep(r) ==
    \/ Join(r) \/ Arrive(r) \/ Refuse(r) \/ StartAvatar(r)
    \/ AvatarSkipped(r) \/ AvatarFails(r) \/ AvatarWritten(r) \/ AvatarSet(r)
    \/ SweepOld(r) \/ SweepFails(r) \/ Save(r)
    \/ Recount(r) \/ RecountFails(r)

Next ==
    \/ \E r \in Requests : RequestStep(r)
    \/ RemoveFile \/ RemovePath \/ RemoveRecount
    \/ HostSetsPin \/ HostUnlinks \/ HostDeletes
    \/ OtherRecount
    \/ Crash

Spec == Init /\ [][Next]_vars

-----------------------------------------------------------------------------
(* Properties *)

Answering(r) == pc[r] # "done" /\ pc'[r] = "done" /\ answer'[r] # "lost"

\* The row names no avatar that is not on disk.
Whole == HasPhoto => row.avatar \in files

\* The row, the copies of it and the requests keep their types.
TypeOK ==
    /\ row \in Row \cup {NoRow}
    /\ files \subseteq Requests
    /\ credited \in BOOLEAN
    /\ joiner \in Requests \cup {Nobody}
    /\ pc \in [Requests -> PCs]
    /\ copy \in [Requests -> Row \cup {NoRow}]
    /\ form \in [Requests -> Form]
    /\ answer \in [Requests -> Answers]
    /\ chore \in {"none", "unlinked", "cleared", "closing"}
    /\ overlap \in BOOLEAN
    /\ faulted \in BOOLEAN

\* However edits overlap and wherever the process dies, the row's avatar stays
\* on disk, but for two cases: the chores that unlink it before they clear the
\* column, and an edit without a new photo whose copy of the row is out of date.
PhotoStays ==
    [][Whole => \/ Whole'
                \/ chore' \in {"unlinked", "closing"}
                \/ \E r \in Requests :
                      /\ Save(r)
                      /\ pc[r] # "swept"
                      /\ copy[r].avatar # row.avatar]_vars

\* While requests came one at a time and no step failed, what the directory
\* holds between two of them is the avatar of the row and nothing else.
FilesMatchTheRow ==
    LoopIsFree /\ ~AnyInFlight /\ ~overlap /\ ~faulted =>
        files = IF HasPhoto THEN {row.avatar} ELSE {}

\* An edit answered "Profile updated!" is in the row with its PIN and its photo,
\* the photo on disk; one whose photo the gate turned away has saved its PIN all
\* the same (issue #929); one told that its avatar could not be saved has
\* changed nothing.  A deleted guest has no row to look at.
AnswerIsTruthful ==
    [][\A r \in Requests : Answering(r) /\ IsEdit(r) =>
         /\ answer'[r] \in {"saved", "busy"} /\ Exists' /\ form[r].pin # Blank
                => row'.pin = form[r].pin
         /\ answer'[r] = "saved" /\ Exists' /\ form[r].photo
                => row'.avatar = r /\ r \in files'
         /\ answer'[r] \in {"busy", "failed", "refused"} =>
                r \notin files' /\ (Exists' => row'.avatar # r)]_vars

\* While no recount has failed, a guest without a profile photo is never
\* credited with one, and one with a photo goes uncredited only while the photo
\* is the one it joined with.
CreditFollowsPhoto ==
    LoopIsFree /\ ~faulted =>
        /\ credited => HasPhoto
        /\ HasPhoto /\ ~credited => row.avatar = joiner

\* What routes/guest/profile.js says of the PIN field: left blank, it leaves
\* the existing PIN unchanged.
BlankKeepsThePin ==
    [][\A r \in Requests :
         Save(r) /\ Exists /\ form[r].pin = Blank => row'.pin = row.pin]_vars
=============================================================================
