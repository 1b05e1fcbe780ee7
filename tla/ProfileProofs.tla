---------------------------- MODULE ProfileProofs ----------------------------
(***************************************************************************)
(* What Profile promises, for every number of requests and PINs.           *)
(*                                                                         *)
(* The argument: at most one synchronous stretch is under way, and no      *)
(* chore beside it (OneStretch); the row, and every copy of it, names only *)
(* photos whose upload has come as far as putting them there (Names); so   *)
(* what a sweep deletes is never the photo that its own stretch has just   *)
(* put into the row (Disk).                                                *)
(***************************************************************************)
EXTENDS Profile, TLAPS

\* A request that has put its photo into the row, if it could.
Put(r) ==
    \/ pc[r] \in {"set", "swept", "done"}
    \/ pc[r] = "saved" /\ answer[r] # "busy" /\ form[r].photo

OneStretch ==
    /\ \A r, s \in Requests : MidStretch(r) /\ MidStretch(s) => r = s
    /\ \A r \in Requests : MidStretch(r) => chore = "none"

\* A chore in progress is about an existing row.
ChoreHasRow == chore # "none" => Exists

\* What a request's stage says about it.
Stages ==
    \A r \in Requests :
        /\ pc[r] \in {"unsent", "done"} => copy[r] = NoRow
        /\ pc[r] \in {"sent", "set", "swept", "skipped", "saved"} => IsEdit(r)
        /\ pc[r] \in {"unsent", "sent", "avatar", "written", "set", "swept"}
               => answer[r] = "none"
        /\ pc[r] = "skipped" => answer[r] = "busy"
        /\ pc[r] = "saved" => answer[r] \in {"none", "busy"}
        /\ pc[r] \in {"avatar", "written", "set", "swept", "skipped"}
               => form[r].photo
        /\ pc[r] \in {"avatar", "written"} /\ ~IsEdit(r) => joiner = r

\* Nothing happens before someone joins.
Unborn == joiner = Nobody => ~Exists /\ \A r \in Requests : pc[r] = "unsent"

Names ==
    \A q \in Requests :
        /\ Exists /\ row.avatar = q => Put(q)
        /\ \A r \in Requests :
               IsEdit(r) /\ copy[r].avatar = q => Put(q) /\ q # r

Disk ==
    \A r \in Requests :
        /\ pc[r] \in {"unsent", "sent", "avatar", "skipped"} => r \notin files
        /\ pc[r] = "saved" /\ ~Put(r) => r \notin files
        /\ pc[r] \in {"written", "set"} => r \in files
        /\ pc[r] \in {"set", "swept", "saved"} /\ Put(r) /\ Exists
               => row.avatar = r /\ r \in files

PinIsIn ==
    \A r \in Requests :
        pc[r] = "saved" /\ Exists /\ form[r].pin # Blank
            => row.pin = form[r].pin

\* What the directory holds while nothing has overlapped or failed: the row's
\* photo unless a chore has unlinked it, and on the way of an edit's new photo
\* both that photo and the one it supersedes.
Photo == IF HasPhoto THEN {row.avatar} ELSE {}
Arriving(r)  == pc[r] = "written"
Departing(f) == \E r \in Requests : pc[r] = "set" /\ copy[r].avatar = f

Tidy ==
    ~overlap /\ ~faulted =>
        /\ \A r, s \in Requests : InFlight(r) /\ InFlight(s) => r = s
        /\ chore # "none" => ~AnyInFlight
        /\ chore = "cleared" => ~HasPhoto
        /\ \A r \in Requests :
               pc[r] \in {"sent", "avatar", "written", "skipped"} /\ IsEdit(r)
                   => Exists /\ copy[r].avatar = row.avatar
        /\ \A r \in Requests :
               pc[r] \in {"avatar", "written"} /\ ~IsEdit(r)
                   => Exists /\ ~HasPhoto
        /\ \A f \in Requests :
               f \in files <=> \/ chore = "none" /\ f \in Photo
                               \/ Arriving(f)
                               \/ Departing(f)

IInv ==
    /\ TypeOK
    /\ OneStretch
    /\ ChoreHasRow
    /\ Stages
    /\ Unborn
    /\ Names
    /\ Disk
    /\ PinIsIn

\* Every step keeps the types: an edit that saves holds a copy, and a chore has
\* a row to clear.
LEMMA TypeStep == IInv /\ [Next]_vars => TypeOK'
<1> SUFFICES ASSUME IInv, [Next]_vars PROVE TypeOK'
  OBVIOUS
<1> USE ProfileAssumption DEF IInv, TypeOK, Row, Form, PCs, Answers, Stages,
     ChoreHasRow, Exists, HasPhoto, IsEdit
<1>1. ASSUME NEW q \in Requests, RequestStep(q) PROVE TypeOK'
  <2>1. CASE Join(q)
    BY <2>1 DEF Join, Goto, Reply
  <2>2. CASE Arrive(q)
    BY <2>2 DEF Arrive, Goto
  <2>3. CASE Refuse(q)
    BY <2>3 DEF Refuse, Reply, Goto
  <2>4. CASE StartAvatar(q)
    BY <2>4 DEF StartAvatar, Goto
  <2>5. CASE AvatarSkipped(q)
    BY <2>5 DEF AvatarSkipped, Goto, Reply
  <2>6. CASE AvatarFails(q)
    BY <2>6 DEF AvatarFails, Goto, Reply
  <2>7. CASE AvatarWritten(q)
    BY <2>7 DEF AvatarWritten, Goto
  <2>8. CASE AvatarSet(q)
    BY <2>8 DEF AvatarSet, Goto, Reply
  <2>9. CASE SweepOld(q)
    BY <2>9 DEF SweepOld, Swept, Goto
  <2>10. CASE SweepFails(q)
    BY <2>10 DEF SweepFails, Goto
  <2>11. CASE Save(q)
    BY <2>11 DEF Save, Edited, Goto
  <2>12. CASE Recount(q)
    BY <2>12 DEF Recount, Finish, Reply, Goto
  <2>13. CASE RecountFails(q)
    BY <2>13 DEF RecountFails, Finish, Reply, Goto
  <2> QED
    BY <1>1, <2>1, <2>2, <2>3, <2>4, <2>5, <2>6, <2>7, <2>8, <2>9, <2>10,
         <2>11, <2>12, <2>13 DEF RequestStep
<1>2. CASE RemoveFile
  BY <1>2 DEF RemoveFile, Begin, Chore, request
<1>3. CASE RemovePath
  BY <1>3 DEF RemovePath, Chore, request
<1>4. CASE RemoveRecount
  BY <1>4 DEF RemoveRecount, Chore, request
<1>5. CASE HostSetsPin
  BY <1>5 DEF HostSetsPin, request
<1>6. CASE HostUnlinks
  BY <1>6 DEF HostUnlinks, Begin, Chore, request
<1>7. CASE HostDeletes
  BY <1>7 DEF HostDeletes, Chore, request
<1>8. CASE OtherRecount
  BY <1>8 DEF OtherRecount, request
<1>9. CASE Crash
  BY <1>9 DEF Crash
<1>10. CASE UNCHANGED vars
  BY <1>10 DEF vars, request
<1> QED
  BY <1>1, <1>2, <1>3, <1>4, <1>5, <1>6, <1>7, <1>8, <1>9, <1>10 DEF Next

\* A stretch opens only when the loop is free, and nothing else opens beside it.
LEMMA StretchStep == IInv /\ [Next]_vars => OneStretch'
<1> SUFFICES ASSUME IInv, [Next]_vars PROVE OneStretch'
  OBVIOUS
<1> USE ProfileAssumption DEF IInv, TypeOK, Row, Form, PCs, Answers,
     OneStretch, InFlight, MidStretch, LoopIsFree, Exists, HasPhoto, IsEdit
<1>1. ASSUME NEW q \in Requests, RequestStep(q) PROVE OneStretch'
  <2>1. CASE Join(q)
    BY <2>1 DEF Join, Goto, Reply
  <2>2. CASE Arrive(q)
    BY <2>2 DEF Arrive, Goto
  <2>3. CASE Refuse(q)
    BY <2>3 DEF Refuse, Reply, Goto
  <2>4. CASE StartAvatar(q)
    BY <2>4 DEF StartAvatar, Goto
  <2>5. CASE AvatarSkipped(q)
    BY <2>5 DEF AvatarSkipped, Goto, Reply
  <2>6. CASE AvatarFails(q)
    BY <2>6 DEF AvatarFails, Goto, Reply
  <2>7. CASE AvatarWritten(q)
    BY <2>7 DEF AvatarWritten, Goto
  <2>8. CASE AvatarSet(q)
    BY <2>8 DEF AvatarSet, Goto, Reply
  <2>9. CASE SweepOld(q)
    BY <2>9 DEF SweepOld, Swept, Goto
  <2>10. CASE SweepFails(q)
    BY <2>10 DEF SweepFails, Goto
  <2>11. CASE Save(q)
    BY <2>11 DEF Save, Edited, Goto
  <2>12. CASE Recount(q)
    BY <2>12 DEF Recount, Finish, Reply, Goto
  <2>13. CASE RecountFails(q)
    BY <2>13 DEF RecountFails, Finish, Reply, Goto
  <2> QED
    BY <1>1, <2>1, <2>2, <2>3, <2>4, <2>5, <2>6, <2>7, <2>8, <2>9, <2>10,
         <2>11, <2>12, <2>13 DEF RequestStep
<1>2. CASE RemoveFile
  BY <1>2 DEF RemoveFile, Begin, Chore, request
<1>3. CASE RemovePath
  BY <1>3 DEF RemovePath, Chore, request
<1>4. CASE RemoveRecount
  BY <1>4 DEF RemoveRecount, Chore, request
<1>5. CASE HostSetsPin
  BY <1>5 DEF HostSetsPin, request
<1>6. CASE HostUnlinks
  BY <1>6 DEF HostUnlinks, Begin, Chore, request
<1>7. CASE HostDeletes
  BY <1>7 DEF HostDeletes, Chore, request
<1>8. CASE OtherRecount
  BY <1>8 DEF OtherRecount, request
<1>9. CASE Crash
  BY <1>9 DEF Crash
<1>10. CASE UNCHANGED vars
  BY <1>10 DEF vars, request
<1> QED
  BY <1>1, <1>2, <1>3, <1>4, <1>5, <1>6, <1>7, <1>8, <1>9, <1>10 DEF Next

\* While a chore is in progress, no other step creates or deletes the row.
LEMMA ChoreStep == IInv /\ [Next]_vars => ChoreHasRow'
<1> SUFFICES ASSUME IInv, [Next]_vars PROVE ChoreHasRow'
  OBVIOUS
<1> USE ProfileAssumption DEF IInv, TypeOK, Row, Form, PCs, Answers,
     ChoreHasRow, OneStretch, InFlight, MidStretch, LoopIsFree, Exists,
     HasPhoto, IsEdit
<1>1. ASSUME NEW q \in Requests, RequestStep(q) PROVE ChoreHasRow'
  <2>1. CASE Join(q)
    BY <2>1 DEF Join, Goto, Reply
  <2>2. CASE Arrive(q)
    BY <2>2 DEF Arrive, Goto
  <2>3. CASE Refuse(q)
    BY <2>3 DEF Refuse, Reply, Goto
  <2>4. CASE StartAvatar(q)
    BY <2>4 DEF StartAvatar, Goto
  <2>5. CASE AvatarSkipped(q)
    BY <2>5 DEF AvatarSkipped, Goto, Reply
  <2>6. CASE AvatarFails(q)
    BY <2>6 DEF AvatarFails, Goto, Reply
  <2>7. CASE AvatarWritten(q)
    BY <2>7 DEF AvatarWritten, Goto
  <2>8. CASE AvatarSet(q)
    BY <2>8 DEF AvatarSet, Goto, Reply
  <2>9. CASE SweepOld(q)
    BY <2>9 DEF SweepOld, Swept, Goto
  <2>10. CASE SweepFails(q)
    BY <2>10 DEF SweepFails, Goto
  <2>11. CASE Save(q)
    BY <2>11 DEF Save, Edited, Goto
  <2>12. CASE Recount(q)
    BY <2>12 DEF Recount, Finish, Reply, Goto
  <2>13. CASE RecountFails(q)
    BY <2>13 DEF RecountFails, Finish, Reply, Goto
  <2> QED
    BY <1>1, <2>1, <2>2, <2>3, <2>4, <2>5, <2>6, <2>7, <2>8, <2>9, <2>10,
         <2>11, <2>12, <2>13 DEF RequestStep
<1>2. CASE RemoveFile
  BY <1>2 DEF RemoveFile, Begin, Chore, request
<1>3. CASE RemovePath
  BY <1>3 DEF RemovePath, Chore, request
<1>4. CASE RemoveRecount
  BY <1>4 DEF RemoveRecount, Chore, request
<1>5. CASE HostSetsPin
  BY <1>5 DEF HostSetsPin, request
<1>6. CASE HostUnlinks
  BY <1>6 DEF HostUnlinks, Begin, Chore, request
<1>7. CASE HostDeletes
  BY <1>7 DEF HostDeletes, Chore, request
<1>8. CASE OtherRecount
  BY <1>8 DEF OtherRecount, request
<1>9. CASE Crash
  BY <1>9 DEF Crash
<1>10. CASE UNCHANGED vars
  BY <1>10 DEF vars, request
<1> QED
  BY <1>1, <1>2, <1>3, <1>4, <1>5, <1>6, <1>7, <1>8, <1>9, <1>10 DEF Next

\* Each step moves its request to a stage whose facts it has established.
LEMMA StagesStep == IInv /\ [Next]_vars => Stages'
<1> SUFFICES ASSUME IInv, [Next]_vars PROVE Stages'
  OBVIOUS
<1> USE ProfileAssumption DEF IInv, TypeOK, Row, Form, PCs, Answers, Stages,
     Unborn, InFlight, MidStretch, LoopIsFree, Exists, HasPhoto, IsEdit
<1>1. ASSUME NEW q \in Requests, RequestStep(q) PROVE Stages'
  <2>1. CASE Join(q)
    BY <2>1 DEF Join, Goto, Reply
  <2>2. CASE Arrive(q)
    BY <2>2 DEF Arrive, Goto
  <2>3. CASE Refuse(q)
    BY <2>3 DEF Refuse, Reply, Goto
  <2>4. CASE StartAvatar(q)
    BY <2>4 DEF StartAvatar, Goto
  <2>5. CASE AvatarSkipped(q)
    BY <2>5 DEF AvatarSkipped, Goto, Reply
  <2>6. CASE AvatarFails(q)
    BY <2>6 DEF AvatarFails, Goto, Reply
  <2>7. CASE AvatarWritten(q)
    BY <2>7 DEF AvatarWritten, Goto
  <2>8. CASE AvatarSet(q)
    BY <2>8 DEF AvatarSet, Goto, Reply
  <2>9. CASE SweepOld(q)
    BY <2>9 DEF SweepOld, Swept, Goto
  <2>10. CASE SweepFails(q)
    BY <2>10 DEF SweepFails, Goto
  <2>11. CASE Save(q)
    BY <2>11 DEF Save, Edited, Goto
  <2>12. CASE Recount(q)
    BY <2>12 DEF Recount, Finish, Reply, Goto
  <2>13. CASE RecountFails(q)
    BY <2>13 DEF RecountFails, Finish, Reply, Goto
  <2> QED
    BY <1>1, <2>1, <2>2, <2>3, <2>4, <2>5, <2>6, <2>7, <2>8, <2>9, <2>10,
         <2>11, <2>12, <2>13 DEF RequestStep
<1>2. CASE RemoveFile
  BY <1>2 DEF RemoveFile, Begin, Chore, request
<1>3. CASE RemovePath
  BY <1>3 DEF RemovePath, Chore, request
<1>4. CASE RemoveRecount
  BY <1>4 DEF RemoveRecount, Chore, request
<1>5. CASE HostSetsPin
  BY <1>5 DEF HostSetsPin, request
<1>6. CASE HostUnlinks
  BY <1>6 DEF HostUnlinks, Begin, Chore, request
<1>7. CASE HostDeletes
  BY <1>7 DEF HostDeletes, Chore, request
<1>8. CASE OtherRecount
  BY <1>8 DEF OtherRecount, request
<1>9. CASE Crash
  BY <1>9 DEF Crash
<1>10. CASE UNCHANGED vars
  BY <1>10 DEF vars, request
<1> QED
  BY <1>1, <1>2, <1>3, <1>4, <1>5, <1>6, <1>7, <1>8, <1>9, <1>10 DEF Next

\* Only a join brings the first row, and only a row lets an edit begin.
LEMMA UnbornStep == IInv /\ [Next]_vars => Unborn'
<1> SUFFICES ASSUME IInv, [Next]_vars PROVE Unborn'
  OBVIOUS
<1> USE ProfileAssumption DEF IInv, TypeOK, Row, Form, PCs, Answers, Unborn,
     ChoreHasRow, InFlight, MidStretch, LoopIsFree, Exists, HasPhoto, IsEdit
<1>1. ASSUME NEW q \in Requests, RequestStep(q) PROVE Unborn'
  <2>1. CASE Join(q)
    BY <2>1 DEF Join, Goto, Reply
  <2>2. CASE Arrive(q)
    BY <2>2 DEF Arrive, Goto
  <2>3. CASE Refuse(q)
    BY <2>3 DEF Refuse, Reply, Goto
  <2>4. CASE StartAvatar(q)
    BY <2>4 DEF StartAvatar, Goto
  <2>5. CASE AvatarSkipped(q)
    BY <2>5 DEF AvatarSkipped, Goto, Reply
  <2>6. CASE AvatarFails(q)
    BY <2>6 DEF AvatarFails, Goto, Reply
  <2>7. CASE AvatarWritten(q)
    BY <2>7 DEF AvatarWritten, Goto
  <2>8. CASE AvatarSet(q)
    BY <2>8 DEF AvatarSet, Goto, Reply
  <2>9. CASE SweepOld(q)
    BY <2>9 DEF SweepOld, Swept, Goto
  <2>10. CASE SweepFails(q)
    BY <2>10 DEF SweepFails, Goto
  <2>11. CASE Save(q)
    BY <2>11 DEF Save, Edited, Goto
  <2>12. CASE Recount(q)
    BY <2>12 DEF Recount, Finish, Reply, Goto
  <2>13. CASE RecountFails(q)
    BY <2>13 DEF RecountFails, Finish, Reply, Goto
  <2> QED
    BY <1>1, <2>1, <2>2, <2>3, <2>4, <2>5, <2>6, <2>7, <2>8, <2>9, <2>10,
         <2>11, <2>12, <2>13 DEF RequestStep
<1>2. CASE RemoveFile
  BY <1>2 DEF RemoveFile, Begin, Chore, request
<1>3. CASE RemovePath
  BY <1>3 DEF RemovePath, Chore, request
<1>4. CASE RemoveRecount
  BY <1>4 DEF RemoveRecount, Chore, request
<1>5. CASE HostSetsPin
  BY <1>5 DEF HostSetsPin, request
<1>6. CASE HostUnlinks
  BY <1>6 DEF HostUnlinks, Begin, Chore, request
<1>7. CASE HostDeletes
  BY <1>7 DEF HostDeletes, Chore, request
<1>8. CASE OtherRecount
  BY <1>8 DEF OtherRecount, request
<1>9. CASE Crash
  BY <1>9 DEF Crash
<1>10. CASE UNCHANGED vars
  BY <1>10 DEF vars, request
<1> QED
  BY <1>1, <1>2, <1>3, <1>4, <1>5, <1>6, <1>7, <1>8, <1>9, <1>10 DEF Next

\* A photo gets into the row by its own upload, or from a copy of the row.
LEMMA NamesStep == IInv /\ [Next]_vars => Names'
<1> SUFFICES ASSUME IInv, [Next]_vars PROVE Names'
  OBVIOUS
<1> USE ProfileAssumption DEF IInv, TypeOK, Row, Form, PCs, Answers, Names,
     Put, Stages, Unborn, ChoreHasRow, InFlight, MidStretch, LoopIsFree,
     Exists, HasPhoto, IsEdit
<1>1. ASSUME NEW q \in Requests, RequestStep(q) PROVE Names'
  <2>1. CASE Join(q)
    BY <2>1 DEF Join, Goto, Reply
  <2>2. CASE Arrive(q)
    BY <2>2 DEF Arrive, Goto
  <2>3. CASE Refuse(q)
    BY <2>3 DEF Refuse, Reply, Goto
  <2>4. CASE StartAvatar(q)
    BY <2>4 DEF StartAvatar, Goto
  <2>5. CASE AvatarSkipped(q)
    BY <2>5 DEF AvatarSkipped, Goto, Reply
  <2>6. CASE AvatarFails(q)
    BY <2>6 DEF AvatarFails, Goto, Reply
  <2>7. CASE AvatarWritten(q)
    BY <2>7 DEF AvatarWritten, Goto
  <2>8. CASE AvatarSet(q)
    BY <2>8 DEF AvatarSet, Goto, Reply
  <2>9. CASE SweepOld(q)
    BY <2>9 DEF SweepOld, Swept, Goto
  <2>10. CASE SweepFails(q)
    BY <2>10 DEF SweepFails, Goto
  <2>11. CASE Save(q)
    BY <2>11 DEF Save, Edited, Goto
  <2>12. CASE Recount(q)
    BY <2>12 DEF Recount, Finish, Reply, Goto
  <2>13. CASE RecountFails(q)
    BY <2>13 DEF RecountFails, Finish, Reply, Goto
  <2> QED
    BY <1>1, <2>1, <2>2, <2>3, <2>4, <2>5, <2>6, <2>7, <2>8, <2>9, <2>10,
         <2>11, <2>12, <2>13 DEF RequestStep
<1>2. CASE RemoveFile
  BY <1>2 DEF RemoveFile, Begin, Chore, request
<1>3. CASE RemovePath
  BY <1>3 DEF RemovePath, Chore, request
<1>4. CASE RemoveRecount
  BY <1>4 DEF RemoveRecount, Chore, request
<1>5. CASE HostSetsPin
  BY <1>5 DEF HostSetsPin, request
<1>6. CASE HostUnlinks
  BY <1>6 DEF HostUnlinks, Begin, Chore, request
<1>7. CASE HostDeletes
  BY <1>7 DEF HostDeletes, Chore, request
<1>8. CASE OtherRecount
  BY <1>8 DEF OtherRecount, request
<1>9. CASE Crash
  BY <1>9 DEF Crash
<1>10. CASE UNCHANGED vars
  BY <1>10 DEF vars, request
<1> QED
  BY <1>1, <1>2, <1>3, <1>4, <1>5, <1>6, <1>7, <1>8, <1>9, <1>10 DEF Next

\* An upload's file appears in its turn, and what is swept or unlinked is named
\* by a row or a copy: never a photo still on its way.
LEMMA DiskStep == IInv /\ [Next]_vars => Disk'
<1> SUFFICES ASSUME IInv, [Next]_vars PROVE Disk'
  OBVIOUS
<1> USE ProfileAssumption DEF IInv, TypeOK, Row, Form, PCs, Answers, Disk,
     Names, Put, Stages, OneStretch, Unborn, ChoreHasRow, InFlight,
     MidStretch, LoopIsFree, Exists, HasPhoto, IsEdit
<1>1. ASSUME NEW q \in Requests, RequestStep(q) PROVE Disk'
  <2>1. CASE Join(q)
    BY <2>1 DEF Join, Goto, Reply
  <2>2. CASE Arrive(q)
    BY <2>2 DEF Arrive, Goto
  <2>3. CASE Refuse(q)
    BY <2>3 DEF Refuse, Reply, Goto
  <2>4. CASE StartAvatar(q)
    BY <2>4 DEF StartAvatar, Goto
  <2>5. CASE AvatarSkipped(q)
    BY <2>5 DEF AvatarSkipped, Goto, Reply
  <2>6. CASE AvatarFails(q)
    BY <2>6 DEF AvatarFails, Goto, Reply
  <2>7. CASE AvatarWritten(q)
    BY <2>7 DEF AvatarWritten, Goto
  <2>8. CASE AvatarSet(q)
    BY <2>8 DEF AvatarSet, Goto, Reply
  <2>9. CASE SweepOld(q)
    BY <2>9 DEF SweepOld, Swept, Goto
  <2>10. CASE SweepFails(q)
    BY <2>10 DEF SweepFails, Goto
  <2>11. CASE Save(q)
    BY <2>11 DEF Save, Edited, Goto
  <2>12. CASE Recount(q)
    BY <2>12 DEF Recount, Finish, Reply, Goto
  <2>13. CASE RecountFails(q)
    BY <2>13 DEF RecountFails, Finish, Reply, Goto
  <2> QED
    BY <1>1, <2>1, <2>2, <2>3, <2>4, <2>5, <2>6, <2>7, <2>8, <2>9, <2>10,
         <2>11, <2>12, <2>13 DEF RequestStep
<1>2. CASE RemoveFile
  BY <1>2 DEF RemoveFile, Begin, Chore, request
<1>3. CASE RemovePath
  BY <1>3 DEF RemovePath, Chore, request
<1>4. CASE RemoveRecount
  BY <1>4 DEF RemoveRecount, Chore, request
<1>5. CASE HostSetsPin
  BY <1>5 DEF HostSetsPin, request
<1>6. CASE HostUnlinks
  BY <1>6 DEF HostUnlinks, Begin, Chore, request
<1>7. CASE HostDeletes
  BY <1>7 DEF HostDeletes, Chore, request
<1>8. CASE OtherRecount
  BY <1>8 DEF OtherRecount, request
<1>9. CASE Crash
  BY <1>9 DEF Crash
<1>10. CASE UNCHANGED vars
  BY <1>10 DEF vars, request
<1> QED
  BY <1>1, <1>2, <1>3, <1>4, <1>5, <1>6, <1>7, <1>8, <1>9, <1>10 DEF Next

\* Between saving and answering, nobody writes the row.
LEMMA PinStep == IInv /\ [Next]_vars => PinIsIn'
<1> SUFFICES ASSUME IInv, [Next]_vars PROVE PinIsIn'
  OBVIOUS
<1> USE ProfileAssumption DEF IInv, TypeOK, Row, Form, PCs, Answers, PinIsIn,
     OneStretch, Stages, Unborn, InFlight, MidStretch, LoopIsFree, Exists,
     HasPhoto, IsEdit
<1>1. ASSUME NEW q \in Requests, RequestStep(q) PROVE PinIsIn'
  <2>1. CASE Join(q)
    BY <2>1 DEF Join, Goto, Reply
  <2>2. CASE Arrive(q)
    BY <2>2 DEF Arrive, Goto
  <2>3. CASE Refuse(q)
    BY <2>3 DEF Refuse, Reply, Goto
  <2>4. CASE StartAvatar(q)
    BY <2>4 DEF StartAvatar, Goto
  <2>5. CASE AvatarSkipped(q)
    BY <2>5 DEF AvatarSkipped, Goto, Reply
  <2>6. CASE AvatarFails(q)
    BY <2>6 DEF AvatarFails, Goto, Reply
  <2>7. CASE AvatarWritten(q)
    BY <2>7 DEF AvatarWritten, Goto
  <2>8. CASE AvatarSet(q)
    BY <2>8 DEF AvatarSet, Goto, Reply
  <2>9. CASE SweepOld(q)
    BY <2>9 DEF SweepOld, Swept, Goto
  <2>10. CASE SweepFails(q)
    BY <2>10 DEF SweepFails, Goto
  <2>11. CASE Save(q)
    BY <2>11 DEF Save, Edited, Goto
  <2>12. CASE Recount(q)
    BY <2>12 DEF Recount, Finish, Reply, Goto
  <2>13. CASE RecountFails(q)
    BY <2>13 DEF RecountFails, Finish, Reply, Goto
  <2> QED
    BY <1>1, <2>1, <2>2, <2>3, <2>4, <2>5, <2>6, <2>7, <2>8, <2>9, <2>10,
         <2>11, <2>12, <2>13 DEF RequestStep
<1>2. CASE RemoveFile
  BY <1>2 DEF RemoveFile, Begin, Chore, request
<1>3. CASE RemovePath
  BY <1>3 DEF RemovePath, Chore, request
<1>4. CASE RemoveRecount
  BY <1>4 DEF RemoveRecount, Chore, request
<1>5. CASE HostSetsPin
  BY <1>5 DEF HostSetsPin, request
<1>6. CASE HostUnlinks
  BY <1>6 DEF HostUnlinks, Begin, Chore, request
<1>7. CASE HostDeletes
  BY <1>7 DEF HostDeletes, Chore, request
<1>8. CASE OtherRecount
  BY <1>8 DEF OtherRecount, request
<1>9. CASE Crash
  BY <1>9 DEF Crash
<1>10. CASE UNCHANGED vars
  BY <1>10 DEF vars, request
<1> QED
  BY <1>1, <1>2, <1>3, <1>4, <1>5, <1>6, <1>7, <1>8, <1>9, <1>10 DEF Next

\* A server nobody has joined satisfies the invariant.
LEMMA Start == Init => IInv
  BY ProfileAssumption
  DEF Init, IInv, TypeOK, Row, Form, PCs, Answers, OneStretch, MidStretch,
      ChoreHasRow, Stages, Unborn, Names, Put, Disk, PinIsIn, Exists, IsEdit

\* Every step preserves the whole invariant.
LEMMA Step == IInv /\ [Next]_vars => IInv'
<1> SUFFICES ASSUME IInv, [Next]_vars PROVE IInv'
  OBVIOUS
<1>1. TypeOK' /\ OneStretch' /\ ChoreHasRow' /\ Stages'
  BY TypeStep, StretchStep, ChoreStep, StagesStep
<1>2. Unborn' /\ Names' /\ Disk' /\ PinIsIn'
  BY UnbornStep, NamesStep, DiskStep, PinStep
<1> QED
  BY <1>1, <1>2 DEF IInv

\* The invariant holds in every state.
LEMMA Always == Spec => []IInv
  BY Start, Step, PTL DEF Spec

\* Every table column, copy and stage of a request keeps its type, for any
\* number of overlapping edits.
THEOREM TypeCorrect == Spec => []TypeOK
<1>1. IInv => TypeOK
  BY DEF IInv
<1> QED
  BY Always, <1>1, PTL

\* Outside a stretch only a join touches the photo, and only with its own.
LEMMA CreditStep ==
    IInv /\ CreditFollowsPhoto /\ [Next]_vars => CreditFollowsPhoto'
<1> SUFFICES ASSUME IInv, CreditFollowsPhoto, [Next]_vars
             PROVE  CreditFollowsPhoto'
  OBVIOUS
<1> USE ProfileAssumption DEF IInv, TypeOK, Row, Form, PCs, Answers,
     OneStretch, ChoreHasRow, Stages, Unborn, CreditFollowsPhoto, InFlight,
     MidStretch, LoopIsFree, Exists, HasPhoto, IsEdit
<1>1. ASSUME NEW q \in Requests, RequestStep(q) PROVE CreditFollowsPhoto'
  <2>1. CASE Join(q)
    BY <2>1 DEF Join, Goto, Reply
  <2>2. CASE Arrive(q)
    BY <2>2 DEF Arrive, Goto
  <2>3. CASE Refuse(q)
    BY <2>3 DEF Refuse, Reply, Goto
  <2>4. CASE StartAvatar(q)
    BY <2>4 DEF StartAvatar, Goto
  <2>5. CASE AvatarSkipped(q)
    BY <2>5 DEF AvatarSkipped, Goto, Reply
  <2>6. CASE AvatarFails(q)
    BY <2>6 DEF AvatarFails, Goto, Reply
  <2>7. CASE AvatarWritten(q)
    BY <2>7 DEF AvatarWritten, Goto
  <2>8. CASE AvatarSet(q)
    BY <2>8 DEF AvatarSet, Goto, Reply
  <2>9. CASE SweepOld(q)
    BY <2>9 DEF SweepOld, Swept, Goto
  <2>10. CASE SweepFails(q)
    BY <2>10 DEF SweepFails, Goto
  <2>11. CASE Save(q)
    BY <2>11 DEF Save, Edited, Goto
  <2>12. CASE Recount(q)
    BY <2>12 DEF Recount, Finish, Reply, Goto
  <2>13. CASE RecountFails(q)
    BY <2>13 DEF RecountFails, Finish, Reply, Goto
  <2> QED
    BY <1>1, <2>1, <2>2, <2>3, <2>4, <2>5, <2>6, <2>7, <2>8, <2>9, <2>10,
         <2>11, <2>12, <2>13 DEF RequestStep
<1>2. CASE RemoveFile
  BY <1>2 DEF RemoveFile, Begin, Chore, request
<1>3. CASE RemovePath
  BY <1>3 DEF RemovePath, Chore, request
<1>4. CASE RemoveRecount
  BY <1>4 DEF RemoveRecount, Chore, request
<1>5. CASE HostSetsPin
  BY <1>5 DEF HostSetsPin, request
<1>6. CASE HostUnlinks
  BY <1>6 DEF HostUnlinks, Begin, Chore, request
<1>7. CASE HostDeletes
  BY <1>7 DEF HostDeletes, Chore, request
<1>8. CASE OtherRecount
  BY <1>8 DEF OtherRecount, request
<1>9. CASE Crash
  BY <1>9 DEF Crash
<1>10. CASE UNCHANGED vars
  BY <1>10 DEF vars, request
<1> QED
  BY <1>1, <1>2, <1>3, <1>4, <1>5, <1>6, <1>7, <1>8, <1>9, <1>10 DEF Next

\* One request at a time, each moving the row's photo and the directory in step.
LEMMA TidyStep == IInv /\ Tidy /\ [Next]_vars => Tidy'
<1> SUFFICES ASSUME IInv, Tidy, [Next]_vars PROVE Tidy'
  OBVIOUS
<1> USE ProfileAssumption DEF IInv, TypeOK, Row, Form, PCs, Answers,
     OneStretch, ChoreHasRow, Stages, Unborn, Names, Put, Disk, InFlight,
     MidStretch, LoopIsFree, Exists, HasPhoto, IsEdit, Tidy, Photo, Arriving,
     Departing, AnyInFlight
<1>1. ASSUME NEW q \in Requests, RequestStep(q) PROVE Tidy'
  <2>1. CASE Join(q)
    BY <2>1 DEF Join, Goto, Reply
  <2>2. CASE Arrive(q)
    <3> SUFFICES ASSUME ~overlap', ~faulted' PROVE Tidy'
      BY DEF Tidy
    <3>1. \A r \in Requests : ~InFlight(r)
      BY <2>2 DEF Arrive
    <3>2. \A r \in Requests : InFlight(r)' => r = q
      BY <2>2, <3>1 DEF Arrive, Goto
    <3>3. \A f \in Requests : f \in files <=> chore = "none" /\ f \in Photo
      BY <2>2, <3>1 DEF Arrive
    <3>4. \A f \in Requests : ~Arriving(f)' /\ ~Departing(f)'
      BY <2>2, <3>1, <3>2 DEF Arrive, Goto
    <3>5. /\ chore' = "none"
          /\ row' = row /\ files' = files
          /\ copy'[q] = row /\ Exists
      BY <2>2 DEF Arrive
    <3>6. \A r \in Requests :
            pc'[r] \in {"sent", "avatar", "written", "skipped"} /\ IsEdit(r)'
                => Exists' /\ copy'[r].avatar = row'.avatar
      BY <3>2, <3>5
    <3>7. \A r \in Requests : pc'[r] \in {"avatar", "written"} => IsEdit(r)'
      BY <2>2, <3>2 DEF Arrive, Goto
    <3>8. \A f \in Requests : f \in files' <=> chore' = "none" /\ f \in Photo'
      BY <2>2, <3>3, <3>5 DEF Arrive
    <3>9. \A f \in Requests :
            f \in files' <=> \/ chore' = "none" /\ f \in Photo'
                             \/ Arriving(f)'
                             \/ Departing(f)'
      <4> HIDE DEF Arriving, Departing, Photo
      <4> QED
        BY <3>4, <3>8
    <3>10. \A r \in Requests :
             pc'[r] \in {"avatar", "written"} /\ ~IsEdit(r)'
                 => Exists' /\ ~HasPhoto'
      BY <3>7
    <3>11. \A r, s \in Requests : InFlight(r)' /\ InFlight(s)' => r = s
      BY <3>2
    <3> HIDE DEF InFlight, HasPhoto, IsEdit, Arriving, Departing, Photo
    <3> QED
      BY <3>5, <3>6, <3>9, <3>10, <3>11 DEF Tidy
  <2>3. CASE Refuse(q)
    BY <2>3 DEF Refuse, Reply, Goto
  <2>4. CASE StartAvatar(q)
    BY <2>4 DEF StartAvatar, Goto
  <2>5. CASE AvatarSkipped(q)
    BY <2>5 DEF AvatarSkipped, Goto, Reply
  <2>6. CASE AvatarFails(q)
    BY <2>6 DEF AvatarFails, Goto, Reply
  <2>7. CASE AvatarWritten(q)
    BY <2>7 DEF AvatarWritten, Goto
  <2>8. CASE AvatarSet(q)
    <3> SUFFICES ASSUME ~overlap', ~faulted' PROVE Tidy'
      BY DEF Tidy
    <3>1. /\ ~overlap /\ ~faulted
          /\ chore = "none" /\ chore' = "none"
          /\ files' = files
      BY <2>8 DEF AvatarSet
    <3>2. \A r \in Requests : InFlight(r) => r = q
      BY <2>8, <3>1 DEF AvatarSet
    <3>3. \A r \in Requests : r # q => pc'[r] = pc[r] /\ copy'[r] = copy[r]
      BY <2>8 DEF AvatarSet, Goto, Reply
    <3>4. \A f \in Requests : ~Arriving(f)'
      BY <2>8, <3>2, <3>3 DEF AvatarSet, Goto, Reply
    <3>5. \A f \in Requests : f \in files <=> f \in Photo \/ f = q
      BY <2>8, <3>1, <3>2 DEF AvatarSet
    <3>6. CASE IsEdit(q)
      <4>1. /\ Exists /\ copy[q].avatar = row.avatar
            /\ pc'[q] = "set" /\ copy' = copy
        BY <2>8, <3>1, <3>6 DEF AvatarSet, Goto
      <4>2. Exists' /\ row'.avatar = q
        BY <2>8, <4>1 DEF AvatarSet
      <4>3. Photo' = {q}
        BY <4>2
      <4>4. \A f \in Requests : Departing(f)' <=> f \in Photo
        BY <3>2, <3>3, <4>1
      <4>5. \A r, s \in Requests : InFlight(r)' /\ InFlight(s)' => r = s
        BY <3>2, <3>3
      <4>6. \A r \in Requests :
              pc'[r] \notin {"sent", "avatar", "written", "skipped"}
        BY <3>2, <3>3, <4>1
      <4> QED
        BY <3>1, <3>4, <3>5, <4>3, <4>4, <4>5, <4>6 DEF Tidy
    <3>7. CASE ~IsEdit(q)
      <4>1. \A r \in Requests : ~InFlight(r)'
        BY <2>8, <3>2, <3>3, <3>7 DEF AvatarSet, Reply, Goto
      <4>2. \A f \in Requests : ~Departing(f)'
        BY <4>1
      <4>3. Exists /\ row' = [row EXCEPT !.avatar = q]
        BY <2>8, <3>7 DEF AvatarSet
      <4>4. Photo' = {q}
        BY <4>3
      <4>5. ~HasPhoto
        BY <2>8, <3>1, <3>7 DEF AvatarSet
      <4> QED
        BY <3>1, <3>4, <3>5, <4>1, <4>2, <4>4, <4>5 DEF Tidy
    <3> QED
      BY <3>6, <3>7
  <2>9. CASE SweepOld(q)
    BY <2>9 DEF SweepOld, Swept, Goto
  <2>10. CASE SweepFails(q)
    BY <2>10 DEF SweepFails, Goto
  <2>11. CASE Save(q)
    BY <2>11 DEF Save, Edited, Goto
  <2>12. CASE Recount(q)
    BY <2>12 DEF Recount, Finish, Reply, Goto
  <2>13. CASE RecountFails(q)
    BY <2>13 DEF RecountFails, Finish, Reply, Goto
  <2> QED
    BY <1>1, <2>1, <2>2, <2>3, <2>4, <2>5, <2>6, <2>7, <2>8, <2>9, <2>10,
         <2>11, <2>12, <2>13 DEF RequestStep
<1>2. CASE RemoveFile
  <2> SUFFICES ASSUME ~overlap', ~faulted' PROVE Tidy'
    BY DEF Tidy
  <2>1. \A r \in Requests : ~InFlight(r)
    BY <1>2 DEF RemoveFile, Begin, Chore, request
  <2>2. pc' = pc /\ copy' = copy /\ row' = row /\ chore' # "none"
    BY <1>2 DEF RemoveFile, Begin, Chore, request
  <2>3. \A f \in Requests : f \in files <=> f \in Photo
    BY <1>2, <2>1 DEF RemoveFile, Begin, Chore, request
  <2>4. \A f \in Requests : f \notin files'
    BY <1>2, <2>3 DEF RemoveFile, Begin, Chore, request
  <2>5. \A f \in Requests : ~Arriving(f)' /\ ~Departing(f)'
    BY <2>1, <2>2
  <2> QED
    BY <1>2, <2>1, <2>2, <2>4, <2>5 DEF RemoveFile, Begin, Chore, request
<1>3. CASE RemovePath
  BY <1>3 DEF RemovePath, Chore, request
<1>4. CASE RemoveRecount
  BY <1>4 DEF RemoveRecount, Chore, request
<1>5. CASE HostSetsPin
  BY <1>5 DEF HostSetsPin, request
<1>6. CASE HostUnlinks
  <2> SUFFICES ASSUME ~overlap', ~faulted' PROVE Tidy'
    BY DEF Tidy
  <2>1. \A r \in Requests : ~InFlight(r)
    BY <1>6 DEF HostUnlinks, Begin, Chore, request
  <2>2. pc' = pc /\ copy' = copy /\ row' = row /\ chore' # "none"
    BY <1>6 DEF HostUnlinks, Begin, Chore, request
  <2>3. \A f \in Requests : f \in files <=> f \in Photo
    BY <1>6, <2>1 DEF HostUnlinks, Begin, Chore, request
  <2>4. \A f \in Requests : f \notin files'
    BY <1>6, <2>3 DEF HostUnlinks, Begin, Chore, request
  <2>5. \A f \in Requests : ~Arriving(f)' /\ ~Departing(f)'
    BY <2>1, <2>2
  <2> QED
    BY <1>6, <2>1, <2>2, <2>4, <2>5 DEF HostUnlinks, Begin, Chore, request
<1>7. CASE HostDeletes
  BY <1>7 DEF HostDeletes, Chore, request
<1>8. CASE OtherRecount
  BY <1>8 DEF OtherRecount, request
<1>9. CASE Crash
  BY <1>9 DEF Crash
<1>10. CASE UNCHANGED vars
  BY <1>10 DEF vars, request
<1> QED
  BY <1>1, <1>2, <1>3, <1>4, <1>5, <1>6, <1>7, <1>8, <1>9, <1>10 DEF Next

\* The step half of AnswerIsTruthful: only the end of a request answers it.
LEMMA TruthStep ==
    ASSUME IInv, [Next]_vars, NEW r \in Requests, Answering(r), IsEdit(r)
    PROVE  /\ answer'[r] \in {"saved", "busy"} /\ Exists' /\ form[r].pin # Blank
                  => row'.pin = form[r].pin
           /\ answer'[r] = "saved" /\ Exists' /\ form[r].photo
                  => row'.avatar = r /\ r \in files'
           /\ answer'[r] \in {"busy", "failed", "refused"} =>
                  r \notin files' /\ (Exists' => row'.avatar # r)
<1> DEFINE Truth ==
        /\ answer'[r] \in {"saved", "busy"} /\ Exists' /\ form[r].pin # Blank
               => row'.pin = form[r].pin
        /\ answer'[r] = "saved" /\ Exists' /\ form[r].photo
               => row'.avatar = r /\ r \in files'
        /\ answer'[r] \in {"busy", "failed", "refused"} =>
               r \notin files' /\ (Exists' => row'.avatar # r)
<1> SUFFICES Truth
  OBVIOUS
<1> USE ProfileAssumption
    DEF IInv, TypeOK, Row, Form, PCs, Answers, Stages, Names, Put, Disk,
        PinIsIn, Exists, IsEdit, Answering, Truth
<1>1. CASE Refuse(r)
  BY <1>1 DEF Refuse, Reply, Goto
<1>2. CASE AvatarSkipped(r)
  BY <1>2 DEF AvatarSkipped, Reply, Goto
<1>3. CASE AvatarFails(r)
  BY <1>3 DEF AvatarFails, Reply, Goto
<1>4. CASE Recount(r)
  BY <1>4 DEF Recount, Finish, Reply, Goto
<1>5. CASE RecountFails(r)
  BY <1>5 DEF RecountFails, Finish, Reply, Goto
<1>6. ASSUME NEW q \in Requests, RequestStep(q), q # r PROVE FALSE
  BY <1>6 DEF RequestStep, Join, Arrive, Refuse, StartAvatar, AvatarSkipped,
              AvatarFails, AvatarWritten, AvatarSet, SweepOld, SweepFails,
              Save, Recount, RecountFails, Finish, Reply, Goto
<1>7. CASE Join(r) \/ Arrive(r) \/ StartAvatar(r) \/ AvatarWritten(r)
  BY <1>7 DEF Join, Arrive, StartAvatar, AvatarWritten, Reply, Goto
<1>8. CASE AvatarSet(r) \/ SweepOld(r) \/ SweepFails(r) \/ Save(r)
  BY <1>8 DEF AvatarSet, SweepOld, SweepFails, Save, Reply, Goto
<1>9. CASE \/ RemoveFile \/ RemovePath \/ RemoveRecount
           \/ HostSetsPin \/ HostUnlinks \/ HostDeletes \/ OtherRecount
  BY <1>9 DEF RemoveFile, RemovePath, RemoveRecount, HostSetsPin, HostUnlinks,
              HostDeletes, OtherRecount, Begin, request
<1>10. CASE Crash
  BY <1>10 DEF Crash, InFlight
<1>11. CASE UNCHANGED vars
  BY <1>11 DEF vars, request
<1> QED
  BY <1>1, <1>2, <1>3, <1>4, <1>5, <1>6, <1>7, <1>8, <1>9, <1>10, <1>11
     DEF Next, RequestStep

\* The step half of PhotoStays.
LEMMA PhotoStep ==
    ASSUME IInv, [Next]_vars, Whole
    PROVE  \/ Whole'
           \/ chore' \in {"unlinked", "closing"}
           \/ \E r \in Requests :
                 Save(r) /\ pc[r] # "swept" /\ copy[r].avatar # row.avatar
<1> DEFINE OutOfDate(r) ==
        Save(r) /\ pc[r] # "swept" /\ copy[r].avatar # row.avatar
<1> DEFINE Stays ==
        \/ Whole'
        \/ chore' \in {"unlinked", "closing"}
        \/ \E r \in Requests : OutOfDate(r)
<1> SUFFICES Stays
  OBVIOUS
<1> USE ProfileAssumption DEF IInv, TypeOK, Row, Form, PCs, Answers,
     OneStretch, ChoreHasRow, Stages, Unborn, Names, Put, Disk, Whole,
     InFlight, MidStretch, LoopIsFree, Exists, HasPhoto, IsEdit
<1>1. ASSUME NEW q \in Requests, RequestStep(q) PROVE Stays
  <2>1. CASE Join(q)
    BY <2>1 DEF Join, Goto, Reply
  <2>2. CASE Arrive(q)
    BY <2>2 DEF Arrive, Goto
  <2>3. CASE Refuse(q)
    BY <2>3 DEF Refuse, Reply, Goto
  <2>4. CASE StartAvatar(q)
    BY <2>4 DEF StartAvatar, Goto
  <2>5. CASE AvatarSkipped(q)
    BY <2>5 DEF AvatarSkipped, Goto, Reply
  <2>6. CASE AvatarFails(q)
    BY <2>6 DEF AvatarFails, Goto, Reply
  <2>7. CASE AvatarWritten(q)
    BY <2>7 DEF AvatarWritten, Goto
  <2>8. CASE AvatarSet(q)
    BY <2>8 DEF AvatarSet, Goto, Reply
  <2>9. CASE SweepOld(q)
    BY <2>9 DEF SweepOld, Swept, Goto
  <2>10. CASE SweepFails(q)
    BY <2>10 DEF SweepFails, Goto
  <2>11. CASE Save(q)
    <3>1. CASE pc[q] = "swept"
      BY <2>11, <3>1 DEF Save, Edited, Goto
    <3>2. CASE pc[q] # "swept" /\ Exists /\ copy[q].avatar # row.avatar
      BY <2>11, <3>2
    <3>3. CASE pc[q] # "swept" /\ Exists /\ copy[q].avatar = row.avatar
      BY <2>11, <3>3 DEF Save, Edited, Goto
    <3>4. CASE ~Exists
      BY <2>11, <3>4 DEF Save
    <3> QED
      BY <3>1, <3>2, <3>3, <3>4
  <2>12. CASE Recount(q)
    BY <2>12 DEF Recount, Finish, Reply, Goto
  <2>13. CASE RecountFails(q)
    BY <2>13 DEF RecountFails, Finish, Reply, Goto
  <2> QED
    BY <1>1, <2>1, <2>2, <2>3, <2>4, <2>5, <2>6, <2>7, <2>8, <2>9, <2>10,
         <2>11, <2>12, <2>13 DEF RequestStep
<1>2. CASE RemoveFile
  BY <1>2 DEF RemoveFile, Begin, Chore, request
<1>3. CASE RemovePath
  BY <1>3 DEF RemovePath, Chore, request
<1>4. CASE RemoveRecount
  BY <1>4 DEF RemoveRecount, Chore, request
<1>5. CASE HostSetsPin
  BY <1>5 DEF HostSetsPin, request
<1>6. CASE HostUnlinks
  BY <1>6 DEF HostUnlinks, Begin, Chore, request
<1>7. CASE HostDeletes
  BY <1>7 DEF HostDeletes, Chore, request
<1>8. CASE OtherRecount
  BY <1>8 DEF OtherRecount, request
<1>9. CASE Crash
  BY <1>9 DEF Crash
<1>10. CASE UNCHANGED vars
  BY <1>10 DEF vars, request
<1> QED
  BY <1>1, <1>2, <1>3, <1>4, <1>5, <1>6, <1>7, <1>8, <1>9, <1>10 DEF Next

\* Overlapping edits and crashes leave the row's avatar on disk, for any number
\* of edits, but for the two cases the property names.
THEOREM PhotosStay == Spec => PhotoStays
<1>1. IInv /\ [Next]_vars =>
        [Whole => \/ Whole'
                  \/ chore' \in {"unlinked", "closing"}
                  \/ \E r \in Requests :
                        /\ Save(r)
                        /\ pc[r] # "swept"
                        /\ copy[r].avatar # row.avatar]_vars
  BY PhotoStep
<1> QED
  BY Always, <1>1, PTL DEF Spec, PhotoStays

\* What an edit is told agrees with the row and the directory.
THEOREM AnswersAreTruthful == Spec => AnswerIsTruthful
<1>1. IInv /\ [Next]_vars =>
        [\A r \in Requests : Answering(r) /\ IsEdit(r) =>
         /\ answer'[r] \in {"saved", "busy"} /\ Exists' /\ form[r].pin # Blank
                => row'.pin = form[r].pin
         /\ answer'[r] = "saved" /\ Exists' /\ form[r].photo
                => row'.avatar = r /\ r \in files'
         /\ answer'[r] \in {"busy", "failed", "refused"} =>
                r \notin files' /\ (Exists' => row'.avatar # r)]_vars
  BY TruthStep
<1> QED
  BY Always, <1>1, PTL DEF Spec, AnswerIsTruthful

\* The threshold recounts keep up with the photo on every path but the join.
THEOREM CreditsFollowPhotos == Spec => []CreditFollowsPhoto
<1>1. Init => CreditFollowsPhoto
  BY DEF Init, CreditFollowsPhoto, HasPhoto, Exists
<1> QED
  BY Always, CreditStep, <1>1, PTL DEF Spec

\* Without overlaps and failures, the directory holds the row's avatar alone.
THEOREM FilesMatchRows == Spec => []FilesMatchTheRow
<1>1. Init => Tidy
  BY DEF Init, Tidy, InFlight, AnyInFlight, IsEdit, Photo, HasPhoto, Exists,
         Arriving, Departing
<1>2. IInv /\ Tidy => FilesMatchTheRow
  BY DEF IInv, TypeOK, Row, Tidy, FilesMatchTheRow, LoopIsFree, InFlight,
         AnyInFlight, Photo, HasPhoto, Exists, Arriving, Departing
<1> QED
  BY Always, TidyStep, <1>1, <1>2, PTL DEF Spec
=============================================================================
