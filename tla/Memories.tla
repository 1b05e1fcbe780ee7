------------------------------ MODULE Memories ------------------------------
(***************************************************************************)
(* A batch of memories, from the files multer has written to the rows of   *)
(* the gallery: services/photos/intake.js and heic.js turn every file into *)
(* one that can be shown, services/rate-limit.js admits the batch, and     *)
(* submitMemoryBatch makes the thumbnails and inserts the rows.  Batches   *)
(* of one guest run side by side; a HEIC photo is decoded in a worker of   *)
(* its own, one at a time.                                                 *)
(***************************************************************************)
EXTENDS Integers, Sequences, FiniteSets

CONSTANTS
    Batches,        \* requests
    Uploads,        \* the batches that may arrive: sequences of kinds of file
    MEMORY_RATE_MAX, MEMORY_RATE_WINDOW_MS,
    HEIC_DECODE_RATE_MAX, HEIC_DECODE_RATE_WINDOW_MS,
    MAX_PENDING_HEIC_DECODES,
    MAX_CONCURRENT_UPLOADS,
    MaxTime         \* bound: how long the clock runs

VARIABLES
    batch,      \* batch -> [files, pc, at, made, failed]
    disk,       \* the files there are: <<batch, place in it, what it is>>
    rows,       \* the submissions table: <<batch, place>>
    heic,       \* [attempts, slot, queue]: the guest's decodes, the decode slot
    memory,     \* the guest's attempts that still count
    now,        \* the clock
    admitted,   \* history: when a batch or a decode was let through, and refused
    leaked      \* history: files whose request ended without them

memoryVars == <<batch, disk, rows, heic, memory, now, admitted, leaked>>

Nobody == 0

\* The kinds of file: "jpeg", one that can be shown; "misnamed", one under
\* another kind's name; HEIC photos, of them the ones too large, as the head or
\* only the body of the file tells; and "junk", none of these.
Kinds == {"jpeg", "misnamed", "heic", "huge", "hugeInside", "junk"}
IsHeic(kind) == kind \in {"heic", "huge", "hugeInside"}

File(b) == <<b, batch[b].at, "original">>
Kind(b) == batch[b].files[batch[b].at]
Places(b) == DOMAIN batch[b].files

MemoriesInit ==
    /\ batch = [b \in Batches |-> [files |-> <<>>, pc |-> "away", at |-> 1, made |-> {}, failed |-> {}]]
    /\ disk = {} /\ rows = {}
    /\ heic = [attempts |-> <<>>, slot |-> Nobody, queue |-> {}]
    /\ memory = <<>> /\ now = 0
    /\ admitted = [memory |-> <<>>, heic |-> <<>>, wronged |-> FALSE]
    /\ leaked = {}

\* What a request leaves on disk when it ends here.
Left(b, d, r) == {f \in d : f[1] = b /\ <<b, f[2]>> \notin r}

Goto(b, pc) == batch' = [batch EXCEPT ![b].pc = pc]
\* cleanupBatchOriginals, and the cleanup of uploadMemoryBatch.
Originals(b) == {f \in disk : f[1] = b /\ f[3] \in {"original", "converted"}}

End(b, d, r) ==
    /\ Goto(b, "done")
    /\ disk' = d
    /\ leaked' = leaked \cup Left(b, d, r)

Refuse(b) == End(b, disk \ Originals(b), rows)

-----------------------------------------------------------------------------
(* Sliding windows: services/rate-limit.js.                                *)

\* Array.prototype.filter: the elements at the places kept, in their order.
filter(s, kept) ==
    LET place == [i \in kept |-> Cardinality({j \in kept : j <= i})]
    IN  [n \in 1 .. Cardinality(kept) |-> s[CHOOSE i \in kept : place[i] = n]]

\* Mutant of Live: an attempt a whole window old still counts.
LiveAtTheEdge(attempts, window) == filter(attempts, {i \in DOMAIN attempts : attempts[i] >= now - window})

Live(attempts, window) == filter(attempts, {i \in DOMAIN attempts : attempts[i] > now - window})

Tick ==
    /\ now < MaxTime
    /\ now' = now + 1
    /\ UNCHANGED <<batch, disk, rows, heic, memory, admitted, leaked>>

\* How many were let through in the window that ends at a time.
Within(allowed, window, t) ==
    Cardinality({i \in DOMAIN allowed : allowed[i] > t - window /\ allowed[i] <= t})

\* Refused although fewer were let through within the window now ending.
Wronged(allowed, window, max) == Within(allowed, window, now) < max

-----------------------------------------------------------------------------
(* uploadMemoryBatch: multer has written every original.                   *)

Upload(b) ==
    /\ batch[b].pc = "away"
    /\ \E files \in Uploads :
         /\ batch' = [batch EXCEPT ![b].files = files, ![b].pc = "resolve"]
         /\ disk' = disk \cup {<<b, i, "original">> : i \in DOMAIN files}
    /\ UNCHANGED <<rows, heic, memory, now, admitted, leaked>>

NextFile(b) ==
    batch' = IF batch[b].at = Len(batch[b].files) THEN [batch EXCEPT ![b].pc = "admit"]
             ELSE [batch EXCEPT ![b].at = @ + 1, ![b].pc = "resolve"]

\* resolveUploadedFile: the file is what it says, or is renamed to what it is.
ResolveAsIs(b) ==
    /\ batch[b].pc = "resolve" /\ Kind(b) \in {"jpeg", "misnamed"}
    /\ NextFile(b)
    /\ UNCHANGED <<disk, rows, heic, memory, now, admitted, leaked>>

ResolveJunk(b) ==
    /\ batch[b].pc = "resolve" /\ Kind(b) = "junk"
    /\ Refuse(b)
    /\ UNCHANGED <<rows, heic, memory, now, admitted>>

\* assertHeicDecodeAllowed: no more decodes for this guest.
DecodeRateLimited(b) ==
    LET live == Live(heic.attempts, HEIC_DECODE_RATE_WINDOW_MS)
    IN  /\ batch[b].pc = "resolve" /\ IsHeic(Kind(b))
        /\ Len(live) >= HEIC_DECODE_RATE_MAX
        /\ heic' = [heic EXCEPT !.attempts = live]
        /\ admitted' = [admitted EXCEPT !.wronged =
               @ \/ Wronged(admitted.heic, HEIC_DECODE_RATE_WINDOW_MS, HEIC_DECODE_RATE_MAX)]
        /\ Refuse(b)
        /\ UNCHANGED <<rows, memory, now>>

Occupancy == Cardinality(heic.queue) + (IF heic.slot = Nobody THEN 0 ELSE 1)

\* convertHeicToJpeg up to its first wait: the head of the file already tells
\* that it is too large, the queue is full, or the decode waits for the slot.
AskForDecode(b) ==
    LET live == Append(Live(heic.attempts, HEIC_DECODE_RATE_WINDOW_MS), now)
    IN  /\ batch[b].pc = "resolve" /\ IsHeic(Kind(b))
        /\ Len(live) <= HEIC_DECODE_RATE_MAX
        /\ admitted' = [admitted EXCEPT !.heic = Append(@, now)]
        /\ IF Kind(b) = "huge" \/ Occupancy >= MAX_PENDING_HEIC_DECODES
           THEN heic' = [heic EXCEPT !.attempts = live] /\ Refuse(b)
           ELSE /\ heic' = [heic EXCEPT !.attempts = live, !.queue = @ \cup {b}]
                /\ Goto(b, "queued")
                /\ UNCHANGED <<disk, leaked>>
        /\ UNCHANGED <<rows, memory, now>>

\* The slot is free; the whole file is read and measured.
StartDecode(b) ==
    /\ batch[b].pc = "queued" /\ heic.slot = Nobody
    /\ IF Kind(b) = "hugeInside"
       THEN heic' = [heic EXCEPT !.queue = @ \ {b}] /\ Refuse(b)
       ELSE /\ heic' = [heic EXCEPT !.queue = @ \ {b}, !.slot = b]
            /\ Goto(b, "decoding")
            /\ UNCHANGED <<disk, leaked>>
    /\ UNCHANGED <<rows, memory, now, admitted>>

\* HEIC_QUEUE_WAIT_MS passed.
QueueTimeout(b) ==
    /\ batch[b].pc = "queued"
    /\ heic' = [heic EXCEPT !.queue = @ \ {b}]
    /\ Refuse(b)
    /\ UNCHANGED <<rows, memory, now, admitted>>

\* Mutant of Settled: the slot is kept by a decode that failed.
SettledOnlyWell(how) == IF how = "ok" THEN [heic EXCEPT !.slot = Nobody] ELSE heic

\* settle: the first of message, error, exit and timeout counts, and gives the
\* slot back.
Settled(how) == [heic EXCEPT !.slot = Nobody]

\* The picture arrives; it is written beside the original, which goes.
Decoded(b) ==
    /\ batch[b].pc = "decoding"
    /\ heic' = Settled("ok")
    /\ disk' = (disk \ {File(b)}) \cup {<<b, batch[b].at, "converted">>}
    /\ NextFile(b)
    /\ UNCHANGED <<rows, memory, now, admitted, leaked>>

\* The picture arrives and cannot be written whole.
DecodedUnwritable(b) ==
    /\ batch[b].pc = "decoding"
    /\ heic' = Settled("ok")
    /\ End(b, (disk \ Originals(b)) \cup {<<b, batch[b].at, "partial">>}, rows)
    /\ UNCHANGED <<rows, memory, now, admitted>>

\* Too large, broken, dead or out of time.
DecodeFails(b) ==
    /\ batch[b].pc = "decoding"
    /\ heic' = Settled("failed")
    /\ Refuse(b)
    /\ UNCHANGED <<rows, memory, now, admitted>>

-----------------------------------------------------------------------------
(* POST /memories, and submitMemoryBatch.                                  *)

\* assertCsrf fails on the body.
CsrfRefused(b) ==
    /\ batch[b].pc = "admit"
    /\ Refuse(b)
    /\ UNCHANGED <<rows, heic, memory, now, admitted>>

RateLimited(b) ==
    /\ batch[b].pc = "admit"
    /\ Len(Live(memory, MEMORY_RATE_WINDOW_MS)) >= MEMORY_RATE_MAX
    /\ memory' = Live(memory, MEMORY_RATE_WINDOW_MS)
    /\ admitted' = [admitted EXCEPT !.wronged =
           @ \/ Wronged(admitted.memory, MEMORY_RATE_WINDOW_MS, MEMORY_RATE_MAX)]
    /\ Refuse(b)
    /\ UNCHANGED <<rows, heic, now>>

Admit(b) ==
    /\ batch[b].pc = "admit"
    /\ Len(Live(memory, MEMORY_RATE_WINDOW_MS)) < MEMORY_RATE_MAX
    /\ memory' = Append(Live(memory, MEMORY_RATE_WINDOW_MS), now)
    /\ admitted' = [admitted EXCEPT !.memory = Append(@, now)]
    /\ Goto(b, "space")
    /\ UNCHANGED <<disk, rows, heic, now, leaked>>

\* hasFreeSpace has answered: room enough; too little, or an error.
HasSpace(b) ==
    /\ batch[b].pc = "space"
    /\ Goto(b, "waiting")
    /\ UNCHANGED <<disk, rows, heic, memory, now, admitted, leaked>>

NoSpace(b) ==
    /\ batch[b].pc = "space"
    /\ Refuse(b)
    /\ UNCHANGED <<rows, heic, memory, now, admitted>>

\* withUploadSlot
EnterSlot(b) ==
    /\ batch[b].pc = "waiting"
    /\ Cardinality({c \in Batches : batch[c].pc = "thumbs"}) < MAX_CONCURRENT_UPLOADS
    /\ batch' = [batch EXCEPT ![b].pc = "thumbs", ![b].at = 1]
    /\ UNCHANGED <<disk, rows, heic, memory, now, admitted, leaked>>

Unmade(b) == batch[b].pc = "thumbs" /\ batch[b].at <= Len(batch[b].files)
Here(b) == batch[b].at

MakeThumb(b) ==
    /\ Unmade(b)
    /\ disk' = disk \cup {<<b, Here(b), "thumb">>}
    /\ batch' = [batch EXCEPT ![b].at = @ + 1, ![b].made = @ \cup {Here(b)}]
    /\ UNCHANGED <<rows, heic, memory, now, admitted, leaked>>

\* Mutant of Spoiled: the original of a photo without thumbnail is kept.
SpoiledKept(b) == {}

\* The original that goes when its thumbnail cannot be made.
Spoiled(b) == {f \in Originals(b) : f[2] = Here(b)}

ThumbFails(b) ==
    /\ Unmade(b)
    /\ disk' = disk \ Spoiled(b)
    /\ batch' = [batch EXCEPT ![b].at = @ + 1, ![b].failed = @ \cup {Here(b)}]
    /\ UNCHANGED <<rows, heic, memory, now, admitted, leaked>>

\* insertMany: every photo that has a thumbnail, in one transaction.
InsertRows(b) ==
    /\ batch[b].pc = "thumbs" /\ ~Unmade(b)
    /\ rows' = rows \cup {<<b, i>> : i \in batch[b].made}
    /\ End(b, disk, rows')
    /\ UNCHANGED <<heic, memory, now, admitted>>

\* The transaction fails: the request ends in an error page, the files stay.
InsertFails(b) ==
    /\ batch[b].pc = "thumbs" /\ ~Unmade(b)
    /\ batch' = [batch EXCEPT ![b].pc = "error"]
    /\ leaked' = leaked \cup Left(b, disk, rows)
    /\ UNCHANGED <<disk, rows, heic, memory, now, admitted>>

\* The process dies and is started again: windows and slots are empty.
Crash ==
    /\ \E b \in Batches : batch[b].pc \notin {"away", "done", "error", "lost"}
    /\ batch' = [b \in Batches |-> IF batch[b].pc \in {"away", "done", "error"} THEN batch[b]
                                   ELSE [batch[b] EXCEPT !.pc = "lost"]]
    /\ leaked' = leaked \cup UNION {Left(b, disk, rows) : b \in Batches}
    /\ heic' = [attempts |-> <<>>, slot |-> Nobody, queue |-> {}]
    /\ memory' = <<>>
    /\ admitted' = [admitted EXCEPT !.memory = <<>>, !.heic = <<>>]
    /\ UNCHANGED <<disk, rows, now>>

MemoriesNext ==
    \/ Tick \/ Crash
    \/ \E b \in Batches :
         \/ Upload(b) \/ ResolveAsIs(b) \/ ResolveJunk(b) \/ DecodeRateLimited(b)
         \/ AskForDecode(b) \/ StartDecode(b) \/ QueueTimeout(b)
         \/ Decoded(b) \/ DecodedUnwritable(b) \/ DecodeFails(b)
         \/ CsrfRefused(b) \/ RateLimited(b) \/ Admit(b) \/ HasSpace(b) \/ NoSpace(b)
         \/ EnterSlot(b) \/ MakeThumb(b) \/ ThumbFails(b) \/ InsertRows(b) \/ InsertFails(b)

MemoriesSpec == MemoriesInit /\ [][MemoriesNext]_memoryVars

-----------------------------------------------------------------------------
(* Properties.                                                             *)

\* A request that ended regularly leaves no file but those of its rows, and
\* every photo shown has a thumbnail and a picture that can be shown.  What
\* stays behind is the file of a crash, of a failed transaction, or of a
\* conversion that could not be written.
FilesBelongToRows ==
    /\ \A f \in leaked : batch[f[1]].pc \in {"error", "lost"} \/ f[3] = "partial"
    /\ \A r \in rows : LET kept == {f[3] : f \in {f \in disk : <<f[1], f[2]>> = r}}
                       IN  kept = {"thumb", IF IsHeic(batch[r[1]].files[r[2]]) THEN "converted" ELSE "original"}

\* A batch is told as shared exactly as far as it was: every photo has a row or
\* is named as failed, unless the batch was refused as a whole.
BatchIsAccounted ==
    \A b \in Batches :
        batch[b].pc = "done" =>
            LET shown == {i \in Places(b) : <<b, i>> \in rows}
            IN  shown = batch[b].made /\ (batch[b].made # {} => shown \cup batch[b].failed = Places(b))

\* The decode slot is held by a batch that decodes, and queued ones wait for it.
SlotFollowsDecode ==
    /\ \A b \in Batches : heic.slot = b <=> batch[b].pc = "decoding"
    /\ heic.queue = {b \in Batches : batch[b].pc = "queued"}
    /\ Occupancy <= MAX_PENDING_HEIC_DECODES

\* In no window are more let through than its limit, and none is refused with
\* fewer let through in the window that ends now.
WindowsAreExact ==
    /\ \A t \in 0 .. now : /\ Within(admitted.memory, MEMORY_RATE_WINDOW_MS, t) <= MEMORY_RATE_MAX
                           /\ Within(admitted.heic, HEIC_DECODE_RATE_WINDOW_MS, t) <= HEIC_DECODE_RATE_MAX
    /\ ~admitted.wronged
=============================================================================
