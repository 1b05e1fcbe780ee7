-------------------------------- MODULE Card --------------------------------
(***************************************************************************)
(* Likes and comments on a page of the feed (public/js/feed.js): the heart *)
(* of every card, the likers and comments a card carries, and the comments *)
(* dialog all cards share, against the rows of the server.  One guest      *)
(* taps; requests are served and answered in any order, or not at all.     *)
(*                                                                         *)
(* A form is guarded while its request is pending (beginInFlight); the     *)
(* watchdog gives the form back when an answer is late, and a tap on the   *)
(* shared composer for another photo takes it over.  A request whose guard *)
(* was given back or taken over is no longer held.                         *)
(***************************************************************************)
EXTENDS Integers, Sequences, FiniteSets

CONSTANTS
    Photos,         \* the cards of the page
    Comments,       \* photo -> the guest's comments it starts with, in order
    MaxTaps         \* bound: requests the guest sends

VARIABLES
    likes,      \* server: photos the guest likes
    comments,   \* server: photo -> the set of the guest's comments
    heart,      \* card: photos whose heart is filled
    likers,     \* card: photos whose likers include the guest
    payload,    \* card: photo -> the comments it carries, in order
    dialog,     \* [photo, thread, draft]: what the comments dialog shows
    requests,   \* requests without an answer, and answers on their way
    taps,       \* requests sent so far
    astray,     \* history: photos with a toggle whose answer was not used
    dropped,    \* history: photos with a comment request whose answer was lost
    late        \* history: the card shown changed by an answer no longer held

cardVars == <<likes, comments, heart, likers, payload, dialog, requests, taps, astray, dropped, late>>
server == <<likes, comments>>

Nothing == 0
Elements(s) == {s[i] : i \in DOMAIN s}

\* Array.prototype.filter: the elements that are not c, in their order.
Without(s, c) ==
    LET kept == {i \in DOMAIN s : s[i] # c}
        place == [i \in kept |-> Cardinality({j \in kept : j <= i})]
    IN  [n \in 1 .. Cardinality(kept) |-> s[CHOOSE i \in kept : place[i] = n]]

CardInit ==
    /\ likes = {} /\ heart = {} /\ likers = {}
    /\ comments = [p \in Photos |-> Elements(Comments[p])]
    /\ payload = Comments
    /\ dialog = [photo |-> Nothing, thread |-> <<>>, draft |-> FALSE]
    /\ requests = {} /\ taps = 0
    /\ astray = {} /\ dropped = {} /\ late = FALSE

-----------------------------------------------------------------------------
(* The guest's side: taps.                                                 *)

\* Mutant of Pending: the guard does not look whose request is pending.
PendingAny(kind, photo, comment) == FALSE

\* The same form waits for an answer.  A redrawn thread has new delete forms.
Pending(kind, photo, comment) ==
    \E r \in requests : r.held /\ r.kind = kind /\ r.photo = photo /\ r.comment = comment /\ r.drawn

\* beginInFlight and the fetch.  The composer is one form for all photos: a
\* request for another photo loses its guard.
Send(kind, photo, comment) ==
    /\ taps < MaxTaps /\ ~Pending(kind, photo, comment)
    /\ taps' = taps + 1
    /\ requests' = {IF kind = "post" /\ r.kind = "post" THEN [r EXCEPT !.held = FALSE] ELSE r : r \in requests}
         \cup {[n |-> taps + 1, kind |-> kind, photo |-> photo, comment |-> comment, held |-> TRUE,
                drawn |-> TRUE, state |-> "sent", liked |-> FALSE, row |-> Nothing]}
    /\ UNCHANGED <<server, heart, likers, payload, dialog, astray, dropped, late>>

toggleLike(p) == Send("like", p, Nothing)
postComment == dialog.draft /\ Send("post", dialog.photo, Nothing)
deleteComment(c) == c \in Elements(dialog.thread) /\ Send("delete", dialog.photo, c)

\* renderComments: the thread from the card; the composer is emptied for a
\* photo the dialog was not showing.
Rendered(p, carried) ==
    [photo |-> p, thread |-> carried, draft |-> dialog.draft /\ dialog.photo = p]
Redraw(rs) == {IF r.kind = "delete" THEN [r EXCEPT !.drawn = FALSE] ELSE r : r \in rs}

openComments(p) ==
    /\ dialog' = Rendered(p, payload[p])
    /\ requests' = Redraw(requests)
    /\ late' = FALSE
    /\ UNCHANGED <<server, heart, likers, payload, taps, astray, dropped>>

Type ==
    /\ dialog.photo # Nothing
    /\ dialog' = [dialog EXCEPT !.draft = TRUE]
    /\ UNCHANGED <<server, heart, likers, payload, requests, taps, astray, dropped, late>>

\* IN_FLIGHT_RELEASE_MS passed.
Watchdog(r) ==
    /\ r.held
    /\ requests' = (requests \ {r}) \cup {[r EXCEPT !.held = FALSE]}
    /\ UNCHANGED <<server, heart, likers, payload, dialog, taps, astray, dropped, late>>

-----------------------------------------------------------------------------
(* The server's side: the routes of community.js.                          *)

Answer(r, a) == requests' = (requests \ {r}) \cup {a}

\* POST /p/:submissionId/like
Toggle(r) ==
    /\ r.kind = "like" /\ r.state = "sent"
    /\ likes' = IF r.photo \in likes THEN likes \ {r.photo} ELSE likes \cup {r.photo}
    /\ Answer(r, [r EXCEPT !.state = "done", !.liked = r.photo \notin likes])
    /\ UNCHANGED comments

\* POST /p/:submissionId/comments: the new row's id is unlike any other.
Comment(r) ==
    /\ r.kind = "post" /\ r.state = "sent"
    /\ LET id == 100 + r.n
       IN  /\ comments' = [comments EXCEPT ![r.photo] = @ \cup {id}]
           /\ Answer(r, [r EXCEPT !.state = "done", !.row = id])
    /\ UNCHANGED likes

\* POST /p/:submissionId/comments/:commentId/delete: 404 when it is gone.
Delete(r) ==
    /\ r.kind = "delete" /\ r.state = "sent"
    /\ comments' = [comments EXCEPT ![r.photo] = @ \ {r.comment}]
    /\ Answer(r, [r EXCEPT !.state = IF r.comment \in comments[r.photo] THEN "done" ELSE "failed"])
    /\ UNCHANGED likes

Serve(r) ==
    /\ Toggle(r) \/ Comment(r) \/ Delete(r)
    /\ UNCHANGED <<heart, likers, payload, dialog, taps, astray, dropped, late>>

\* The network fails on the way there, or on the way back.
Lose(r) ==
    /\ r.state # "failed"
    /\ Answer(r, [r EXCEPT !.state = "failed"])
    /\ IF r.kind = "like" THEN astray' = astray \cup (IF r.state = "done" THEN {r.photo} ELSE {}) /\ UNCHANGED dropped
       ELSE dropped' = dropped \cup (IF r.state = "done" THEN {r.photo} ELSE {}) /\ UNCHANGED astray
    /\ UNCHANGED <<server, heart, likers, payload, dialog, taps, late>>

-----------------------------------------------------------------------------
(* Answers.                                                                *)

\* Only an answer still held repaints the heart and the likers.
LikeAnswered(r) ==
    /\ r.kind = "like" /\ r.state = "done"
    /\ requests' = requests \ {r}
    /\ IF r.held
       THEN /\ heart' = IF r.liked THEN heart \cup {r.photo} ELSE heart \ {r.photo}
            /\ likers' = IF r.liked THEN likers \cup {r.photo} ELSE likers \ {r.photo}
            /\ UNCHANGED astray
       ELSE astray' = astray \cup {r.photo} /\ UNCHANGED <<heart, likers>>
    /\ UNCHANGED <<server, payload, dialog, taps, dropped, late>>

\* Mutant of Current: the dialog may have moved on to another photo.
CurrentWherever(r) == r.held

\* The answer is the one the shared dialog waits for.
Current(r) == r.held /\ dialog.photo = r.photo

\* The card has the comment whatever happened since; the thread only if the
\* dialog still waits for it.
PostAnswered(r) ==
    /\ r.kind = "post" /\ r.state = "done"
    /\ requests' = requests \ {r}
    /\ payload' = [payload EXCEPT ![r.photo] = Append(@, r.row)]
    /\ IF Current(r)
       THEN /\ dialog' = [dialog EXCEPT !.thread = Append(@, r.row), !.draft = FALSE]
            /\ UNCHANGED late
       ELSE late' = (late \/ dialog.photo = r.photo) /\ UNCHANGED dialog
    /\ UNCHANGED <<server, heart, likers, taps, astray, dropped>>

DeleteAnswered(r) ==
    /\ r.kind = "delete" /\ r.state = "done"
    /\ payload' = [payload EXCEPT ![r.photo] = Without(@, r.comment)]
    /\ IF Current(r)
       THEN /\ dialog' = Rendered(r.photo, Without(payload[r.photo], r.comment))
            /\ requests' = Redraw(requests \ {r})
            /\ late' = FALSE
       ELSE /\ late' = (late \/ dialog.photo = r.photo)
            /\ requests' = requests \ {r}
            /\ UNCHANGED dialog
    /\ UNCHANGED <<server, heart, likers, taps, astray, dropped>>

\* The error line, or nothing.
Failed(r) ==
    /\ r.state = "failed"
    /\ requests' = requests \ {r}
    /\ UNCHANGED <<server, heart, likers, payload, dialog, taps, astray, dropped, late>>

CardNext ==
    \/ \E p \in Photos : toggleLike(p) \/ openComments(p)
    \/ Type \/ postComment
    \/ \E c \in Elements(dialog.thread) : deleteComment(c)
    \/ \E r \in requests : Watchdog(r) \/ Serve(r) \/ Lose(r) \/ LikeAnswered(r) \/ PostAnswered(r)
                           \/ DeleteAnswered(r) \/ Failed(r)

CardSpec == CardInit /\ [][CardNext]_cardVars

-----------------------------------------------------------------------------
(* Properties.                                                             *)

Open(kinds, p) == \E r \in requests : r.kind \in kinds /\ r.photo = p

\* With no toggle on its way, heart, likers and row agree, unless an answer
\* was lost or came when the form had been given back.
HeartIsTrue ==
    \A p \in Photos \ astray : ~Open({"like"}, p) => (p \in heart <=> p \in likes) /\ (p \in likers <=> p \in likes)

\* With nothing on its way, a card carries the guest's comments on its photo,
\* each once, late answers included; only a lost answer is missed.
CardIsTrue ==
    \A p \in Photos :
        /\ \A i, j \in DOMAIN payload[p] : payload[p][i] = payload[p][j] => i = j
        /\ p \notin dropped /\ ~Open({"post", "delete"}, p) => Elements(payload[p]) = comments[p]

\* The shared dialog shows the comments of its own photo.
ThreadIsTheCards ==
    dialog.photo # Nothing /\ ~late => dialog.thread = payload[dialog.photo]
=============================================================================
