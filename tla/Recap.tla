------------------------------- MODULE Recap --------------------------------
(***************************************************************************)
(* The recap of one guest (services/notifications.js): what happened to    *)
(* them since they last looked.  Its rows come from five sources - stored  *)
(* events, comments, likes by photo, the couple's likes one by one, and    *)
(* announcements derived from the tasks and the clock - merged newest      *)
(* first, read a page at a time, and counted apart from the pages for the  *)
(* bell.  Likes and announcements exist only while they are newer than the *)
(* checkpoint, which opening the panel moves to now.                       *)
(*                                                                         *)
(* The panel (public/js/recap.js) shows the first page its document came   *)
(* with, pages back as it is scrolled, and drops what it paged when it is  *)
(* closed.  Datetimes have whole seconds and ids are compared as text.     *)
(***************************************************************************)
EXTENDS Integers, Sequences, FiniteSets, FiniteSetsExt

CONSTANTS
    Photos,         \* the guest's photos
    Others, Couple, \* who likes and comments, and those of them is_couple
    NULL,
    Kinds,          \* the events that are no moderation
    PageSize,       \* PAGE_SIZE
    FirstId,        \* the next id of every table
    PerSecond,      \* ticks of the clock in a second
    DayStart,       \* the tick the second day of the event begins
    FlashLength,    \* flash_minutes, in ticks
    Tasks,          \* what the task may be at first
    Horizon, MaxFacts, MaxViews, MaxPages      \* bounds

ASSUME RecapAssumption ==
    /\ Couple \subseteq Others /\ Photos \subseteq Nat /\ NULL \notin Int \cup {"guest", "admin"}
    /\ Kinds \subseteq {"badge_granted", "badge_removed", "crowd_favorite", "crowd_favorite_lost"}
    /\ {PageSize, FirstId, PerSecond, FlashLength} \subseteq Nat \ {0}
    /\ {DayStart, Horizon, MaxFacts, MaxViews, MaxPages} \subseteq Nat
    /\ Tasks \subseteq [live : BOOLEAN, since : {-1}, challenge : BOOLEAN,
                        flash : Nat \cup {NULL}, ceremony : BOOLEAN]
    /\ \A t \in Tasks : t.challenge => t.flash = NULL

VARIABLES
    now,        \* ticks
    hidden,     \* photo -> NULL, or who took it down: "guest", "admin"
    events,     \* notification_events of the guest: id, at, photo, kind
    comments,   \* id, photo, at, down
    likes,      \* id, by, photo, at
    task,       \* one task: live, since, and as special a challenge or a flash
    checkpoint, \* recap_checked_at, else created_at
    nextId, facts, views,
    panel,      \* the document: pages, cursor, more, busy, asked, open
    seen,       \* POST /recap/seen under way, with what their pages showed
    offered,    \* history: ids of the events on a page that was served
    opened,     \* history: what the page showed whose opening was seen last
    strays      \* history: answers came to a panel that had been closed

vars == <<now, hidden, events, comments, likes, task, checkpoint, nextId, facts,
          views, panel, seen, offered, opened, strays>>

Second(t) == t \div PerSecond
VisiblePhotos == {p \in Photos : hidden[p] = NULL}

-----------------------------------------------------------------------------
(* Rows.  A key is a source and an id, ordered as the text the code builds *)
(* of them: sources by name, and 10 before 9.                              *)

Text(id) == IF id < 10 THEN 100 * id ELSE 10 * id + 1
Key(source, id) == 10000 * source + Text(id)
Ceremony == 1
Flash == 2
Live == 3
Unseal == 4
CommentRow == 5
CoupleRow == 6
EventRow == 7
LikeRow == 8
Row(when, key) == [when |-> when, key |-> key]

Start == [when |-> Horizon + 1, key |-> 0]      \* no cursor: the first page
Older(r, c) == r.when < c.when \/ (r.when = c.when /\ r.key < c.key)

\* A source's or the merge's first n rows, newest first.
Newest(rows, n) == {r \in rows : Cardinality({s \in rows : Older(r, s)}) < n}

\* Mutant of storedRows: the events ordered by their numbers.
storedRowsByNumber(cursor, n) ==
    LET row(e) == Row(e.at, Key(EventRow, e.id))
        older == {e \in events : Older(row(e), cursor)}
    IN  {row(e) : e \in {x \in older : Cardinality({y \in older :
            y.at > x.at \/ (y.at = x.at /\ y.id > x.id)}) < n}}

\* The n newest of a source's rows older than a cursor.
storedRows(cursor, n) ==
    Newest({r \in {Row(e.at, Key(EventRow, e.id)) : e \in events} : Older(r, cursor)}, n)

\* Where the row of an event leads while its photo is up: the photo, some
\* other page, or nowhere (NULL).
KIND_VIEW(e) ==
    CASE e.kind \in {"badge_granted", "crowd_favorite", "photo_restore", "comment_hidden", "comment_restored"} -> e.photo
      [] e.kind \in {"badge_removed", "photo_takedown", "crowd_favorite_lost"} -> NULL

\* And once it is taken down: nowhere, but a crowd favorite's to the photo
\* that places now, if one of the guest's does.
Link(e) ==
    IF e.photo = NULL \/ e.photo \in VisiblePhotos THEN {KIND_VIEW(e)}
    ELSE IF e.kind = "crowd_favorite" THEN {NULL} \cup VisiblePhotos
    ELSE {NULL}

commentRows(cursor, n) ==
    LET there == {c \in comments : c.photo \in VisiblePhotos /\ ~c.down}
    IN  Newest({r \in {Row(c.at, Key(CommentRow, c.id)) : c \in there} : Older(r, cursor)}, n)

\* The likes the recap still tells, of the couple or of everybody else.
Unseen(ofCouple) ==
    {l \in likes : l.photo \in VisiblePhotos /\ l.at > checkpoint /\ (l.by \in Couple <=> ofCouple)}

likeBatchRows(cursor, n) ==
    LET latest(p) == Max({l.at : l \in {x \in Unseen(FALSE) : x.photo = p}})
    IN  Newest({r \in {Row(latest(p), Key(LikeRow, p)) : p \in {l.photo : l \in Unseen(FALSE)}}
                    : Older(r, cursor)}, n)

coupleLikeRows(cursor, n) ==
    Newest({r \in {Row(l.at, Key(CoupleRow, l.id)) : l \in Unseen(TRUE)} : Older(r, cursor)}, n)

-----------------------------------------------------------------------------
(* Announcements: of a live task that is not sealed, that it went live,    *)
(* that its day has come, that its flash is on; and of the ceremony's day. *)

Today == IF now < DayStart THEN 0 ELSE 1
Sealed == task.challenge /\ Today = 0
FlashActive == task.flash # NULL /\ task.flash <= now /\ now < task.flash + FlashLength

qualifyingAnnounceFacts ==
    LET told == task.live /\ ~Sealed
        day == Second(DayStart)
    IN  (IF told /\ task.since > checkpoint THEN {Row(task.since, Key(Live, 1))} ELSE {})
        \cup (IF told /\ task.challenge /\ Today = 1 /\ checkpoint < day
              THEN {Row(day, Key(Unseal, 1))} ELSE {})
        \cup (IF told /\ FlashActive /\ checkpoint * PerSecond < task.flash
              THEN {Row(Second(task.flash), Key(Flash, 1))} ELSE {})
        \cup (IF task.ceremony /\ Today = 1 /\ checkpoint < day THEN {Row(day, Key(Ceremony, 1))} ELSE {})

announceRows(cursor, n) == Newest({r \in qualifyingAnnounceFacts : Older(r, cursor)}, n)

-----------------------------------------------------------------------------
allRows(cursor, n) ==
    storedRows(cursor, n) \cup commentRows(cursor, n) \cup likeBatchRows(cursor, n)
        \cup coupleLikeRows(cursor, n) \cup announceRows(cursor, n)

\* One page, and whether there is another: each source is asked for one row
\* more than a page holds.
getRecap(cursor) ==
    LET rows == allRows(cursor, PageSize + 1)
    IN  [rows |-> Newest(rows, PageSize), more |-> Cardinality(rows) > PageSize]

Unread(r) == r.when > checkpoint

getUnreadCount ==
    Cardinality({e \in events : e.at > checkpoint})
    + Cardinality({c \in comments : c.photo \in VisiblePhotos /\ ~c.down /\ c.at > checkpoint})
    + Cardinality({l.photo : l \in Unseen(FALSE)}) + Cardinality(Unseen(TRUE))
    + Cardinality(qualifyingAnnounceFacts)

-----------------------------------------------------------------------------
(* What happens to the guest.                                              *)

Init ==
    /\ now = 0 /\ checkpoint = 0 /\ nextId = FirstId /\ facts = 0 /\ views = 0
    /\ hidden = [p \in Photos |-> NULL]
    /\ events = {} /\ comments = {} /\ likes = {}
    /\ task \in Tasks
    /\ panel = [pages |-> <<>>, cursor |-> Start, more |-> FALSE, busy |-> FALSE,
                asked |-> <<>>, open |-> FALSE, last |-> 0, hasMore |-> FALSE]
    /\ seen = {} /\ offered = {} /\ strays = FALSE
    /\ opened = [last |-> FirstId - 1, more |-> FALSE]

client == <<panel, seen, offered, opened, strays, views>>
Fact == facts < MaxFacts /\ facts' = facts + 1

Tick ==
    /\ now < Horizon /\ now' = now + 1
    /\ UNCHANGED <<hidden, events, comments, likes, task, checkpoint, nextId, facts, client>>

recordEvent(kind, p) ==
    /\ events' = events \cup {[id |-> nextId, at |-> Second(now), photo |-> p, kind |-> kind]}
    /\ nextId' = nextId + 1

\* A badge for a photo, a photo among the crowd's favorites: see Badges and
\* Scoring.
RecordEvent(kind, p) ==
    /\ Fact /\ recordEvent(kind, p)
    /\ UNCHANGED <<now, hidden, comments, likes, task, checkpoint, client>>

\* POST /p/:id/like, a toggle.
Like(by, p) ==
    /\ Fact /\ hidden[p] = NULL
    /\ LET mine == {l \in likes : l.by = by /\ l.photo = p}
       IN  IF mine # {} THEN likes' = likes \ mine /\ UNCHANGED nextId
           ELSE /\ likes' = likes \cup {[id |-> nextId, by |-> by, photo |-> p, at |-> Second(now)]}
                /\ nextId' = nextId + 1
    /\ UNCHANGED <<now, hidden, events, comments, task, checkpoint, client>>

\* POST /p/:id/comments.
Comment(p) ==
    /\ Fact /\ hidden[p] = NULL
    /\ comments' = comments \cup {[id |-> nextId, photo |-> p, at |-> Second(now), down |-> FALSE]}
    /\ nextId' = nextId + 1
    /\ UNCHANGED <<now, hidden, events, likes, task, checkpoint, client>>

\* POST /p/:id/comments/:id/delete, by its author.
DeleteComment(c) ==
    /\ Fact /\ hidden[c.photo] = NULL
    /\ comments' = comments \ {c}
    /\ UNCHANGED <<now, hidden, events, likes, task, checkpoint, nextId, client>>

\* POST /admin/comments/:id/hide and /restore: told when it changes something.
moderateComment(c, down) ==
    /\ Fact
    /\ comments' = (comments \ {c}) \cup {[c EXCEPT !.down = down]}
    /\ IF c.down # down THEN recordEvent(IF down THEN "comment_hidden" ELSE "comment_restored", c.photo)
       ELSE UNCHANGED <<events, nextId>>
    /\ UNCHANGED <<now, hidden, likes, task, checkpoint, client>>

\* POST /admin/photos/:id/takedown and /restore: told when the photo was not
\* already as the host wants it, whoever had hidden it.
moderatePhoto(p, down) ==
    /\ Fact
    /\ hidden' = [hidden EXCEPT ![p] = IF down THEN "admin" ELSE NULL]
    /\ IF (hidden[p] # NULL) # down THEN recordEvent(IF down THEN "photo_takedown" ELSE "photo_restore", p)
       ELSE UNCHANGED <<events, nextId>>
    /\ UNCHANGED <<now, comments, likes, task, checkpoint, client>>

\* POST /p/:id/delete by the owner, whom a host's takedown outranks.  Nobody
\* is told.
HideOwn(p) ==
    /\ Fact /\ hidden[p] = NULL
    /\ hidden' = [hidden EXCEPT ![p] = "guest"]
    /\ UNCHANGED <<now, events, comments, likes, task, checkpoint, nextId, client>>

\* POST /admin/tasks/:id/active.
ToggleTask ==
    /\ Fact
    /\ task' = [task EXCEPT !.live = ~@, !.since = IF task.live THEN @ ELSE Second(now)]
    /\ UNCHANGED <<now, hidden, events, comments, likes, checkpoint, nextId, client>>

-----------------------------------------------------------------------------
(* The panel.                                                              *)

Shows(page) == offered' = offered \cup {e.id : e \in {x \in events : Row(x.at, Key(EventRow, x.id)) \in page}}
LastOf(page, else) == IF page = {} THEN else ELSE CHOOSE r \in page : \A s \in page : r = s \/ Older(r, s)
server == <<now, hidden, events, comments, likes, task, nextId, facts>>

\* A page of the app is rendered, with the recap's first page in it.
Render ==
    /\ views < MaxViews /\ views' = views + 1
    /\ LET first == getRecap(Start)
       IN  /\ panel' = [pages |-> <<first.rows>>, cursor |-> LastOf(first.rows, NULL), more |-> first.more,
                        busy |-> FALSE, asked |-> <<>>, open |-> FALSE, last |-> nextId - 1,
                        hasMore |-> first.more]
           /\ Shows(first.rows)
    /\ strays' = FALSE
    /\ UNCHANGED <<server, checkpoint, seen, opened>>

Open ==
    /\ panel.pages # <<>> /\ ~panel.open
    /\ panel' = [panel EXCEPT !.open = TRUE]
    /\ seen' = seen \cup {[last |-> panel.last, more |-> panel.hasMore]}
    /\ UNCHANGED <<server, checkpoint, offered, opened, strays, views>>

\* POST /recap/seen arrives, or is lost.
markSeen(s) ==
    /\ seen' = seen \ {s} /\ checkpoint' = Second(now) /\ opened' = s
    /\ UNCHANGED <<server, panel, offered, strays, views>>
LoseSeen(s) ==
    /\ seen' = seen \ {s}
    /\ UNCHANGED <<server, checkpoint, panel, offered, opened, strays, views>>

LoadMore ==
    /\ panel.open /\ ~panel.busy /\ panel.more /\ panel.cursor # NULL
    /\ Len(panel.asked) < 2 /\ Len(panel.pages) < MaxPages
    /\ panel' = [panel EXCEPT !.busy = TRUE, !.asked = Append(@, panel.cursor)]
    /\ UNCHANGED <<server, checkpoint, seen, offered, opened, strays, views>>

Without(s, i) == SubSeq(s, 1, i - 1) \o SubSeq(s, i + 1, Len(s))

\* GET /recap answers: its rows go to the end of the list, whatever has
\* happened to the list meanwhile.
MoreArrives(i) ==
    /\ i \in 1 .. Len(panel.asked) /\ Len(panel.pages) < MaxPages
    /\ LET page == getRecap(panel.asked[i])
       IN  /\ panel' = [panel EXCEPT !.busy = FALSE, !.asked = Without(@, i),
                        !.pages = Append(@, page.rows), !.more = page.more,
                        !.cursor = LastOf(page.rows, @)]
           /\ Shows(page.rows)
    /\ UNCHANGED <<server, checkpoint, seen, opened, strays, views>>

MoreFails(i) ==
    /\ i \in 1 .. Len(panel.asked)
    /\ panel' = [panel EXCEPT !.busy = FALSE, !.asked = Without(@, i)]
    /\ UNCHANGED <<server, checkpoint, seen, offered, opened, strays, views>>

\* Mutant of Close: the cursor stays where paging had come to.
CloseKeepingTheCursor ==
    /\ panel.open
    /\ panel' = [panel EXCEPT !.open = FALSE, !.busy = FALSE, !.pages = <<@[1]>>, !.more = panel.hasMore]
    /\ strays' = (strays \/ panel.asked # <<>>)
    /\ UNCHANGED <<server, checkpoint, seen, offered, opened, views>>

\* Closing: back to the first page, its cursor and its more.  A page that is
\* still asked for is not called off.
Close ==
    /\ panel.open
    /\ panel' = [panel EXCEPT !.open = FALSE, !.busy = FALSE, !.pages = <<@[1]>>,
                    !.cursor = LastOf(panel.pages[1], NULL), !.more = panel.hasMore]
    /\ strays' = (strays \/ panel.asked # <<>>)
    /\ UNCHANGED <<server, checkpoint, seen, offered, opened, views>>

Next ==
    \/ Tick \/ ToggleTask
    \/ \E p \in Photos :
        \/ hidden[p] = NULL /\ \E kind \in Kinds : RecordEvent(kind, p)
        \/ \E by \in Others : Like(by, p)
        \/ Comment(p) \/ HideOwn(p)
        \/ \E down \in BOOLEAN : moderatePhoto(p, down)
    \/ \E c \in comments : DeleteComment(c) \/ \E down \in BOOLEAN : moderateComment(c, down)
    \/ Render \/ Open \/ LoadMore \/ Close
    \/ \E s \in seen : markSeen(s) \/ LoseSeen(s)
    \/ \E i \in 1 .. 2 : MoreArrives(i) \/ MoreFails(i)

Spec == Init /\ [][Next]_vars

-----------------------------------------------------------------------------
AtRest == ~panel.open /\ panel.asked = <<>> /\ seen = {}

(* The bell counts what the pages render.  From whatever row paging goes   *)
(* on, the next page is the next rows of the whole list, none left out by  *)
(* the limit on each source, and the unread rows of the list are as many   *)
(* as the bell says: but for a flash that began in the second of the       *)
(* checkpoint, which is counted and not marked.  None of it depends on the *)
(* panel, so it is compared while the panel rests: every server state is   *)
(* reached with it at rest, for it may be closed and its requests lost.    *)
CountIsRendered ==
    AtRest =>
    LET all == allRows(Start, 100)
        silent == {r \in qualifyingAnnounceFacts : ~Unread(r)}
    IN  /\ getUnreadCount = Cardinality({r \in all : Unread(r)}) + Cardinality(silent)
        /\ \A r \in silent : r.key = Key(Flash, 1) /\ r.when = checkpoint
        /\ \A c \in all \cup {Start} :
            LET rest == {r \in all : Older(r, c)}
            IN  getRecap(c) = [rows |-> Newest(rest, PageSize), more |-> Cardinality(rest) > PageSize]

\* Page after page is older, and when there is no more every event the first
\* page's document knew of is in the list - unless the panel was closed and
\* opened again while a page was still asked for.
PanelWalksBack ==
    panel.pages # <<>> /\ ~strays =>
        /\ \A i \in 2 .. Len(panel.pages) :
            \A r \in panel.pages[i - 1], s \in panel.pages[i] : Older(s, r)
        /\ ~panel.more => \A e \in events :
            e.id <= panel.last => Row(e.at, Key(EventRow, e.id)) \in UNION {panel.pages[i] : i \in 1 .. Len(panel.pages)}

\* What opening the panel marks as read was on its first page, or there was
\* more than one page, or it happened after the page was rendered.
OpeningReadsWhatItShows ==
    \A e \in events : e.at <= checkpoint /\ e.id \notin offered => opened.more \/ e.id > opened.last

\* A photo whose owner was last told it is down is down.
HostsAreHeard ==
    \A p \in Photos :
        LET told == {e \in events : e.photo = p /\ e.kind \in {"photo_takedown", "photo_restore"}}
        IN  \A e \in told : e.kind = "photo_takedown" /\ (\A f \in told : f.id <= e.id) => hidden[p] = "admin"

\* No event leads to a photo the guest would not find.
LinksAreAlive == \A e \in events : Link(e) \subseteq VisiblePhotos \cup {NULL}

(* What the panel has shown and said holds, over closing and reopening,    *)
(* lost requests, late answers and everything that happens meanwhile.      *)
PanelKeepsItsWord == PanelWalksBack /\ OpeningReadsWhatItShows /\ HostsAreHeard /\ LinksAreAlive
=============================================================================
