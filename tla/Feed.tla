-------------------------------- MODULE Feed --------------------------------
(***************************************************************************)
(* The photo feed and the gallery.  The server cuts the visible photos,    *)
(* newest first, into windows that start at an anchor photo               *)
(* (services/feed.js); the page keeps growing at both ends as the guest    *)
(* scrolls (public/js/feed-scroll.js), while photos are posted, replaced,  *)
(* hidden and restored.  A window is cut when the server reads the         *)
(* database and joins the page when its answer arrives.                    *)
(***************************************************************************)
EXTENDS Integers, Sequences, FiniteSets

CONSTANTS
    FEED_PAGE_SIZE, GALLERY_PAGE_SIZE, GROUP_PREVIEW_SIZE,
    Albums,         \* the feeds a page may find: sequences of photos, by id
    Scopes,         \* what a page may be restricted to
    Held,           \* photos a badge is attached to
    MaxPhotos,      \* bound: photos ever posted
    MaxChanges      \* bound: changes while the page is open

VARIABLES
    photos,     \* id -> [at, guest, task, shown, pinned]
    cards,      \* the photos on the page, from the top
    edge,       \* "newer", "older" -> [href, page]: the pager and an answer
    scope,      \* what the page is restricted to
    changes,    \* how many changes were made
    opened,     \* history: the first photo of the page when it was opened
    steady,     \* history: photos visible and in place ever since
    grown,      \* history: a photo appeared since the newer pager was read
    slipped     \* history: the newer pager no longer said where to go on

feedVars == <<photos, cards, edge, scope, changes, opened, steady, grown, slipped>>

None == -1
NoPage == [items |-> <<>>, older |-> None, newer |-> None]
Memories == "memories"      \* the task of a photo that answers none
Everyone == [type |-> "none"]
First == 0                  \* ?from= absent

-----------------------------------------------------------------------------
(* The order and the windows: services/feed.js.                            *)

Ids(ph) == DOMAIN ph

\* ORDER BY created_at DESC, id DESC.
Newer(ph, p, q) == ph[p].at > ph[q].at \/ (ph[p].at = ph[q].at /\ p > q)

\* The n-th has n - 1 in front of it.
NewestFirst(ph, S) ==
    [n \in 1 .. Cardinality(S) |-> CHOOSE p \in S : Cardinality({q \in S : Newer(ph, q, p)}) = n - 1]

Take(s, n) == SubSeq(s, 1, IF n < Len(s) THEN n ELSE Len(s))
Elements(s) == {s[i] : i \in DOMAIN s}

matchesScope(ph, p, s) ==
    CASE s.type = "none" -> TRUE
      [] s.type = "guest" -> ph[p].guest = s.id
      [] s.type = "task" -> ph[p].task = s.id
      [] s.type = "memory" -> ph[p].task = Memories
      [] s.type = "badge" -> p \in Held

Visible(ph) == {p \in Ids(ph) : ph[p].shown}
InScope(ph, s) == {p \in Visible(ph) : matchesScope(ph, p, s)}
\* detail(id), an anchor: NULL unless visible and in the scope.
Serves(ph, p, s) == p \in Ids(ph) /\ p \in InScope(ph, s)

\* Mutant of FromAnchor: photos of the anchor's second are taken for newer.
FromAnchorByTime(ph, s, a) == NewestFirst(ph, {p \in InScope(ph, s) : p = a \/ ph[p].at < ph[a].at})

FromAnchor(ph, s, a) == NewestFirst(ph, {p \in InScope(ph, s) : ~Newer(ph, p, a)})

\* Where the page above starts: the photo a whole window up, or, when there
\* are fewer, the first page.
NewerAnchor(above) == IF Len(above) = FEED_PAGE_SIZE THEN above[Len(above)] ELSE First

feedWindow(ph, from, s) ==
    LET rows == IF from # First /\ Serves(ph, from, s) THEN FromAnchor(ph, s, from)
                ELSE NewestFirst(ph, InScope(ph, s))
        page == Take(rows, FEED_PAGE_SIZE)
        upward == IF page = <<>> THEN {} ELSE {p \in InScope(ph, s) : Newer(ph, p, page[1])}
        line == NewestFirst(ph, upward)
        above == [i \in 1 .. Len(Take(line, FEED_PAGE_SIZE)) |-> line[Len(line) + 1 - i]]
    IN  [items |-> page,
         older |-> IF Len(rows) > FEED_PAGE_SIZE THEN rows[FEED_PAGE_SIZE + 1] ELSE None,
         newer |-> IF above = <<>> THEN None ELSE NewerAnchor(above)]

\* The pages either side of a photo on its own page.
neighbors(ph, p) ==
    LET line == NewestFirst(ph, Visible(ph))
        i == CHOOSE n \in DOMAIN line : line[n] = p
    IN  [newer |-> IF i = 1 THEN None ELSE line[i - 1],
         older |-> IF i = Len(line) THEN None ELSE line[i + 1]]

-----------------------------------------------------------------------------
(* The gallery: numbered pages, and one section per task or guest.         *)

clampToPage(page, total) ==
    LET totalPages == IF total = 0 THEN 1 ELSE (total + GALLERY_PAGE_SIZE - 1) \div GALLERY_PAGE_SIZE
    IN  [page |-> IF page < 1 THEN 1 ELSE IF page > totalPages THEN totalPages ELSE page,
         totalPages |-> totalPages]

\* recentPage and guestPhotosPage: one page of the photos of a scope.
GalleryPage(ph, s, page) ==
    LET line == NewestFirst(ph, InScope(ph, s))
        at == clampToPage(page, Len(line))
        offset == (at.page - 1) * GALLERY_PAGE_SIZE
    IN  [items |-> Take(SubSeq(line, offset + 1, Len(line)), GALLERY_PAGE_SIZE),
         page |-> at.page, totalPages |-> at.totalPages]

GroupKey(ph, p, kind) == IF kind = "task" THEN ph[p].task ELSE ph[p].guest

\* A section comes before another by its guest's pin, its latest second, its
\* highest id.
Latest(ph, S) == CHOOSE t \in {ph[p].at : p \in S} : \A p \in S : ph[p].at <= t
HighestId(S) == CHOOSE p \in S : \A q \in S : q <= p
Before(ph, kind, S, T) ==
    LET pin(U) == kind = "user" /\ \E p \in U : ph[p].pinned
    IN  IF pin(S) # pin(T) THEN pin(S)
        ELSE IF Latest(ph, S) # Latest(ph, T) THEN Latest(ph, S) > Latest(ph, T)
        ELSE HighestId(S) > HighestId(T)

SectionOrder(ph, kind, members) ==
    [n \in 1 .. Cardinality(members) |->
        CHOOSE S \in members : Cardinality({T \in members \ {S} : Before(ph, kind, T, S)}) = n - 1]

grouped(ph, kind, s) ==
    LET of(k) == {p \in InScope(ph, s) : GroupKey(ph, p, kind) = k}
        keys == {GroupKey(ph, p, kind) : p \in InScope(ph, s)}
        sections == SectionOrder(ph, kind, {of(k) : k \in keys})
    IN  [i \in DOMAIN sections |->
            [preview |-> Take(NewestFirst(ph, sections[i]), GROUP_PREVIEW_SIZE),
             total |-> Cardinality(sections[i])]]

-----------------------------------------------------------------------------
(* The page: feed-scroll.js.                                               *)

FeedInit ==
    /\ photos \in Albums
    /\ scope \in Scopes
    /\ \E from \in {First} \cup Ids(photos) :
         LET doc == feedWindow(photos, from, scope)
         IN  /\ doc.items # <<>>
             /\ cards = doc.items
             /\ edge = [newer |-> [href |-> doc.newer, page |-> NoPage],
                        older |-> [href |-> doc.older, page |-> NoPage]]
    /\ opened = [at |-> photos[cards[1]].at, id |-> cards[1]]
    /\ steady = InScope(photos, scope)
    /\ changes = 0 /\ grown = FALSE /\ slipped = FALSE

\* The top of the page comes into view, or its foot: load, up to the answer.
Load(way) ==
    LET href == edge[way].href
    IN  /\ href # None /\ edge[way].page = NoPage
        /\ edge' = [edge EXCEPT ![way].page = feedWindow(photos, href, scope)]
        /\ IF way = "newer"
           THEN /\ slipped' = (slipped \/ grown \/ (href # First /\ ~Serves(photos, href, scope)))
                /\ grown' = FALSE
           ELSE UNCHANGED <<slipped, grown>>
        /\ UNCHANGED <<photos, cards, scope, changes, opened, steady>>

\* Mutant of liftFeedItems: a photo already on the page is put there again.
liftAll(items) == items

\* The photos of an answer that are not on the page already.
liftFeedItems(items) == SelectSeq(items, LAMBDA p : p \notin Elements(cards))

\* prependNewer or appendOlder; the edge goes on from the pager of the answer,
\* or is retired when that has none.
Insert(way) ==
    LET doc == edge[way].page
    IN  /\ doc # NoPage
        /\ cards' = IF way = "newer" THEN liftFeedItems(doc.items) \o cards
                    ELSE cards \o liftFeedItems(doc.items)
        /\ edge' = [edge EXCEPT ![way] = [href |-> doc[way], page |-> NoPage]]
        /\ UNCHANGED <<photos, scope, changes, opened, steady, grown, slipped>>

\* A failed fetch: the edge stays armed.
LoadFails(way) ==
    /\ edge[way].page # NoPage
    /\ edge' = [edge EXCEPT ![way].page = NoPage]
    /\ UNCHANGED <<photos, cards, scope, changes, opened, steady, grown, slipped>>

-----------------------------------------------------------------------------
(* What others do meanwhile.                                               *)

\* created_at is a time of day in whole seconds.
Now == LET last == Latest(photos, Ids(photos)) IN {last, last + 1}

Change(ph, moved) ==
    /\ changes < MaxChanges
    /\ changes' = changes + 1
    /\ photos' = ph
    /\ steady' = {p \in steady : ph[p].shown /\ p \notin moved}
    /\ grown' = (grown \/ ~(InScope(ph, scope) \subseteq InScope(photos, scope) \ moved))
    /\ UNCHANGED <<cards, edge, scope, opened, slipped>>

Post ==
    /\ Len(photos) < MaxPhotos
    /\ \E like \in Ids(photos), at \in Now :
         Change(Append(photos, [photos[like] EXCEPT !.at = at, !.task = Memories, !.shown = TRUE]), {})

\* A task's photo is uploaded again: created_at is now.
Replace(p) == photos[p].task # Memories /\ \E at \in Now : Change([photos EXCEPT ![p].at = at], {p})

Hide(p) == photos[p].shown /\ Change([photos EXCEPT ![p].shown = FALSE], {})
Restore(p) == ~photos[p].shown /\ Change([photos EXCEPT ![p].shown = TRUE], {})

FeedNext ==
    \/ \E way \in {"newer", "older"} : Load(way) \/ Insert(way) \/ LoadFails(way)
    \/ Post
    \/ \E p \in Ids(photos) : Replace(p) \/ Hide(p) \/ Restore(p)

FeedSpec == FeedInit /\ [][FeedNext]_feedVars

-----------------------------------------------------------------------------
(* Properties.                                                             *)

\* No photo of the feed lies between two of the set and outside it.
Gapless(ph, s, S) ==
    \A p \in InScope(ph, s) \ S : (\A q \in S : Newer(ph, p, q)) \/ (\A q \in S : Newer(ph, q, p))

\* Whatever the photos are, and from whichever of them one starts: the page of
\* an anchor begins with it, the page it calls older goes on right below, the
\* page it calls newer reaches down to it, and going older and older ends.
WindowsMeet ==
    \A p \in InScope(photos, scope) :
        LET w == feedWindow(photos, p, scope)
            page(from) == Elements(feedWindow(photos, from, scope).items)
            here == Elements(w.items)
        IN  /\ w.items[1] = p
            /\ w.older = None <=> \A q \in InScope(photos, scope) : Newer(photos, p, q) => q \in here
            /\ w.older # None => /\ page(w.older) \cap here = {}
                                 /\ Gapless(photos, scope, here \cup page(w.older))
            /\ w.newer = None <=> ~\E q \in InScope(photos, scope) : Newer(photos, q, p)
            /\ w.newer # None => /\ page(w.newer) \ here # {}
                                 /\ Gapless(photos, scope, here \cup page(w.newer))

\* The numbered pages and the sections of the gallery hold every photo once,
\* each section its newest ones, and older and newer are inverse to each other.
GalleryIsWhole ==
    LET pages == GalleryPage(photos, scope, 1).totalPages
        page(n) == Elements(GalleryPage(photos, scope, n).items)
    IN  /\ UNION {page(n) : n \in 1 .. pages} = InScope(photos, scope)
        /\ \A n \in 1 .. pages : /\ n > 1 => page(n) # {}
                                 /\ \A m \in 1 .. n - 1 : page(m) \cap page(n) = {}
        /\ page(0) = page(1) /\ page(pages + 1) = page(pages)
        /\ \A kind \in {"task", "user"} :
             LET sections == grouped(photos, kind, scope)
                 of(i) == {p \in InScope(photos, scope) :
                             GroupKey(photos, p, kind) = GroupKey(photos, sections[i].preview[1], kind)}
             IN  /\ UNION {of(i) : i \in DOMAIN sections} = InScope(photos, scope)
                 /\ \A i \in DOMAIN sections :
                      /\ sections[i].total = Cardinality(of(i))
                      /\ \A j \in DOMAIN sections \ {i} : of(i) \cap of(j) = {}
                      /\ \A p \in of(i) : LET preview == sections[i].preview
                                          IN  p \in Elements(preview) \/ Newer(photos, preview[GROUP_PREVIEW_SIZE], p)
        /\ \A p, q \in Visible(photos) : neighbors(photos, p).older = q <=> neighbors(photos, q).newer = p

\* The page never shows a photo twice.  Scrolled to the end, it has shown every
\* photo that was there all the time and in its place; scrolled to the top too,
\* unless a photo appeared, or the one it meant to go on from went, between two
\* answers.
WalkIsWhole ==
    LET aboveStart(p) == photos[p].at > opened.at \/ (photos[p].at = opened.at /\ p > opened.id)
    IN  /\ \A i, j \in DOMAIN cards : cards[i] = cards[j] => i = j
        /\ edge.older.href = None => \A p \in steady : aboveStart(p) \/ p \in Elements(cards)
        /\ edge.newer.href = None /\ ~slipped => \A p \in steady : aboveStart(p) => p \in Elements(cards)

=============================================================================
