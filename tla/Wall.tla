-------------------------------- MODULE Wall --------------------------------
(***************************************************************************)
(* The host's wall of photos (routes/admin/moderation.js, favorites.js,    *)
(* views/admin-photos.ejs).  One request renders the tiles of a view and,  *)
(* behind them, a feed with a card of every photo; a script shows the one  *)
(* or the other, narrows the feed to the section a tile was tapped in, and *)
(* after a moderation reopens it at the card it was made on.  The viewer   *)
(* steps through the cards that were showing when it opened                *)
(* (public/js/lightbox.js).                                                *)
(*                                                                         *)
(* Photos are numbered in the order they came.  Guests and other hosts     *)
(* change the rows behind the page.                                        *)
(***************************************************************************)
EXTENDS Integers, FiniteSets

CONSTANTS
    Photos,
    GuestOf, TaskOf,    \* photo -> its guest, its task or Memory
    Memory,
    Queries,            \* what is searched for -> the section keys whose heading has it
    NoQuery,
    MaxVisits, MaxOthers    \* bounds

VARIABLES
    rows,           \* photo -> [there, down, fav]
    page,           \* what was rendered: the request, photo -> its card in the feed, the tiles' groups
    panel,          \* "grid" or "feed"
    scope,          \* the section the feed is narrowed to, or NoKey
    box,            \* the viewer: its photos and which it is at, or Shut
    asked,          \* history: the view, search and task the host last chose
    acted,          \* history: the photo a moderation from the feed was made on, until the next action
    visits, others

wallVars == <<rows, page, panel, scope, box, asked, acted, visits, others>>

NoKey == <<>>
NoTask == "no task"
NoPhoto == 0
Shut == [group |-> <<>>, index |-> 0]
Views == {"recent", "task", "user", "fav"}

There == {p \in Photos : rows[p].there}
Elements(s) == {s[i] : i \in DOMAIN s}

\* ORDER BY created_at DESC, id DESC: the n-th newest has all but n - 1 up to it.
Newest(S) ==
    LET place == [p \in S |-> Cardinality({q \in S : q <= p})]
    IN  [n \in 1 .. Cardinality(S) |-> CHOOSE p \in S : place[p] = Cardinality(S) + 1 - n]

-----------------------------------------------------------------------------
(* GET /admin/photos.                                                      *)

\* Mutant of scopeKey: a photo is of its guest in every grouping.
scopeKeyOfGuest(p, view) == IF view \in {"user", "task"} THEN <<"g", GuestOf[p]>> ELSE NoKey

\* Which section a photo belongs to, if the view has sections.
scopeKey(p, view) ==
    CASE view = "user" -> <<"g", GuestOf[p]>>
      [] view = "task" -> <<"t", TaskOf[p]>>
      [] OTHER -> NoKey

\* The groups of some photos under a heading that is found, the one with the
\* newest photo first.
groupPhotos(S, view, found) ==
    LET firsts == Newest({p \in S : /\ scopeKey(p, view) \in found
                                    /\ \A q \in S : scopeKey(q, view) = scopeKey(p, view) => q <= p})
    IN  [n \in DOMAIN firsts |-> Newest({p \in S : scopeKey(p, view) = scopeKey(firsts[n], view)})]

One(S) == IF S = {} THEN <<>> ELSE <<Newest(S)>>

\* The page of a request: a known task of the By-task view narrows everything
\* and shows what is hidden too; the groupings are of live photos otherwise.
Rendered(view, q, task, now) ==
    LET scoped == view = "task" /\ task # NoTask
        list == {p \in Photos : now[p].there /\ (scoped => TaskOf[p] = task)}
    IN  [view |-> view, q |-> q, task |-> task,
         cards |-> [p \in list |-> [down |-> now[p].down, fav |-> now[p].fav, key |-> scopeKey(p, view)]],
         tiles |-> CASE scoped \/ view = "recent" -> One(list)
                     [] view = "fav" -> One({p \in list : now[p].fav})
                     [] OTHER -> groupPhotos({p \in list : ~now[p].down}, view, Queries[q])]

-----------------------------------------------------------------------------
(* The script of the page.                                                 *)

\* applyFeedScope: what is left of the feed.
Showing == {p \in DOMAIN page.cards : scope \in {NoKey, page.cards[p].key}}

\* openFeedAt: the card's own section, or everything if there is no card.
ScopeAt(pg, p) == IF p \in DOMAIN pg.cards THEN pg.cards[p].key ELSE NoKey

Tiled(p) == \E i \in DOMAIN page.tiles : p \in Elements(page.tiles[i])

Visit(view, q, task) ==
    /\ box = Shut /\ visits < MaxVisits /\ visits' = visits + 1
    /\ page' = Rendered(view, q, task, rows) /\ asked' = <<view, q, task>>
    /\ panel' = "grid" /\ scope' = NoKey /\ acted' = NoPhoto
    /\ UNCHANGED <<rows, box, others>>

OpenFeedAt(p) ==
    /\ panel = "grid" /\ Tiled(p)
    /\ panel' = "feed" /\ scope' = ScopeAt(page, p) /\ acted' = NoPhoto
    /\ UNCHANGED <<rows, page, box, asked, visits, others>>

ShowAll ==
    /\ panel = "feed" /\ box = Shut /\ scope # NoKey /\ scope' = NoKey /\ acted' = NoPhoto
    /\ UNCHANGED <<rows, page, panel, box, asked, visits, others>>

ShowGrid ==
    /\ panel = "feed" /\ box = Shut
    /\ panel' = "grid" /\ scope' = NoKey /\ acted' = NoPhoto
    /\ UNCHANGED <<rows, page, box, asked, visits, others>>

\* Mutant of openFrom: the cards the narrowing hid are stepped through too.
openFromAll(p) ==
    /\ box = Shut /\ panel = "feed" /\ p \in Showing
    /\ \E i \in DOMAIN Newest(DOMAIN page.cards) :
        /\ Newest(DOMAIN page.cards)[i] = p
        /\ box' = [group |-> Newest(DOMAIN page.cards), index |-> i]
    /\ UNCHANGED <<rows, page, panel, scope, asked, acted, visits, others>>

\* openFrom: the group is the triggers that carry its name at that moment.
openFrom(p) ==
    /\ box = Shut /\ panel = "feed"
    /\ \E i \in DOMAIN Newest(Showing) :
        /\ Newest(Showing)[i] = p
        /\ box' = [group |-> Newest(Showing), index |-> i]
    /\ UNCHANGED <<rows, page, panel, scope, asked, acted, visits, others>>

\* step: no further than either end.
step(delta) ==
    /\ box # Shut /\ box.index + delta \in DOMAIN box.group
    /\ box' = [group |-> box.group, index |-> box.index + delta]
    /\ UNCHANGED <<rows, page, panel, scope, asked, acted, visits, others>>

closeOverlay ==
    /\ box # Shut /\ box' = Shut
    /\ UNCHANGED <<rows, page, panel, scope, asked, acted, visits, others>>

-----------------------------------------------------------------------------
(* The mutations.                                                          *)

\* Mutant of redirectToPhotos: the task the page was narrowed to is lost.
redirectUnscoped(now, p, fromFeed) ==
    LET back == Rendered(page.view, page.q, NoTask, now)
    IN  /\ page' = back
        /\ panel' = IF fromFeed THEN "feed" ELSE "grid"
        /\ scope' = IF fromFeed THEN ScopeAt(back, p) ELSE NoKey
        /\ acted' = IF fromFeed THEN p ELSE NoPhoto

\* redirectToPhotos: the same request again, and from the feed the anchor of
\* the card, which reopens the feed there.
redirectToPhotos(now, p, fromFeed) ==
    LET back == Rendered(page.view, page.q, page.task, now)
    IN  /\ page' = back
        /\ panel' = IF fromFeed THEN "feed" ELSE "grid"
        /\ scope' = IF fromFeed THEN ScopeAt(back, p) ELSE NoKey
        /\ acted' = IF fromFeed THEN p ELSE NoPhoto

\* moderatePhoto and toggleFavorite: a photo that is gone is only told so.
Changed(p, what) ==
    IF ~rows[p].there THEN rows
    ELSE [rows EXCEPT ![p] = [there |-> TRUE,
                              down |-> IF what = "favorite" THEN rows[p].down ELSE what = "takedown",
                              fav |-> rows[p].fav # (what = "favorite")]]

\* From a card of the feed any of them, from a tile its heart.
Moderate(p, what, fromFeed) ==
    /\ box = Shut /\ visits < MaxVisits /\ visits' = visits + 1
    /\ IF fromFeed THEN panel = "feed" /\ p \in Showing ELSE panel = "grid" /\ what = "favorite" /\ Tiled(p)
    /\ rows' = Changed(p, what)
    /\ redirectToPhotos(rows', p, fromFeed)
    /\ UNCHANGED <<box, asked, others>>

\* Guests post, delete and hide; a second tab of the host does the same as the
\* first.  A deleted photo takes its heart with it.
Others ==
    /\ others < MaxOthers /\ others' = others + 1
    /\ \E p \in Photos :
        \/ rows' = [rows EXCEPT ![p] = [there |-> ~@.there, down |-> FALSE, fav |-> FALSE]]
        \/ rows[p].there /\ rows' = [rows EXCEPT ![p].down = ~@]
        \/ rows[p].there /\ rows' = [rows EXCEPT ![p].fav = ~@]
    /\ acted' = NoPhoto
    /\ UNCHANGED <<page, panel, scope, box, asked, visits>>

WallInit ==
    /\ \E there \in SUBSET Photos :
        rows = [p \in Photos |-> [there |-> p \in there, down |-> FALSE, fav |-> FALSE]]
    /\ page = Rendered("recent", NoQuery, NoTask, rows) /\ asked = <<"recent", NoQuery, NoTask>>
    /\ panel = "grid" /\ scope = NoKey /\ box = Shut /\ acted = NoPhoto
    /\ visits = 0 /\ others = 0

WallNext ==
    \/ \E view \in Views, q \in DOMAIN Queries : Visit(view, q, NoTask)
    \/ \E task \in Elements(TaskOf) \ {Memory} : Visit("task", NoQuery, task)
    \/ \E p \in Photos : \/ OpenFeedAt(p) \/ openFrom(p)
                         \/ \E what \in {"takedown", "restore", "favorite"}, f \in BOOLEAN : Moderate(p, what, f)
    \/ ShowAll \/ ShowGrid \/ closeOverlay
    \/ \E delta \in {-1, 1} : step(delta)
    \/ Others

WallSpec == WallInit /\ [][WallNext]_wallVars

-----------------------------------------------------------------------------
(* Properties.                                                             *)

\* Whatever is tapped has its card, each tile in one group only; a moderation
\* from the feed comes back to the view it was made in and to its card, as the
\* row now is, with only its section showing; what is hidden is still there to restore;
\* and the viewer steps through the cards that show and no others.
WallIsTrue ==
    LET unscoped == page.view # "task" \/ page.task = NoTask
        cards == DOMAIN page.cards
        tiles == page.tiles
    IN  /\ \A i, j \in DOMAIN tiles : \A k \in DOMAIN tiles[i], l \in DOMAIN tiles[j] :
             tiles[i][k] \in cards /\ (tiles[i][k] = tiles[j][l] => i = j /\ k = l)
        /\ asked = <<page.view, page.q, page.task>>
        /\ unscoped \/ \A p \in cards : TaskOf[p] = page.task
        /\ acted # NoPhoto /\ rows[acted].there =>
            /\ acted \in Showing
            /\ page.cards[acted].down = rows[acted].down /\ page.cards[acted].fav = rows[acted].fav
            /\ \A p \in Photos : p \in Showing <=>
                /\ rows[p].there
                /\ page.view = "task" => TaskOf[p] = TaskOf[acted]
                /\ page.view = "user" => GuestOf[p] = GuestOf[acted]
            /\ unscoped => cards = There
        /\ box # Shut => /\ box.index \in DOMAIN box.group
                         /\ box.group = Newest(Showing)

=============================================================================
