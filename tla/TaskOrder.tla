------------------------------ MODULE TaskOrder ------------------------------
(***************************************************************************)
(* The hosts' order of the tasks.  A host drags a card of the Tasks page   *)
(* to another place, and every drop posts the whole order of that page     *)
(* (public/js/admin-tasks.js); the server takes it over only when it names *)
(* every task once (POST /admin/tasks/reorder-all).  The posts of two      *)
(* drops, or of two hosts' pages, are under way together and may be served *)
(* in either order; a new task goes to an end of the order, a deleted one  *)
(* leaves a gap.                                                           *)
(***************************************************************************)
EXTENDS Integers, Sequences, FiniteSets

LOCAL INSTANCE SequencesExt

CONSTANTS
    Ids,        \* task ids, numbers
    Pages,      \* open Tasks pages
    Orders,     \* the sort_order columns the pages may find
    MaxDrops    \* bound: drops, and other changes, of the run

VARIABLES
    sort_order, \* task -> its place, for the tasks there are
    cards,      \* page -> its cards from the top
    dragCard,   \* page -> the card held, or Nobody
    posts,      \* orders under way: [page, no, ids, answer]
    drops,      \* drops and other changes so far
    last,       \* page -> the number of its last drop since it was loaded
    agreed      \* history: pages whose last drop, or load, is the last change

orderVars == <<sort_order, cards, dragCard, posts, drops, last, agreed>>

Nobody == 0
Gone == "gone"      \* the page of a post whose page was loaded anew

\* ORDER BY sort_order ASC, id ASC
Listed(order) ==
    SetToSortSeq(DOMAIN order, LAMBDA t, u : order[t] < order[u] \/ (order[t] = order[u] /\ t < u))

OrderInit ==
    /\ sort_order \in Orders
    /\ cards = [h \in Pages |-> Listed(sort_order)]
    /\ dragCard = [h \in Pages |-> Nobody]
    /\ posts = {} /\ drops = 0
    /\ last = [h \in Pages |-> 0] /\ agreed = Pages

\* The page is loaded anew; what it had under way goes on without it.
Loaded(h, order, underWay) ==
    /\ cards' = [cards EXCEPT ![h] = Listed(order)]
    /\ dragCard' = [dragCard EXCEPT ![h] = Nobody]
    /\ last' = [last EXCEPT ![h] = 0]
    /\ posts' = {IF p.page = h THEN [p EXCEPT !.page = Gone] ELSE p : p \in underWay}

LastOf(p) == p.page # Gone /\ last[p.page] = p.no

\* pointerdown on a card's handle; a second finger takes the drag over.
Grab(h, t) ==
    /\ t \in {cards[h][i] : i \in DOMAIN cards[h]} /\ dragCard[h] # t /\ drops < MaxDrops
    /\ dragCard' = [dragCard EXCEPT ![h] = t]
    /\ UNCHANGED <<sort_order, cards, posts, drops, last, agreed>>

\* pointermove: the card in hand goes before the first card whose middle is
\* below the finger, or to the end.
reorder(s, t, at) ==
    LET others == SelectSeq(s, LAMBDA u : u # t)
    IN  SubSeq(others, 1, at - 1) \o <<t>> \o SubSeq(others, at, Len(others))

Move(h, at) ==
    LET moved == reorder(cards[h], dragCard[h], at)
    IN  /\ dragCard[h] # Nobody /\ at \in 1 .. Len(cards[h]) /\ moved # cards[h]
        /\ cards' = [cards EXCEPT ![h] = moved]
        /\ UNCHANGED <<sort_order, dragCard, posts, drops, last, agreed>>

\* endDrag and persistOrder: the cards as they lie are posted.
Drop(h) ==
    /\ dragCard[h] # Nobody /\ drops < MaxDrops
    /\ drops' = drops + 1
    /\ dragCard' = [dragCard EXCEPT ![h] = Nobody]
    /\ posts' = posts \cup {[page |-> h, no |-> drops', ids |-> cards[h], answer |-> "none"]}
    /\ last' = [last EXCEPT ![h] = drops']
    /\ UNCHANGED <<sort_order, cards, agreed>>

\* Mutant of applyOrderIfComplete: the tasks named are renumbered, whichever.
applyOrder(ids) == TRUE

\* The posted order names every task, and each once.
applyOrderIfComplete(ids) ==
    LET named == {ids[i] : i \in DOMAIN ids}
    IN  Cardinality(named) = Len(ids) /\ named = DOMAIN sort_order

Serve(p) ==
    /\ p \in posts /\ p.answer = "none"
    /\ IF applyOrderIfComplete(p.ids)
       THEN /\ sort_order' = [t \in DOMAIN sort_order |->
                                IF \E i \in DOMAIN p.ids : p.ids[i] = t
                                THEN (CHOOSE i \in DOMAIN p.ids : p.ids[i] = t) - 1 ELSE sort_order[t]]
            /\ posts' = posts \ {p}                     \* nothing is done with an ok
            /\ agreed' = IF LastOf(p) THEN {p.page} ELSE {}
       ELSE /\ posts' = (posts \ {p}) \cup {[p EXCEPT !.answer = "refused"]}
            /\ UNCHANGED <<sort_order, agreed>>
    /\ UNCHANGED <<cards, dragCard, drops, last>>

\* Nobody is there to see the answer; as a mutant of Refused, nobody looks.
StaysOn(p) == posts' = posts \ {p} /\ UNCHANGED <<cards, dragCard, last>>
\* The list changed under the page: it is loaded again.
Refused(p) == Loaded(p.page, sort_order, posts \ {p})

Answer(p) ==
    /\ p \in posts /\ p.answer = "refused"
    /\ IF p.page = Gone THEN StaysOn(p) ELSE Refused(p)
    /\ agreed' = agreed \cup ({p.page} \ {Gone})
    /\ UNCHANGED <<sort_order, drops>>

\* The network fails, before the server or after it: nothing is said.
Lose(p) ==
    /\ p \in posts
    /\ posts' = posts \ {p}
    /\ agreed' = IF LastOf(p) THEN agreed \ {p.page} ELSE agreed
    /\ UNCHANGED <<sort_order, cards, dragCard, drops, last>>

-----------------------------------------------------------------------------
(* The other things hosts do with the tasks, each a form whose answer is   *)
(* the page loaded anew.                                                   *)

Changed(h, order) ==
    /\ drops < MaxDrops /\ drops' = drops + 1
    /\ sort_order' = order
    /\ Loaded(h, order, posts) /\ agreed' = {h}

Reload(h) ==
    /\ Loaded(h, sort_order, posts) /\ agreed' = agreed \cup {h}
    /\ UNCHANGED <<sort_order, drops>>

\* Mutant of Placed: the number of tasks is taken for the end of the order.
PlacedByCount(top) == IF top THEN -1 ELSE Cardinality(DOMAIN sort_order)

\* POST /admin/tasks: before the first, or behind the last.
Placed(top) ==
    LET places == {sort_order[t] : t \in DOMAIN sort_order}
    IN  IF top THEN (IF places = {} THEN 1 ELSE CHOOSE m \in places : \A n \in places : m <= n) - 1
        ELSE (IF places = {} THEN -1 ELSE CHOOSE m \in places : \A n \in places : n <= m) + 1

Create(h, top) ==
    LET fresh == CHOOSE t \in Ids : t \notin DOMAIN sort_order
    IN  /\ DOMAIN sort_order # Ids
        /\ Changed(h, [t \in DOMAIN sort_order \cup {fresh} |->
                         IF t = fresh THEN Placed(top) ELSE sort_order[t]])

Delete(h, t) ==
    /\ t \in DOMAIN sort_order
    /\ Changed(h, [u \in DOMAIN sort_order \ {t} |-> sort_order[u]])

OrderNext ==
    \/ \E h \in Pages :
         \/ Drop(h) \/ Reload(h)
         \/ \E t \in Ids : Grab(h, t) \/ Delete(h, t)
         \/ \E at \in 1 .. Cardinality(Ids) : Move(h, at)
         \/ \E top \in BOOLEAN : Create(h, top)
    \/ \E p \in posts : Serve(p) \/ Answer(p) \/ Lose(p)

OrderSpec == OrderInit /\ [][OrderNext]_orderVars

-----------------------------------------------------------------------------
\* Two tasks never share a place: a guest's list and a host's are in the same
\* order, whatever was created, deleted and dropped, and whichever order the
\* posts of it were served in.
OrderIsTotal == \A t, u \in DOMAIN sort_order : sort_order[t] = sort_order[u] => t = u

\* A page with nothing in hand and nothing under way shows the order there is,
\* if its last drop or load was the last change made.  So a drop that is
\* refused never stays on screen, and neither finger of two can put a card
\* where it is not posted.
PageShowsTheOrder ==
    \A h \in agreed :
        dragCard[h] = Nobody /\ (\A p \in posts : p.page # h) => cards[h] = Listed(sort_order)

OrderIsKept == OrderIsTotal /\ PageShowsTheOrder
=============================================================================
