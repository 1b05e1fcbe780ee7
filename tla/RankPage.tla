------------------------------ MODULE RankPage -------------------------------
(***************************************************************************)
(* The host's Rank & award page for one task: the grid of its photos, the  *)
(* list of winners that is dragged into order, the results view and the    *)
(* way back into editing (public/js/admin-badge-rank.js), and the release  *)
(* it posts (routes/admin/task-rank.js, services/task-badges.js), while    *)
(* photos are taken down and restored and another page releases too.       *)
(* Each photo is its guest's only one of the task.  What a release does to *)
(* celebrations and notices is in Badges.                                  *)
(*                                                                         *)
(* The list on screen is a state of its own: a drag moves its rows at once *)
(* and the picks follow when it ends; a tap of another finger rebuilds the *)
(* list under a drag and leaves the dragged row outside of it.             *)
(***************************************************************************)
EXTENDS Integers, Sequences, SequencesExt, FiniteSets

CONSTANTS
    Photos,         \* photos of the task, each of another guest
    MAX,            \* MAX_RANKED_WINNERS
    MaxEvents       \* bound on presses of Release, on what happens elsewhere and on lists
                    \* rebuilt under a drag, all together

VARIABLES
    visible,    \* photos not taken down
    award,      \* the photos with a ranked award, by rank
    released,   \* the settings marker
    page,       \* the host's page: what it loaded, its picks and its list
    posts,      \* releases posted so far
    changes, fumbles,
    stale       \* history: something happened since the page was loaded

rankVars == <<visible, award, released, page, posts, changes, fumbles, stale>>

NoDrag == [id |-> 0, at |-> 0]
Room == Len(posts) + changes + fumbles < MaxEvents
\* Array.prototype.filter: the elements at the places kept, in their order.
filter(list, kept) ==
    LET place == [i \in kept |-> Cardinality({j \in kept : j <= i})]
    IN  [n \in 1 .. Cardinality(kept) |-> list[CHOOSE i \in kept : place[i] = n]]
Kept(list, set) == filter(list, {i \in DOMAIN list : list[i] \in set})
indexOf(list, p) == Min({i \in DOMAIN list : list[i] = p})
Without(list, i) == RemoveAt(list, i)
Distinct(list) == Cardinality(ToSet(list)) = Len(list)

-----------------------------------------------------------------------------
(* The page.                                                               *)

\* Mutant of Seed: winners whose photo was taken down are picked too.
SeedAll(winners, photos) == winners

\* The winners a tile stands for.
Seed(winners, photos) == Kept(winners, photos)

Draw(p) == [p EXCEPT !.list = IF p.editing THEN p.picked ELSE p.winners]

\* GET: the results view of a released ranking, or the editor.
Loaded ==
    LET seed == Seed(award, visible)
    IN  Draw([photos |-> visible, winners |-> award, released |-> released, picked |-> seed,
              baseline |-> seed, editing |-> ~released, list |-> <<>>, drag |-> NoDrag])

isDirty(p) == p.picked # p.baseline

\* A drag survives a redraw without its row: the row is outside the list.
render(p) ==
    /\ page' = Draw([p EXCEPT !.drag.at = 0])
    /\ fumbles' = IF p.drag = NoDrag THEN fumbles ELSE fumbles + 1
    /\ p.drag # NoDrag => Room
    /\ UNCHANGED <<visible, award, released, posts, changes, stale>>

togglePick(id) ==
    /\ page.editing /\ id \in page.photos
    /\ IF Contains(page.picked, id)
       THEN render([page EXCEPT !.picked = Without(page.picked, indexOf(page.picked, id))])
       ELSE IF Len(page.picked) < MAX THEN render([page EXCEPT !.picked = Append(page.picked, id)])
       ELSE render(page)

Edit == ~page.editing /\ render([page EXCEPT !.editing = TRUE])

\* Mutant of Cancel: the picks stay as edited.
CancelKeeping == page.editing /\ page.released /\ render([page EXCEPT !.editing = FALSE])

Cancel ==
    /\ page.editing /\ page.released
    /\ render([page EXCEPT !.editing = FALSE, !.picked = page.baseline])

Drawn(p) ==
    /\ page' = p
    /\ UNCHANGED <<visible, award, released, posts, changes, fumbles, stale>>

\* pointerdown on a handle.  One finger drags.
Grab(i) ==
    /\ page.editing /\ i \in DOMAIN page.list
    /\ page.drag = NoDrag
    /\ Drawn([page EXCEPT !.drag = [id |-> page.list[i], at |-> i]])

\* pointermove on any handle: the dragged row goes to a place in the list, back
\* into it if it had fallen out.
Move(place) ==
    LET others == IF page.drag.at = 0 THEN page.list ELSE Without(page.list, page.drag.at)
    IN  /\ page.editing /\ page.drag # NoDrag /\ page.list # <<>>
        /\ place \in 1..Len(others) + 1 /\ place # page.drag.at
        /\ Drawn([page EXCEPT !.list = InsertAt(others, place, page.drag.id), !.drag.at = place])

\* Mutant of endDrag: the picks do not follow the list.
endDragForgotten ==
    /\ page.editing /\ page.drag # NoDrag /\ page.list # <<>>
    /\ Drawn([page EXCEPT !.drag = NoDrag])

\* pointerup or pointercancel: the picks are read off the list.
endDrag ==
    /\ page.editing /\ page.drag # NoDrag /\ page.list # <<>>
    /\ Drawn([page EXCEPT !.drag = NoDrag, !.picked = page.list])

\* The press of Release, there only while the ranking differs from the released
\* one.  The page stays until the answer comes.
Release ==
    /\ page.editing /\ isDirty(page)
    /\ Room
    /\ posts' = Append(posts, [list |-> page.picked, at |-> "sent", apart |-> FALSE,
                               asShown |-> page.picked = page.list \/ page.drag # NoDrag])
    /\ UNCHANGED <<visible, award, released, page, changes, fumbles, stale>>

-----------------------------------------------------------------------------
(* The server.                                                             *)

\* Mutant of releaseRanking: a photo that is gone is left out of the ranking.
releaseWhatIsLeft(list) ==
    IF Len(list) > MAX \/ ~Distinct(list) THEN UNCHANGED <<award, released>>
    ELSE award' = Kept(list, visible) /\ released' = TRUE

\* All of a release or nothing: too many, one twice or one taken down refuse it.
Accepts(list) == Len(list) <= MAX /\ Distinct(list) /\ ToSet(list) \subseteq visible

releaseRanking(list) ==
    IF ~Accepts(list) THEN UNCHANGED <<award, released>>
    ELSE award' = list /\ released' = TRUE

\* The last post is the one whose answer the page waits for.
Serve(i) ==
    /\ posts[i].at = "sent"
    /\ releaseRanking(posts[i].list)
    /\ posts' = [posts EXCEPT ![i].at = IF award' = posts[i].list /\ released' THEN "released"
                                       ELSE IF award' = award THEN "refused" ELSE "partly",
                              ![i].list = <<>>, ![i].apart = stale]
    /\ IF i < Len(posts) THEN stale' = TRUE /\ UNCHANGED page
       ELSE /\ page' = Draw([photos |-> visible, winners |-> award', released |-> released',
                             picked |-> Seed(award', visible), baseline |-> Seed(award', visible),
                             editing |-> ~released', list |-> <<>>, drag |-> NoDrag])
            /\ stale' = (\E j \in DOMAIN posts' : posts'[j].at = "sent")
    /\ UNCHANGED <<visible, changes, fumbles>>

-----------------------------------------------------------------------------
(* Elsewhere.                                                              *)

Elsewhere ==
    /\ Room /\ changes' = changes + 1 /\ stale' = TRUE
    /\ UNCHANGED <<page, posts, fumbles>>

\* An award outlives the takedown of its photo.
TakeDown(p) == Elsewhere /\ p \in visible /\ visible' = visible \ {p} /\ UNCHANGED <<award, released>>
Restore(p) == Elsewhere /\ p \notin visible /\ visible' = visible \cup {p} /\ UNCHANGED <<award, released>>
OtherRelease(p) == Elsewhere /\ releaseRanking(<<p>>) /\ UNCHANGED visible

Reload ==
    /\ stale /\ \A i \in DOMAIN posts : posts[i].at # "sent"
    /\ page' = Loaded /\ stale' = FALSE
    /\ UNCHANGED <<visible, award, released, posts, changes, fumbles>>

RankInit ==
    /\ visible = Photos /\ posts = <<>> /\ changes = 0 /\ fumbles = 0 /\ stale = FALSE
    /\ \/ award = <<>> /\ released = FALSE
       \/ award \in {list \in [1..MAX -> Photos] : Distinct(list)} /\ released = TRUE
    /\ page = Loaded

RankNext ==
    \/ Edit \/ Cancel \/ endDrag \/ Release \/ Reload
    \/ \E p \in Photos : togglePick(p) \/ TakeDown(p) \/ Restore(p) \/ OtherRelease(p)
    \/ \E i \in 1..MAX + 2 : Grab(i) \/ Move(i)
    \/ \E i \in DOMAIN posts : Serve(i)

RankSpec == RankInit /\ [][RankNext]_rankVars

-----------------------------------------------------------------------------
(* Reads of the award elsewhere.                                           *)

\* The gallery's medals, by photo; the rank on the owner's task page.
victoryRankBySubmission == {<<award[r], r>> : r \in {r \in DOMAIN award : award[r] \in visible}}
guestBadgeRank(p) == {r \in DOMAIN award : award[r] = p}

-----------------------------------------------------------------------------
(* What is released is the whole of what was on the host's screen at the   *)
(* press, or nothing is, but for a press of another finger during a drag.  *)
ReleasedAsShown ==
    \A i \in DOMAIN posts :
        posts[i].at # "partly" /\ (posts[i].at = "released" => posts[i].asShown)

(* The release is the whole of a ranking or none of it, of at most MAX     *)
(* photos, each once: the medals of the gallery are one for each rank.     *)
AwardIsARanking ==
    /\ Len(award) <= MAX /\ Distinct(award)
    /\ \A m \in victoryRankBySubmission : guestBadgeRank(m[1]) = {m[2]}

(* The host is never trapped with a ranking that cannot be released: it is *)
(* refused only when something happened since the page was loaded, or a    *)
(* tap rebuilt the list under a drag.                                      *)
RefusalsAreExplained ==
    \A i \in DOMAIN posts : posts[i].at = "refused" => posts[i].apart \/ fumbles > 0

(* The editor's rows are its picks whenever nothing is dragged; the results*)
(* view shows all the winners, those without a photo too, and going back   *)
(* to it forgets the edits.                                                *)
EditorIsHonest ==
    page.drag = NoDrag =>
        IF page.editing THEN page.list = page.picked /\ (fumbles = 0 => Distinct(page.picked) /\ Len(page.picked) <= MAX)
        ELSE page.picked = page.baseline /\ page.list = page.winners /\ (~stale => page.list = award)

RankingIsTheHosts == ReleasedAsShown /\ AwardIsARanking /\ RefusalsAreExplained /\ EditorIsHonest
=============================================================================
