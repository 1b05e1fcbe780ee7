------------------------------- MODULE MCHost -------------------------------
(***************************************************************************)
(* What the hosts do with photos and badges, in three parts that share no  *)
(* state: which of them runs is chosen at the start, and the others rest.  *)
(* Badges: two guests, a milestone the host may move between one and two   *)
(* tasks, the requests that change badges counted.  RankPage: three photos *)
(* for two ranks.  Wall: the three photos of two guests, and a search that *)
(* finds some of them.                                                     *)
(***************************************************************************)
EXTENDS Badges

CONSTANTS
    g1, g2,             \* guests
    Entries,            \* photos of the task that is ranked
    MaxEvents,
    Shots, Takers, Subjects,    \* the wall's photos, their guests and tasks
    Queries, MaxVisits, MaxOthers

\* An id is never zero, and the wall's photos are numbered.
ASSUME HostAssumption == 0 \notin Entries /\ Shots \in Nat

VARIABLES
    part,                                                           \* the part that runs
    visible, award, marker, editor, releases, changes, fumbles, stale,      \* RankPage
    rows, wall, panel, scope, box, asked, acted, visits, others             \* Wall

Memory == "memory"

RankPage ==
    INSTANCE RankPage WITH Photos <- Entries, MAX <- MaxRanked,
        released <- marker, page <- editor, posts <- releases
Wall ==
    INSTANCE Wall WITH Photos <- 1 .. Shots, GuestOf <- Takers, TaskOf <- Subjects,
        NoQuery <- "none", page <- wall

-----------------------------------------------------------------------------
MCGuests == {g1, g2}
MCThresholds == {1, 2}
MCReaders == {g1}
MCTakers == <<1, 2, 1>>
MCSubjects == <<"t", Memory, Memory>>

\* Without a search every heading is found; the search finds one guest's and
\* the memories'.
MCQueries ==
    [none |-> {<<"g", 1>>, <<"g", 2>>, <<"t", "t">>, <<"t", Memory>>},
     cake |-> {<<"g", 1>>, <<"t", Memory>>}]

-----------------------------------------------------------------------------
rankVars == <<visible, award, marker, editor, releases, changes, fumbles, stale>>
wallVars == <<rows, wall, panel, scope, box, asked, acted, visits, others>>

None == 0
NoRank ==
    /\ visible = None /\ award = None /\ marker = None /\ editor = None /\ releases = None
    /\ changes = None /\ fumbles = None /\ stale = None
NoWall ==
    /\ rows = None /\ wall = None /\ panel = None /\ scope = None /\ box = None /\ asked = None
    /\ acted = None /\ visits = None /\ others = None

HostInit ==
    /\ Init
    /\ part \in {"badges", "rank", "wall"}
    /\ IF part = "rank" THEN RankPage!RankInit ELSE NoRank
    /\ IF part = "wall" THEN Wall!WallInit ELSE NoWall

HostNext ==
    /\ UNCHANGED part
    /\ \/ part = "badges" /\ UNCHANGED <<rankVars, wallVars>> /\ Next
       \/ part = "rank" /\ UNCHANGED <<vars, wallVars>> /\ RankPage!RankNext
       \/ part = "wall" /\ UNCHANGED <<vars, rankVars>> /\ Wall!WallNext

HostSpec == HostInit /\ [][HostNext]_<<part, vars, rankVars, wallVars>>

-----------------------------------------------------------------------------
(* The properties of each part, stated in its module; BadgesKeepTheirWord  *)
(* and ReleaseKeepsCelebration are Badges' own.                            *)

\* A released ranking is the list the host had before them, a refused one is
\* explained, and the list stays one with the picks (public/js/admin-badge-rank.js).
RankingIsTheHosts == part = "rank" => RankPage!RankingIsTheHosts

\* The host's photo wall shows, searches, narrows and moderates the photo the
\* host sees (routes/admin/moderation.js, views/admin-photos.ejs, lightbox.js).
WallIsTrue == part = "wall" => Wall!WallIsTrue
=============================================================================
