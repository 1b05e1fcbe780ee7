------------------------------ MODULE Scoring ------------------------------
(***************************************************************************)
(* Points, crowd favorites and the crown.  Everything a guest's score is   *)
(* made of is derived from rows on every read: the profile page sums it    *)
(* for one guest (getPoints), the leaderboard for all of them in a query   *)
(* of its own, and both must agree.  The crowd's favorites are derived     *)
(* too, but two things are stored and have to be kept up with them: the    *)
(* TOPLIKED badge row (the crown) and the recap events that tell a guest   *)
(* of entering or leaving the placing set.                                 *)
(*                                                                         *)
(* Every handler here is synchronous, so one action is one request, except *)
(* that the like route writes its row, moves the crown and records the     *)
(* events as three statements outside a transaction: LikeInterrupted.      *)
(***************************************************************************)
EXTENDS Integers, FiniteSets, FiniteSetsExt, Sequences, Functions

CONSTANTS
    Guests,         \* guest ids, numbers as in the guests table
    Photos,         \* submission ids, in the order the rows are inserted
    Tasks,          \* task ids
    Memory,         \* the task of a photo that answers no task
    Owner,          \* photo -> guest
    Task,           \* photo -> task or Memory
    Day,            \* photo -> the event day it was uploaded on
    Worth,          \* task -> points it pays
    Bonus,          \* photo -> the bonus banked when it was uploaded
    PlacePoints,    \* points of the crowd's first, second, ... place
    MemoryCap,      \* memories of one guest that pay on one day
    StarterPoint,   \* points for a profile photo
    AwardPoints,    \* points of a host-ranked task badge
    BadgePoints,    \* points of a milestone badge
    Threshold,      \* completed tasks the milestone asks for
    MaxBonus,       \* bound on the host's bonus points
    Stars           \* bound: the guests whose own row changes

ASSUME ScoringAssumption ==
    /\ Guests \subseteq Nat /\ Photos \subseteq Nat
    /\ IsFiniteSet(Guests) /\ IsFiniteSet(Photos)
    /\ Memory \notin Tasks
    /\ Owner \in [Photos -> Guests] /\ Task \in [Photos -> Tasks \cup {Memory}]
    /\ Worth \in [Tasks -> Nat] /\ Bonus \in [Photos -> Nat]
    /\ Day \in [Photos -> Nat]
    /\ PlacePoints \in Seq(Nat) /\ PlacePoints # << >>
    /\ Stars \subseteq Guests
    /\ {StarterPoint, AwardPoints, BadgePoints, MemoryCap, MaxBonus} \subseteq Nat
    /\ Threshold \in Nat \ {0}

VARIABLES
    guests,     \* guests with a row
    avatar,     \* of these, the ones with a profile photo
    couple,     \* of these, the ones flagged is_couple
    extra,      \* guest -> bonus_points, the host's own adjustment
    photo,      \* photo -> "none" (not uploaded yet), "shown", "hidden", "gone"
    likes,      \* the likes table: photo -> the guests who like it
    award,      \* photos a guest_badges row with a rank is attached to
    milestone,  \* guests holding the milestone badge
    crown,      \* guests holding the TOPLIKED badge
    told,       \* history: guests whose last crowd event is crowd_favorite
    unheard,    \* history: guests whose place moved with no event recorded
    behind      \* history: a like was written and the crown not recomputed

vars == <<guests, avatar, couple, extra, photo, likes, award, milestone,
          crown, told, unheard, behind>>

-----------------------------------------------------------------------------
(* Ranking: services/rank.js and services/scoring/crowd-favorites.js.      *)

\* The two rank schemes over a list that is already in descending order.
standardRank(values) ==
    LET rank[i \in 1 .. Len(values)] ==
          IF i > 1 /\ values[i] = values[i - 1] THEN rank[i - 1] ELSE i
    IN  rank

denseRank(values) ==
    LET rank[i \in 1 .. Len(values)] ==
          IF i = 1 THEN 1
          ELSE IF values[i] = values[i - 1] THEN rank[i - 1] ELSE rank[i - 1] + 1
    IN  rank

Shown(ph, g) == {p \in Photos : ph[p] = "shown" /\ Owner[p] = g}
LikeCount(lk, p) == Cardinality(lk[p])

\* A finite set as a list, given for each member those in front of it.
Sorted(S, inFront) ==
    [n \in 1 .. Cardinality(S) |-> CHOOSE x \in S : Cardinality(inFront[x]) = n - 1]

\* Liked visible photos, most liked first, the older one first among equals.
Liked(ph, lk) == {p \in Photos : ph[p] = "shown" /\ lk[p] # {}}

Ahead(lk, p, q) ==
    \/ LikeCount(lk, p) > LikeCount(lk, q)
    \/ LikeCount(lk, p) = LikeCount(lk, q) /\ p < q

VisibleLikeCounts(ph, lk) ==
    LET rows == Liked(ph, lk)
    IN  Sorted(rows, [q \in rows |-> {p \in rows : Ahead(lk, p, q)}])

\* Mutant of BestPerGuest: a guest's other photos compete too.
EveryPhoto(rows) == rows

\* Of each guest, the first row only.
BestPerGuest(rows) ==
    LET first == {n \in DOMAIN rows : \A m \in 1 .. n - 1 : Owner[rows[m]] # Owner[rows[n]]}
        at    == Sorted(first, [n \in first |-> {m \in first : m < n}])
    IN  [i \in DOMAIN at |-> rows[at[i]]]

\* The placing set: a guest's best photo stands for the guest, and the ranks
\* that have points place.
crowdFavorites(ph, lk) ==
    LET best == BestPerGuest(VisibleLikeCounts(ph, lk))
        rank == standardRank([n \in DOMAIN best |-> LikeCount(lk, best[n])])
    IN  {[guest |-> Owner[best[n]], photo |-> best[n], rank |-> rank[n]] :
            n \in {n \in DOMAIN best : rank[n] <= Len(PlacePoints)}}

Placers(ph, lk) == {c.guest : c \in crowdFavorites(ph, lk)}

-----------------------------------------------------------------------------
(* Points: services/scoring/points.js, couple-hearts.js, leaderboard.js.   *)

Total(S, f) == SumFunctionOnSet(f, S)

crowdPoints(g) ==
    Total({c.rank : c \in {c \in crowdFavorites(photo, likes) : c.guest = g}}, PlacePoints)

couplePoints(g) ==
    Total(Shown(photo, g), [p \in Photos |-> Cardinality(likes[p] \cap couple)])

memoryPoints(g) ==
    LET mine == {p \in Shown(photo, g) : Task[p] = Memory}
    IN  Total({Day[p] : p \in mine},
              [d \in Nat |-> Min({MemoryCap, Cardinality({p \in mine : Day[p] = d})})])

awardPoints(g) ==
    (IF g \in milestone THEN BadgePoints ELSE 0)
        + AwardPoints * Cardinality(award \cap Shown(photo, g))

\* The profile page: one sum per term, over the guest's own visible photos.
getPoints(g) ==
    LET tasks == {p \in Shown(photo, g) : Task[p] # Memory}
    IN  Total(tasks, [p \in Photos |-> Worth[Task[p]]])
          + Total(Shown(photo, g), Bonus)
          + extra[g]
          + (IF g \in avatar THEN StarterPoint ELSE 0)
          + awardPoints(g) + memoryPoints(g) + crowdPoints(g) + couplePoints(g)

\* Mutant of boardPoints: the badges joined beside the photos are paid even
\* while their photo is hidden.
boardPointsUngated(g, favorites) ==
    getPoints(g) + AwardPoints * Cardinality({p \in award : Owner[p] = g /\ photo[p] = "hidden"})

\* The leaderboard: one joined row per guest and visible photo, summed by
\* group, with the guest's badges summed beside the join and three terms
\* added from a map each, the crowd's favorites computed once for all.
boardPoints(g, favorites) ==
    LET joined == {p \in Photos : Owner[p] = g /\ photo[p] = "shown"}
        perRow == Total(joined, [p \in Photos |->
                                    (IF Task[p] = Memory THEN 0 ELSE Worth[Task[p]]) + Bonus[p]])
        badges == (IF g \in milestone THEN BadgePoints ELSE 0)
                    + AwardPoints * Cardinality({p \in award : Owner[p] = g /\ photo[p] # "hidden"})
        group(day) == {p \in joined : Task[p] = Memory /\ Day[p] = day}
        memory == Total({Day[p] : p \in Photos},
                        [d \in Nat |-> Min({MemoryCap, Cardinality(group(d))})])
        place  == {c.rank : c \in {c \in favorites : c.guest = g}}
        crowd  == IF place = {} THEN 0 ELSE PlacePoints[CHOOSE r \in place : TRUE]
        hearts == Cardinality({row \in joined \X couple : row[2] \in likes[row[1]]})
    IN  perRow + extra[g] + (IF g \in avatar THEN StarterPoint ELSE 0)
          + badges + memory + crowd + hearts

\* Rows best first: points, then whoever got there earlier (never is last),
\* then the id, which stands for the name as well.
SortBoard(rows) ==
    LET ahead(a, b) == \/ a.points > b.points
                       \/ /\ a.points = b.points
                          /\ a.last < b.last \/ (a.last = b.last /\ a.id < b.id)
    IN  Sorted(rows, [b \in rows |-> {a \in rows : ahead(a, b)}])

leaderboard ==
    LET favorites == crowdFavorites(photo, likes)
        last(g) == IF Shown(photo, g) = {} THEN Max({0} \cup Photos) + 1 ELSE Max(Shown(photo, g))
    IN  SortBoard({[id |-> g, points |-> boardPoints(g, favorites), last |-> last(g)] : g \in guests})

\* The podium: everyone of the three best distinct scores.
Podium(board) ==
    LET rank == denseRank([i \in DOMAIN board |-> board[i].points])
    IN  {<<r, {board[i].id : i \in {i \in DOMAIN board : rank[i] = r}}>> : r \in 1 .. 3}

-----------------------------------------------------------------------------
(* Recomputing what is stored.                                             *)

completed(ph, av, g) ==
    Cardinality({p \in Shown(ph, g) : Task[p] # Memory}) + (IF g \in av THEN 1 ELSE 0)

\* recomputeThresholdBadges for each guest of who.
Recounted(ph, av, who) ==
    {g \in who : completed(ph, av, g) >= Threshold} \cup (milestone \ who)

\* Mutant: grants the crown and never takes it away.
recomputeTransferableGrants(after) ==
    /\ crown' = crown \cup after
    /\ behind' = FALSE

\* recomputeTransferableBadges: the crown follows the placing set.
recomputeTransferableBadges(after) ==
    /\ crown' = after
    /\ behind' = FALSE

Moved(before, after) == (after \ before) \cup (before \ after)

\* Mutant: whoever left is not told.
recordCrowdFavoriteGains(before, after) ==
    /\ told' = told \cup (after \ before)
    /\ unheard' = unheard \ Moved(before, after)

\* recordCrowdFavoriteChanges: whoever entered or left since `before` is told.
recordCrowdFavoriteChanges(before, after) ==
    /\ told' = (told \cup (after \ before)) \ (before \ after)
    /\ unheard' = unheard \ Moved(before, after)

\* No event is recorded: whoever moved has not heard of it.
NoEvent(before, after, left) ==
    /\ told' = told \ left
    /\ unheard' = Moved(unheard, Moved(before, after)) \ left

-----------------------------------------------------------------------------
Init ==
    /\ guests = Guests
    /\ avatar = {}
    /\ couple = {}
    /\ extra = [g \in Guests |-> 0]
    /\ photo = [p \in Photos |-> "none"]
    /\ likes = [p \in Photos |-> {}]
    /\ award = {}
    /\ milestone = {}
    /\ crown = {}
    /\ told = {}
    /\ unheard = {}
    /\ behind = FALSE

\* A photo is stored and its owner recounted.
Upload(p) ==
    /\ photo[p] = "none" /\ Owner[p] \in guests
    /\ \A q \in Photos : q < p => photo[q] # "none"
    /\ photo' = [photo EXCEPT ![p] = "shown"]
    /\ milestone' = Recounted(photo', avatar, {Owner[p]})
    /\ recomputeTransferableBadges(Placers(photo', likes))
    /\ UNCHANGED <<guests, avatar, couple, extra, likes, award, told, unheard>>

Toggled(g, p) ==
    [likes EXCEPT ![p] = IF g \in @ THEN @ \ {g} ELSE @ \cup {g}]

\* POST /p/:id/like.  A guest cannot like a photo of their own or a hidden one.
Like(g, p) ==
    /\ g \in guests /\ photo[p] = "shown" /\ Owner[p] # g
    /\ likes' = Toggled(g, p)
    /\ LET after == Placers(photo, Toggled(g, p))
       IN  /\ recomputeTransferableBadges(after)
           /\ recordCrowdFavoriteChanges(Placers(photo, likes), after)
    /\ UNCHANGED <<guests, avatar, couple, extra, photo, award, milestone>>

\* The process dies, or the recompute throws, after the like's own statement.
LikeInterrupted(g, p) ==
    /\ g \in guests /\ photo[p] = "shown" /\ Owner[p] # g
    /\ likes' = Toggled(g, p)
    /\ behind' = TRUE
    /\ NoEvent(Placers(photo, likes), Placers(photo, likes'), {})
    /\ UNCHANGED <<guests, avatar, couple, extra, photo, award, milestone, crown>>

\* hideSubmission and restoreSubmission, by the host or the owner.
SetTakenDown(p, from, to) ==
    /\ photo[p] = from
    /\ photo' = [photo EXCEPT ![p] = to]
    /\ milestone' = Recounted(photo', avatar, {Owner[p]})
    /\ LET after == Placers([photo EXCEPT ![p] = to], likes)
       IN  /\ recomputeTransferableBadges(after)
           /\ recordCrowdFavoriteChanges(Placers(photo, likes), after)
    /\ UNCHANGED <<guests, avatar, couple, extra, likes, award>>

\* The host deletes a guest: photos, likes given and received, badges.
DeleteGuest(g) ==
    LET mine == {p \in Photos : Owner[p] = g}
    IN  /\ g \in guests
        /\ guests' = guests \ {g}
        /\ avatar' = avatar \ {g}
        /\ couple' = couple \ {g}
        /\ extra' = [extra EXCEPT ![g] = 0]
        /\ photo' = [p \in Photos |-> IF p \in mine THEN "gone" ELSE photo[p]]
        /\ likes' = [p \in Photos |-> IF p \in mine THEN {} ELSE likes[p] \ {g}]
        /\ award' = award \ mine
        /\ milestone' = milestone \ {g}
        /\ recomputeTransferableBadges(Placers(photo', likes'))
        /\ NoEvent(Placers(photo, likes), Placers(photo', likes'), {g})

\* The host deletes a task with everything uploaded for it.
DeleteTask(t) ==
    LET its == {p \in Photos : Task[p] = t}
    IN  /\ \E p \in its : photo[p] # "gone"
        /\ photo' = [p \in Photos |-> IF p \in its THEN "gone" ELSE photo[p]]
        /\ likes' = [p \in Photos |-> IF p \in its THEN {} ELSE likes[p]]
        /\ award' = award \ its
        /\ milestone' = Recounted(photo', avatar, guests)
        /\ recomputeTransferableBadges(Placers(photo', likes'))
        /\ NoEvent(Placers(photo, likes), Placers(photo', likes'), {})
        /\ UNCHANGED <<guests, avatar, couple, extra>>

\* The host releases a task's ranking: the photos picked replace the old ones.
releaseRanking(t, picked) ==
    /\ picked # award \cap {p \in Photos : Task[p] = t}
    /\ \A p \in picked : photo[p] = "shown"
    /\ award' = {p \in award : Task[p] # t} \cup picked
    /\ UNCHANGED <<guests, avatar, couple, extra, photo, likes, milestone,
                   crown, told, unheard, behind>>

\* A profile photo is added or removed.
SetAvatar(g) ==
    /\ g \in guests
    /\ avatar' = IF g \in avatar THEN avatar \ {g} ELSE avatar \cup {g}
    /\ milestone' = Recounted(photo, avatar', {g})
    /\ UNCHANGED <<guests, couple, extra, photo, likes, award, crown, told, unheard, behind>>

\* The host marks or unmarks one of the couple.
SetCouple(g) ==
    /\ g \in guests
    /\ couple' = IF g \in couple THEN couple \ {g} ELSE couple \cup {g}
    /\ UNCHANGED <<guests, avatar, extra, photo, likes, award, milestone,
                   crown, told, unheard, behind>>

\* The host adds or takes away points; the column never goes below zero.
addBonusPoints(g, delta) ==
    /\ g \in guests
    /\ extra[g] + delta <= MaxBonus
    /\ extra' = [extra EXCEPT ![g] = Max({0, @ + delta})]
    /\ UNCHANGED <<guests, avatar, couple, photo, likes, award, milestone,
                   crown, told, unheard, behind>>

Next ==
    \/ \E p \in Photos : \/ Upload(p)
                         \/ SetTakenDown(p, "shown", "hidden")
                         \/ SetTakenDown(p, "hidden", "shown")
    \/ \E g \in Guests, p \in Photos : Like(g, p) \/ LikeInterrupted(g, p)
    \/ \E g \in Guests : DeleteGuest(g)
    \/ \E g \in Stars : \/ SetAvatar(g) \/ SetCouple(g)
                        \/ \E d \in {-2, 1} : addBonusPoints(g, d)
    \/ \E t \in Tasks : \/ DeleteTask(t)
                        \/ \E s \in SUBSET {p \in Photos : Task[p] = t} : releaseRanking(t, s)

Spec == Init /\ [][Next]_vars

-----------------------------------------------------------------------------
(* Properties.                                                             *)

\* The type invariant.  A like is a row of a photo and a guest that exist.
TypeOK ==
    /\ guests \subseteq Guests
    /\ avatar \subseteq guests /\ couple \subseteq guests
    /\ extra \in [Guests -> 0 .. MaxBonus]
    /\ photo \in [Photos -> {"none", "shown", "hidden", "gone"}]
    /\ likes \in [Photos -> SUBSET guests]
    /\ award \subseteq {p \in Photos : photo[p] \in {"shown", "hidden"}}
    /\ milestone \subseteq guests /\ crown \subseteq Guests
    /\ told \subseteq Guests /\ unheard \subseteq Guests
    /\ behind \in BOOLEAN

\* Rows refer to rows that exist: a photo that is not stored has no likes, and
\* a stored one has an owner (the ON DELETE CASCADE of both tables).
RowsRefer ==
    \A p \in Photos : IF photo[p] \in {"none", "gone"} THEN likes[p] = {} ELSE Owner[p] \in guests

\* The placing set computed by sorting, keeping one photo a guest and ranking
\* is the one the game describes: a guest stands with the most liked visible
\* photo (the older on a tie), ties share a place, and a place is one more
\* than the number of guests who stand higher (crowd-favorites.js, rank.js).
PlacesMatchReference ==
    LET best      == [g \in Guests |-> Max({0} \cup {LikeCount(likes, p) : p \in Shown(photo, g)})]
        place     == [g \in Guests |-> 1 + Cardinality({h \in Guests : best[h] > best[g]})]
        oldest(g) == Min({p \in Shown(photo, g) : LikeCount(likes, p) = best[g]})
    IN  crowdFavorites(photo, likes) =
            {[guest |-> g, photo |-> oldest(g), rank |-> place[g]] :
                g \in {g \in Guests : best[g] > 0 /\ place[g] <= Len(PlacePoints)}}

\* The crown badge is held by exactly the guests whose photo places, whatever
\* is liked, hidden, restored or deleted; only a like cut off before its
\* recompute leaves it behind, until the next recompute of anybody.
CrownFollowsLikes == ~behind => crown = Placers(photo, likes)

\* The last crowd event a guest was sent says where the guest stands, except
\* for those whose place moved when a guest or a task was deleted or a like
\* was cut off: these are not told, and stay wrong until they next move.
TrailMatchesStandings ==
    \A g \in guests : (g \in told) = ((g \in Placers(photo, likes)) # (g \in unheard))

\* What is stored follows what is derived: the crown, and the events that tell
\* a guest of a place won or lost (community.js, task-badges.js).
StandingsAreKept == CrownFollowsLikes /\ TrailMatchesStandings

\* The leaderboard's one query and the profile's sums give every guest the
\* same points, and the podium shows exactly the three best distinct scores.
BoardMatchesProfile ==
    LET scores   == {<<g, getPoints(g)>> : g \in guests}
        ahead(s) == {t[2] : t \in {t \in scores : t[2] > s[2]}}
        medal(r) == {s[1] : s \in {s \in scores : Cardinality(ahead(s)) = r - 1}}
        board    == leaderboard
    IN  /\ scores = {<<board[i].id, board[i].points>> : i \in DOMAIN board}
        /\ Podium(board) = {<<r, medal(r)>> : r \in 1 .. 3}

=============================================================================
