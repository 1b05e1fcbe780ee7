------------------------------ MODULE Screens ------------------------------
(***************************************************************************)
(* What the pages make of the standings.  A tile of the gallery, the feed  *)
(* or a profile wears a crown with its photo's place, golden for a lone    *)
(* champion, and a heart for each of the couple who likes it               *)
(* (routes/community.js); the host's statistics count the same rows by     *)
(* other rules, some of which a takedown changes and some not              *)
(* (services/event-stats.js).  Nothing here is stored: each is read off    *)
(* the rows of Scoring on every request.                                   *)
(***************************************************************************)
EXTENDS Scoring

NoPhoto == 0

\* Mutant of crownGold: the first of several champions is golden too.
crownGoldOfMany(ph, lk) ==
    LET first == {c.photo : c \in {c \in crowdFavorites(ph, lk) : c.rank = 1}}
    IN  IF first = {} THEN NoPhoto ELSE Min(first)

\* crownRankState: the photo that alone holds the first place.
crownGold(ph, lk) ==
    LET first == {c.photo : c \in {c \in crowdFavorites(ph, lk) : c.rank = 1}}
    IN  IF Cardinality(first) = 1 THEN CHOOSE p \in first : TRUE ELSE NoPhoto

\* coupleLikersFor a photo: those of the couple who like it.
coupleLikersFor(p) == likes[p] \cap couple

-----------------------------------------------------------------------------
(* The host's statistics: services/event-stats.js.                         *)

Uploaded == {p \in Photos : photo[p] \in {"shown", "hidden"}}
VisiblePhotos == {p \in Photos : photo[p] = "shown"}

totalVisiblePhotoCount == Cardinality(VisiblePhotos)

\* Mutant of likesTotal: the likes of hidden photos are counted.
likesTotalAll == Cardinality({like \in Guests \X Photos : like[1] \in likes[like[2]]})

\* engagementTotals, its likes: those of visible photos.
likesTotal == Cardinality({like \in Guests \X VisiblePhotos : like[1] \in likes[like[2]]})

\* participationBands: who posted anything, hidden or not; who only liked; and
\* the others, as what is left of all guests.
participationBands ==
    LET posters == {Owner[p] : p \in Uploaded}
        engaged == UNION {likes[p] : p \in Uploaded}
    IN  [posting |-> Cardinality(posters),
         engagingOnly |-> Cardinality(engaged \ posters),
         idle |-> Cardinality(guests) - Cardinality(posters) - Cardinality(engaged \ posters)]

\* perTaskCompletion: the tasks somebody has a visible photo for.
perTaskCompletion ==
    {[task |-> t, count |-> Cardinality({p \in VisiblePhotos : Task[p] = t})] :
        t \in {Task[p] : p \in VisiblePhotos} \ {Memory}}

-----------------------------------------------------------------------------
(* Properties.                                                             *)

\* A golden crown is worn by a photo that is ahead of every photo of every
\* other guest, and, when some photo is, by the oldest of its guest's best.
GoldIsTheChampion ==
    LET likesOf(p) == LikeCount(likes, p)
        ahead(p) == /\ likesOf(p) > 0
                    /\ \A q \in VisiblePhotos \ {p} :
                         \/ likesOf(q) < likesOf(p)
                         \/ Owner[q] = Owner[p] /\ likesOf(q) = likesOf(p) /\ p < q
    IN  crownGold(photo, likes) = IF \E p \in VisiblePhotos : ahead(p)
                                  THEN CHOOSE p \in VisiblePhotos : ahead(p) ELSE NoPhoto

\* The hearts on the tiles of a profile are the hearts its points count; and
\* the statistics agree with the scores: a task is completed as often as the
\* guests are credited for it, a like is counted where a heart can be seen,
\* and the bands are of guests there are, whoever was deleted.
StatisticsAreTheScores ==
    LET bands == participationBands
    IN  /\ \A g \in guests :
             couplePoints(g) = Cardinality({ph \in Shown(photo, g) \X couple : ph[2] \in coupleLikersFor(ph[1])})
        /\ Total(perTaskCompletion, [c \in perTaskCompletion |-> c.count])
             = Total(guests, [g \in guests |-> completed(photo, {}, g)])
        /\ likesTotal = Total(VisiblePhotos, [p \in Photos |-> LikeCount(likes, p)])
        /\ totalVisiblePhotoCount = Total(guests, [g \in guests |-> Cardinality(Shown(photo, g))])
        /\ bands.idle = Cardinality({g \in guests : /\ \A p \in Uploaded : Owner[p] # g
                                                    /\ \A p \in Photos : g \notin likes[p]})

=============================================================================
