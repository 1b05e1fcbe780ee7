------------------------------- MODULE Badges -------------------------------
(***************************************************************************)
(* Badge rows, the announcements that go with them and the full-screen     *)
(* celebration ("badge moment") each of them is owed once.                 *)
(*                                                                         *)
(* A guest_badges row says who holds what; celebrated_at says whether the  *)
(* celebration has been spent; a badge_granted event in the recap is what  *)
(* makes a row owed a celebration at all.  Four writers keep these three   *)
(* in step: the recount of milestone and clean-sweep badges, the recount   *)
(* of the crown (which flaps with other guests' likes), the host's awards, *)
(* and the release of a task's ranking.  Two readers spend celebrations:   *)
(* the page being rendered, which stamps the first owed badge before the   *)
(* page has arrived, and the page's own script, which posts a stamp for    *)
(* each further badge it shows.                                            *)
(*                                                                         *)
(* Scoring models where completed counts and placing guests come from;     *)
(* here they are inputs.                                                   *)
(***************************************************************************)
EXTENDS Integers, Sequences, FiniteSets

CONSTANTS
    Guests,         \* guest ids
    Thresholds,     \* values the host may set the milestone to
    SeededThreshold, \* the one the catalog is seeded with
    MaxDone,        \* bound on a guest's completed tasks
    MaxRanked,      \* MAX_RANKED_WINNERS
    Readers,        \* bound: the guests whose browser is modelled
    MaxRequests     \* bound on the requests that change badges

ASSUME BadgesAssumption ==
    /\ Thresholds \subseteq Nat \ {0} /\ SeededThreshold \in Thresholds
    /\ Readers \subseteq Guests
    /\ MaxDone \in Nat /\ MaxRanked \in Nat /\ MaxRequests \in Nat

VARIABLES
    row,        \* guest -> badge -> "none", "owed" (celebrated_at NULL), "celebrated"
    rank,       \* guest -> rank of the task badge's row, 0 for NULL or no row
    granted,    \* guest -> badge -> stored badge_granted events
    threshold,  \* the milestone's threshold
    done,       \* guest -> completed tasks, starter task included
    covers,     \* guests with a visible photo for every live ordinary task
    placers,    \* guests among the crowd's favorites
    photo,      \* guest -> their photo for the ranked task: "none", "shown", "hidden"
    page,       \* guest -> the page in their browser: at, and the queue behind the badge shown
    posts,      \* guest -> badges whose POST /badge-moment/celebrated is under way
    spent,      \* history: guest -> badges stamped as celebrated, ever
    released,   \* history: the winners of the last release, best first
    requests    \* requests that changed a badge so far

inputs == <<threshold, done, covers, placers, photo>>
vars == <<row, rank, granted, threshold, done, covers, placers, photo,
          page, posts, spent, released, requests>>

Badges == {"milestone", "sweep", "crown", "trophy", "special"}
Statuses == {"none", "owed", "celebrated"}
NoPage == [at |-> "closed", queue |-> {}]
Many == 2      \* bound: two stored events stand for two or more

-----------------------------------------------------------------------------
(* What a recount does to one guest's rows.  A step's effect on a guest is *)
(* a pair: the rows after it and the events after it.                      *)

recordEvent(events, b) == [events EXCEPT ![b] = IF @ < Many THEN @ + 1 ELSE @]

\* recomputeThresholdBadges and the METRIC_BADGES loop: a new row is owed and
\* announced, a row no longer deserved goes, its announcement stays.
Metric(h, b, qualifies) ==
    [rows   |-> [h.rows EXCEPT ![b] = IF ~qualifies THEN "none"
                                      ELSE IF @ = "none" THEN "owed" ELSE @],
     events |-> IF qualifies /\ h.rows[b] = "none" THEN recordEvent(h.events, b)
                                                   ELSE h.events]

\* Mutant of revokeBadgeRetractingUnannounced: the announcement stays.
revokeBadgeOnly(h) == [h EXCEPT !.rows["crown"] = "none"]

\* A crown taken away before its celebration takes its announcement along.
revokeBadgeRetractingUnannounced(h) ==
    [rows   |-> [h.rows EXCEPT !["crown"] = "none"],
     events |-> IF h.rows["crown"] = "owed" THEN [h.events EXCEPT !["crown"] = 0]
                                            ELSE h.events]

\* Mutant of grantBadgeAnnouncingOnce: every grant is announced.
grantBadgeAnnouncing(h) ==
    [rows   |-> [h.rows EXCEPT !["crown"] = "owed"],
     events |-> recordEvent(h.events, "crown")]

\* A crown that comes back to a guest who was told of it comes back silently.
grantBadgeAnnouncingOnce(h) ==
    IF h.events["crown"] > 0
    THEN [h EXCEPT !.rows["crown"] = "celebrated"]
    ELSE [rows   |-> [h.rows EXCEPT !["crown"] = "owed"],
          events |-> recordEvent(h.events, "crown")]

\* recomputeTransferableBadges, for one guest.
Transferable(h, places) ==
    IF places /\ h.rows["crown"] = "none" THEN grantBadgeAnnouncingOnce(h)
    ELSE IF ~places /\ h.rows["crown"] # "none"
         THEN revokeBadgeRetractingUnannounced(h)
         ELSE h

Holding(g) == [rows |-> row[g], events |-> granted[g]]
After(h) == row' = [g \in Guests |-> h[g].rows] /\ granted' = [g \in Guests |-> h[g].events]

Request == requests < MaxRequests /\ requests' = requests + 1

-----------------------------------------------------------------------------
(* The recounts.                                                           *)

Init ==
    /\ row = [g \in Guests |-> [b \in Badges |-> "none"]]
    /\ granted = [g \in Guests |-> [b \in Badges |-> 0]]
    /\ rank = [g \in Guests |-> 0]
    /\ threshold = SeededThreshold
    /\ done = [g \in Guests |-> 0] /\ covers = {} /\ placers = {}
    /\ photo = [g \in Guests |-> "none"]
    /\ page = [g \in Guests |-> NoPage] /\ posts = [g \in Guests |-> {}]
    /\ spent = [g \in Guests |-> {}] /\ released = <<>> /\ requests = 0

\* recomputeAfterSubmissionChange(g), with the photo row that changed: an
\* upload, a takedown, a restore or a delete.  The delete of a ranked photo
\* takes the badge row that names it along.
SubmissionChange(g) ==
    \E n \in 0 .. MaxDone, sweeps \in BOOLEAN, P \in SUBSET Guests,
       p \in {"none", "shown", "hidden"} :
        LET cascaded == p = "none" /\ rank[g] > 0
            base == [rows   |-> IF cascaded THEN [row[g] EXCEPT !["trophy"] = "none"] ELSE row[g],
                     events |-> granted[g]]
            own == Metric(Metric(base, "milestone", n >= threshold), "sweep", sweeps)
        IN  /\ Request
            /\ photo' = [photo EXCEPT ![g] = p]
            /\ done' = [done EXCEPT ![g] = n]
            /\ covers' = IF sweeps THEN covers \cup {g} ELSE covers \ {g}
            /\ placers' = P
            /\ rank' = IF cascaded THEN [rank EXCEPT ![g] = 0] ELSE rank
            /\ After([h \in Guests |-> Transferable(IF h = g THEN own ELSE Holding(h), h \in P)])
            /\ UNCHANGED <<threshold, page, posts, spent, released>>

\* recomputeTransferableBadges alone: a like, an unlike, a guest deleted.
LikesChange ==
    \E P \in SUBSET Guests :
        /\ Request /\ placers' = P
        /\ After([g \in Guests |-> Transferable(Holding(g), g \in P)])
        /\ UNCHANGED <<rank, threshold, done, covers, photo, page, posts, spent, released>>

\* recomputeAfterTaskChange: a task was added, edited or deleted; only a delete
\* changes how many tasks a guest has completed.
TaskChange ==
    \E C \in SUBSET Guests, P \in SUBSET Guests, N \in [Guests -> 0 .. MaxDone] :
        /\ \A g \in Guests : N[g] <= done[g]
        /\ Request /\ covers' = C /\ placers' = P /\ done' = N
        /\ After([g \in Guests |->
                Transferable(Metric(Metric(Holding(g), "milestone", N[g] >= threshold),
                                    "sweep", g \in C), g \in P)])
        /\ UNCHANGED <<rank, threshold, photo, page, posts, spent, released>>

setAutoBadgeThresholds ==
    \E n \in Thresholds :
        /\ Request /\ threshold' = n
        /\ After([g \in Guests |->
                Transferable(Metric(Holding(g), "milestone", done[g] >= n), g \in placers)])
        /\ UNCHANGED <<rank, done, covers, placers, photo, page, posts, spent, released>>

-----------------------------------------------------------------------------
(* The host's awards and the ranking of a task.                            *)

\* POST /admin/guests/:id/badge: any badge of type special or custom, and a
\* task's own badge is of type custom.
awardSpecialBadge(g, b) ==
    /\ Request
    /\ row[g][b] = "none"       \* otherwise the insert is ignored
    /\ row' = [row EXCEPT ![g][b] = "owed"]
    /\ granted' = [granted EXCEPT ![g] = recordEvent(@, b)]
    /\ UNCHANGED <<rank, inputs, page, posts, spent, released>>

removeSpecialBadge(g, b) ==
    /\ Request
    /\ row[g][b] # "none"
    /\ row' = [row EXCEPT ![g][b] = "none"]
    /\ rank' = IF b = "trophy" THEN [rank EXCEPT ![g] = 0] ELSE rank
    /\ UNCHANGED <<granted, inputs, page, posts, spent, released>>

\* A guest has at most one photo of the task, so the fold over placements
\* never finds a guest twice.
foldRankedPlacements(winners) ==
    [g \in Guests |-> IF \E k \in DOMAIN winners : winners[k] = g
                      THEN CHOOSE k \in DOMAIN winners : winners[k] = g ELSE 0]

Rankings == UNION {{w \in [1 .. n -> Guests] : \A j, k \in 1 .. n : w[j] = w[k] => j = k} :
                      n \in 0 .. MaxRanked}

\* Mutants of Rank: without the whole-set delete; without the restored stamp.
RankKeepingTheOld(h, old, new) ==
    [rows  |-> IF new > 0 /\ h.rows["trophy"] = "none"
               THEN [h.rows EXCEPT !["trophy"] = "owed"] ELSE h.rows,
     rank  |-> IF new > 0 THEN new ELSE old,
     events |-> IF new > 0 /\ old = 0 THEN recordEvent(h.events, "trophy") ELSE h.events]
RankUnrestored(h, old, new) ==
    [rows  |-> IF new > 0 THEN [h.rows EXCEPT !["trophy"] =
                                   IF old > 0 \/ @ = "none" THEN "owed" ELSE @]
               ELSE IF old > 0 THEN [h.rows EXCEPT !["trophy"] = "none"] ELSE h.rows,
     rank  |-> new,
     events |-> IF new > 0 /\ old = 0 THEN recordEvent(h.events, "trophy") ELSE h.events]

\* One guest's part of a release: ranked rows are deleted, a winner's row is
\* written, a prior holder gets the old stamp back and no event.  A row the
\* host awarded by hand has no rank, so it survives the delete, and the
\* upsert then leaves its stamp alone.
Rank(h, old, new) ==
    [rows  |-> IF new > 0 /\ h.rows["trophy"] = "none"
               THEN [h.rows EXCEPT !["trophy"] = "owed"]
               ELSE IF new = 0 /\ old > 0
                    THEN [h.rows EXCEPT !["trophy"] = "none"] ELSE h.rows,
     rank  |-> new,
     events |-> IF new > 0 /\ old = 0 THEN recordEvent(h.events, "trophy") ELSE h.events]

\* POST /admin/tasks/:id/rank.  A pick that is no longer a visible photo of
\* the task refuses the whole release.
releaseRanking ==
    \E winners \in Rankings :
        /\ Request
        /\ \A k \in DOMAIN winners : photo[winners[k]] = "shown"
        /\ LET place == foldRankedPlacements(winners)
               new == [g \in Guests |-> Rank(Holding(g), rank[g], place[g])]
           IN  After(new) /\ rank' = [g \in Guests |-> new[g].rank]
        /\ released' = winners
        /\ UNCHANGED <<inputs, page, posts, spent>>

-----------------------------------------------------------------------------
(* The badge moment: render-locals.js, badge-moment.js, routes/guest/recap. *)

Owed(g) == {b \in Badges : row[g][b] = "owed" /\ granted[g][b] > 0}

BADGE_TYPE_RANK ==
    [milestone |-> 0, sweep |-> 1, crown |-> 2, trophy |-> 3, special |-> 4]

\* The first of a set of owed badges (rankBadgeCandidates).
First(S) == CHOOSE b \in S : \A c \in S : BADGE_TYPE_RANK[b] <= BADGE_TYPE_RANK[c]

\* withBadgeMoment: any page of the app.  The head is stamped as the page is
\* built, the rest ride along still owed.
RenderPage(g) ==
    /\ page' = [page EXCEPT ![g] =
                   IF Owed(g) = {} THEN NoPage
                   ELSE [at |-> "sent", queue |-> Owed(g) \ {First(Owed(g))}]]
    /\ IF Owed(g) = {} THEN UNCHANGED <<row, spent>>
       ELSE /\ row' = [row EXCEPT ![g][First(Owed(g))] = "celebrated"]
            /\ spent' = [spent EXCEPT ![g] = @ \cup {First(Owed(g))}]
    /\ UNCHANGED <<rank, granted, inputs, posts, released, requests>>

\* The page arrives, or is lost with the celebration it carried.
PageArrives(g) ==
    /\ page[g].at = "sent"
    /\ \E at \in {"open", "closed"} :
          page' = [page EXCEPT ![g] = IF at = "open" THEN [@ EXCEPT !.at = at] ELSE NoPage]
    /\ UNCHANGED <<row, rank, granted, inputs, posts, spent, released, requests>>

\* A tap on Continue shows the next queued badge and posts its stamp.
Continue(g) ==
    /\ page[g].at = "open"
    /\ IF page[g].queue = {}
       THEN page' = [page EXCEPT ![g] = NoPage] /\ posts' = posts
       ELSE LET b == First(page[g].queue)
            IN  /\ page' = [page EXCEPT ![g].queue = @ \ {b}]
                /\ posts' = [posts EXCEPT ![g] = @ \cup {b}]
    /\ UNCHANGED <<row, rank, granted, inputs, spent, released, requests>>

\* Escape: the rest of the queue is abandoned, still owed.
Dismiss(g) ==
    /\ page[g].at = "open" /\ page[g].queue # {}
    /\ page' = [page EXCEPT ![g] = NoPage]
    /\ UNCHANGED <<row, rank, granted, inputs, posts, spent, released, requests>>

\* POST /badge-moment/celebrated: 404 when the badge is not owed (any more).
markBadgeCelebrated(g, b) == b \in Owed(g)

CelebratedPost(g, b) ==
    /\ b \in posts[g]
    /\ posts' = [posts EXCEPT ![g] = @ \ {b}]
    /\ IF markBadgeCelebrated(g, b)
       THEN /\ row' = [row EXCEPT ![g][b] = "celebrated"]
            /\ spent' = [spent EXCEPT ![g] = @ \cup {b}]
       ELSE UNCHANGED <<row, spent>>
    /\ UNCHANGED <<rank, granted, inputs, page, released, requests>>

\* The post is never retried: the network or the rate limiter may drop it.
LosePost(g, b) ==
    /\ b \in posts[g]
    /\ posts' = [posts EXCEPT ![g] = @ \ {b}]
    /\ UNCHANGED <<row, rank, granted, inputs, page, spent, released, requests>>

Next ==
    \/ LikesChange \/ TaskChange \/ setAutoBadgeThresholds \/ releaseRanking
    \/ \E g \in Guests :
        \/ SubmissionChange(g)
        \/ \E b \in {"special", "trophy"} : awardSpecialBadge(g, b) \/ removeSpecialBadge(g, b)
    \/ \E g \in Readers :
        \/ RenderPage(g) \/ PageArrives(g) \/ Continue(g) \/ Dismiss(g)
        \/ \E b \in Badges : CelebratedPost(g, b) \/ LosePost(g, b)

Spec == Init /\ [][Next]_vars

-----------------------------------------------------------------------------
TypeOK ==
    /\ row \in [Guests -> [Badges -> Statuses]]
    /\ rank \in [Guests -> 0 .. MaxRanked]
    /\ granted \in [Guests -> [Badges -> 0 .. Many]]
    /\ threshold \in Thresholds /\ done \in [Guests -> 0 .. MaxDone]
    /\ covers \subseteq Guests /\ placers \subseteq Guests
    /\ photo \in [Guests -> {"none", "shown", "hidden"}]
    /\ page \in [Guests -> [at : {"closed", "sent", "open"}, queue : SUBSET Badges]]
    /\ posts \in [Guests -> SUBSET Badges] /\ spent \in [Guests -> SUBSET Badges]
    /\ released \in Rankings /\ requests \in 0 .. MaxRequests

(* A row that owes a celebration has the announcement that makes it owed:  *)
(* without one the row would sit uncelebrated for ever, on no page and in  *)
(* no recap.  The crown's announcement is never stored twice, however      *)
(* often other guests' likes take it away and bring it back.               *)
OwedIsAnnounced ==
    /\ \A g \in Guests, b \in Badges : row[g][b] = "owed" => granted[g][b] > 0
    /\ \A g \in Guests : granted[g]["crown"] <= 1

(* No celebration is skipped and the crown's is never repeated: a row is   *)
(* marked celebrated only for a guest to whom a celebration of that badge  *)
(* was once spent, and a crown whose celebration was spent is never owed   *)
(* one again, through any sequence of losing and regaining it.             *)
CelebratedOnce ==
    \A g \in Guests :
        /\ \A b \in Badges : row[g][b] = "celebrated" => b \in spent[g]
        /\ row[g]["crown"] = "owed" => "crown" \notin spent[g]

(* The ranks on record are those of the last release and of no release     *)
(* before it, so no two guests hold one place.                             *)
StandingsAreTheRelease ==
    \A g \in Guests :
        rank[g] > 0 => /\ rank[g] \in DOMAIN released /\ released[rank[g]] = g
                       /\ row[g]["trophy"] # "none"

(* The three together: what the pages of badges rely on.                   *)
BadgesKeepTheirWord == OwedIsAnnounced /\ CelebratedOnce /\ StandingsAreTheRelease

(* A guest who stays among the winners of a re-released ranking is not     *)
(* told of it again and does not celebrate again.                          *)
ReleaseKeepsCelebration ==
    [][\A g \in Guests : rank[g] > 0 /\ rank'[g] > 0 =>
          /\ granted'[g]["trophy"] = granted[g]["trophy"]
          /\ row[g]["trophy"] = "celebrated" => row'[g]["trophy"] = "celebrated"]_vars
=============================================================================
