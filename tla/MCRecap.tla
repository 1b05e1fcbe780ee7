------------------------------ MODULE MCRecap -------------------------------
(***************************************************************************)
(* What reaches somebody, in five parts that share no state: which of them *)
(* runs is chosen at the start, and the others rest.  Recap: one photo, a  *)
(* guest and one of the couple, three facts, pages of one row; the task is *)
(* plain and live, a challenge, or a flash that starts in the middle of a  *)
(* second.  Card: two photos of a feed page.  Slideshow: every night of    *)
(* four photos of eight kinds.  Reports and Beacon: what a guest writes    *)
(* and what a script throws.                                               *)
(***************************************************************************)
EXTENDS Recap

CONSTANTS
    Cards, Started, MaxTaps,                                        \* Card: Photos and Comments
    Reels, Paying, SLIDESHOW_SECTION_SIZE, SLIDESHOW_MAX_TASK_SECTIONS,     \* Slideshow
    Writers, Nobody, Bodies, Empty,                                 \* Reports: Writers are its Senders
    BUG_REPORT_DUPLICATE_WINDOW_SECONDS, MaxClock, MaxPosts, MaxTouches,
    Senders, Crashes, MAX_REPORTS, MIN_INTERVAL_MS,                 \* Beacon
    CLIENT_ERROR_DEDUPE_WINDOW_MS, RATE_LIMIT_TRACKED_MAX, MaxTicks, MaxThrows

ASSUME NewsAssumption ==
    /\ {BUG_REPORT_DUPLICATE_WINDOW_SECONDS, CLIENT_ERROR_DEDUPE_WINDOW_MS, MIN_INTERVAL_MS} \subseteq Nat \ {0}
    /\ {RATE_LIMIT_TRACKED_MAX, MAX_REPORTS} \subseteq Nat \ {0}
    /\ {MaxClock, MaxPosts, MaxTouches, MaxTicks, MaxThrows} \subseteq Nat
    /\ IsFiniteSet(Senders) /\ IsFiniteSet(Crashes)
    /\ MaxTaps \in Nat /\ 0 \notin Cards
    /\ Started \in [Cards -> Seq(1 .. 100)]
    /\ \A p \in Cards : \A i, j \in DOMAIN Started[p] : Started[p][i] = Started[p][j] => i = j

VARIABLES
    part,                                                           \* the part that runs
    liked, said, heart, likers, payload, dialog, requests, taps, astray, dropped, late,    \* Card
    reel, mode, slides, idx, paused, timer,                         \* Slideshow
    clock, bug_reports, touches, thanked, furthest,                 \* Reports
    ticks, loaded, flying, dedupeMap, log, received, evicted, throws        \* Beacon

-----------------------------------------------------------------------------
MCTasks ==
    LET kind(live, challenge, flash, ceremony) ==
            [live |-> live, since |-> -1, challenge |-> challenge, flash |-> flash, ceremony |-> ceremony]
    IN  {kind(FALSE, TRUE, NULL, TRUE), kind(TRUE, FALSE, 1, FALSE)}

\* One photo with a comment of the guest, one with none.
MCStarted == <<<<1>>, <<>>>>
Card == INSTANCE Card WITH Photos <- Cards, Comments <- Started, likes <- liked, comments <- said

\* Photos of two tasks and memories (task 0): with and without likes, worth a
\* point more or not, one of them hidden.
MCReels ==
    LET row(guest, t, n, points, shown) ==
            [guest |-> guest, task |-> t, likes |-> n, points |-> points, shown |-> shown]
    IN  [1 .. 4 -> {row(1, 1, 0, 1, TRUE), row(1, 1, 2, 2, TRUE), row(2, 2, 0, 1, TRUE),
                    row(2, 0, 2, 1, TRUE), row(2, 0, 0, 1, TRUE), row(1, 1, 1, 2, FALSE),
                    row(2, 1, 1, 1, TRUE), row(3, 1, 1, 1, TRUE)}]

Slideshow == INSTANCE Slideshow

\* A short text, two that differ only behind what is kept of a text, a blank one.
MCBodies == [short |-> "short", long |-> "cut", longer |-> "cut", blank |-> "empty"]
Reports == INSTANCE Reports WITH Senders <- Writers

Beacon == INSTANCE Beacon WITH clock <- ticks, MaxClock <- MaxTicks

-----------------------------------------------------------------------------
cardVars   == <<liked, said, heart, likers, payload, dialog, requests, taps, astray, dropped, late>>
slideVars  == <<reel, mode, slides, idx, paused, timer>>
reportVars == <<clock, bug_reports, touches, thanked, furthest>>
beaconVars == <<ticks, loaded, flying, dedupeMap, log, received, evicted, throws>>

None == 0
NoCard ==
    /\ liked = None /\ said = None /\ heart = None /\ likers = None /\ payload = None
    /\ dialog = None /\ requests = None /\ taps = None /\ astray = None /\ dropped = None /\ late = None
NoSlides ==
    /\ reel = None /\ mode = None /\ slides = None /\ idx = None /\ paused = None /\ timer = None
NoReports ==
    /\ clock = None /\ bug_reports = None /\ touches = None /\ thanked = None /\ furthest = None
NoBeacon ==
    /\ ticks = None /\ loaded = None /\ flying = None /\ dedupeMap = None /\ log = None
    /\ received = None /\ evicted = None /\ throws = None

NewsInit ==
    /\ Init
    /\ part \in {"recap", "card", "slideshow", "reports", "beacon"}
    /\ part # "recap" => task.live
    /\ IF part = "card" THEN Card!CardInit ELSE NoCard
    /\ IF part = "slideshow" THEN Slideshow!SlideInit ELSE NoSlides
    /\ IF part = "reports" THEN Reports!ReportsInit ELSE NoReports
    /\ IF part = "beacon" THEN Beacon!BeaconInit ELSE NoBeacon

NewsNext ==
    /\ UNCHANGED part
    /\ \/ part = "recap" /\ UNCHANGED <<cardVars, slideVars, reportVars, beaconVars>> /\ Next
       \/ part = "card" /\ UNCHANGED <<vars, slideVars, reportVars, beaconVars>> /\ Card!CardNext
       \/ part = "slideshow" /\ UNCHANGED <<vars, cardVars, reportVars, beaconVars>> /\ Slideshow!SlideNext
       \/ part = "reports" /\ UNCHANGED <<vars, cardVars, slideVars, beaconVars>> /\ Reports!ReportsNext
       \/ part = "beacon" /\ UNCHANGED <<vars, cardVars, slideVars, reportVars>> /\ Beacon!BeaconNext

NewsSpec == NewsInit /\ [][NewsNext]_<<part, vars, cardVars, slideVars, reportVars, beaconVars>>

-----------------------------------------------------------------------------
(* The properties of each part, stated in its module; PanelKeepsItsWord is *)
(* Recap's own.                                                            *)

\* What the services hand a page is the night's: the bell counts what the
\* recap's pages render, and the slideshow is of every visible photo that may be
\* in it, each once, turned by one timer (services/notifications.js, feed.js).
ListsAreTrue ==
    /\ part = "recap" => CountIsRendered
    /\ part = "slideshow" => Slideshow!SlideshowPlays

\* With every answer in, a card's heart, counts and comments are the server's,
\* whatever order the taps and the answers came in (public/js/feed.js).
CardsAreTrue == part = "card" => Card!HeartIsTrue /\ Card!CardIsTrue /\ Card!ThreadIsTheCards

\* A guest's report is kept once and reaches the host, a crash's is logged once
\* (bug-report.js, error-report.js, bugs-export.js, client-error.js).
ReportsArrive ==
    /\ part = "reports" => Reports!ReportsAreKept
    /\ part = "beacon" => Beacon!CrashesAreLogged
=============================================================================
