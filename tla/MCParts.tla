------------------------------ MODULE MCParts ------------------------------
(***************************************************************************)
(* Photos from their upload to their points, in four parts that share no   *)
(* state: which of them runs is chosen at the start, and the others rest.  *)
(* Scoring and its screens: a task photo of one guest against two memories *)
(* of another, and a third guest who only likes; one place pays, so a like *)
(* can push a guest out and a tie can let one in.                          *)
(***************************************************************************)
EXTENDS Screens

CONSTANTS
    FEED_PAGE_SIZE, GALLERY_PAGE_SIZE, GROUP_PREVIEW_SIZE, Albums, Scopes, Held, MaxPhotos, MaxChanges,
    Batches, Uploads, MEMORY_RATE_MAX, MEMORY_RATE_WINDOW_MS, HEIC_DECODE_RATE_MAX,
    HEIC_DECODE_RATE_WINDOW_MS, MAX_PENDING_HEIC_DECODES, MAX_CONCURRENT_UPLOADS, MaxTime,
    Engines, Picks, MaxPosts, MaxOthers

ASSUME PartsAssumption ==
    /\ 0 \notin Batches
    /\ \A files \in Uploads : files # <<>> /\ files \in Seq({"jpeg", "misnamed", "heic", "huge", "hugeInside", "junk"})
    /\ {MEMORY_RATE_MAX, MEMORY_RATE_WINDOW_MS, HEIC_DECODE_RATE_MAX, HEIC_DECODE_RATE_WINDOW_MS,
        MAX_PENDING_HEIC_DECODES} \subseteq Nat

VARIABLES
    part,                                                                   \* the component that runs
    photos, cards, edge, scope, changes, opened, steady, grown, slipped,    \* Feed
    batch, disk, stored, heic, memory, now, admitted, leaked,               \* Memories
    engine, chosen, button, post, nav, page, jar, saved, other, others, meddled, seen  \* UploadPage

Feed       == INSTANCE Feed
Memories   == INSTANCE Memories WITH rows <- stored
UploadPage == INSTANCE UploadPage

-----------------------------------------------------------------------------
MCOwner == <<1, 2, 2>>
MCTask  == <<"t1", "memory", "memory">>
MCDay   == <<1, 1, 1>>
MCBonus == <<2, 0, 0>>
MCWorth == [t \in Tasks |-> 3]
MCPlacePoints == <<5>>

LOCAL P(at, guest, task) ==
    [at |-> at, guest |-> guest, task |-> task, shown |-> TRUE, pinned |-> guest = 2]
LOCAL Hidden(p) == [p EXCEPT !.shown = FALSE]

\* Two feeds: every photo a second apart or not, on and beside a group; and one
\* with three photos of one second and one hidden.
MCAlbums ==
    {<<P(1, 1, "t"), P(1, 2, "memories"), P(2, 2, "t"), P(3, 1, "memories")>>,
     <<P(1, 1, "t"), P(3, 1, "memories"), Hidden(P(2, 2, "t")), P(3, 2, "t"), P(3, 2, "u")>>}

MCScopes ==
    {[type |-> "none"], [type |-> "guest", id |-> 2], [type |-> "task", id |-> "t"], [type |-> "memory"],
     [type |-> "badge", id |-> 1]}

MCUploads ==
    {<<"heic", "jpeg">>, <<"hugeInside">>, <<"huge">>, <<"misnamed", "junk">>}

\* Up to four names with a character of one, of two and of four bytes.
LOCAL Characters == {[points |-> 1, width |-> 1], [points |-> 2, width |-> 3], [points |-> 4, width |-> 12]}
LOCAL Names == UNION {[1..n -> Characters] : n \in 0..4}

-----------------------------------------------------------------------------
feedVars   == <<photos, cards, edge, scope, changes, opened, steady, grown, slipped>>
memoryVars == <<batch, disk, stored, heic, memory, now, admitted, leaked>>
uploadVars == <<engine, chosen, button, post, nav, page, jar, saved, other, others, meddled, seen>>

None == 0
NoFeed ==
    /\ photos = None /\ cards = None /\ edge = None /\ scope = None /\ changes = None
    /\ opened = None /\ steady = None /\ grown = None /\ slipped = None
NoMemories ==
    /\ batch = None /\ disk = None /\ stored = None /\ heic = None /\ memory = None
    /\ now = None /\ admitted = None /\ leaked = None
NoUpload ==
    /\ engine = None /\ chosen = None /\ button = None /\ post = None /\ nav = None /\ page = None
    /\ jar = None /\ saved = None /\ other = None /\ others = None /\ meddled = None /\ seen = None

PartsInit ==
    /\ Init
    /\ part \in {"scoring", "feed", "memories", "upload"}
    /\ IF part = "feed" THEN Feed!FeedInit ELSE NoFeed
    /\ IF part = "memories" THEN Memories!MemoriesInit ELSE NoMemories
    /\ IF part = "upload" THEN UploadPage!UploadInit ELSE NoUpload

\* Bound: of a profile photo, a flag and bonus points, one is set at a time (the
\* terms they add to a score do not meet).
OneOwnRow == Cardinality(avatar) + Cardinality(couple) + Total(Guests, extra) <= 1

PartsNext ==
    /\ UNCHANGED part
    /\ \/ part = "scoring" /\ UNCHANGED <<feedVars, memoryVars, uploadVars>> /\ Next /\ OneOwnRow'
       \/ part = "feed" /\ UNCHANGED <<vars, memoryVars, uploadVars>> /\ Feed!FeedNext
       \/ part = "memories" /\ UNCHANGED <<vars, feedVars, uploadVars>> /\ Memories!MemoriesNext
       \/ part = "upload" /\ UNCHANGED <<vars, feedVars, memoryVars>> /\ UploadPage!UploadNext

PartsSpec == PartsInit /\ [][PartsNext]_<<part, vars, feedVars, memoryVars, uploadVars>>

-----------------------------------------------------------------------------
(* The properties of each part, stated in its module; StandingsAreKept is  *)
(* Scoring's own.                                                          *)

\* What is derived on every read comes out the same however it is derived: the
\* placing set, the profile's points, the leaderboard's and the statistics'
\* (services/scoring, services/event-stats.js, routes/community.js).
ScoresAgree ==
    part = "scoring" => /\ PlacesMatchReference /\ BoardMatchesProfile
                        /\ GoldIsTheChampion /\ StatisticsAreTheScores

\* A feed page joined to the window above and the window below it shows each
\* photo once and none is skipped; the gallery and its pages hold what the
\* scope holds (services/feed.js, feed-scroll.js).  The windows of a page are
\* compared before it is scrolled, its walk at every step.  A task photo is sent
\* once a tap, its outcome is shown and the form is ready again; sizes, cookie
\* payloads and waits come out in their limits (public/js/upload.js,
\* utils/session.js).  The arithmetic is compared once.
Unscrolled ==
    Len(cards) <= FEED_PAGE_SIZE /\ edge.newer.page = Feed!NoPage /\ edge.older.page = Feed!NoPage

PagesAreWhole ==
    /\ part = "feed" => /\ Unscrolled => Feed!WindowsMeet /\ Feed!GalleryIsWhole
                        /\ Feed!WalkIsWhole
    /\ part = "upload" =>
           /\ UploadPage!UploadIsAnswered
           /\ post = <<>> /\ others = 0 /\ chosen = UploadPage!None =>
                  /\ UploadPage!SizesAreRight(1..25, 7) /\ UploadPage!WaitIsEnough(0..130)
                  /\ \A name \in Names : UploadPage!PayloadsFit(name, 20, 70, 2)

\* A batch of memories leaves files exactly for its rows, is answered with what
\* became of each of its files, holds the decode slot only while it decodes,
\* and is counted in the rate windows exactly (memories.js, intake.js, heic.js).
BatchesAreWhole ==
    part = "memories" => /\ Memories!FilesBelongToRows /\ Memories!BatchIsAccounted
                         /\ Memories!SlotFollowsDecode /\ Memories!WindowsAreExact
=============================================================================
