\* Recap: three facts in two seconds, pages of one row, one page of the app.
SPECIFICATION NewsSpec
CONSTANTS
    Photos = {1}
    Others = {"o", "c"}
    Couple = {"c"}
    NULL = NULL
    Kinds = {"crowd_favorite"}
    PageSize = 1
    FirstId = 9
    PerSecond = 2
    DayStart = 2
    FlashLength = 2
    Tasks <- MCTasks
    Horizon = 2
    MaxFacts = 3
    MaxViews = 1
    MaxPages = 3
    Cards = {1, 2}
    Started <- MCStarted
    MaxTaps = 2
    Reels <- MCReels
    Paying = 2
    SLIDESHOW_SECTION_SIZE = 2
    SLIDESHOW_MAX_TASK_SECTIONS = 1
    Writers = {"guest", "nobody"}
    Nobody = "nobody"
    Bodies <- MCBodies
    Empty = "empty"
    BUG_REPORT_DUPLICATE_WINDOW_SECONDS = 1
    MaxClock = 3
    MaxPosts = 3
    MaxTouches = 2
    Senders = {"guest"}
    Crashes = {"e", "f"}
    MAX_REPORTS = 2
    MIN_INTERVAL_MS = 1
    CLIENT_ERROR_DEDUPE_WINDOW_MS = 2
    RATE_LIMIT_TRACKED_MAX = 1
    MaxTicks = 4
    MaxThrows = 4
INVARIANTS
    ListsAreTrue
    PanelKeepsItsWord
    CardsAreTrue
    ReportsArrive
CHECK_DEADLOCK FALSE
