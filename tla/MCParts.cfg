SPECIFICATION PartsSpec
CONSTANTS
    Guests = {1, 2, 3}
    Photos = {1, 2, 3}
    Tasks = {"t1"}
    Memory = "memory"
    Owner <- MCOwner
    Task <- MCTask
    Day <- MCDay
    Worth <- MCWorth
    Bonus <- MCBonus
    PlacePoints <- MCPlacePoints
    MemoryCap = 1
    StarterPoint = 1
    AwardPoints = 5
    BadgePoints = 1
    Threshold = 2
    MaxBonus = 1
    Stars = {1}
    FEED_PAGE_SIZE = 2
    GALLERY_PAGE_SIZE = 2
    GROUP_PREVIEW_SIZE = 2
    Albums <- MCAlbums
    Scopes <- MCScopes
    Held = {1, 3}
    MaxPhotos = 6
    MaxChanges = 2
    Batches = {1, 2}
    Uploads <- MCUploads
    MEMORY_RATE_MAX = 1
    MEMORY_RATE_WINDOW_MS = 2
    HEIC_DECODE_RATE_MAX = 2
    HEIC_DECODE_RATE_WINDOW_MS = 1
    MAX_PENDING_HEIC_DECODES = 2
    MAX_CONCURRENT_UPLOADS = 1
    MaxTime = 2
    Engines = {"manual", "follows", "none", "memories"}
    Picks = {1, 2}
    MaxPosts = 2
    MaxOthers = 1
INVARIANTS
    ScoresAgree
    StandingsAreKept
    PagesAreWhole
    BatchesAreWhole
CHECK_DEADLOCK FALSE
