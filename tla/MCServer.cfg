\* Access: three contacts, two addresses, limits of two and five requests.
SPECIFICATION ServerSpec
CONSTANTS
    Width = 2
    Guests = {1, 2}
    second = second
    third = third
    Contacts <- MCContacts
    Spelled <- MCSpelled
    Pins = {"1"}
    Devices = {"d1", "d2"}
    None = None
    Window = 2
    IpMax = 2
    BucketsMax = 1
    Lockout = 1
    GuestAttempts = 2
    AdminAttempts = 2
    TrackedMax = 2
    Founder = "a@x"
    Joiners = {"d1"}
    Horizon = 2
    MaxRequests = 5
    Origins <- MCOrigins
    MaxStarts = 3
    Photos = {1, 2}
    BACKUP_RETENTION_COUNT = 1
    MaxRuns = 2
    Conns = {1, 2}
    MAX_RESTARTS = 2
    WINDOW = 4
    BACKOFF = 1
    timeoutMs = 2
    MaxPending = 2
    Submitted = {1, 2, 3, 4}
    Authors <- MCAuthors
    Subjects <- MCSubjects
    Named <- MCNamed
    Memory = "memory"
    MaxMeddling = 2
INVARIANTS
    WindowsHold
    OnlyOwnPagesAct
    DataSurvives
    ScriptsKeepTheirWord
    KeepsakeIsWhole
PROPERTIES
    LockoutsAreKept
SYMMETRY MCSymmetry
CHECK_DEADLOCK FALSE
