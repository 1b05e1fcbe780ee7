\* Two guests, three requests that change a badge, pages and posts unbounded
\* but for one guest's browser only; the bounds of the other parts are those of
\* their modules' comments.
SPECIFICATION HostSpec
CONSTANTS
    g1 = g1
    g2 = g2
    Guests <- MCGuests
    Thresholds <- MCThresholds
    SeededThreshold = 1
    MaxDone = 1
    Readers <- MCReaders
    MaxRanked = 2
    MaxRequests = 3
    Entries = {1, 2, 3}
    MaxEvents = 2
    Shots = 3
    Takers <- MCTakers
    Subjects <- MCSubjects
    Queries <- MCQueries
    MaxVisits = 2
    MaxOthers = 1
INVARIANTS
    BadgesKeepTheirWord
    RankingIsTheHosts
    WallIsTrue
PROPERTIES
    ReleaseKeepsCelebration
CHECK_DEADLOCK FALSE
