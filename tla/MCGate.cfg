SPECIFICATION FairSpec
CONSTANTS
    Callers = {c1, c2, c3, c4}
    Sizes <- MCSizes
    Cap = 2
INVARIANTS
    SlotsAreHeld
    QueueIsLive
    BacklogIsCapped
PROPERTIES
    FirstComeFirstServed
    WaitersAreServed
    KeepsThePromise
