SPECIFICATION Spec
CONSTANTS
    g1 = g1
    t1 = t1
    r1 = r1
    r2 = r2
    Guests = {g1}
    Tasks = {t1}
    Requests = {r1, r2}
    Rules = {"daily", "lucky"}
    Target <- MCTarget
    OldPhoto = OldPhoto
    NoRow = NoRow
    NoOne = NoOne
SYMMETRY Uploads
INVARIANTS
    NoStrayAfterDuplicate
CHECK_DEADLOCK FALSE
