SPECIFICATION Spec
CONSTANTS
    r1 = r1
    r2 = r2
    r3 = r3
    p1 = p1
    p2 = p2
    Requests = {r1, r2, r3}
    Pins = {p1, p2}
    Blank = Blank
    NoPhoto = NoPhoto
    NoRow = NoRow
    Nobody = Nobody
SYMMETRY Interchangeable
PROPERTIES
    BlankKeepsThePin
CHECK_DEADLOCK FALSE
