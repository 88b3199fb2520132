CONSTANTS
    c1 = c1
    c2 = c2
    c3 = c3
    c4 = c4
    a = a
    b = b
    Conn = {c1, c2, c3}
    Client = {a, b}
    None = None
    Owner <- MCOwner
    SubLists <- BothWays
    MaxQuiet <- NobodyQuiet
SYMMETRY ConnSymmetry
SPECIFICATION Spec
INVARIANTS
    TypeOK
    SubIndexMirror
    NoMissedOnline
    ArrivalKnown
CHECK_DEADLOCK FALSE
