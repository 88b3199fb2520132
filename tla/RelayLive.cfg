CONSTANTS
    c1 = c1
    c2 = c2
    c3 = c3
    c4 = c4
    a = a
    b = b
    Conn = {c1, c3}
    Client = {a, b}
    None = None
    Owner <- MCOwner
    SubLists <- OneWay
    MaxQuiet <- PeerQuiet
SPECIFICATION FairSpec
PROPERTIES
    SilentReaped
    GoneFinishes
CHECK_DEADLOCK FALSE
