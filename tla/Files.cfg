CONSTANTS
    f1 = f1
    p1 = p1
    p2 = p2
    k1 = k1
    k2 = k2
    File = {f1}
    Peer = {p1, p2}
    Ephemeral = {p2}
    Task = {k1, k2}
    Chunks = 2
    None = None
    MaxFaults = 1
SPECIFICATION FairSpec
INVARIANTS
    TypeOK
    LeavesOutboxWhole
PROPERTIES
    FileArrives
CHECK_DEADLOCK FALSE
