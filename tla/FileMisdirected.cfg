CONSTANTS
    f1 = f1
    p1 = p1
    p2 = p2
    k1 = k1
    k2 = k2
    File = {f1}
    Peer = {p1, p2}
    Ephemeral = {}
    Task = {k1, k2}
    Chunks = 2
    None = None
    MaxFaults = 1
SPECIFICATION Spec
INVARIANTS
    OnlyToRecipient
CHECK_DEADLOCK FALSE
