CONSTANTS
    Msg = {m1}
    Task = {k1, k2}
    None = None
    MaxCopies = 2
    MaxFaults = 1
CONSTRAINT Bounded
SPECIFICATION FairSpec
INVARIANTS
    TypeOK
    OutboxHolds
    TicksHonest
PROPERTIES
    EventuallyStored
CHECK_DEADLOCK FALSE
