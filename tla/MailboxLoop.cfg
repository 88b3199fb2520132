CONSTANTS
    m1 = m1
    m2 = m2
    Msg = {m1, m2}
    MaxAsks = 3
    MaxFaults = 3
SPECIFICATION FairSpec
INVARIANTS
    TypeOK
    FlagHonest
PROPERTIES
    DrainFinishes
CHECK_DEADLOCK FALSE
