CONSTANTS
    Socket = {s1, s2, s3}
    None = None
    MaxFaults = 2
    MaxNudges = 1
SPECIFICATION FairSpec
CONSTRAINT Bounded
INVARIANTS
    TypeOK
    OneSocket
    RetryOnlyWhenDown
    ConnectedIsAnswered
PROPERTIES
    ComesBack
CHECK_DEADLOCK FALSE
