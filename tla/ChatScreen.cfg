CONSTANTS
    alice = alice
    bob = bob
    Peer = {alice, bob}
    NoPeer = NoPeer
    Window = 1
    Page = 2
    MaxMsgs = 3
    MaxTs = 2
    MaxTasks = 2
    MaxGestures = 4
SPECIFICATION Spec
CONSTRAINT Bounded
SYMMETRY Symmetry
INVARIANTS
    TypeOK
    NothingUnnoticed
    ChatComplete
CHECK_DEADLOCK FALSE
