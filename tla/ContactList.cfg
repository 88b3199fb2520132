CONSTANTS
    alice = alice
    bob = bob
    Peer = {alice, bob}
    MaxTexts = 2
    MaxTasks = 2
SPECIFICATION Spec
SYMMETRY Symmetry
INVARIANTS
    KeysForContacts
    BanHolds
CHECK_DEADLOCK FALSE
