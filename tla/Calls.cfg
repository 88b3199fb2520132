SPECIFICATION Spec
CONSTANTS
  Phones = {a, b}
  None = None
  MaxCalls = 2
  MaxFaults = 1
CONSTRAINT Bounded
INVARIANTS TypeOK RingsHaveWindow CameraNeedsCall RingTimerOwnCall
PROPERTIES CallsSettle MissedTold
CHECK_DEADLOCK FALSE
