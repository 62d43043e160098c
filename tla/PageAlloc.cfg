SPECIFICATION Spec
CONSTANTS
    Size = 5
    Zero <- ZeroEntry
    MaxEntries = 3
    Regions <- TwoRegions
    MemPages = 8
    MaxRequest = 2
INVARIANTS
    OneOwner
    OnlyManaged
    CountNeverAhead
    NeverOutOfEntries
    FailureIsHonest
PROPERTIES
    NothingLost
    CallsEnd
CHECK_DEADLOCK FALSE
