SPECIFICATION Spec
CONSTANTS
    Fanout = 2
    Last = 3
    LargeAvail = {1, 2, 3}
    Word = 64
    Frames = {1, 2, 3, 4, 5}
    Requests <- GoodRequests
    MaxCalls = 2
INVARIANTS
    NeverWrong
    MapsWhatWasAsked
    RefusalIsHonest
PROPERTY OldMappingsStay
CHECK_DEADLOCK FALSE
