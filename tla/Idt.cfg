SPECIFICATION Spec
CONSTANTS
    Cores = {c1, c2}
    FirstIrq = 1
    LastVector = 4
    SlotCount = 2
    h = h
    g = g
    Handlers = {h, g}
    NoHandler = NoHandler
    NoCall = NoCall
    Registered <- MCRegistered
    Requests <- MCRequests
    Sources = {0, 2}
INVARIANTS
    ExclusiveIsExclusive
    RefusalIsHonest
    DispatchIsComplete
PROPERTY LockIsReleased
CHECK_DEADLOCK FALSE
