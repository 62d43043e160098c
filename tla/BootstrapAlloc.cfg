SPECIFICATION Spec
CONSTANTS
    Cores = {c1, c2, c3}
    ReadsOnce = TRUE
    Area = 8
    Align = 2
    Requests = {1, 2, 4}
INVARIANTS
    BlocksApart
PROPERTIES
    CallsAreAtomic
    LockIsReleased
