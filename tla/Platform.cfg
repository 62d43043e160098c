SPECIFICATION Spec
CONSTANTS
    Cores = {c1, c2}
    BootCore = c1
    TlsSize = 7
    Size <- MCSize
    Requests = {1}
    Systems <- MCSystems
    Zero = Zero
    Wild = Wild
    Lines = {0, 2}
    Irqs = {50}
    Flags = {1}
    MaxCalls = 2
INVARIANTS
    OwnData
    PinsFollowTables
    MaskedUntilAsked
CHECK_DEADLOCK FALSE
