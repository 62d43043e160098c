SPECIFICATION Spec
CONSTANTS
    Size = 4
    Words = {0, 2, 3, 4}
INVARIANTS
    SortsTheWindow
    ScansStayInside
PROPERTY Terminates
CHECK_DEADLOCK FALSE
