CONSTANTS
    Size = 4
    Values = {z, a, b}
    Zero = z
    Refused = refused
    z = z
    a = a
    b = b

SPECIFICATION ClientSpec

INVARIANTS
    CountIsDistance

PROPERTY ImplementsDeque
