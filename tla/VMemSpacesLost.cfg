SPECIFICATION Spec
CONSTANTS
    c1 = c1
    Cores = {c1, c2}
    Boot = c1
    Spaces = {s1, s2}
    Kmem = kmem
    NoSpace = none
    UserSlots = {u1}
    k1 = k1
    KernelSlots = {k1, k2}
    BootSlots = {k1}
    Tables = {k1, t1, t2}
    NoTable = absent
    MaxCreated = 3
PROPERTIES
    MappingsStay
