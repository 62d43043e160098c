----------------------------- MODULE CoreLocal -----------------------------
(***************************************************************************)
(* Thread-local storage of the cores (kernel/src/mp.c) and the parts of    *)
(* the kernel that keep a structure in it: vmem.c, gdt.c, idt.c, apic.c.   *)
(*                                                                         *)
(* A pointer to such a structure is a global that holds an offset; every   *)
(* core adds its GS base.  Offset 0 is NULL.  The boot core initialises    *)
(* in the order of main.c, whose last steps are comments so far, and       *)
(* starts the others afterwards; what would start them is commented out in *)
(* mp_init.                                                                *)
(***************************************************************************)
EXTENDS Naturals, Sequences

CONSTANTS
    Cores, BootCore,
    TlsSize,
    Size,      \* of the structures, by name
    Requests   \* bound: the sizes other code asks mp_tls_alloc for

(* The structures, in the order of main.c and its comments.                *)
Order == <<"lcl", "gdt", "idt", "apic">>

Data == {Order[i] : i \in 1 .. Len(Order)}

Offsets == 0 .. TlsSize - 1

ASSUME CoreLocalAssumption ==
    /\ BootCore \in Cores
    /\ TlsSize \in Nat
    /\ Size \in [Data -> Nat \ {0}]
    /\ Requests \subseteq Nat \ {0}

VARIABLES
    pos,      \* the first offset that is not handed out
    ptr,      \* lcl, gdt, idt, apic: the offsets
    base,     \* GS_BASE of every core: its block, its own name, or NoBlock
    tls,      \* the cells of every block: whose and which structure
    allocating,  \* per core: the structure mp_tls_alloc is called for
    ready,    \* per core: the structures it has initialised
    shell     \* the cores that have panicked

coreVars == <<pos, ptr, base, tls, allocating, ready, shell>>

NULL == 0

NoBlock == "no block"  \* GS_BASE is 0: all such cores use the same memory

NotSetUp == "not set up"

Nothing == "nothing"

ASSUME CoreNameAssumption == Cores \cap {NoBlock, NotSetUp} = {}

CoreInit ==
    /\ pos = 0
    /\ ptr = [x \in Data |-> NULL]
    /\ base = [c \in Cores |-> NotSetUp]
    /\ tls = [b \in Cores \cup {NoBlock} |-> [i \in Offsets |-> <<NotSetUp, Nothing>>]]
    /\ allocating = [c \in Cores |-> Nothing]
    /\ ready = [c \in Cores |-> {}]
    /\ shell = {}

Started(c) == c = BootCore \/ ready[BootCore] = Data

(* The result -1 of a failed allocation is ignored.                        *)
mp_tls_setup(c) ==
    /\ base[c] = NotSetUp /\ Started(c)
    /\ \E b \in {c, NoBlock} : base' = [base EXCEPT ![c] = b]
    /\ UNCHANGED <<pos, ptr, tls, allocating, ready, shell>>

Idle(c) == base[c] # NotSetUp /\ allocating[c] = Nothing /\ c \notin shell

Written(c, x, p, n) ==
    [tls EXCEPT ![base[c]] =
        [i \in Offsets |-> IF i \in p .. p + n - 1 THEN <<c, x>> ELSE @[i]]]

(* Mutant: they are initialised in any order.                              *)
AnyOrder(c, x) == TRUE

InOrder(c, x) ==
    \A i, j \in 1 .. Len(Order) : i < j /\ x = Order[j] => Order[i] \in ready[c]

(* vmem_mp_init does not test its pointer, the others do.                  *)
Allocates(c, x) == ptr[x] = NULL /\ (x = "lcl" => c = BootCore)

Finish(c, x, p) ==
    /\ tls' = Written(c, x, p, Size[x])
    /\ ready' = [ready EXCEPT ![c] = @ \cup {x}]

(* vmem_init, vmem_mp_init, gdt_init, idt_init, apic_init.                 *)
Initialise(c, x) ==
    /\ Idle(c) /\ x \notin ready[c] /\ InOrder(c, x)
    /\ \/ /\ Allocates(c, x)
          /\ allocating' = [allocating EXCEPT ![c] = x]
          /\ UNCHANGED <<tls, ready>>
       \/ /\ ~Allocates(c, x)
          /\ Finish(c, x, ptr[x])
          /\ UNCHANGED allocating
    /\ UNCHANGED <<pos, ptr, base, shell>>

(* An allocation that would use the last byte is refused as well.          *)
TooLarge(n) == pos + n >= TlsSize

mp_tls_get(offset) == IF offset >= TlsSize THEN NULL ELSE offset

(* Under mp_loc; PANIC comes after it is released.                         *)
mp_tls_alloc(c) ==
    /\ allocating[c] # Nothing /\ c \notin shell
    /\ LET x == allocating[c] IN
       IF TooLarge(Size[x])
       THEN /\ shell' = shell \cup {c}
            /\ UNCHANGED <<pos, ptr, tls, allocating, ready>>
       ELSE /\ pos' = pos + Size[x]
            /\ ptr' = [ptr EXCEPT ![x] = mp_tls_get(pos)]
            /\ Finish(c, x, pos)
            /\ allocating' = [allocating EXCEPT ![c] = Nothing]
            /\ UNCHANGED shell
    /\ UNCHANGED base

(* Other code allocates and uses what it is given.                         *)
OtherAlloc(c, n) ==
    /\ Idle(c) /\ "lcl" \in ready[c]
    /\ IF TooLarge(n)
       THEN shell' = shell \cup {c} /\ UNCHANGED <<pos, tls>>
       ELSE /\ pos' = pos + n
            /\ tls' = Written(c, "other", pos, n)
            /\ UNCHANGED shell
    /\ UNCHANGED <<ptr, base, allocating, ready>>

CoreNext ==
    \E c \in Cores :
        \/ mp_tls_setup(c)
        \/ \E x \in Data : Initialise(c, x)
        \/ mp_tls_alloc(c)
        \/ \E n \in Requests : OtherAlloc(c, n)

(* interrupt_get_cpuidx: the structure apic points to, on core c.          *)
interrupt_get_cpuidx(c) == tls[base[c]][ptr["apic"]][1]

CoreSpec == CoreInit /\ [][CoreNext]_coreVars

-----------------------------------------------------------------------------
(* A core that has a block finds in it what it has put there: no pointer   *)
(* moves once a core uses it, no two structures overlap, and no other core *)
(* writes there.  Cores whose mp_tls_setup failed share the memory at 0.   *)
OwnData ==
    \A c \in Cores : base[c] = c =>
        \A x \in ready[c] :
            \A i \in 0 .. Size[x] - 1 : tls[c][ptr[x] + i] = <<c, x>>

=============================================================================
