--------------------------- MODULE BootstrapAlloc ---------------------------
(***************************************************************************)
(* The bootstrap allocator of kernel/src/bootstrap_alloc.c under any       *)
(* number of cores: bootstrap_malloc hands out the bytes of a static area  *)
(* from the bottom up, bootstrap_free takes the last block back, and a     *)
(* spinlock guards the position.  Reading and writing the position are     *)
(* separate steps.                                                         *)
(*                                                                         *)
(* Calls with size 0 or a NULL block return at once and change nothing;    *)
(* they are left out.                                                      *)
(***************************************************************************)
EXTENDS Spinlock

CONSTANTS
    Area,       \* BOOTSTRAP_ALLOC_AREA_SIZE
    Align,      \* 16, the alignment of every block
    Requests    \* the sizes that callers ask for

ASSUME BootstrapAssumption ==
    /\ Area \in Nat
    /\ Align \in Nat \ {0}
    /\ Requests \subseteq Nat \ {0}

VARIABLES
    bootstrap_alloc_pos,
    op,      \* per core: the function it is in
    mem, s,  \* per core: its parameters and locals
    seen,    \* per core: the position it has read
    given    \* the blocks that belong to callers

vars == <<lock, pc, bootstrap_alloc_pos, op, mem, s, seen, given>>

(* No block has this offset.                                               *)
NULL == Area

Block(a, n) == [mem |-> a, s |-> n]

Bytes(b) == b.mem .. b.mem + b.s - 1

Init ==
    /\ lock = 0
    /\ bootstrap_alloc_pos = 0
    /\ pc = [c \in Cores |-> "idle"]
    /\ op = [c \in Cores |-> "none"]
    /\ mem = [c \in Cores |-> NULL]
    /\ s = [c \in Cores |-> 0]
    /\ seen = [c \in Cores |-> 0]
    /\ given = {}

-----------------------------------------------------------------------------

(* The next multiple of Align.                                             *)
Rounded(n) == IF n % Align # 0 THEN (n \div Align + 1) * Align ELSE n

Calls(c, function, a, n) ==
    /\ pc[c] = "idle"
    /\ GoTo(c, "try")
    /\ op' = [op EXCEPT ![c] = function]
    /\ mem' = [mem EXCEPT ![c] = a]
    /\ s' = [s EXCEPT ![c] = Rounded(n)]
    /\ UNCHANGED <<lock, bootstrap_alloc_pos, seen>>

bootstrap_malloc(c, n) ==
    /\ Calls(c, "malloc", NULL, n)
    /\ UNCHANGED given

(* A caller gives back a block it holds, with the size it asked for.       *)
bootstrap_free(c, b, n) ==
    /\ b.s = Rounded(n)
    /\ Calls(c, "free", b.mem, n)
    /\ given' = given \ {b}

Lock(c) ==
    /\ TestAndSet(c, "read") \/ Spin(c)
    /\ UNCHANGED <<bootstrap_alloc_pos, op, mem, s, seen, given>>

ReadPos(c) ==
    /\ pc[c] = "read"
    /\ seen' = [seen EXCEPT ![c] = bootstrap_alloc_pos]
    /\ GoTo(c, "write")
    /\ UNCHANGED <<lock, bootstrap_alloc_pos, op, mem, s, given>>

(* The block that malloc takes, if it fits below the end of the area.  No  *)
(* size is so large that its sum with the position wraps at 2^64.          *)
Take(c) ==
    /\ op[c] = "malloc"
    /\ \/ /\ seen[c] + s[c] < Area
          /\ mem' = [mem EXCEPT ![c] = seen[c]]
          /\ bootstrap_alloc_pos' = seen[c] + s[c]
       \/ /\ seen[c] + s[c] >= Area
          /\ UNCHANGED <<mem, bootstrap_alloc_pos>>

(* Mutant: the block given back need not be the last one.                  *)
PutBackAny(c) ==
    /\ op[c] = "free"
    /\ \/ /\ seen[c] > s[c]
          /\ bootstrap_alloc_pos' = seen[c] - s[c]
       \/ /\ seen[c] <= s[c]
          /\ UNCHANGED bootstrap_alloc_pos
    /\ UNCHANGED mem

(* free moves the position down over the last block.                       *)
IsLastBlock(c) == seen[c] > s[c] /\ seen[c] - s[c] = mem[c]

PutBack(c) ==
    /\ op[c] = "free"
    /\ \/ IsLastBlock(c) /\ bootstrap_alloc_pos' = seen[c] - s[c]
       \/ ~IsLastBlock(c) /\ UNCHANGED bootstrap_alloc_pos
    /\ UNCHANGED mem

WritePos(c) ==
    /\ pc[c] = "write"
    /\ Take(c) \/ PutBack(c)
    /\ GoTo(c, "unlock")
    /\ UNCHANGED <<lock, op, s, seen, given>>

(* Mutant: a call that got nothing returns without unlocking.              *)
ReturnLocked(c) ==
    /\ pc[c] = "unlock"
    /\ \/ mem[c] # NULL /\ local_spinlock_unlock
       \/ mem[c] = NULL /\ UNCHANGED lock
    /\ given' = IF op[c] = "malloc" /\ mem[c] # NULL
                THEN given \cup {Block(mem[c], s[c])} ELSE given
    /\ GoTo(c, "idle")
    /\ op' = [op EXCEPT ![c] = "none"]
    /\ mem' = [mem EXCEPT ![c] = NULL]
    /\ s' = [s EXCEPT ![c] = 0]
    /\ seen' = [seen EXCEPT ![c] = 0]
    /\ UNCHANGED bootstrap_alloc_pos

(* The lock is released and the call returns.                              *)
Return(c) ==
    /\ pc[c] = "unlock"
    /\ local_spinlock_unlock
    /\ given' = IF op[c] = "malloc" /\ mem[c] # NULL
                THEN given \cup {Block(mem[c], s[c])} ELSE given
    /\ GoTo(c, "idle")
    /\ op' = [op EXCEPT ![c] = "none"]
    /\ mem' = [mem EXCEPT ![c] = NULL]
    /\ s' = [s EXCEPT ![c] = 0]
    /\ seen' = [seen EXCEPT ![c] = 0]
    /\ UNCHANGED bootstrap_alloc_pos

Step(c) == Lock(c) \/ ReadPos(c) \/ WritePos(c) \/ Return(c)

Next ==
    \E c \in Cores :
        \/ \E n \in Requests : \/ bootstrap_malloc(c, n)
                               \/ \E b \in given : bootstrap_free(c, b, n)
        \/ Step(c)

(* Every core keeps executing the call it is in.                           *)
Spec == Init /\ [][Next]_vars /\ \A c \in Cores : WF_vars(Step(c))

-----------------------------------------------------------------------------

TypeOK ==
    /\ lock \in {0, 1}
    /\ pc \in [Cores -> {"idle", "try", "wait", "stuck",
                         "read", "write", "unlock"}]
    /\ bootstrap_alloc_pos \in Nat
    /\ op \in [Cores -> {"none", "malloc", "free"}]
    /\ mem \in [Cores -> Nat]
    /\ s \in [Cores -> Nat]
    /\ seen \in [Cores -> Nat]
    /\ given \subseteq [mem : Nat, s : Nat \ {0}]

(* The block a core is about to return to its caller, or takes back.       *)
Pending(c) == mem[c] # NULL /\ (op[c] = "malloc" \/ pc[c] # "unlock")

(* Every block in use.                                                     *)
InUse == given \cup {Block(mem[c], s[c]) : c \in {d \in Cores : Pending(d)}}

(* However the calls of the cores interleave, no byte belongs to two       *)
(* blocks, and every block lies below the position, which stays inside the *)
(* area.                                                                   *)
BlocksApart ==
    /\ bootstrap_alloc_pos = 0 \/ bootstrap_alloc_pos < Area
    /\ \A b \in InUse : b.mem + b.s <= bootstrap_alloc_pos
    /\ \A b, d \in InUse : b # d => Bytes(b) \cap Bytes(d) = {}
    /\ \A c, d \in Cores :
          Pending(c) /\ Pending(d) /\ mem[c] = mem[d] => c = d
    /\ \A c \in Cores : Pending(c) => Block(mem[c], s[c]) \notin given

(* A core that holds the lock gives it back, whatever its call finds.      *)
LockIsReleased == lock = 1 ~> lock = 0

(* The call a core is in: the refinement mapping.                          *)
Call(c) == [op |-> op[c], mem |-> mem[c], s |-> s[c], done |-> pc[c] = "unlock"]

B == INSTANCE BumpArea WITH
        top <- bootstrap_alloc_pos,
        call <- [c \in Cores |-> Call(c)],
        BlockSizes <- {Rounded(n) : n \in Requests}

(* Every call of bootstrap_malloc and bootstrap_free takes effect at one   *)
(* instant, as if the cores had called one after the other.                *)
CallsAreAtomic == B!Spec

=============================================================================
