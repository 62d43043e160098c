-------------------------------- MODULE Idt --------------------------------
(***************************************************************************)
(* The interrupt vectors of kernel/src/interrupts/idt.c: their handlers,   *)
(* their reservations, and the dispatch of interrupts on several cores.    *)
(*                                                                         *)
(* One lock, interrupt_alloc_lock, protects both tables.  A call takes and *)
(* releases it once, with interrupts off, and is one step from there; the  *)
(* dispatch holds it while the handlers run.                               *)
(*                                                                         *)
(* A core runs its thread, and on top of it the frames of the interrupts   *)
(* and exceptions it is in.  Every gate is an interrupt gate and every     *)
(* call begins with cli(), so that an interrupt meets a thread outside of  *)
(* a call, or one that has panicked: PANIC enters the debug shell for good *)
(* but leaves the flag alone.  An exception may also stop a handler.       *)
(* Non-maskable interrupts are left out.                                   *)
(***************************************************************************)
EXTENDS Naturals, FiniteSets, Sequences

CONSTANTS
    Cores,
    FirstIrq,    \* 32: the vectors below are exceptions
    LastVector,  \* IDT_ENTRY_COUNT - 1
    SlotCount,   \* IDT_HANDLER_CNT
    Handlers,
    NoHandler,   \* NULL
    NoCall,
    Registered,  \* bound: the pairs of a vector and a handler the callers use
    Requests,    \* bound: the calls of interrupt_allocate
    Sources      \* bound: the vectors that occur

Vectors == 0 .. LastVector

(* A request for a fixed block names its base; else the base is a wish, or *)
(* 0 for none.  A fixed or wished block lies in the table.                 *)
RequestType ==
    [op : {"allocate"}, cnt : Nat \ {0}, fixed : BOOLEAN, exclusive : BOOLEAN,
     base : Vectors]

ASSUME IdtAssumption ==
    /\ FirstIrq \in Nat \ {0} /\ LastVector \in Nat /\ FirstIrq <= LastVector
    /\ SlotCount \in Nat \ {0}
    /\ NoHandler \notin Handlers
    /\ Registered \subseteq Vectors \X Handlers
    /\ Requests \subseteq RequestType
    /\ \A r \in Requests : r.base + r.cnt - 1 \in Vectors
    /\ Sources \subseteq Vectors

VARIABLES
    interrupt_funcs,    \* the handlers of every vector, by slot
    interrupt_blocked,  \* the vectors that are reserved
    lock,               \* interrupt_alloc_lock
    call,     \* per core: the call it is in, or NoCall
    frames,   \* per core: the dispatches it is in, innermost last
    shell,    \* per core: the depths (0: the thread) that are in the shell
    service,  \* per core: the vectors its APIC has in service
    uses,     \* history: the grants of a vector, from an exclusive one on
    refused   \* history: the requests that were refused

vars == <<interrupt_funcs, interrupt_blocked, lock, call, frames, shell,
          service, uses, refused>>

Slots == 1 .. SlotCount

TableCalls == [op : {"register", "unregister"}, pair : Registered]

Init ==
    /\ interrupt_funcs = [v \in Vectors |-> [s \in Slots |-> NoHandler]]
    /\ interrupt_blocked = {}
    /\ lock = 0
    /\ call = [c \in Cores |-> NoCall]
    /\ frames = [c \in Cores |-> << >>]
    /\ shell = [c \in Cores |-> {}]
    /\ service = [c \in Cores |-> {}]
    /\ uses = [v \in Vectors |-> 0]
    /\ refused = {}

-----------------------------------------------------------------------------
(* What runs on a core.                                                    *)

Depth(c) == Len(frames[c])

Top(c) == frames[c][Depth(c)]

InPhase(c, p) == Depth(c) > 0 /\ Top(c).phase = p

(* The core executes the kernel's or a handler's own code.                 *)
OwnCode(c) ==
    /\ call[c] = NoCall
    /\ Depth(c) \notin shell[c]
    /\ Depth(c) = 0 \/ InPhase(c, "handler")

BeginCall(c, r) ==
    /\ OwnCode(c)
    /\ call' = [call EXCEPT ![c] = r]
    /\ UNCHANGED <<interrupt_funcs, interrupt_blocked, lock, frames, shell,
                   service, uses, refused>>

-----------------------------------------------------------------------------
(* The calls.                                                              *)

(* Where a loop over S, upwards, stops.                                    *)
IsFirst(i, S) == \A j \in S : i <= j

(* PANIC("Interrupt oversubscribed!") when no slot is free.                *)
interrupt_registerhandler(c) ==
    /\ call[c].op = "register"
    /\ LET v == call[c].pair[1]
           free == {s \in Slots : interrupt_funcs[v][s] = NoHandler}
       IN  \/ /\ \E s \in free :
                    /\ IsFirst(s, free)
                    /\ interrupt_funcs' = [interrupt_funcs EXCEPT ![v][s] = call[c].pair[2]]
              /\ UNCHANGED shell
           \/ /\ free = {}
              /\ shell' = [shell EXCEPT ![c] = @ \cup {Depth(c)}]
              /\ UNCHANGED interrupt_funcs
    /\ call' = [call EXCEPT ![c] = NoCall]
    /\ UNCHANGED <<interrupt_blocked, uses, refused>>

interrupt_unregisterhandler(c) ==
    /\ call[c].op = "unregister"
    /\ LET v == call[c].pair[1] IN
       interrupt_funcs' = [interrupt_funcs EXCEPT ![v] =
           [s \in Slots |-> IF @[s] = call[c].pair[2] THEN NoHandler ELSE @[s]]]
    /\ call' = [call EXCEPT ![c] = NoCall]
    /\ UNCHANGED <<interrupt_blocked, shell, uses, refused>>

Block(base, cnt) == base .. base + cnt - 1

IsFree(b) == b \cap interrupt_blocked = {}

Grant(c, b) ==
    /\ interrupt_blocked' =
           interrupt_blocked \cup (IF call[c].exclusive THEN b ELSE {})
    /\ uses' = [v \in Vectors |->
           IF v \in b /\ (call[c].exclusive \/ uses[v] > 0) THEN uses[v] + 1 ELSE uses[v]]
    /\ call' = [call EXCEPT ![c] = NoCall]
    /\ UNCHANGED refused

Refuse(c) ==
    /\ refused' = refused \cup {call[c]}
    /\ call' = [call EXCEPT ![c] = NoCall]
    /\ UNCHANGED <<interrupt_blocked, uses>>

(* Mutant: only the first vector of the block is looked at.                *)
AllocateFixedFirst(c) ==
    /\ call[c].op = "allocate" /\ call[c].fixed
    /\ LET b == Block(call[c].base, call[c].cnt) IN
       IF IsFree({call[c].base}) THEN Grant(c, b) ELSE Refuse(c)

AllocateFixed(c) ==
    /\ call[c].op = "allocate" /\ call[c].fixed
    /\ LET b == Block(call[c].base, call[c].cnt) IN
       IF IsFree(b) THEN Grant(c, b) ELSE Refuse(c)

WithoutWish(r) == [op |-> "allocate", cnt |-> r.cnt, fixed |-> FALSE,
                   exclusive |-> r.exclusive, base |-> 0]

(* A wish is tried first, under a hold of the lock of its own.             *)
AllocateWish(c) ==
    /\ call[c].op = "allocate" /\ ~call[c].fixed /\ call[c].base # 0
    /\ LET b == Block(call[c].base, call[c].cnt) IN
       \/ IsFree(b) /\ Grant(c, b)
       \/ /\ ~IsFree(b)
          /\ call' = [call EXCEPT ![c] = WithoutWish(@)]
          /\ UNCHANGED <<interrupt_blocked, uses, refused>>

(* Mutant: a run one longer is asked for.                                  *)
FoundLonger(cnt) ==
    {i \in FirstIrq .. LastVector : IsFree(Block(i, cnt + 1)) /\ i + cnt + 1 <= LastVector}

(* The loop tests the length of a run before it looks at vector i <= 255,  *)
(* so the run has ended below it: vector 255 is never found.               *)
Found(cnt) ==
    {i \in FirstIrq .. LastVector : IsFree(Block(i, cnt)) /\ i + cnt <= LastVector}

AllocateSearch(c) ==
    /\ call[c].op = "allocate" /\ ~call[c].fixed /\ call[c].base = 0
    /\ LET found == Found(call[c].cnt) IN
       \/ \E i \in found : IsFirst(i, found) /\ Grant(c, Block(i, call[c].cnt))
       \/ found = {} /\ Refuse(c)

interrupt_allocate(c) ==
    /\ AllocateFixed(c) \/ AllocateWish(c) \/ AllocateSearch(c)
    /\ UNCHANGED <<interrupt_funcs, shell>>

(* A call gets the lock, does its work and releases it.                    *)
PerformCall(c) ==
    /\ call[c] # NoCall
    /\ lock = 0
    /\ \/ interrupt_registerhandler(c)
       \/ interrupt_unregisterhandler(c)
       \/ interrupt_allocate(c)
    /\ UNCHANGED <<lock, frames, service>>

-----------------------------------------------------------------------------
(* idt_mainhandler.                                                        *)

Frame(v, p, s, hs) == [vector |-> v, phase |-> p, slot |-> s, called |-> hs]

NewFrame(v) == Frame(v, "lock", 0, << >>)

Enter(c, p) ==
    LET f == Top(c) IN
    frames' = [frames EXCEPT ![c][Depth(c)] = Frame(f.vector, p, f.slot, f.called)]

(* The APIC of a core delivers an interrupt of a higher priority than      *)
(* those in service.                                                       *)
Interrupt(c, v) ==
    /\ v >= FirstIrq
    /\ \A w \in service[c] : w < v
    /\ Depth(c) = 0 /\ call[c] = NoCall
    /\ frames' = [frames EXCEPT ![c] = Append(@, NewFrame(v))]
    /\ service' = [service EXCEPT ![c] = @ \cup {v}]
    /\ UNCHANGED <<interrupt_funcs, interrupt_blocked, lock, call, shell, uses, refused>>

Exception(c, v) ==
    /\ v < FirstIrq
    /\ OwnCode(c)
    /\ frames' = [frames EXCEPT ![c] = Append(@, NewFrame(v))]
    /\ UNCHANGED <<interrupt_funcs, interrupt_blocked, lock, call, shell, service,
                   uses, refused>>

(* Mutant: the handlers are called without the lock.                       *)
DispatchUnlocked(c) ==
    /\ InPhase(c, "lock")
    /\ Enter(c, "scan")
    /\ UNCHANGED <<interrupt_funcs, interrupt_blocked, lock, call, shell, service,
                   uses, refused>>

DispatchLock(c) ==
    /\ InPhase(c, "lock")
    /\ lock = 0
    /\ lock' = 1
    /\ Enter(c, "scan")
    /\ UNCHANGED <<interrupt_funcs, interrupt_blocked, call, shell, service, uses, refused>>

(* The slots the loop has still to look at.                                *)
Left(c) == {s \in Slots : s > Top(c).slot
                          /\ interrupt_funcs[Top(c).vector][s] # NoHandler}

(* The next handler is called.                                             *)
DispatchHandler(c) ==
    /\ InPhase(c, "scan")
    /\ \E s \in Left(c) :
       /\ IsFirst(s, Left(c))
       /\ LET v == Top(c).vector IN
          frames' = [frames EXCEPT ![c][Depth(c)] =
              Frame(v, "handler", s, Append(Top(c).called, interrupt_funcs[v][s]))]
    /\ UNCHANGED <<interrupt_funcs, interrupt_blocked, lock, call, shell, service,
                   uses, refused>>

(* Handlers are not part of the repository; this one has run to its end.   *)
HandlerReturn(c) ==
    /\ InPhase(c, "handler")
    /\ OwnCode(c)
    /\ Enter(c, "scan")
    /\ UNCHANGED <<interrupt_funcs, interrupt_blocked, lock, call, shell, service,
                   uses, refused>>

(* The end of interrupt v is reported if the APIC has it in service; what  *)
(* it ends is the highest vector in service.                               *)
interrupt_sendeoi(inService, v) ==
    IF v \in inService THEN {w \in inService : \E u \in inService : u > w} ELSE inService

(* PANIC for an exception without a handler; else the end of the interrupt *)
(* is reported, and iretq.                                                 *)
Leave(c) ==
    LET f == Top(c) IN
    \/ /\ f.called = << >> /\ f.vector < FirstIrq
       /\ shell' = [shell EXCEPT ![c] = @ \cup {Depth(c)}]
       /\ Enter(c, "panic")
       /\ UNCHANGED service
    \/ /\ f.called # << >> \/ f.vector >= FirstIrq
       /\ service' = [service EXCEPT ![c] =
              IF f.vector >= FirstIrq THEN interrupt_sendeoi(@, f.vector) ELSE @]
       /\ frames' = [frames EXCEPT ![c] = SubSeq(@, 1, Len(@) - 1)]
       /\ UNCHANGED shell

(* Mutant: the lock is kept when nothing was called.                       *)
DispatchEndKeepsLock(c) ==
    /\ InPhase(c, "scan")
    /\ Left(c) = {}
    /\ lock' = IF Top(c).called = << >> THEN lock ELSE 0
    /\ Leave(c)
    /\ UNCHANGED <<interrupt_funcs, interrupt_blocked, call, uses, refused>>

DispatchEnd(c) ==
    /\ InPhase(c, "scan")
    /\ Left(c) = {}
    /\ lock' = 0
    /\ Leave(c)
    /\ UNCHANGED <<interrupt_funcs, interrupt_blocked, call, uses, refused>>

-----------------------------------------------------------------------------

(* What a core does by itself, once it has begun.                          *)
Proceed(c) ==
    \/ PerformCall(c)
    \/ DispatchLock(c)
    \/ DispatchHandler(c)
    \/ HandlerReturn(c)
    \/ DispatchEnd(c)

Next ==
    \E c \in Cores :
        \/ \E r \in Requests \cup TableCalls : BeginCall(c, r)
        \/ \E v \in Sources : Interrupt(c, v) \/ Exception(c, v)
        \/ Proceed(c)

(* A core keeps executing; a handler that makes no call ends.              *)
Spec == Init /\ [][Next]_vars /\ \A c \in Cores : WF_vars(Proceed(c))

-----------------------------------------------------------------------------

FrameType ==
    [vector : Vectors, phase : {"lock", "scan", "handler", "panic"},
     slot : 0 .. SlotCount, called : Seq(Handlers)]

TypeOK ==
    /\ interrupt_funcs \in [Vectors -> [Slots -> Handlers \cup {NoHandler}]]
    /\ interrupt_blocked \subseteq Vectors
    /\ lock \in {0, 1}
    /\ call \in [Cores -> {NoCall} \cup TableCalls \cup RequestType]
    /\ frames \in [Cores -> Seq(FrameType)]
    /\ shell \in [Cores -> SUBSET Nat]
    /\ service \in [Cores -> SUBSET Vectors]
    /\ uses \in [Vectors -> Nat]
    /\ refused \subseteq RequestType

(* interrupt_flags_exclusive: a vector that was granted exclusively is not *)
(* granted again, to this caller or another, alone or within a block.      *)
ExclusiveIsExclusive == \A v \in Vectors : uses[v] <= 1

(* interrupt_allocate returns -1 only when the fixed block has a reserved  *)
(* vector, or no block of the length is free below the last vector; this   *)
(* stays true, since nothing is ever given back.                           *)
RefusalIsHonest ==
    \A r \in refused :
        IF r.fixed
        THEN \E v \in Block(r.base, r.cnt) : v \in interrupt_blocked
        ELSE \A i \in FirstIrq .. LastVector - r.cnt :
                 \E v \in Block(i, r.cnt) : v \in interrupt_blocked

(* The slots of vector v up to s that hold a handler.                      *)
Taken(v, s) == {t \in 1 .. s : interrupt_funcs[v][t] # NoHandler}

(* A dispatch works on one state of the table: up to the slot it is at, it *)
(* has called the handlers that are registered now, in their order: the    *)
(* one of the n-th slot that holds one was the n-th that it called.  So a  *)
(* handler does not run, and is not called, after                          *)
(* interrupt_unregisterhandler has returned on any core, and no handler is *)
(* passed over.  And a core that is at rest has told its APIC so.          *)
DispatchIsComplete ==
    \A c \in Cores :
        /\ \A n \in DOMAIN frames[c] :
              LET f == frames[c][n] IN
              f.phase \in {"scan", "handler"} =>
                  /\ Len(f.called) = Cardinality(Taken(f.vector, f.slot))
                  /\ \A s \in Taken(f.vector, f.slot) :
                         f.called[Cardinality(Taken(f.vector, s))] =
                             interrupt_funcs[f.vector][s]
        /\ Depth(c) = 0 => service[c] = {}

(* The core holds the lock for a handler, and the handler calls back or    *)
(* has raised an exception.                                                *)
WaitsForItself(c) ==
    \E n \in DOMAIN frames[c] :
        /\ frames[c][n].phase = "handler"
        /\ call[c] # NoCall \/ n < Depth(c)

(* Whoever takes the lock releases it, panics included, unless a handler   *)
(* makes its core wait for itself.                                         *)
LockIsReleased == lock = 1 ~> lock = 0 \/ \E c \in Cores : WaitsForItself(c)

=============================================================================
