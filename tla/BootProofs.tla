----------------------------- MODULE BootProofs -----------------------------
(***************************************************************************)
(* What the boot code guarantees: bootstrap_alloc.c for every number of    *)
(* cores, every area and every sequence of calls; the way of the memory    *)
(* map through bootinfo.c and pagealloc_init for every map.                *)
(***************************************************************************)
EXTENDS BootstrapAlloc, BootMap, TLAPS

-----------------------------------------------------------------------------
(* The bootstrap allocator.                                                *)

LEMMA RoundedIsPositive == \A n \in Requests : Rounded(n) \in Nat \ {0}
  <1>1. SUFFICES ASSUME NEW n \in Nat \ {0} PROVE Rounded(n) \in Nat \ {0}
    BY BootstrapAssumption
  <1>2. n \div Align \in Nat
    BY BootstrapAssumption
  <1>3. \A q \in Nat, a \in Nat \ {0} : (q + 1) * a \in Nat \ {0}
    OBVIOUS
  <1> QED BY <1>2, <1>3, BootstrapAssumption DEF Rounded

-----------------------------------------------------------------------------
(* The inductive invariant.                                                *)

Inside(c) == pc[c] \in {"read", "write", "unlock"}

(* The lock is taken while a core is inside, and there is one at most.     *)
OneInside ==
    /\ \A c \in Cores : Inside(c) => lock = 1
    /\ \A c, d \in Cores : Inside(c) /\ Inside(d) => c = d

(* What a core has read is still true when it writes.                      *)
SeenIsCurrent == \A c \in Cores : pc[c] = "write" => seen[c] = bootstrap_alloc_pos

(* The locals of a core fit the place it has reached.                      *)
LocalsFit ==
    \A c \in Cores :
        /\ pc[c] = "idle" <=> op[c] = "none"
        /\ pc[c] = "idle" => mem[c] = NULL /\ s[c] = 0
        /\ pc[c] # "idle" => s[c] > 0
        /\ op[c] = "malloc" /\ pc[c] # "unlock" => mem[c] = NULL
        /\ op[c] = "free" => mem[c] # NULL

(* Two blocks that share no byte.                                          *)
Apart(a, n, b, m) == a + n <= b \/ b + m <= a

BlocksOrdered ==
    /\ bootstrap_alloc_pos = 0 \/ bootstrap_alloc_pos < Area
    /\ \A b \in given : b.mem + b.s <= bootstrap_alloc_pos
    /\ \A b, d \in given : b # d => Apart(b.mem, b.s, d.mem, d.s)
    /\ \A c \in Cores : Pending(c) => mem[c] + s[c] <= bootstrap_alloc_pos
    /\ \A c \in Cores, b \in given :
          Pending(c) => Apart(mem[c], s[c], b.mem, b.s)
    /\ \A c, d \in Cores :
          Pending(c) /\ Pending(d) /\ c # d => Apart(mem[c], s[c], mem[d], s[d])

Inv == TypeOK /\ OneInside /\ SeenIsCurrent /\ LocalsFit /\ BlocksOrdered

LEMMA InitInv == Init => Inv
  <1> SUFFICES ASSUME Init PROVE Inv
    OBVIOUS
  <1>1. TypeOK
    BY BootstrapAssumption DEF Init, TypeOK, NULL
  <1>2. OneInside /\ SeenIsCurrent /\ LocalsFit
    BY DEF Init, OneInside, Inside, SeenIsCurrent, LocalsFit
  <1>3. BlocksOrdered
    BY DEF Init, BlocksOrdered, Pending
  <1> QED BY <1>1, <1>2, <1>3 DEF Inv

-----------------------------------------------------------------------------
(* One lemma per action.                                                   *)

LEMMA MallocCallInv ==
    ASSUME Inv, NEW c \in Cores, NEW n \in Requests, bootstrap_malloc(c, n)
    PROVE  Inv'
  <1> USE DEF bootstrap_malloc, Calls, GoTo
  <1>0. Rounded(n) \in Nat \ {0} /\ NULL \in Nat
    BY RoundedIsPositive, BootstrapAssumption DEF NULL
  <1>1. TypeOK'
    BY <1>0 DEF Inv, TypeOK
  <1>2. OneInside' /\ SeenIsCurrent'
    BY DEF Inv, TypeOK, OneInside, Inside, SeenIsCurrent
  <1>3. LocalsFit'
    BY <1>0 DEF Inv, TypeOK, LocalsFit
  <1>4. \A d \in Cores : Pending(d)' => Pending(d) /\ d # c
    BY DEF Inv, TypeOK, LocalsFit, Pending
  <1>5. BlocksOrdered'
    BY <1>4 DEF Inv, TypeOK, BlocksOrdered, Apart
  <1> QED BY <1>1, <1>2, <1>3, <1>5 DEF Inv

LEMMA FreeCallInv ==
    ASSUME Inv, NEW c \in Cores, NEW n \in Requests, NEW b \in given,
           bootstrap_free(c, b, n)
    PROVE  Inv'
  <1> USE DEF bootstrap_free, Calls, GoTo
  <1>0. Rounded(n) = b.s /\ b.mem \in Nat /\ b.s \in Nat \ {0}
    BY DEF Inv, TypeOK
  <1>1. TypeOK'
    BY <1>0 DEF Inv, TypeOK
  <1>2. OneInside' /\ SeenIsCurrent'
    BY DEF Inv, TypeOK, OneInside, Inside, SeenIsCurrent
  <1>3. b.mem # NULL
    BY <1>0, BootstrapAssumption DEF Inv, TypeOK, BlocksOrdered, NULL
  <1>4. LocalsFit'
    BY <1>0, <1>3 DEF Inv, TypeOK, LocalsFit
  <1>5. \A d \in Cores : d # c => /\ Pending(d)' => Pending(d)
                                  /\ mem'[d] = mem[d] /\ s'[d] = s[d]
    BY DEF Inv, TypeOK, Pending
  <1>6. mem'[c] = b.mem /\ s'[c] = b.s
    BY <1>0 DEF Inv, TypeOK
  <1>7. given' \subseteq given /\ b \notin given'
    OBVIOUS
  <1>8. /\ \A d \in given' : Apart(b.mem, b.s, d.mem, d.s)
        /\ \A d \in Cores : Pending(d) => Apart(mem[d], s[d], b.mem, b.s)
        /\ b.mem + b.s <= bootstrap_alloc_pos
    BY <1>7 DEF Inv, BlocksOrdered
  <1>9. BlocksOrdered'
    BY <1>0, <1>5, <1>6, <1>7, <1>8 DEF Inv, TypeOK, BlocksOrdered, Apart
  <1> QED BY <1>1, <1>2, <1>4, <1>9 DEF Inv

LEMMA LockInv ==
    ASSUME Inv, NEW c \in Cores, Lock(c)
    PROVE  Inv'
  <1> USE DEF Lock, TestAndSet, Spin, GoTo
  <1>1. TypeOK'
    BY DEF Inv, TypeOK
  <1>2. OneInside' /\ SeenIsCurrent'
    BY DEF Inv, TypeOK, OneInside, Inside, SeenIsCurrent
  <1>3. LocalsFit'
    BY DEF Inv, TypeOK, LocalsFit
  <1>4. \A d \in Cores : Pending(d)' => Pending(d)
    BY DEF Inv, TypeOK, Pending
  <1>5. BlocksOrdered'
    BY <1>4 DEF Inv, TypeOK, BlocksOrdered
  <1> QED BY <1>1, <1>2, <1>3, <1>5 DEF Inv

LEMMA ReadPosInv ==
    ASSUME Inv, NEW c \in Cores, ReadPos(c)
    PROVE  Inv'
  <1> USE DEF ReadPos, GoTo
  <1>1. TypeOK'
    BY DEF Inv, TypeOK
  <1>2. OneInside' /\ SeenIsCurrent'
    BY DEF Inv, TypeOK, OneInside, Inside, SeenIsCurrent
  <1>3. LocalsFit'
    BY DEF Inv, TypeOK, LocalsFit
  <1>4. \A d \in Cores : Pending(d)' => Pending(d)
    BY DEF Inv, TypeOK, Pending
  <1>5. BlocksOrdered'
    BY <1>4 DEF Inv, TypeOK, BlocksOrdered
  <1> QED BY <1>1, <1>2, <1>3, <1>5 DEF Inv

(* The block that malloc takes starts where all the others end.            *)
LEMMA TakeInv ==
    ASSUME Inv, NEW c \in Cores, WritePos(c), Take(c)
    PROVE  Inv'
  <1> USE DEF WritePos, Take, GoTo
  <1>0. seen[c] = bootstrap_alloc_pos /\ mem[c] = NULL /\ s[c] \in Nat \ {0}
        /\ Area \in Nat /\ bootstrap_alloc_pos \in Nat
    BY BootstrapAssumption DEF Inv, TypeOK, SeenIsCurrent, LocalsFit
  <1>1. TypeOK'
    BY <1>0 DEF Inv, TypeOK
  <1>2. OneInside' /\ SeenIsCurrent'
    BY DEF Inv, TypeOK, OneInside, Inside, SeenIsCurrent
  <1>3. LocalsFit'
    BY <1>0 DEF Inv, TypeOK, LocalsFit, NULL
  <1>4. \A d \in Cores : d # c => /\ Pending(d)' => Pending(d)
                                  /\ mem'[d] = mem[d] /\ s'[d] = s[d]
    BY DEF Inv, TypeOK, Pending
  <1>5. \/ /\ mem'[c] = bootstrap_alloc_pos /\ s'[c] = s[c]
           /\ bootstrap_alloc_pos' = bootstrap_alloc_pos + s[c]
           /\ bootstrap_alloc_pos' < Area
        \/ ~Pending(c)' /\ bootstrap_alloc_pos' = bootstrap_alloc_pos
    BY <1>0 DEF Inv, TypeOK, Pending
  <1>6. BlocksOrdered'
    BY <1>0, <1>4, <1>5 DEF Inv, TypeOK, BlocksOrdered, Apart
  <1> QED BY <1>1, <1>2, <1>3, <1>6 DEF Inv

(* The block taken back is the last one: the others end where it starts.   *)
LEMMA PutBackInv ==
    ASSUME Inv, NEW c \in Cores, WritePos(c), PutBack(c)
    PROVE  Inv'
  <1> USE DEF WritePos, PutBack, IsLastBlock, GoTo
  <1>0. seen[c] = bootstrap_alloc_pos /\ mem[c] # NULL /\ s[c] \in Nat \ {0}
        /\ bootstrap_alloc_pos \in Nat /\ mem[c] \in Nat
    BY DEF Inv, TypeOK, SeenIsCurrent, LocalsFit
  <1>1. TypeOK'
    BY <1>0 DEF Inv, TypeOK
  <1>2. OneInside' /\ SeenIsCurrent'
    BY DEF Inv, TypeOK, OneInside, Inside, SeenIsCurrent
  <1>3. LocalsFit'
    BY <1>0 DEF Inv, TypeOK, LocalsFit
  <1>4. \A d \in Cores : Pending(d)' => /\ d # c
                                        /\ Pending(d)
                                        /\ mem'[d] = mem[d] /\ s'[d] = s[d]
    BY DEF Inv, TypeOK, Pending
  <1>5. Pending(c)
    BY <1>0 DEF Pending
  <1>6. \/ /\ bootstrap_alloc_pos = mem[c] + s[c]
           /\ bootstrap_alloc_pos' = mem[c]
        \/ bootstrap_alloc_pos' = bootstrap_alloc_pos
    BY <1>0
  <1>7. \A b \in given : b.mem + b.s <= bootstrap_alloc_pos'
    BY <1>0, <1>5, <1>6 DEF Inv, TypeOK, BlocksOrdered, Apart
  <1>8. \A d \in Cores :
            d # c /\ Pending(d) => mem[d] + s[d] <= bootstrap_alloc_pos'
    <2>1. \A d \in Cores : Pending(d) => mem[d] \in Nat /\ s[d] \in Nat \ {0}
      BY DEF Inv, TypeOK, LocalsFit, Pending
    <2> QED BY <1>0, <1>5, <1>6, <2>1 DEF Inv, BlocksOrdered, Apart
  <1>9. bootstrap_alloc_pos' = 0 \/ bootstrap_alloc_pos' < Area
    BY <1>0, <1>6, BootstrapAssumption DEF Inv, BlocksOrdered
  <1>10. BlocksOrdered'
    BY <1>4, <1>7, <1>8, <1>9 DEF Inv, BlocksOrdered
  <1> QED BY <1>1, <1>2, <1>3, <1>10 DEF Inv

LEMMA ReturnInv ==
    ASSUME Inv, NEW c \in Cores, Return(c)
    PROVE  Inv'
  <1> USE DEF Return, GoTo, local_spinlock_unlock, Block
  <1>0. NULL \in Nat /\ s[c] \in Nat \ {0}
    BY BootstrapAssumption DEF NULL, Inv, TypeOK, LocalsFit
  <1>1. TypeOK'
    BY <1>0 DEF Inv, TypeOK
  <1>2. OneInside' /\ SeenIsCurrent'
    BY DEF Inv, TypeOK, OneInside, Inside, SeenIsCurrent
  <1>3. LocalsFit'
    BY DEF Inv, TypeOK, LocalsFit
  <1>4. \A d \in Cores : Pending(d)' => /\ d # c
                                        /\ Pending(d)
                                        /\ mem'[d] = mem[d] /\ s'[d] = s[d]
    BY DEF Inv, TypeOK, Pending
  <1>5. \/ given' = given
        \/ Pending(c) /\ given' = given \cup {[mem |-> mem[c], s |-> s[c]]}
    BY DEF Pending
  <1>6. BlocksOrdered'
    BY <1>0, <1>4, <1>5 DEF Inv, TypeOK, BlocksOrdered, Apart
  <1> QED BY <1>1, <1>2, <1>3, <1>6 DEF Inv

LEMMA NextInv == Inv /\ [Next]_vars => Inv'
  <1> SUFFICES ASSUME Inv, [Next]_vars PROVE Inv'
    OBVIOUS
  <1>1. CASE Next
    <2>1. PICK c \in Cores :
              \/ \E n \in Requests : \/ bootstrap_malloc(c, n)
                                     \/ \E b \in given : bootstrap_free(c, b, n)
              \/ Step(c)
      BY <1>1 DEF Next
    <2> QED BY <2>1, MallocCallInv, FreeCallInv, LockInv, ReadPosInv,
               TakeInv, PutBackInv, ReturnInv DEF Step, WritePos
  <1>2. CASE UNCHANGED vars
    BY <1>2 DEF vars, Inv, TypeOK, OneInside, Inside, SeenIsCurrent,
                LocalsFit, BlocksOrdered, Pending
  <1> QED BY <1>1, <1>2

LEMMA Invariance == Spec => []Inv
  BY InitInv, NextInv, PTL DEF Spec

-----------------------------------------------------------------------------

(* The state variables of the allocator keep their types.                  *)
THEOREM TypeCorrect == Spec => []TypeOK
  BY Invariance, PTL DEF Inv

LEMMA OrderedIsApart == Inv => BlocksApart
  <1> SUFFICES ASSUME Inv PROVE BlocksApart
    OBVIOUS
  <1>1. \A c \in Cores : Pending(c) => mem[c] \in Nat /\ s[c] \in Nat \ {0}
    BY DEF Inv, TypeOK, LocalsFit, Pending
  <1>2. \A b \in InUse : b.mem \in Nat /\ b.s \in Nat \ {0}
    BY <1>1 DEF Inv, TypeOK, InUse, Block
  <1>3. \A b \in InUse : b.mem + b.s <= bootstrap_alloc_pos
    BY DEF Inv, BlocksOrdered, InUse, Block
  <1>4. \A b, d \in InUse : b # d => Apart(b.mem, b.s, d.mem, d.s)
    BY <1>1 DEF Inv, TypeOK, BlocksOrdered, InUse, Block, Apart
  <1>5. \A b, d \in InUse : b # d => Bytes(b) \cap Bytes(d) = {}
    BY <1>2, <1>4 DEF Bytes, Apart
  <1>6. \A c, d \in Cores :
            Pending(c) /\ Pending(d) /\ mem[c] = mem[d] => c = d
    BY <1>1 DEF Inv, BlocksOrdered, Apart
  <1>7. \A c \in Cores : Pending(c) => Block(mem[c], s[c]) \notin given
    BY <1>1 DEF Inv, BlocksOrdered, Apart, Block
  <1> QED BY <1>3, <1>5, <1>6, <1>7 DEF BlocksApart, Inv, BlocksOrdered

(* No byte of the area ever belongs to two blocks, however many cores call *)
(* bootstrap_malloc and bootstrap_free at the same time.                   *)
THEOREM BlocksNeverOverlap == Spec => []BlocksApart
  BY Invariance, OrderedIsApart, PTL

-----------------------------------------------------------------------------
(* The calls take effect one at a time.                                    *)

CallOf == [c \in Cores |-> Call(c)]

LEMMA RefinedInit == Init => B!Init
  BY DEF Init, B!Init, B!NoCall, Call

LEMMA OneCallChanges ==
    ASSUME NEW c \in Cores, NEW r, Call(c)' = r,
           \A d \in Cores : d # c => Call(d)' = Call(d)
    PROVE  CallOf' = [CallOf EXCEPT ![c] = r]
  BY DEF CallOf

LEMMA MallocCallRefines ==
    ASSUME Inv, NEW c \in Cores, NEW n \in Requests, bootstrap_malloc(c, n)
    PROVE  B!InvokeMalloc(c)
  <1> USE DEF bootstrap_malloc, Calls, GoTo
  <1>1. Call(c) = B!NoCall
    BY DEF Inv, LocalsFit, Call, B!NoCall
  <1>2. Call(c)' = [op |-> "malloc", mem |-> NULL, s |-> Rounded(n), done |-> FALSE]
    BY DEF Inv, TypeOK, Call
  <1>3. \A d \in Cores : d # c => Call(d)' = Call(d)
    BY DEF Inv, TypeOK, Call
  <1>4. B!Invoke(c, "malloc", NULL, Rounded(n))
    BY <1>1, <1>2, <1>3, OneCallChanges DEF B!Invoke, CallOf
  <1> QED BY <1>4 DEF B!InvokeMalloc

LEMMA FreeCallRefines ==
    ASSUME Inv, NEW c \in Cores, NEW n \in Requests, NEW b \in given,
           bootstrap_free(c, b, n)
    PROVE  B!InvokeFree(c)
  <1> USE DEF bootstrap_free, Calls, GoTo
  <1>1. Call(c) = B!NoCall
    BY DEF Inv, LocalsFit, Call, B!NoCall
  <1>2. Call(c)' = [op |-> "free", mem |-> b.mem, s |-> b.s, done |-> FALSE]
    BY DEF Inv, TypeOK, Call
  <1>3. \A d \in Cores : d # c => Call(d)' = Call(d)
    BY DEF Inv, TypeOK, Call
  <1> QED BY <1>1, <1>2, <1>3, OneCallChanges
          DEF B!InvokeFree, B!Invoke, CallOf

LEMMA LockRefines ==
    ASSUME Inv, NEW c \in Cores, Lock(c) \/ ReadPos(c)
    PROVE  UNCHANGED B!vars
  <1>1. \A d \in Cores : Call(d)' = Call(d)
    BY DEF Inv, TypeOK, Call, Lock, TestAndSet, Spin, ReadPos, GoTo
  <1> QED BY <1>1 DEF B!vars, Lock, ReadPos

LEMMA TakeRefines ==
    ASSUME Inv, NEW c \in Cores, WritePos(c), Take(c)
    PROVE  B!Malloc(c)
  <1> USE DEF WritePos, Take, GoTo
  <1>1. seen[c] = bootstrap_alloc_pos /\ mem[c] = NULL
    BY DEF Inv, SeenIsCurrent, LocalsFit
  <1>2. /\ CallOf[c].op = "malloc" /\ CallOf[c].s = s[c]
        /\ ~CallOf[c].done
        /\ Call(c)' = [op |-> "malloc", mem |-> mem'[c], s |-> s[c], done |-> TRUE]
    BY DEF Inv, TypeOK, CallOf, Call
  <1>3. \A d \in Cores : d # c => Call(d)' = Call(d)
    BY DEF Inv, TypeOK, Call
  <1>4. CallOf' = [CallOf EXCEPT ![c] =
            [op |-> "malloc", mem |-> mem'[c], s |-> s[c], done |-> TRUE]]
    BY <1>2, <1>3, OneCallChanges
  <1>5. \/ /\ bootstrap_alloc_pos + s[c] < Area
           /\ bootstrap_alloc_pos' = bootstrap_alloc_pos + s[c]
           /\ mem'[c] = bootstrap_alloc_pos
        \/ /\ bootstrap_alloc_pos + s[c] >= Area
           /\ bootstrap_alloc_pos' = bootstrap_alloc_pos
           /\ mem'[c] = NULL
    BY <1>1 DEF Inv, TypeOK
  <1> QED BY <1>2, <1>4, <1>5 DEF B!Malloc, B!Effect, CallOf

LEMMA PutBackRefines ==
    ASSUME Inv, NEW c \in Cores, WritePos(c), PutBack(c)
    PROVE  B!Free(c)
  <1> USE DEF WritePos, PutBack, GoTo
  <1>1. /\ seen[c] = bootstrap_alloc_pos
        /\ bootstrap_alloc_pos \in Nat /\ mem[c] \in Nat /\ s[c] \in Nat
    BY DEF Inv, TypeOK, SeenIsCurrent
  <1>2. /\ CallOf[c].op = "free" /\ CallOf[c].s = s[c] /\ CallOf[c].mem = mem[c]
        /\ ~CallOf[c].done
        /\ Call(c)' = [op |-> "free", mem |-> mem[c], s |-> s[c], done |-> TRUE]
    BY DEF Inv, TypeOK, CallOf, Call
  <1>3. \A d \in Cores : d # c => Call(d)' = Call(d)
    BY DEF Inv, TypeOK, Call
  <1>4. CallOf' = [CallOf EXCEPT ![c] =
            [op |-> "free", mem |-> mem[c], s |-> s[c], done |-> TRUE]]
    BY <1>2, <1>3, OneCallChanges
  <1>5. CASE IsLastBlock(c)
    <2>1. /\ bootstrap_alloc_pos > s[c] /\ bootstrap_alloc_pos = mem[c] + s[c]
          /\ bootstrap_alloc_pos' = mem[c]
      BY <1>1, <1>5 DEF IsLastBlock
    <2> QED BY <1>2, <1>4, <2>1 DEF B!Free, B!Effect, CallOf
  <1>6. CASE ~IsLastBlock(c)
    <2>1. /\ ~(bootstrap_alloc_pos > s[c] /\ bootstrap_alloc_pos = mem[c] + s[c])
          /\ bootstrap_alloc_pos' = bootstrap_alloc_pos
      BY <1>1, <1>6 DEF IsLastBlock
    <2> QED BY <1>2, <1>4, <2>1 DEF B!Free, B!Effect, CallOf
  <1> QED BY <1>5, <1>6

LEMMA ReturnRefines ==
    ASSUME Inv, NEW c \in Cores, Return(c)
    PROVE  B!Return(c)
  <1> USE DEF Return, GoTo
  <1>1. Call(c).done /\ Call(c).op = op[c] /\ Call(c).mem = mem[c]
        /\ Call(c).s = s[c]
    BY DEF Call
  <1>2. Call(c)' = B!NoCall
    BY DEF Inv, TypeOK, Call, B!NoCall
  <1>3. \A d \in Cores : d # c => Call(d)' = Call(d)
    BY DEF Inv, TypeOK, Call
  <1> QED BY <1>1, <1>2, <1>3, OneCallChanges DEF B!Return, Block, CallOf

LEMMA RefinedStep == Inv /\ [Next]_vars => [B!Next]_(B!vars)
  <1> SUFFICES ASSUME Inv, [Next]_vars PROVE [B!Next]_(B!vars)
    OBVIOUS
  <1>1. CASE Next
    <2>1. PICK c \in Cores :
              \/ \E n \in Requests : \/ bootstrap_malloc(c, n)
                                     \/ \E b \in given : bootstrap_free(c, b, n)
              \/ Step(c)
      BY <1>1 DEF Next
    <2> QED BY <2>1, MallocCallRefines, FreeCallRefines, LockRefines, TakeRefines,
               PutBackRefines, ReturnRefines DEF Step, WritePos, B!Next
  <1>2. CASE UNCHANGED vars
    BY <1>2 DEF vars, B!vars, Call
  <1> QED BY <1>1, <1>2

(* bootstrap_malloc and bootstrap_free are linearizable: for every number  *)
(* of cores, each call takes effect at one instant, as in BumpArea.        *)
THEOREM CallsAreLinearizable == Spec => CallsAreAtomic
  BY Invariance, RefinedInit, RefinedStep, PTL
  DEF Spec, CallsAreAtomic, B!Spec

-----------------------------------------------------------------------------
(* The memory map.                                                         *)

(* The constants when there is something to reserve.                       *)
LEMMA MapConstants ==
    ASSUME KernelEnd > 0
    PROVE  /\ Word \in Nat \ {0} /\ Limit \in Nat \ {0} /\ Word >= 2 * Limit
           /\ PageSize \in Nat \ {0} /\ PageSize <= Limit
           /\ KernelEnd \in Nat /\ LowLimit \in Nat /\ LowLimit <= KernelEnd
           /\ KernelStart = LowLimit /\ KernelEnd <= Limit
  <1>1. /\ Word \in Nat /\ Limit \in Nat /\ Word >= 2 * Limit
        /\ PageSize \in Nat \ {0} /\ Limit % PageSize = 0 /\ LowLimit \in Nat
        /\ KernelStart = LowLimit /\ KernelEnd \in KernelStart .. Limit
    BY BootMapAssumption
  <1>2. Limit > 0 /\ KernelEnd \in Nat
    BY <1>1
  <1>3. PageSize <= Limit
    <2>1. Limit < PageSize => Limit % PageSize = Limit
      BY <1>1
    <2> QED BY <1>1, <1>2, <2>1
  <1> QED BY <1>1, <1>2, <1>3

(* What % Word does to a sum or difference of addresses.                   *)
LEMMA WordWraps ==
    ASSUME Word \in Nat \ {0}, NEW n \in Int, 0 - Word <= n, n < Word
    PROVE  n % Word = IF n >= 0 THEN n ELSE n + Word
  <1>1. CASE n >= 0
    BY <1>1
  <1>2. CASE n < 0
    BY <1>2
  <1> QED BY <1>1, <1>2

(* What is stored of an entry starts where the kernel ends.                *)
Stored == [addr : {KernelEnd}, len : Nat, type : {"available", "other"}]

LEMMA CutEntry ==
    ASSUME KernelEnd > 0, NEW e \in Entry, e.addr + e.len <= Limit,
           NEW to \in Nat, to <= Limit, Cut(e, to).len # 0
    PROVE  /\ Cut(e, to) \in Entry /\ Cut(e, to).addr = to
           /\ Cut(e, to).addr + Cut(e, to).len <= Limit
  <1>1. /\ Word \in Nat \ {0} /\ Limit \in Nat \ {0} /\ Word >= 2 * Limit
        /\ e.addr \in Nat /\ e.len \in Nat
    BY MapConstants DEF Entry
  <1>2. PICK diff \in Int : diff = (to - e.addr) % Word
    BY <1>1
  <1>3. diff = IF to >= e.addr THEN to - e.addr ELSE to - e.addr + Word
    <2>1. PICK n \in Int : n = to - e.addr
      BY <1>1
    <2>2. n % Word = IF n >= 0 THEN n ELSE n + Word
      BY <1>1, <2>1, WordWraps
    <2> QED BY <1>1, <1>2, <2>1, <2>2
  <1>4. diff < e.len
    <2>1. Nothing(e).len = 0
      BY DEF Nothing, Entry
    <2>2. diff >= e.len => Cut(e, to) = Nothing(e)
      BY <1>2 DEF Cut
    <2> QED BY <1>1, <2>1, <2>2
  <1>5. diff = to - e.addr /\ e.addr + diff = to
    BY <1>1, <1>3, <1>4
  <1>6. to % Word = to
    BY <1>1, WordWraps
  <1>7. Cut(e, to) = [e EXCEPT !.addr = to, !.len = e.len - diff]
    <2>1. Cut(e, to) = [e EXCEPT !.addr = (e.addr + diff) % Word, !.len = e.len - diff]
      <3>1. ~(diff >= e.len)
        BY <1>1, <1>4
      <3> QED BY <1>2, <3>1 DEF Cut, Entry
    <2> QED BY <1>5, <1>6, <2>1
  <1>8. e.len - diff \in Nat /\ to + (e.len - diff) <= Limit
    BY <1>1, <1>4, <1>5
  <1> QED BY <1>7, <1>8 DEF Entry

LEMMA StoredEntry ==
    ASSUME KernelEnd > 0, NEW e \in Entry, e.addr + e.len <= Limit,
           AboveLow(e).len # 0, AboveKernel(AboveLow(e)).len # 0
    PROVE  AboveKernel(AboveLow(e)) \in Stored
  <1>1. PICK low : low = AboveLow(e)
    OBVIOUS
  <1>2. low \in Entry /\ low.addr >= LowLimit /\ low.addr + low.len <= Limit
    <2>1. e.addr \in Nat
      BY DEF Entry
    <2>2. CASE e.addr < LowLimit
      BY <1>1, <2>2, CutEntry, MapConstants DEF AboveLow
    <2>3. CASE ~(e.addr < LowLimit)
      BY <1>1, <2>1, <2>3, MapConstants DEF AboveLow
    <2> QED BY <2>2, <2>3
  <1>3. AboveKernel(low) = Cut(low, KernelEnd)
    BY <1>2, MapConstants DEF AboveKernel
  <1>4. AboveKernel(low) \in Entry /\ AboveKernel(low).addr = KernelEnd
    BY <1>1, <1>2, <1>3, CutEntry, MapConstants
  <1> QED BY <1>1, <1>4 DEF Entry, Stored

(* What is released of it starts on the first page behind the kernel.      *)
Behind == [addr : {a \in Nat : a >= KernelEnd}, len : Int]

LEMMA ReleasedRange ==
    ASSUME KernelEnd > 0, NEW e \in Stored
    PROVE  ToPages(e) \in Behind
  <1>1. /\ Word \in Nat \ {0} /\ Limit \in Nat \ {0} /\ Word >= 2 * Limit
        /\ PageSize \in Nat \ {0} /\ PageSize <= Limit
        /\ KernelEnd \in Nat /\ KernelEnd <= Limit
        /\ e.addr = KernelEnd /\ e.len \in Nat
    BY MapConstants DEF Stored
  <1>2. PICK n \in Nat : n = KernelEnd + (PageSize - 1) /\ n < Word
    BY <1>1
  <1>3. n % Word = n
    BY <1>1, <1>2, WordWraps
  <1>4. n % PageSize \in 0 .. PageSize - 1
    BY <1>1
  <1>5. roundUp_po2(e.addr, PageSize) = n - (n % PageSize)
    BY <1>1, <1>2, <1>3 DEF roundUp_po2
  <1>6. n - (n % PageSize) \in Nat /\ n - (n % PageSize) >= KernelEnd
    BY <1>1, <1>2, <1>4
  <1>7. e.len - (e.len % PageSize) \in Int
    BY <1>1
  <1> QED BY <1>5, <1>6, <1>7 DEF ToPages, Behind

BootInv ==
    /\ mmap \in Maps
    /\ mmap_e \in Nat \ {0} /\ i \in Nat \ {0}
    /\ map \in Seq(Stored)
    /\ released \in Seq(Behind)

LEMMA BootStart == BootInit => BootInv
  BY DEF BootInit, BootInv

LEMMA BootStep ==
    ASSUME KernelEnd > 0, BootInv, [BootNext]_bootVars
    PROVE  BootInv'
  <1>1. CASE Parse
    <2>1. mmap_e \in DOMAIN mmap
      <3>1. mmap \in Seq(Entry)
        BY BootMapAssumption DEF BootInv
      <3> QED BY <1>1, <3>1 DEF Parse, BootInv
    <2>2. PICK e \in Entry : e = mmap[mmap_e] /\ e.addr + e.len <= Limit
      <3>1. mmap \in Seq(Entry) /\ mmap[mmap_e].addr + mmap[mmap_e].len <= Limit
        BY <2>1, BootMapAssumption DEF BootInv
      <3> QED BY <2>1, <3>1
    <2>3. map' = map \/ (\E x \in Stored : map' = Append(map, x))
      BY <1>1, <2>2, StoredEntry DEF Parse
    <2>4. map' \in Seq(Stored)
      BY <2>3 DEF BootInv
    <2> QED BY <1>1, <2>4 DEF Parse, BootInv
  <1>2. CASE Release
    <2>1. map[i] \in Stored
      BY <1>2 DEF Release, BootInv
    <2>2. released' = released \/ (\E x \in Behind : released' = Append(released, x))
      BY <1>2, <2>1, ReleasedRange DEF Release
    <2>3. released' \in Seq(Behind)
      BY <2>2 DEF BootInv
    <2> QED BY <1>2, <2>3 DEF Release, BootInv
  <1>3. CASE UNCHANGED bootVars
    BY <1>3 DEF bootVars, BootInv
  <1> QED BY <1>1, <1>2, <1>3 DEF BootNext

(* Nothing below 2MB and no byte of the kernel reaches the allocator,      *)
(* whatever the map that the boot loader reports.                          *)
THEOREM ReservedStaysReserved == BootSpec => []ReservedNeverReleased
  <1>1. CASE KernelEnd > 0
    <2>1. BootInv => ReservedNeverReleased
      <3> SUFFICES ASSUME BootInv, NEW k \in DOMAIN released
                   PROVE  Span(released[k]) \cap (0 .. KernelEnd - 1) = {}
        BY DEF ReservedNeverReleased
      <3>1. released[k] \in Behind
        BY DEF BootInv
      <3> QED BY <1>1, <3>1, MapConstants DEF Behind, Span
    <2>2. BootInv /\ [BootNext]_bootVars => BootInv'
      BY <1>1, BootStep
    <2> QED BY <2>1, <2>2, BootStart, PTL DEF BootSpec
  <1>2. CASE ~(KernelEnd > 0)
    <2>1. 0 .. KernelEnd - 1 = {}
      BY <1>2, BootMapAssumption
    <2>2. ReservedNeverReleased
      BY <2>1 DEF ReservedNeverReleased
    <2> QED BY <2>2, PTL
  <1> QED BY <1>1, <1>2
=============================================================================
