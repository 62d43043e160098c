-------------------------- MODULE PageAllocProofs --------------------------
(***************************************************************************)
(* What pagealloc.c guarantees for every memory map, every ring size and   *)
(* every sequence of calls; and, in the second part, that the ring buffer  *)
(* of queue.c, for any caller and any size, is a bounded deque.  The two   *)
(* share the index arithmetic of queue.c and nothing else: no fact about   *)
(* the ring uses an assumption on the allocator.                           *)
(***************************************************************************)
EXTENDS PageAlloc, QueueClient, FiniteSetTheorems, TLAPS

-----------------------------------------------------------------------------
(* The index arithmetic of queue.c.                                        *)

(* What % Size does to the indices the code wraps: once around.            *)
LEMMA WrapOnce ==
    ASSUME NEW k \in Nat, k < 2 * Size
    PROVE  k % Size = IF k < Size THEN k ELSE k - Size
  <1>1. CASE k < Size
    BY <1>1, SizeAssumption
  <1>2. CASE k >= Size
    BY <1>2, SizeAssumption
  <1> QED BY <1>1, <1>2, SizeAssumption

(* The slot after s and the slot before it.                                *)
LEMMA NextSlot ==
    ASSUME NEW s \in Slots
    PROVE  /\ (s + 1) % Size = IF s + 1 < Size THEN s + 1 ELSE 0
           /\ SlotBefore(s) = IF s > 0 THEN s - 1 ELSE Size - 1
  <1>1. (s + 1) % Size = IF s + 1 < Size THEN s + 1 ELSE 0
    BY WrapOnce, SizeAssumption DEF Slots
  <1>2. SlotBefore(s) = IF s > 0 THEN s - 1 ELSE Size - 1
    BY WrapOnce, SizeAssumption DEF Slots, SlotBefore
  <1> QED BY <1>1, <1>2

LEMMA NextSlotIsSlot ==
    ASSUME NEW s \in Slots
    PROVE  (s + 1) % Size \in Slots /\ SlotBefore(s) \in Slots
  BY NextSlot, SizeAssumption DEF Slots

(* The distance between two slots is 0 for an empty ring and Size - 1 for  *)
(* a full one.                                                             *)
LEMMA DistanceRange ==
    ASSUME NEW s \in Slots, NEW t \in Slots
    PROVE  /\ Distance(s, t) \in 0 .. Size - 1
           /\ Distance(s, t) = 0 <=> s = t
           /\ Distance(s, t) = Size - 1 <=> s = (t + 1) % Size
  <1>1. (t + 1) % Size = IF t + 1 < Size THEN t + 1 ELSE 0
    BY NextSlot
  <1> QED BY <1>1, SizeAssumption DEF Distance, Slots

(* How the distance changes when the tail or the head moves by one slot.   *)
LEMMA DistanceSteps ==
    ASSUME NEW s \in Slots, NEW t \in Slots
    PROVE  /\ s # (t + 1) % Size
                => /\ Distance(s, (t + 1) % Size) = Distance(s, t) + 1
                   /\ Distance(SlotBefore(s), t) = Distance(s, t) + 1
           /\ Distance((s + 1) % Size, t) =
                 IF s = t THEN Size - 1 ELSE Distance(s, t) - 1
  <1>1. /\ (t + 1) % Size = IF t + 1 < Size THEN t + 1 ELSE 0
        /\ (s + 1) % Size = IF s + 1 < Size THEN s + 1 ELSE 0
        /\ SlotBefore(s) = IF s > 0 THEN s - 1 ELSE Size - 1
    BY NextSlot
  <1>2. s # (t + 1) % Size => Distance(s, (t + 1) % Size) = Distance(s, t) + 1
    BY <1>1, SizeAssumption DEF Distance, Slots
  <1>3. s # (t + 1) % Size => Distance(SlotBefore(s), t) = Distance(s, t) + 1
    BY <1>1, SizeAssumption DEF Distance, Slots
  <1>4. Distance((s + 1) % Size, t) =
           IF s = t THEN Size - 1 ELSE Distance(s, t) - 1
    BY <1>1, SizeAssumption DEF Distance, Slots
  <1> QED BY <1>2, <1>3, <1>4

-----------------------------------------------------------------------------
(* Entries and runs.                                                       *)

LEMMA ModSlot == \A k \in Nat : k % Size \in Slots
  BY SizeAssumption DEF Slots

LEMMA ZeroIsEntry == Zero \in Entries /\ Pages(Zero) = {0}
  <1>1. Zero = [addr |-> 0, pg |-> 0] /\ MaxEntries \in Nat \ {0}
    BY PageAllocAssumption
  <1>2. 0 .. 0 = {0}
    OBVIOUS
  <1> QED BY <1>1, <1>2 DEF Entries, Pages, Run, GET_PG_CNT

LEMMA BuiltEntry ==
    ASSUME NEW a \in Nat, NEW n \in Int
    PROVE  BUILD_ENTRY(a, n) \in Entries
  <1>1. (n - 1) % MaxEntries \in 0 .. MaxEntries - 1
    BY PageAllocAssumption
  <1> QED BY <1>1 DEF BUILD_ENTRY, Entries

(* BUILD_PAGES loses nothing of a count between 1 and MAX_ENTRIES.         *)
LEMMA BuiltPages ==
    ASSUME NEW a \in Nat, NEW n \in 1 .. MaxEntries
    PROVE  Pages(BUILD_ENTRY(a, n)) = Run(a, n)
  <1>1. (n - 1) % MaxEntries = n - 1
    BY PageAllocAssumption
  <1> QED BY <1>1 DEF BUILD_ENTRY, Pages, Run, GET_PG_CNT

LEMMA EntryPages ==
    ASSUME NEW e \in Entries
    PROVE  /\ e.addr \in Nat
           /\ GET_PG_CNT(e) \in 1 .. MaxEntries
           /\ Pages(e) = Run(e.addr, GET_PG_CNT(e))
           /\ Pages(e) \subseteq Nat
  BY PageAllocAssumption DEF Entries, GET_PG_CNT, Pages, Run

(* A run cut at n has two parts that share no frame.                       *)
LEMMA CutRun ==
    ASSUME NEW a \in Nat, NEW m \in Nat, NEW n \in 0 .. m
    PROVE  /\ Run(a, n) \cup Run(a + n, m - n) = Run(a, m)
           /\ Run(a, n) \cap Run(a + n, m - n) = {}
  BY DEF Run

LEMMA RegionIsRun ==
    ASSUME NEW k \in DOMAIN Regions
    PROVE  /\ Regions[k].addr \in Nat /\ Regions[k].len \in Nat
           /\ RegionFrames(k) \subseteq Nat
  <1>1. DOMAIN Regions = 1 .. Len(Regions)
    BY RegionsAssumption
  <1>2. ASSUME NEW S, Regions \in Seq(S) PROVE Regions[k] \in S
    BY <1>1, <1>2
  <1>3. Regions[k] \in [addr : Nat, len : Nat]
    BY <1>2, RegionsAssumption
  <1> QED BY <1>3 DEF RegionFrames, Run

-----------------------------------------------------------------------------
(* Type correctness, together with the bounds of compact_queue's window.   *)

(* The window is at most one turn of the ring.                             *)
WindowOK ==
    pc \in {"sort", "merge"} =>
        /\ hi < lo + Size
        /\ hi < 2 * Size
        /\ pc = "sort" => lo \in Slots

Typed == TypeOK /\ WindowOK

LEMMA InitType == Init => Typed
  <1> SUFFICES ASSUME Init PROVE Typed
    OBVIOUS
  <1>1. Managed \subseteq Nat
    BY RegionIsRun DEF Managed
  <1>2. Len(Regions) \in Nat
    BY RegionsAssumption
  <1> QED BY <1>1, <1>2, ZeroIsEntry, SizeAssumption
          DEF Init, queue_init, Typed, TypeOK, WindowOK, Slots

LEMMA SortType ==
    ASSUME Typed, quicksort_pgs
    PROVE  TypeOK'
  <1>1. queue' \in [Slots -> Entries]
    <2>1. ASSUME NEW s \in Slots, Unrolled(s) <= hi
          PROVE  SortedOrder[Unrolled(s)] % Size \in Slots
      <3>0. lo \in Slots /\ hi \in Int
        <4>1. pc = "sort"
          BY DEF quicksort_pgs
        <4> QED BY <4>1 DEF Typed, TypeOK, WindowOK
      <3>1. Unrolled(s) \in lo .. hi
        BY <2>1, <3>0, SizeAssumption DEF Unrolled, Slots
      <3>2. SortedOrder[Unrolled(s)] \in lo .. hi
        BY <3>1 DEF quicksort_pgs, Bijection, Injection
      <3> QED BY <3>2, ModSlot DEF Typed, TypeOK
    <2> QED BY <2>1 DEF quicksort_pgs, Typed, TypeOK
  <1> QED BY <1>1 DEF quicksort_pgs, Typed, TypeOK, allocVars, freeVars, insertVars,
                      compactVars

LEMMA MergeType ==
    ASSUME Typed, CompactLoop
    PROVE  TypeOK'
  <1>1. ASSUME MergeEntries
        PROVE  /\ queue' \in [Slots -> Entries] /\ head' \in Slots
               /\ ent_cnt' \in Int /\ tail' = tail
    <2>1. queue[lo % Size] \in Entries /\ queue[(lo + 1) % Size] \in Entries
      BY ModSlot DEF Typed, TypeOK
    <2>2. \A n \in Int : BUILD_ENTRY(queue[lo % Size].addr, n) \in Entries
      BY <2>1, EntryPages, BuiltEntry
    <2>3. GET_PG_CNT(queue[lo % Size]) + GET_PG_CNT(queue[(lo + 1) % Size]) \in Int
      BY <2>1, PageAllocAssumption DEF Entries, GET_PG_CNT
    <2>4. \E e \in Entries :
             queue' = [queue EXCEPT ![(lo + 1) % Size] = e, ![lo % Size] = Zero]
      BY <1>1, <2>2, <2>3 DEF MergeEntries
    <2>5. queue' \in [Slots -> Entries]
      BY <2>4, ZeroIsEntry DEF Typed, TypeOK
    <2> QED BY <1>1, <2>5, NextSlotIsSlot DEF MergeEntries, Typed, TypeOK
  <1>2. CASE lo < hi - 1
    BY <1>1, <1>2 DEF CompactLoop, Typed, TypeOK, queueVars, allocVars, freeVars,
                      insertVars
  <1>3. CASE lo >= hi - 1
    BY <1>3 DEF CompactLoop, Typed, TypeOK, queueVars, allocVars, freeVars, insertVars
  <1> QED BY <1>2, <1>3 DEF Typed, TypeOK

(* What an insertion that succeeds does to the ring.                       *)
LEMMA InsertedType ==
    ASSUME Typed, TryInsert
    PROVE  /\ queue' \in [Slots -> Entries] /\ head' \in Slots
           /\ tail' \in Slots /\ ent_cnt' \in Int
           /\ val' \in Entries /\ side' \in {"front", "back"}
           /\ after' \in {"idle", "scan", "grant", "free"}
           /\ pc' \in {"idle", "scan", "grant", "free"}
  BY ZeroIsEntry, NextSlotIsSlot
  DEF Typed, TypeOK, TryInsert, InsertEnds, queue_tryenqueue, queue_tryenqueue_front

LEMMA CalledCompact ==
    ASSUME Typed, NEW return \in {"pass", "retry"}, compact_queue(return)
    PROVE  /\ lo' \in Nat /\ hi' \in Int
           /\ pc' = "sort" /\ resume' = return
  BY SizeAssumption DEF compact_queue, Typed, TypeOK, Slots

LEMMA InsertType ==
    ASSUME Typed, Insert \/ InsertRetry
    PROVE  TypeOK'
  <1>1. ASSUME Insert, TryInsert, UNCHANGED compactVars PROVE TypeOK'
    BY <1>1, InsertedType
    DEF Insert, Typed, TypeOK, allocVars, freeVars, compactVars
  <1>3. ASSUME Insert, compact_queue("retry"), UNCHANGED <<queueVars, insertVars>>
        PROVE  TypeOK'
    BY <1>3, CalledCompact
    DEF Insert, Typed, TypeOK, queueVars, insertVars, allocVars, freeVars
  <1>2. CASE InsertRetry
    BY <1>2, InsertedType
    DEF InsertRetry, Typed, TypeOK, queueVars, insertVars, allocVars, freeVars,
        compactVars
  <1> QED BY <1>1, <1>2, <1>3 DEF Insert

LEMMA FreeType ==
    ASSUME Typed, pagealloc_init \/ (\E a \in held, n \in 1 .. MaxRequest : Release(a, n))
    PROVE  TypeOK'
  <1>1. CASE pagealloc_init
    <2>1. nextRegion \in 1 .. Len(Regions) /\ Len(Regions) \in Nat
      BY <1>1, RegionsAssumption DEF pagealloc_init, Typed, TypeOK
    <2>2. Regions[nextRegion].addr \in Nat /\ Regions[nextRegion].len \in Nat
      BY <2>1, RegionIsRun, RegionsAssumption
    <2>3. held' \subseteq Nat /\ block' \subseteq Nat
      BY <1>1 DEF pagealloc_init, pagealloc_free, Typed, TypeOK, allocVars
    <2>4. nextRegion' \in 1 .. Len(Regions) + 1 /\ addr' \in Nat /\ left' \in Nat
          /\ free_mem' \in Int /\ pc' = "free"
      BY <1>1, <2>1, <2>2 DEF pagealloc_init, pagealloc_free, Typed, TypeOK
    <2>5. UNCHANGED <<queueVars, allocVars, insertVars, compactVars>>
      BY <1>1 DEF pagealloc_init, pagealloc_free
    <2> QED BY <2>3, <2>4, <2>5
            DEF Typed, TypeOK, queueVars, allocVars, insertVars, compactVars
  <1>2. CASE \E a \in held, n \in 1 .. MaxRequest : Release(a, n)
    <2>1. PICK a \in Nat, n \in Nat : Release(a, n)
      BY <1>2, PageAllocAssumption DEF Typed, TypeOK
    <2>2. held' \subseteq Nat /\ block' \subseteq Nat
      BY <2>1 DEF Release, pagealloc_free, Typed, TypeOK, allocVars
    <2> QED BY <2>1, <2>2
    DEF Release, pagealloc_free, Typed, TypeOK, queueVars, allocVars, insertVars,
        compactVars
  <1> QED BY <1>1, <1>2

LEMMA FreeLoopType ==
    ASSUME Typed, FreeLoop
    PROVE  TypeOK'
  <1> DEFINE cur_pg == IF left >= MaxEntries THEN MaxEntries ELSE left
  <1>1. CASE left > 0
    <2>1. /\ cur_pg \in Nat
          /\ left - cur_pg \in Nat
          /\ BUILD_ENTRY(addr, cur_pg) \in Entries
      BY BuiltEntry, PageAllocAssumption DEF Typed, TypeOK
    <2> QED BY <1>1, <2>1
            DEF FreeLoop, insert_queue, Typed, TypeOK, queueVars, allocVars,
                compactVars
  <1>2. CASE left = 0
    BY <1>2 DEF FreeLoop, Typed, TypeOK, queueVars, allocVars, insertVars, compactVars
  <1> QED BY <1>1, <1>2 DEF Typed, TypeOK

LEMMA AllocType ==
    ASSUME Typed,
           \/ \E n \in 0 .. MaxRequest : pagealloc_alloc(n)
           \/ AllocPass \/ AllocCompact \/ AllocGrant
    PROVE  TypeOK'
  <1>1. CASE \E n \in 0 .. MaxRequest : pagealloc_alloc(n)
    BY <1>1, PageAllocAssumption
    DEF pagealloc_alloc, Typed, TypeOK, queueVars, freeVars, insertVars, compactVars
  <1>2. CASE AllocPass
    <2>1. held' = held /\ block' \in {block, {}}
      BY <1>2 DEF AllocPass, AllocEnds
    <2>2. held' \subseteq Nat /\ block' \subseteq Nat
      BY <2>1 DEF Typed, TypeOK
    <2> QED BY <1>2, <2>2
            DEF AllocPass, AllocEnds, Typed, TypeOK, queueVars, freeVars,
                insertVars, compactVars
  <1>3. CASE AllocCompact
    BY <1>3, CalledCompact
    DEF AllocCompact, Typed, TypeOK, queueVars, freeVars, insertVars
  <1>4. CASE AllocGrant
    BY <1>4 DEF AllocGrant, AllocEnds, Typed, TypeOK, queueVars, freeVars, insertVars,
                compactVars
  <1> QED BY <1>1, <1>2, <1>3, <1>4

LEMMA ScanType ==
    ASSUME Typed, AllocScan
    PROVE  TypeOK'
  <1>1. CASE IsEmpty
    BY <1>1 DEF AllocScan, Typed, TypeOK, queueVars, insertVars, freeVars,
                compactVars
  <1>2. CASE ~IsEmpty
    <2>1. queue_peek \in Entries
      BY DEF queue_peek, Typed, TypeOK
    <2>2. /\ queue' \in [Slots -> Entries] /\ head' \in Slots
          /\ tail' \in Slots /\ ent_cnt' \in Int
      BY <1>2, ZeroIsEntry, NextSlotIsSlot
      DEF AllocScan, queue_trydequeue, Typed, TypeOK
    <2>3. Run(queue_peek.addr, want) \subseteq Nat
      BY <2>1, EntryPages DEF Run, Typed, TypeOK
    <2>4. BUILD_ENTRY(queue_peek.addr + want, GET_PG_CNT(queue_peek) - want)
             \in Entries
      <3>1. /\ queue_peek.addr + want \in Nat
            /\ GET_PG_CNT(queue_peek) - want \in Int
        BY <2>1, EntryPages DEF Typed, TypeOK
      <3> QED BY <3>1, BuiltEntry
    <2>5. CASE TooShort(queue_peek)
      BY <1>2, <2>1, <2>2, <2>5
      DEF AllocScan, TooShort, insert_queue, Typed, TypeOK, freeVars,
          compactVars
    <2>6. CASE Split(queue_peek)
      BY <1>2, <2>2, <2>3, <2>4, <2>6
      DEF AllocScan, Split, insert_queue, Typed, TypeOK, freeVars, compactVars
    <2>7. CASE ExactFit(queue_peek)
      BY <1>2, <2>2, <2>3, <2>7
      DEF AllocScan, ExactFit, insertVars, Typed, TypeOK, freeVars, compactVars
    <2> QED BY <1>2, <2>5, <2>6, <2>7 DEF AllocScan
  <1> QED BY <1>1, <1>2

LEMMA WindowStep ==
    ASSUME Typed, Next
    PROVE  WindowOK'
  <1> USE DEF WindowOK
  <1>1. CASE quicksort_pgs
    BY <1>1 DEF quicksort_pgs, compactVars, Typed
  <1>2. CASE CompactLoop
    <2>1. lo \in Nat /\ hi \in Int /\ resume \in {"idle", "pass", "retry"}
      BY DEF Typed, TypeOK
    <2> QED BY <1>2, <2>1, SizeAssumption DEF CompactLoop, Typed
  <1>3. ASSUME NEW return, compact_queue(return) PROVE WindowOK'
    <2>1. head \in Slots /\ tail \in Slots
      BY DEF Typed, TypeOK
    <2> QED BY <1>3, <2>1, SizeAssumption DEF compact_queue, Slots
  <1>4. CASE Insert
    BY <1>3, <1>4, InsertedType DEF Insert
  <1>5. CASE AllocCompact
    BY <1>3, <1>5 DEF AllocCompact
  <1>6. CASE InsertRetry
    BY <1>6, InsertedType DEF InsertRetry
  <1>7. CASE FreeLoop
    BY <1>7 DEF FreeLoop, insert_queue
  <1>8. CASE AllocScan
    BY <1>8 DEF AllocScan, TooShort, Split, ExactFit, insert_queue
  <1>9. CASE AllocPass \/ AllocGrant
    BY <1>9 DEF AllocPass, AllocGrant, AllocEnds
  <1>10. CASE ClientCall \/ pagealloc_init
    BY <1>10 DEF ClientCall, pagealloc_init, Release, pagealloc_alloc,
                 pagealloc_free
  <1> QED BY <1>1, <1>2, <1>4, <1>5, <1>6, <1>7, <1>8, <1>9, <1>10
          DEF Next, Internal

LEMMA NextType == Typed /\ [Next]_vars => Typed'
  <1>1. ASSUME Typed, Next PROVE TypeOK'
    BY <1>1, SortType, MergeType, InsertType, FreeType, FreeLoopType,
       AllocType, ScanType
    DEF Next, ClientCall, Internal
  <1>2. ASSUME Typed, UNCHANGED vars PROVE Typed'
    BY <1>2 DEF vars, queueVars, allocVars, freeVars, insertVars, compactVars,
                Typed, TypeOK, WindowOK
  <1> QED BY <1>1, <1>2, WindowStep DEF Typed

(* Every local, entry and index of the allocator keeps its type: no index  *)
(* computed with % size leaves the ring.                                   *)
THEOREM TypeCorrect == Spec => []TypeOK
  <1>1. Spec => []Typed
    BY InitType, NextType, PTL DEF Spec
  <1>2. Typed => TypeOK
    BY DEF Typed
  <1> QED BY <1>1, <1>2, PTL

-----------------------------------------------------------------------------
(* Ownership.                                                              *)

(* Until pagealloc_init releases it, a region is with the clients.         *)
RegionsHeld ==
    \A k \in nextRegion .. Len(Regions) : RegionFrames(k) \subseteq held

Owned == OneOwner /\ OnlyManaged

Ownership == Owned /\ RegionsHeld

LEMMA InitOwnership == Init => Ownership
  <1> SUFFICES ASSUME Init PROVE Ownership
    OBVIOUS
  <1>1. /\ \A s \in Slots : Pages(queue[s]) = {0}
        /\ Pages(val) = {0} /\ Run(addr, left) = {} /\ block = {}
        /\ held = Managed
    BY ZeroIsEntry DEF Init, queue_init, Run
  <1>2. Owned
    BY <1>1 DEF Owned, OneOwner, OnlyManaged, Apart
  <1>3. RegionsHeld
    <2>1. DOMAIN Regions = 1 .. Len(Regions) /\ nextRegion = 1
      BY RegionsAssumption DEF Init
    <2> QED BY <1>1, <2>1 DEF RegionsHeld, Managed
  <1> QED BY <1>2, <1>3 DEF Ownership

LEMMA OwnedStutter ==
    ASSUME Owned, UNCHANGED <<queue, val, addr, left, block, held>>
    PROVE  Owned'
  BY DEF Owned, OneOwner, OnlyManaged

(* An insertion moves the entry in hand to a slot.                         *)
LEMMA OwnedInsert ==
    ASSUME Typed, Owned, TryInsert, UNCHANGED <<addr, left, block, held>>
    PROVE  Owned'
  <1>1. PICK s \in Slots : queue' = [queue EXCEPT ![s] = val]
    BY NextSlotIsSlot
    DEF TryInsert, queue_tryenqueue, queue_tryenqueue_front, Typed, TypeOK
  <1>2. \A t \in Slots : queue'[t] = IF t = s THEN val ELSE queue[t]
    BY <1>1 DEF Typed, TypeOK
  <1>3. Pages(val') = {0}
    BY ZeroIsEntry DEF TryInsert, InsertEnds
  <1>4. OneOwner'
    BY <1>2, <1>3 DEF Owned, OneOwner, Apart
  <1>5. OnlyManaged'
    BY <1>2, <1>3 DEF Owned, OnlyManaged
  <1> QED BY <1>4, <1>5 DEF Owned

(* The indices of the window name each of its slots once.                  *)
LEMMA UnrolledSlots ==
    ASSUME Typed, pc = "sort"
    PROVE  /\ \A k \in lo .. hi : k % Size \in Slots /\ Unrolled(k % Size) = k
           /\ \A s \in Slots : Unrolled(s) % Size = s /\ Unrolled(s) \in Nat /\ Unrolled(s) >= lo
  <1>1. lo \in Slots /\ hi \in Int /\ hi < lo + Size /\ hi < 2 * Size
    BY DEF Typed, TypeOK, WindowOK
  <1>2. ASSUME NEW k \in lo .. hi
        PROVE  k % Size \in Slots /\ Unrolled(k % Size) = k
    <2>1. k \in Nat /\ k < 2 * Size
      BY <1>1, SizeAssumption DEF Slots
    <2>2. k % Size = IF k < Size THEN k ELSE k - Size
      BY <2>1, WrapOnce
    <2>3. k % Size \in Slots
      BY <2>1, ModSlot
    <2>4. CASE k < Size
      BY <1>1, <2>1, <2>2, <2>3, <2>4, SizeAssumption DEF Unrolled, Slots
    <2>5. CASE ~(k < Size)
      <3>1. k % Size = k - Size /\ k - Size < lo
        BY <1>1, <2>1, <2>2, <2>5, SizeAssumption DEF Slots
      <3> QED BY <1>1, <2>1, <2>3, <3>1, SizeAssumption DEF Unrolled, Slots
    <2> QED BY <2>3, <2>4, <2>5
  <1>3. ASSUME NEW s \in Slots
        PROVE  Unrolled(s) % Size = s /\ Unrolled(s) \in Nat /\ Unrolled(s) >= lo
    <2>1. Unrolled(s) \in Nat /\ Unrolled(s) < 2 * Size /\ Unrolled(s) >= lo
      BY <1>1, SizeAssumption DEF Unrolled, Slots
    <2>2. Unrolled(s) % Size = IF Unrolled(s) < Size THEN Unrolled(s) ELSE Unrolled(s) - Size
      BY <2>1, WrapOnce
    <2> QED BY <1>1, <2>1, <2>2, SizeAssumption DEF Unrolled, Slots
  <1> QED BY <1>2, <1>3

(* A sorted ring holds the entries it held before, each in one slot.       *)
LEMMA SortMovesEntries ==
    ASSUME Typed, quicksort_pgs
    PROVE  \E m \in [Slots -> Slots] :
              /\ \A s, t \in Slots : s # t => m[s] # m[t]
              /\ \A s \in Slots : queue'[s] = queue[m[s]]
  <1> DEFINE m == [s \in Slots |-> IF Unrolled(s) <= hi
                                   THEN SortedOrder[Unrolled(s)] % Size
                                   ELSE s]
  <1>1. /\ lo \in Slots /\ hi \in Int /\ hi < lo + Size /\ hi < 2 * Size
        /\ SortedOrder \in [lo .. hi -> lo .. hi]
        /\ IsInjective(SortedOrder)
    <2>1. pc = "sort"
      BY DEF quicksort_pgs
    <2> QED BY <2>1
            DEF Typed, TypeOK, WindowOK, quicksort_pgs, Bijection, Injection
  <1>2. ASSUME NEW s \in Slots, Unrolled(s) <= hi
        PROVE  Unrolled(s) \in lo .. hi /\ SortedOrder[Unrolled(s)] \in lo .. hi
    BY <1>1, <1>2, SizeAssumption DEF Unrolled, Slots
  <1>3. ASSUME NEW k \in lo .. hi
        PROVE  k % Size \in Slots /\ Unrolled(k % Size) = k
    BY UnrolledSlots DEF quicksort_pgs
  <1>4. m \in [Slots -> Slots]
    BY <1>2, <1>3
  <1>5. ASSUME NEW s \in Slots, NEW t \in Slots, m[s] = m[t]
        PROVE  s = t
    <2>1. Unrolled(s) = Unrolled(t) => s = t
      BY <1>1, SizeAssumption DEF Unrolled, Slots
    <2>2. CASE Unrolled(s) <= hi /\ Unrolled(t) <= hi
      <3>1. SortedOrder[Unrolled(s)] = SortedOrder[Unrolled(t)]
        BY <1>2, <1>3, <1>5, <2>2
      <3> QED BY <1>1, <1>2, <2>1, <2>2, <3>1 DEF IsInjective
    <2>3. CASE Unrolled(s) <= hi /\ ~(Unrolled(t) <= hi)
      BY <1>2, <1>3, <1>5, <2>3
    <2>4. CASE ~(Unrolled(s) <= hi) /\ Unrolled(t) <= hi
      BY <1>2, <1>3, <1>5, <2>4
    <2>5. CASE ~(Unrolled(s) <= hi) /\ ~(Unrolled(t) <= hi)
      BY <1>5, <2>5
    <2> QED BY <2>2, <2>3, <2>4, <2>5
  <1>6. ASSUME NEW s \in Slots PROVE queue'[s] = queue[m[s]]
    BY DEF quicksort_pgs
  <1> QED BY <1>4, <1>5, <1>6

LEMMA OwnedSort ==
    ASSUME Typed, Owned, quicksort_pgs
    PROVE  Owned'
  <1>1. PICK m \in [Slots -> Slots] :
              /\ \A s, t \in Slots : s # t => m[s] # m[t]
              /\ \A s \in Slots : queue'[s] = queue[m[s]]
    BY SortMovesEntries
  <1>2. UNCHANGED <<val, addr, left, block, held>>
    BY DEF quicksort_pgs, allocVars, freeVars, insertVars
  <1>3. OneOwner'
    BY <1>1, <1>2 DEF Owned, OneOwner
  <1>4. OnlyManaged'
    BY <1>1, <1>2 DEF Owned, OnlyManaged
  <1> QED BY <1>3, <1>4 DEF Owned

(* A merged entry has the frames of the two it replaces.                   *)
LEMMA MergedPages ==
    ASSUME NEW cur \in Entries, NEW nxt \in Entries,
           GET_PG_CNT(cur) + cur.addr = nxt.addr,
           GET_PG_CNT(cur) + GET_PG_CNT(nxt) < MaxEntries
    PROVE  Pages(BUILD_ENTRY(cur.addr, GET_PG_CNT(cur) + GET_PG_CNT(nxt)))
              = Pages(cur) \cup Pages(nxt)
  <1> DEFINE n == GET_PG_CNT(cur)
             m == GET_PG_CNT(cur) + GET_PG_CNT(nxt)
  <1>1. /\ cur.addr \in Nat /\ n \in Nat /\ m \in 1 .. MaxEntries
        /\ n \in 0 .. m /\ m \in Nat /\ m - n = GET_PG_CNT(nxt)
        /\ cur.addr + n = nxt.addr
    BY EntryPages, PageAllocAssumption
  <1>2. Run(cur.addr, m) = Run(cur.addr, n) \cup Run(nxt.addr, GET_PG_CNT(nxt))
    BY <1>1, CutRun
  <1> QED BY <1>1, <1>2, BuiltPages, EntryPages

(* The two slots of a merge.                                               *)
LEMMA MergeSlots ==
    ASSUME Typed, pc = "merge", lo < hi - 1
    PROVE  /\ lo % Size \in Slots /\ (lo + 1) % Size \in Slots /\ lo % Size # (lo + 1) % Size
           /\ (lo + 1) % Size = ((lo % Size) + 1) % Size
  <1>1. lo \in Nat /\ hi \in Int /\ hi < lo + Size /\ hi < 2 * Size
    BY DEF Typed, TypeOK, WindowOK
  <1>2. lo < 2 * Size /\ lo + 1 < 2 * Size /\ Size > 1 /\ lo + 1 \in Nat
    BY <1>1, SizeAssumption
  <1>3. lo % Size = IF lo < Size THEN lo ELSE lo - Size
    BY <1>1, <1>2, WrapOnce
  <1>4. (lo + 1) % Size = IF lo + 1 < Size THEN lo + 1 ELSE lo + 1 - Size
    <2>1. PICK k \in Nat : k = lo + 1
      BY <1>2
    <2>2. k % Size = IF k < Size THEN k ELSE k - Size
      BY <1>2, <2>1, WrapOnce
    <2>3. (lo + 1) % Size = k % Size
      BY <2>1
    <2>4. k % Size = IF lo + 1 < Size THEN lo + 1 ELSE lo + 1 - Size
      BY <1>1, <2>1, <2>2, SizeAssumption
    <2> QED BY <2>3, <2>4
  <1>5. lo % Size \in Slots /\ (lo + 1) % Size \in Slots
    BY <1>1, <1>2, ModSlot
  <1>6. ((lo % Size) + 1) % Size = IF (lo % Size) + 1 < Size THEN (lo % Size) + 1 ELSE 0
    BY <1>5, NextSlot
  <1>7. lo % Size # (lo + 1) % Size
    BY <1>1, <1>2, <1>3, <1>4, SizeAssumption
  <1>8. (lo + 1) % Size = IF (lo % Size) + 1 < Size THEN (lo % Size) + 1 ELSE 0
    BY <1>1, <1>2, <1>3, <1>4, SizeAssumption
  <1> QED BY <1>5, <1>6, <1>7, <1>8

LEMMA OwnedMerge ==
    ASSUME Typed, Owned, CompactLoop
    PROVE  Owned'
  <1>1. UNCHANGED <<val, addr, left, block, held>>
    BY DEF CompactLoop, allocVars, freeVars, insertVars
  <1>2. CASE UNCHANGED queue
    BY <1>1, <1>2, OwnedStutter
  <1>3. ASSUME lo < hi - 1, Mergeable, MergeEntries PROVE Owned'
    <2> DEFINE a == lo % Size
               b == (lo + 1) % Size
               new == BUILD_ENTRY(queue[a].addr,
                                  GET_PG_CNT(queue[a]) + GET_PG_CNT(queue[b]))
    <2>1. a \in Slots /\ b \in Slots /\ a # b
      BY <1>3, MergeSlots DEF CompactLoop
    <2>2. queue[a] \in Entries /\ queue[b] \in Entries
      BY <2>1 DEF Typed, TypeOK
    <2>3. Pages(new) = Pages(queue[a]) \cup Pages(queue[b])
      BY <1>3, <2>2, MergedPages DEF Mergeable
    <2>4. \A s \in Slots : Pages(queue'[s]) = IF s = a THEN {0}
                                              ELSE IF s = b THEN Pages(new)
                                              ELSE Pages(queue[s])
      BY <1>3, <2>1, ZeroIsEntry DEF MergeEntries, Typed, TypeOK
    <2>5. OneOwner'
      BY <1>1, <2>1, <2>3, <2>4 DEF Owned, OneOwner, Apart
    <2>6. OnlyManaged'
      BY <1>1, <2>1, <2>3, <2>4 DEF Owned, OnlyManaged
    <2> QED BY <2>5, <2>6 DEF Owned
  <1> QED BY <1>2, <1>3 DEF CompactLoop, queueVars

LEMMA OwnedFree ==
    ASSUME Owned, NEW a, NEW n, Run(a, n) \subseteq held, pagealloc_free(a, n)
    PROVE  Owned'
  <1>1. /\ held' = held \ Run(a, n) /\ Run(addr', left') = Run(a, n)
        /\ UNCHANGED <<queue, val, block>>
    BY DEF pagealloc_free, queueVars, allocVars, insertVars
  <1>2. OneOwner'
    BY <1>1 DEF Owned, OneOwner, Apart
  <1>3. OnlyManaged'
    BY <1>1 DEF Owned, OnlyManaged
  <1> QED BY <1>2, <1>3 DEF Owned

LEMMA OwnedFreeLoop ==
    ASSUME Typed, Owned, FreeLoop
    PROVE  Owned'
  <1> DEFINE n == IF left >= MaxEntries THEN MaxEntries ELSE left
  <1>1. UNCHANGED <<queue, block, held>>
    BY DEF FreeLoop, queueVars, allocVars
  <1>2. CASE left > 0
    <2>1. /\ n \in 1 .. MaxEntries /\ n \in 0 .. left
          /\ addr \in Nat /\ left \in Nat
      BY <1>2, PageAllocAssumption DEF Typed, TypeOK
    <2>2. /\ val' = BUILD_ENTRY(addr, n)
          /\ addr' = addr + n /\ left' = left - n
      BY <1>2 DEF FreeLoop, insert_queue
    <2>3. Pages(val') = Run(addr, n) /\ Run(addr', left') = Run(addr + n, left - n)
      BY <2>1, <2>2, BuiltPages
    <2>4. /\ Pages(val') \cup Run(addr', left') = Run(addr, left)
          /\ Pages(val') \cap Run(addr', left') = {}
      BY <2>1, <2>3, CutRun
    <2>5. OneOwner'
      BY <1>1, <2>4 DEF Owned, OneOwner, Apart
    <2>6. OnlyManaged'
      BY <1>1, <2>4 DEF Owned, OnlyManaged
    <2> QED BY <2>5, <2>6 DEF Owned
  <1>3. CASE left = 0
    <2>1. left' = 0 /\ addr' = 0 /\ val' = val
      BY <1>3 DEF FreeLoop, insertVars
    <2>2. Run(addr', left') = {}
      BY <2>1 DEF Run
    <2>3. OneOwner'
      BY <1>1, <2>1, <2>2 DEF Owned, OneOwner, Apart
    <2>4. OnlyManaged'
      BY <1>1, <2>1, <2>2 DEF Owned, OnlyManaged
    <2> QED BY <2>3, <2>4 DEF Owned
  <1> QED BY <1>2, <1>3 DEF FreeLoop

(* The entry taken from the head is cut into the block and the rest.       *)
LEMMA OwnedScan ==
    ASSUME Typed, Owned, AllocScan
    PROVE  Owned'
  <1>1. UNCHANGED <<addr, left, held>>
    BY DEF AllocScan, freeVars
  <1>2. CASE IsEmpty
    BY <1>1, <1>2, OwnedStutter DEF AllocScan, queueVars, insertVars
  <1>3. CASE ~IsEmpty
    <2> DEFINE deq == queue_peek
    <2>1. deq = queue[head] /\ deq \in Entries /\ head \in Slots
      BY DEF queue_peek, Typed, TypeOK
    <2>2. \A s \in Slots : Pages(queue'[s]) = IF s = head THEN {0}
                                              ELSE Pages(queue[s])
      BY <1>3, <2>1, ZeroIsEntry
      DEF AllocScan, queue_trydequeue, Typed, TypeOK
    <2>3. /\ deq.addr \in Nat /\ want \in Nat
          /\ GET_PG_CNT(deq) \in 1 .. MaxEntries
          /\ Pages(deq) = Run(deq.addr, GET_PG_CNT(deq))
      BY <2>1, EntryPages DEF Typed, TypeOK
    <2>4. \/ Pages(val') = Pages(deq) /\ block' = block
          \/ /\ Pages(val') \cup block' = Pages(deq)
             /\ Pages(val') \cap block' = {}
          \/ val' = val /\ block' = Pages(deq)
      <3>1. CASE TooShort(deq)
        BY <3>1 DEF TooShort, insert_queue
      <3>2. CASE Split(deq)
        <4>1. /\ want \in 0 .. GET_PG_CNT(deq)
              /\ GET_PG_CNT(deq) - want \in 1 .. MaxEntries
              /\ deq.addr + want \in Nat
          BY <2>3, <3>2, PageAllocAssumption DEF Split
        <4>2. /\ block' = Run(deq.addr, want)
              /\ Pages(val') = Run(deq.addr + want, GET_PG_CNT(deq) - want)
          BY <3>2, <4>1, BuiltPages DEF Split, insert_queue
        <4> QED BY <2>3, <4>1, <4>2, CutRun
      <3>3. CASE ExactFit(deq)
        BY <2>3, <3>3 DEF ExactFit, insertVars
      <3> QED BY <1>3, <3>1, <3>2, <3>3 DEF AllocScan
    <2> HIDE DEF deq
    <2>5. OneOwner'
      BY <1>1, <2>1, <2>2, <2>4 DEF Owned, OneOwner, Apart
    <2>6. OnlyManaged'
      BY <1>1, <2>1, <2>2, <2>4 DEF Owned, OnlyManaged
    <2> QED BY <2>5, <2>6 DEF Owned
  <1> QED BY <1>2, <1>3

(* The return of a call gives the block to the caller or drops it.         *)
LEMMA OwnedReturn ==
    ASSUME Owned, UNCHANGED <<queue, val, addr, left>>, block' = {},
           held' = held \/ held' = held \cup block
    PROVE  Owned'
  <1>1. OneOwner'
    BY DEF Owned, OneOwner, Apart
  <1>2. OnlyManaged'
    BY DEF Owned, OnlyManaged
  <1> QED BY <1>1, <1>2 DEF Owned

LEMMA OwnedNext ==
    ASSUME Typed, Ownership, Next
    PROVE  Owned'
  <1>0. Owned
    BY DEF Ownership
  <1>1. CASE pagealloc_init
    <2>1. nextRegion \in 1 .. Len(Regions) /\ Len(Regions) \in Nat
      BY <1>1, RegionsAssumption DEF pagealloc_init, Typed, TypeOK
    <2>2. Run(Regions[nextRegion].addr, Regions[nextRegion].len) \subseteq held
      BY <2>1 DEF Ownership, RegionsHeld, RegionFrames
    <2> QED BY <1>0, <1>1, <2>2, OwnedFree DEF pagealloc_init
  <1>2. ASSUME NEW a, NEW n, Release(a, n) PROVE Owned'
    BY <1>0, <1>2, OwnedFree DEF Release
  <1>3. CASE quicksort_pgs
    BY <1>0, <1>3, OwnedSort
  <1>4. CASE CompactLoop
    BY <1>0, <1>4, OwnedMerge
  <1>5. CASE Insert
    <2>1. UNCHANGED <<addr, left, block, held>>
      BY <1>5 DEF Insert, allocVars, freeVars
    <2>2. CASE TryInsert
      BY <1>0, <2>1, <2>2, OwnedInsert
    <2>3. CASE UNCHANGED <<queueVars, insertVars>>
      BY <1>0, <2>1, <2>3, OwnedStutter DEF queueVars, insertVars
    <2> QED BY <1>5, <2>2, <2>3 DEF Insert
  <1>6. CASE InsertRetry
    <2>1. UNCHANGED <<addr, left, block, held>>
      BY <1>6 DEF InsertRetry, allocVars, freeVars
    <2>2. CASE TryInsert
      BY <1>0, <2>1, <2>2, OwnedInsert
    <2>3. CASE UNCHANGED <<queueVars, insertVars>>
      BY <1>0, <2>1, <2>3, OwnedStutter DEF queueVars, insertVars
    <2> QED BY <1>6, <2>2, <2>3 DEF InsertRetry
  <1>7. CASE FreeLoop
    BY <1>0, <1>7, OwnedFreeLoop
  <1>8. CASE AllocScan
    BY <1>0, <1>8, OwnedScan
  <1>9. CASE AllocPass
    <2>1. UNCHANGED <<queue, val, addr, left, held>> /\ block' \in {block, {}}
      BY <1>9 DEF AllocPass, AllocEnds, queueVars, freeVars, insertVars
    <2> QED BY <1>0, <2>1, OwnedReturn, OwnedStutter
  <1>10. CASE AllocCompact
    BY <1>0, <1>10, OwnedStutter
    DEF AllocCompact, queueVars, freeVars, insertVars
  <1>11. CASE AllocGrant
    BY <1>0, <1>11, OwnedReturn
    DEF AllocGrant, AllocEnds, queueVars, freeVars, insertVars
  <1>12. ASSUME NEW n, pagealloc_alloc(n) PROVE Owned'
    BY <1>0, <1>12, OwnedStutter
    DEF pagealloc_alloc, queueVars, freeVars, insertVars
  <1> QED BY <1>1, <1>2, <1>3, <1>4, <1>5, <1>6, <1>7, <1>8, <1>9, <1>10,
             <1>11, <1>12
          DEF Next, Internal, ClientCall

LEMMA RegionsHeldNext ==
    ASSUME Typed, Ownership, Next
    PROVE  RegionsHeld'
  <1> DEFINE last == Len(Regions)
  <1>1. DOMAIN Regions = 1 .. last /\ last \in Nat /\ nextRegion \in 1 .. last + 1
    BY RegionsAssumption DEF Typed, TypeOK
  <1>2. CASE pagealloc_init
    <2>1. /\ nextRegion' = nextRegion + 1 /\ nextRegion \in 1 .. last
          /\ held' = held \ RegionFrames(nextRegion)
      BY <1>1, <1>2 DEF pagealloc_init, pagealloc_free, RegionFrames
    <2>2. ASSUME NEW k \in nextRegion' .. last
          PROVE  RegionFrames(k) \subseteq held'
      <3>1. k \in nextRegion .. last /\ k # nextRegion
        BY <1>1, <2>1, <2>2
      <3>2. k \in DOMAIN Regions /\ nextRegion \in DOMAIN Regions
        BY <1>1, <2>1, <3>1
      <3>3. RegionFrames(k) \cap RegionFrames(nextRegion) = {}
        BY <3>1, <3>2, RegionsAssumption
      <3> QED BY <2>1, <3>1, <3>3 DEF Ownership, RegionsHeld
    <2> QED BY <2>2 DEF RegionsHeld
  <1>3. ASSUME NEW a, NEW n, Release(a, n) PROVE RegionsHeld'
    <2>1. nextRegion' = nextRegion /\ nextRegion > last
      BY <1>3 DEF Release
    <2> QED BY <1>1, <2>1 DEF RegionsHeld
  <1>4. CASE UNCHANGED nextRegion /\ held \subseteq held'
    BY <1>4 DEF Ownership, RegionsHeld
  <1>5. Next => \/ pagealloc_init
                \/ \E a \in held, n \in 1 .. MaxRequest : Release(a, n)
                \/ UNCHANGED nextRegion /\ held \subseteq held'
    BY DEF Next, Internal, ClientCall, pagealloc_alloc, quicksort_pgs,
           CompactLoop, Insert, InsertRetry, FreeLoop, AllocPass, AllocScan,
           AllocCompact, AllocGrant
  <1> QED BY <1>2, <1>3, <1>4, <1>5

LEMMA OwnershipInvariant == Spec => [](Typed /\ Ownership)
  <1>1. Init => Typed /\ Ownership
    BY InitType, InitOwnership
  <1>2. Typed /\ Ownership /\ [Next]_vars => (Typed /\ Ownership)'
    <2>1. ASSUME Typed, Ownership, UNCHANGED vars PROVE Ownership'
      BY <2>1, OwnedStutter
      DEF vars, queueVars, allocVars, freeVars, insertVars, Ownership,
          RegionsHeld
    <2> QED BY <2>1, NextType, OwnedNext, RegionsHeldNext DEF Ownership
  <1> QED BY <1>1, <1>2, PTL DEF Spec

(* pagealloc_alloc returns only frames that nobody holds and that are in   *)
(* no entry, for every memory map and every sequence of calls; frame 0,    *)
(* which compact_queue can add to the ring, is the exception.              *)
THEOREM FramesHaveOneOwner == Spec => []OneOwner
  <1>1. Ownership => OneOwner
    BY DEF Ownership, Owned
  <1> QED BY <1>1, OwnershipInvariant, PTL

(* pagealloc_alloc returns only frames of the regions that pagealloc_init  *)
(* released, and frame 0.                                                  *)
THEOREM FramesAreManaged == Spec => []OnlyManaged
  <1>1. Ownership => OnlyManaged
    BY DEF Ownership, Owned
  <1> QED BY <1>1, OwnershipInvariant, PTL

-----------------------------------------------------------------------------
(* The counter of the ring.                                                *)

InRing == Distance(head, tail)

(* The counter is exact or, for a ring that is not empty, one turn short.  *)
CountOK ==
    \/ ent_cnt = InRing
    \/ ent_cnt = InRing - Size /\ InRing > 0

(* What is left of the window holds no more than the ring, except when the *)
(* ring is empty and the window all of it.                                 *)
WindowCounted ==
    pc \in {"sort", "merge"} => \/ InRing = 0 /\ ent_cnt = 0
                                \/ hi - lo < InRing

(* A rotation has no more entries to dequeue than the ring has.            *)
ScanCounted ==
    pc = "scan" \/ (pc = "insert" /\ after = "scan") => max_iter - i <= ent_cnt

(* A rotation always finds room for what it puts back, so only a release   *)
(* compacts the ring in the middle of an insertion.                        *)
RoomToPutBack ==
    /\ pc = "insert" /\ after # "free" => ~NoRoom
    /\ pc = "retry" => after = "free"
    /\ pc \in {"sort", "merge"} /\ resume = "retry" => after = "free"

Counted ==
    /\ CountOK
    /\ WindowCounted
    /\ ScanCounted
    /\ RoomToPutBack
    /\ NeverOutOfEntries

LEMMA InitCounted == Init => Counted
  BY DEF Init, queue_init, Counted, CountOK, WindowCounted, ScanCounted,
         RoomToPutBack, NeverOutOfEntries, InRing, Distance

LEMMA RingFacts ==
    ASSUME Typed
    PROVE  /\ head \in Slots /\ tail \in Slots
           /\ Size \in Nat \ {0} /\ ent_cnt \in Int
           /\ InRing \in 0 .. Size - 1
           /\ InRing = 0 <=> IsEmpty
           /\ InRing = Size - 1 <=> NoRoom
           /\ lo \in Nat /\ hi \in Int /\ i \in Nat /\ max_iter \in Int
  <1>1. head \in Slots /\ tail \in Slots
    BY DEF Typed, TypeOK
  <1> QED BY <1>1, DistanceRange, SizeAssumption
          DEF InRing, IsEmpty, NoRoom, Typed, TypeOK

(* The three ways in which the ring's length changes.                      *)
LEMMA RingGrows ==
    ASSUME Typed, TryInsert
    PROVE  ~NoRoom /\ InRing' = InRing + 1 /\ ent_cnt' = ent_cnt + 1
  <1>1. head \in Slots /\ tail \in Slots
    BY DEF Typed, TypeOK
  <1>2. ASSUME NEW v, queue_tryenqueue(v)
        PROVE  ~NoRoom /\ InRing' = InRing + 1 /\ ent_cnt' = ent_cnt + 1
    BY <1>1, <1>2, DistanceSteps DEF queue_tryenqueue, NoRoom, InRing
  <1>3. ASSUME NEW v, queue_tryenqueue_front(v)
        PROVE  ~NoRoom /\ InRing' = InRing + 1 /\ ent_cnt' = ent_cnt + 1
    BY <1>1, <1>3, DistanceSteps DEF queue_tryenqueue_front, NoRoom, InRing
  <1> QED BY <1>2, <1>3 DEF TryInsert

LEMMA RingShrinks ==
    ASSUME Typed, head' = (head + 1) % Size, tail' = tail
    PROVE  InRing' = IF IsEmpty THEN Size - 1 ELSE InRing - 1
  <1>1. head \in Slots /\ tail \in Slots
    BY DEF Typed, TypeOK
  <1> QED BY <1>1, DistanceSteps DEF InRing, IsEmpty

LEMMA CompactCounted ==
    ASSUME Typed, Counted, NEW return, compact_queue(return), UNCHANGED queueVars
    PROVE  CountOK' /\ WindowCounted'
  <1>1. InRing' = InRing /\ ent_cnt' = ent_cnt /\ CountOK
    BY DEF queueVars, InRing, Distance, Counted
  <1>2. CASE head = tail
    <2>1. InRing = 0
      BY <1>2, RingFacts DEF IsEmpty
    <2> QED BY <1>1, <2>1 DEF CountOK, WindowCounted
  <1>3. CASE head # tail
    <2>1. hi' - lo' = InRing - 1
      BY <1>3, RingFacts DEF compact_queue, InRing, Distance, Slots
    <2> QED BY <1>1, <2>1, RingFacts DEF CountOK, WindowCounted
  <1> QED BY <1>2, <1>3

LEMMA MergeCounted ==
    ASSUME Typed, Counted, CompactLoop
    PROVE  Counted'
  <1>1. pc = "merge" /\ after' = after /\ CountOK
    BY DEF CompactLoop, insertVars, Counted
  <1>2. CASE lo < hi - 1 /\ UNCHANGED queueVars
    <2>1. /\ InRing' = InRing /\ ent_cnt' = ent_cnt
          /\ lo' = lo + 1 /\ hi' = hi /\ pc' = pc /\ resume' = resume
      BY <1>2, RingFacts DEF CompactLoop, queueVars, InRing, Distance
    <2>2. WindowCounted'
      BY <1>1, <2>1, RingFacts DEF Counted, WindowCounted
    <2> QED BY <1>1, <2>1, <2>2
            DEF Counted, CountOK, ScanCounted, RoomToPutBack, NeverOutOfEntries
  <1>3. CASE lo < hi - 1 /\ MergeEntries
    <2>1. /\ InRing' = IF IsEmpty THEN Size - 1 ELSE InRing - 1
          /\ ent_cnt' = ent_cnt - 1
      BY <1>3, RingShrinks DEF MergeEntries
    <2>2. lo' = lo + 1 /\ hi' = hi /\ pc' = pc /\ resume' = resume
      BY <1>3, RingFacts DEF CompactLoop
    <2>3. hi < lo + Size
      BY <1>1 DEF Typed, WindowOK
    <2>4. CountOK'
      BY <1>1, <1>3, <2>1, <2>3, RingFacts DEF CountOK, Counted, WindowCounted
    <2>5. WindowCounted'
      BY <1>1, <1>3, <2>1, <2>2, <2>3, RingFacts DEF Counted, WindowCounted
    <2> QED BY <1>1, <2>2, <2>4, <2>5
            DEF Counted, ScanCounted, RoomToPutBack, NeverOutOfEntries
  <1>4. CASE lo >= hi - 1
    <2>1. /\ InRing' = InRing /\ ent_cnt' = ent_cnt
          /\ pc' = resume /\ resume' = "idle"
          /\ resume \in {"idle", "pass", "retry"}
      BY <1>4, RingFacts DEF CompactLoop, queueVars, InRing, Distance, Typed, TypeOK
    <2> QED BY <1>1, <2>1
            DEF Counted, CountOK, WindowCounted, ScanCounted, RoomToPutBack,
                NeverOutOfEntries
  <1> QED BY <1>2, <1>3, <1>4 DEF CompactLoop

LEMMA InsertCounted ==
    ASSUME Typed, Counted, Insert \/ InsertRetry
    PROVE  Counted'
  <1> USE DEF Counted
  <1>1. /\ i' = i /\ max_iter' = max_iter
        /\ \/ pc = "insert"
           \/ pc = "retry" /\ after = "free"
    BY DEF Insert, InsertRetry, allocVars, RoomToPutBack
  <1>2. CASE TryInsert
    <2>1. InRing' = InRing + 1 /\ ent_cnt' = ent_cnt + 1 /\ ~NoRoom
      BY <1>2, RingGrows
    <2>2. pc' = after /\ after \in {"idle", "scan", "grant", "free"}
      BY <1>2 DEF TryInsert, Typed, TypeOK
    <2>3. CountOK'
      BY <2>1, RingFacts DEF CountOK
    <2>4. ScanCounted'
      BY <1>1, <2>1, <2>2, RingFacts DEF ScanCounted
    <2> QED BY <2>2, <2>3, <2>4
            DEF WindowCounted, RoomToPutBack, NeverOutOfEntries
  <1>3. CASE Insert /\ NoRoom /\ compact_queue("retry")
             /\ UNCHANGED <<queueVars, insertVars>>
    <2>1. pc' = "sort" /\ resume' = "retry" /\ after' = after /\ after = "free"
      BY <1>3 DEF compact_queue, insertVars, RoomToPutBack, Insert
    <2> QED BY <1>3, <2>1, CompactCounted
            DEF ScanCounted, RoomToPutBack, NeverOutOfEntries
  <1>4. CASE NoRoom /\ pc' = "enqueue_panic" /\ UNCHANGED <<queueVars, insertVars>>
    BY <1>4 DEF queueVars, CountOK, WindowCounted, ScanCounted, RoomToPutBack,
                NeverOutOfEntries, InRing, Distance
  <1> QED BY <1>2, <1>3, <1>4 DEF Insert, InsertRetry

(* One iteration of the rotation: the counter it was started with cannot   *)
(* outlast the entries.                                                    *)
LEMMA ScanKeepsCount ==
    ASSUME Typed, Counted, AllocScan
    PROVE  Counted'
  <1> USE DEF Counted
  <1>1. /\ pc = "scan" /\ i < max_iter
        /\ max_iter' = max_iter
    BY DEF AllocScan
  <1>2. ent_cnt >= 1 /\ InRing = ent_cnt /\ ~IsEmpty
    BY <1>1, RingFacts DEF ScanCounted, CountOK
  <1>3. InRing' = InRing - 1 /\ ent_cnt' = ent_cnt - 1
    BY <1>2, RingShrinks DEF AllocScan, queue_trydequeue
  <1>4. CountOK'
    BY <1>2, <1>3 DEF CountOK
  <1>5. ~NoRoom'
    <2>1. InRing' \in 0 .. Size - 1 /\ InRing' # Size - 1
      BY <1>2, <1>3, RingFacts
    <2>2. head' \in Slots /\ tail' \in Slots
      BY ScanType DEF TypeOK
    <2> QED BY <2>1, <2>2, DistanceRange DEF InRing, NoRoom
  <1>6. \/ pc' = "insert" /\ after' = "scan" /\ i' = i + 1
        \/ pc' = "insert" /\ after' = "grant"
        \/ pc' = "grant"
    BY <1>2 DEF AllocScan, TooShort, Split, ExactFit, insert_queue
  <1> QED BY <1>1, <1>2, <1>3, <1>4, <1>5, <1>6, RingFacts
          DEF WindowCounted, ScanCounted, RoomToPutBack, NeverOutOfEntries

LEMMA NextCounted ==
    ASSUME Typed, Counted, [Next]_vars
    PROVE  Counted'
  <1>1. UNCHANGED queueVars => CountOK' /\ InRing' = InRing /\ NoRoom' = NoRoom
    BY DEF queueVars, Counted, CountOK, InRing, Distance, NoRoom
  <1>2. CASE ClientCall \/ pagealloc_init
    BY <1>1, <1>2
    DEF ClientCall, Release, pagealloc_alloc, pagealloc_init, pagealloc_free,
        Counted, WindowCounted, ScanCounted, RoomToPutBack, NeverOutOfEntries
  <1>3. CASE quicksort_pgs
    <2>1. UNCHANGED <<head, tail, ent_cnt>>
      BY <1>3 DEF quicksort_pgs
    <2>2. CountOK' /\ InRing' = InRing
      BY <2>1 DEF Counted, CountOK, InRing, Distance
    <2> QED BY <1>3, <2>1, <2>2
            DEF quicksort_pgs, Counted, WindowCounted, ScanCounted,
                RoomToPutBack, NeverOutOfEntries, insertVars, compactVars
  <1>4. CASE CompactLoop
    BY <1>4, MergeCounted
  <1>5. CASE Insert \/ InsertRetry
    BY <1>5, InsertCounted
  <1>6. CASE FreeLoop
    BY <1>1, <1>6
    DEF FreeLoop, insert_queue, Counted, WindowCounted, ScanCounted,
        RoomToPutBack, NeverOutOfEntries
  <1>7. CASE AllocPass
    <2>1. \/ pc' = "scan" /\ max_iter' - i' <= ent_cnt'
          \/ pc' = "idle"
      BY <1>7, RingFacts DEF AllocPass, AllocEnds, queueVars
    <2> QED BY <1>1, <1>7, <2>1
            DEF AllocPass, Counted, WindowCounted, ScanCounted, RoomToPutBack,
                NeverOutOfEntries
  <1>8. CASE AllocScan
    BY <1>8, ScanKeepsCount
  <1>9. CASE AllocCompact
    <2>1. CountOK' /\ WindowCounted'
      BY <1>9, CompactCounted DEF AllocCompact
    <2> QED BY <1>9, <2>1
            DEF AllocCompact, compact_queue, Counted, ScanCounted,
                RoomToPutBack, NeverOutOfEntries
  <1>10. CASE AllocGrant
    BY <1>1, <1>10
    DEF AllocGrant, AllocEnds, Counted, WindowCounted, ScanCounted,
        RoomToPutBack, NeverOutOfEntries
  <1>11. CASE UNCHANGED vars
    BY <1>1, <1>11
    DEF vars, allocVars, insertVars, compactVars, Counted, CountOK,
        WindowCounted, ScanCounted, RoomToPutBack, NeverOutOfEntries, queueVars
  <1> QED BY <1>2, <1>3, <1>4, <1>5, <1>6, <1>7, <1>8, <1>9, <1>10, <1>11
          DEF Next, Internal

LEMMA CountedInvariant == Spec => [](Typed /\ Counted)
  <1>1. Init => Typed /\ Counted
    BY InitType, InitCounted
  <1>2. Typed /\ Counted /\ [Next]_vars => (Typed /\ Counted)'
    BY NextType, NextCounted
  <1> QED BY <1>1, <1>2, PTL DEF Spec

(* queue_entcnt never reports more entries than the ring has, whatever     *)
(* compact_queue does to the head; it is exact or short by the ring size.  *)
THEOREM CounterNeverAhead == Spec => []CountNeverAhead
  <1>1. Counted => CountNeverAhead
    BY DEF Counted, CountOK, CountNeverAhead, InRing
  <1> QED BY <1>1, CountedInvariant, PTL

(* PANIC("Out of Memory!") of pagealloc_alloc is dead code: a rotation     *)
(* never meets an empty ring.                                              *)
THEOREM RotationNeverStarves == Spec => []NeverOutOfEntries
  <1>1. Counted => NeverOutOfEntries
    BY DEF Counted
  <1> QED BY <1>1, CountedInvariant, PTL

-----------------------------------------------------------------------------
(* No frame is lost track of.                                              *)

(* The locals that hold frames are empty when nobody means them: what is   *)
(* written over holds nothing.                                             *)
InHand ==
    /\ pc \in {"idle", "free", "pass", "scan", "grant"} => val = Zero /\ after = "idle"
    /\ pc \in {"sort", "merge"} /\ resume # "retry" => val = Zero /\ after = "idle"
    /\ block # {} => pc = "grant" \/ (pc = "insert" /\ after = "grant")
    /\ left # 0 => pc = "free" \/ after = "free"

(* The window that is sorted is the ring, or all slots for an empty ring.  *)
SortsTheRing ==
    pc = "sort" => /\ lo = head
                   /\ hi = IF tail - 1 < head THEN tail - 1 + Size ELSE tail - 1

Tidy == InHand /\ SortsTheRing

LEMMA InitTidy == Init => Tidy
  BY DEF Init, Tidy, InHand, SortsTheRing

LEMMA NextTidy ==
    ASSUME Typed, Counted, Tidy, [Next]_vars
    PROVE  Tidy'
  <1> USE DEF Tidy, InHand
  <1>1. CASE ClientCall \/ pagealloc_init
    BY <1>1
    DEF ClientCall, Release, pagealloc_alloc, pagealloc_init, pagealloc_free, SortsTheRing,
        allocVars, insertVars, freeVars
  <1>2. CASE quicksort_pgs
    BY <1>2 DEF quicksort_pgs, SortsTheRing, allocVars, insertVars, freeVars, compactVars
  <1>3. CASE CompactLoop
    <2>1. /\ pc = "merge" /\ UNCHANGED <<val, after, block, left>>
          /\ (pc' = "merge" /\ resume' = resume) \/ pc' = resume
          /\ resume \in {"idle", "pass", "retry"}
      BY <1>3 DEF CompactLoop, allocVars, insertVars, freeVars, Typed, TypeOK
    <2> QED BY <2>1 DEF SortsTheRing
  <1>4. CASE Insert
    <2>1. pc = "insert" /\ UNCHANGED <<block, left>> /\ after \in {"idle", "scan", "grant", "free"}
      BY <1>4 DEF Insert, allocVars, freeVars, Typed, TypeOK
    <2>2. CASE TryInsert
      BY <2>1, <2>2 DEF TryInsert, InsertEnds, SortsTheRing
    <2>3. CASE NoRoom /\ compact_queue("retry") /\ UNCHANGED <<queueVars, insertVars>>
      <3>1. after = "free" /\ block = {}
        BY <2>1, <2>3 DEF Counted, RoomToPutBack
      <3> QED BY <2>1, <2>3, <3>1 DEF compact_queue, SortsTheRing, queueVars, insertVars
    <2> QED BY <1>4, <2>2, <2>3 DEF Insert
  <1>5. CASE InsertRetry
    <2>1. pc = "retry" /\ UNCHANGED <<block, left>> /\ after = "free"
      BY <1>5 DEF InsertRetry, allocVars, freeVars, Counted, RoomToPutBack
    <2> QED BY <1>5, <2>1 DEF InsertRetry, TryInsert, InsertEnds, SortsTheRing, insertVars
  <1>6. CASE FreeLoop
    BY <1>6 DEF FreeLoop, insert_queue, SortsTheRing, allocVars, insertVars
  <1>7. CASE AllocPass
    BY <1>7 DEF AllocPass, AllocEnds, SortsTheRing, insertVars, freeVars
  <1>8. CASE AllocScan
    <2>1. pc = "scan" /\ val = Zero /\ after = "idle" /\ block = {} /\ left = 0 /\ left' = left
      BY <1>8 DEF AllocScan, freeVars
    <2>2. pc' \in {"oom_panic", "insert", "grant"}
      BY <1>8 DEF AllocScan, TooShort, Split, ExactFit, insert_queue
    <2>3. pc' = "oom_panic" => block' = {}
      BY <1>8, <2>1 DEF AllocScan, TooShort, Split, ExactFit, insert_queue
    <2>4. pc' = "insert" => after' = "grant" \/ block' = {}
      BY <1>8, <2>1 DEF AllocScan, TooShort, Split, ExactFit, insert_queue
    <2>5. pc' = "grant" => val' = Zero /\ after' = "idle"
      BY <1>8, <2>1 DEF AllocScan, TooShort, Split, ExactFit, insert_queue, insertVars
    <2> QED BY <2>1, <2>2, <2>3, <2>4, <2>5 DEF SortsTheRing
  <1>9. CASE AllocCompact
    BY <1>9 DEF AllocCompact, compact_queue, SortsTheRing, queueVars, insertVars, freeVars
  <1>10. CASE AllocGrant
    BY <1>10 DEF AllocGrant, AllocEnds, SortsTheRing, insertVars, freeVars
  <1>11. CASE UNCHANGED vars
    BY <1>11 DEF vars, queueVars, allocVars, freeVars, insertVars, compactVars, SortsTheRing
  <1> QED BY <1>1, <1>2, <1>3, <1>4, <1>5, <1>6, <1>7, <1>8, <1>9, <1>10, <1>11
          DEF Next, Internal

(* Where a slot is when the head has moved by one.                         *)
LEMMA SlotsFromHead ==
    ASSUME NEW h \in Slots, NEW s \in Slots
    PROVE  /\ Distance(h, s) \in 0 .. Size - 1
           /\ Distance(h, s) = 0 <=> s = h
           /\ s # h => Distance((h + 1) % Size, s) = Distance(h, s) - 1
           /\ s # SlotBefore(h) => Distance(SlotBefore(h), s) = Distance(h, s) + 1
           /\ Distance(h, SlotBefore(h)) = Size - 1
  <1>1. /\ (h + 1) % Size = IF h + 1 < Size THEN h + 1 ELSE 0
        /\ SlotBefore(h) = IF h > 0 THEN h - 1 ELSE Size - 1
    BY NextSlot
  <1>2. Distance(h, s) \in 0 .. Size - 1 /\ (Distance(h, s) = 0 <=> s = h)
    BY SizeAssumption DEF Distance, Slots
  <1>3. s # h => Distance((h + 1) % Size, s) = Distance(h, s) - 1
    BY <1>1, SizeAssumption DEF Distance, Slots
  <1>4. s # SlotBefore(h) => Distance(SlotBefore(h), s) = Distance(h, s) + 1
    BY <1>1, SizeAssumption DEF Distance, Slots
  <1>5. Distance(h, SlotBefore(h)) = Size - 1
    BY <1>1, SizeAssumption DEF Distance, Slots
  <1> QED BY <1>2, <1>3, <1>4, <1>5

(* An insertion keeps the live entries where they are and adds one.        *)
LEMMA LiveAfterInsert ==
    ASSUME Typed, TryInsert
    PROVE  /\ \A s \in Slots : IsLive(s) => IsLive(s)' /\ queue'[s] = queue[s]
           /\ \E t \in Slots : /\ IsLive(t)' /\ ~IsLive(t) /\ queue'[t] = val
                               /\ \A s \in Slots : IsLive(s)' => s = t \/ IsLive(s)
  <1>1. /\ head \in Slots /\ tail \in Slots /\ queue \in [Slots -> Entries]
        /\ (tail + 1) % Size \in Slots /\ SlotBefore(head) \in Slots
    BY NextSlotIsSlot DEF Typed, TypeOK
  <1>2. InRing' = InRing + 1 /\ InRing \in 0 .. Size - 1 /\ InRing # Size - 1
    BY RingGrows, RingFacts
  <1>3. /\ \A s \in Slots : IsLive(s) <=> Distance(head, s) < InRing
        /\ \A s \in Slots : IsLive(s)' <=> Distance(head', s) < InRing'
    BY DEF IsLive, InRing
  <1>4. CASE queue_tryenqueue(val)
    <2>1. PICK t \in Slots : t = tail
      BY <1>1
    <2>2. head' = head /\ queue' = [queue EXCEPT ![t] = val]
      BY <1>4, <2>1 DEF queue_tryenqueue
    <2>3. \A s \in Slots : Distance(head, s) \in 0 .. Size - 1
      BY <1>1, SlotsFromHead
    <2>4. \A s \in Slots : Distance(head, s) = InRing <=> s = t
      BY <1>1, <2>1, SizeAssumption DEF InRing, Distance, Slots
    <2>5. ~IsLive(t) /\ IsLive(t)'
      BY <1>2, <1>3, <2>2, <2>4
    <2>6. ASSUME NEW s \in Slots PROVE IsLive(s)' <=> s = t \/ IsLive(s)
      BY <1>2, <1>3, <2>2, <2>3, <2>4
    <2>7. \A s \in Slots : s # t => queue'[s] = queue[s]
      BY <1>1, <2>2
    <2>8. queue'[t] = val
      BY <1>1, <2>1, <2>2
    <2> QED BY <2>5, <2>6, <2>7, <2>8
  <1>5. CASE queue_tryenqueue_front(val)
    <2>1. PICK t \in Slots : t = SlotBefore(head)
      BY <1>1
    <2>2. head' = t /\ queue' = [queue EXCEPT ![t] = val]
      BY <1>5, <2>1 DEF queue_tryenqueue_front
    <2>3. Distance(head, t) = Size - 1 /\ Distance(t, t) = 0
      BY <1>1, <2>1, SlotsFromHead
    <2>4. \A s \in Slots : /\ Distance(head, s) \in 0 .. Size - 1
                           /\ s # t => Distance(t, s) = Distance(head, s) + 1
      BY <1>1, <2>1, SlotsFromHead
    <2>5. ~IsLive(t) /\ IsLive(t)'
      BY <1>2, <1>3, <2>2, <2>3, SizeAssumption
    <2>6. ASSUME NEW s \in Slots PROVE IsLive(s)' <=> s = t \/ IsLive(s)
      <3>1. CASE s = t
        BY <2>5, <3>1
      <3>2. CASE s # t
        BY <1>2, <1>3, <2>2, <2>4, <3>2, SizeAssumption
      <3> QED BY <3>1, <3>2
    <2>7. \A s \in Slots : s # t => queue'[s] = queue[s]
      BY <1>1, <2>2
    <2>8. queue'[t] = val
      BY <1>1, <2>2
    <2> QED BY <2>5, <2>6, <2>7, <2>8
  <1> QED BY <1>4, <1>5 DEF TryInsert

(* Whoever moves the head on by one leaves the other live entries live.    *)
LEMMA LiveAfterHead ==
    ASSUME Typed, ~IsEmpty, head' = (head + 1) % Size, tail' = tail
    PROVE  \A s \in Slots : IsLive(s)' <=> IsLive(s) /\ s # head
  <1>1. head \in Slots /\ tail \in Slots
    BY DEF Typed, TypeOK
  <1>2. InRing' = InRing - 1 /\ InRing \in 0 .. Size - 1 /\ InRing # 0
    BY RingShrinks, RingFacts
  <1>3. ASSUME NEW s \in Slots
        PROVE  /\ IsLive(s) <=> Distance(head, s) < InRing
               /\ IsLive(s)' <=> Distance(head', s) < InRing'
    BY DEF IsLive, InRing
  <1>4. ASSUME NEW s \in Slots, s # head
        PROVE  Distance(head', s) = Distance(head, s) - 1 /\ Distance(head, s) \in Int
    BY <1>1, <1>4, SlotsFromHead
  <1>5. Distance(head', head) = Size - 1
    <2>1. (head + 1) % Size = IF head + 1 < Size THEN head + 1 ELSE 0
      BY <1>1, NextSlot
    <2> QED BY <1>1, <2>1, SizeAssumption DEF Distance, Slots
  <1>6. ASSUME NEW s \in Slots PROVE IsLive(s)' <=> IsLive(s) /\ s # head
    <2>1. CASE s = head
      BY <1>1, <1>2, <1>3, <1>5, <2>1, SizeAssumption
    <2>2. CASE s # head
      BY <1>2, <1>3, <1>4, <2>2, SizeAssumption
    <2> QED BY <2>1, <2>2
  <1> QED BY <1>6

(* While the ring is sorted, the window is its live slots.                 *)
LEMMA LiveWindow ==
    ASSUME Typed, SortsTheRing, pc = "sort", ~IsEmpty
    PROVE  hi = lo + InRing - 1 /\ \A s \in Slots : IsLive(s) <=> Unrolled(s) <= hi
  <1>1. head \in Slots /\ tail \in Slots /\ head # tail
    BY DEF Typed, TypeOK, IsEmpty
  <1>2. lo = head /\ hi = IF tail - 1 < head THEN tail - 1 + Size ELSE tail - 1
    BY DEF SortsTheRing
  <1>3. hi = lo + InRing - 1 /\ InRing \in Nat
    BY <1>1, <1>2, SizeAssumption DEF InRing, Distance, Slots
  <1>4. ASSUME NEW s \in Slots PROVE IsLive(s) <=> Unrolled(s) <= hi
    <2>1. Unrolled(s) = lo + Distance(head, s) /\ Distance(head, s) \in Int
      BY <1>1, <1>2, SizeAssumption DEF Unrolled, Distance, Slots
    <2>2. IsLive(s) <=> Distance(head, s) < InRing
      BY DEF IsLive, InRing
    <2>3. lo \in Int
      BY <1>1, <1>2 DEF Slots
    <2> QED BY <1>3, <2>1, <2>2, <2>3
  <1> QED BY <1>3, <1>4

LEMMA LiveAfterSort ==
    ASSUME Typed, SortsTheRing, quicksort_pgs
    PROVE  \A s \in Slots : IsLive(s) => \E t \in Slots : IsLive(t) /\ queue'[t] = queue[s]
  <1> SUFFICES ASSUME NEW s \in Slots, IsLive(s)
               PROVE  \E t \in Slots : IsLive(t) /\ queue'[t] = queue[s]
    OBVIOUS
  <1>1. pc = "sort" /\ SortedOrder \in Bijection(lo .. hi, lo .. hi)
    BY DEF quicksort_pgs
  <1>2. ~IsEmpty
    <2>1. Distance(head, s) \in Nat /\ Distance(head, s) < InRing
      BY SlotsFromHead DEF IsLive, InRing, Typed, TypeOK
    <2> QED BY <2>1, RingFacts
  <1>3. Unrolled(s) \in lo .. hi
    <2>1. Unrolled(s) <= hi /\ Unrolled(s) \in Nat /\ Unrolled(s) >= lo
      BY <1>1, <1>2, LiveWindow, UnrolledSlots
    <2> QED BY <2>1, RingFacts
  <1>4. PICK k \in lo .. hi : SortedOrder[k] = Unrolled(s)
    BY <1>1, <1>3 DEF Bijection, Surjection
  <1>5. PICK t \in Slots : t = k % Size
    BY <1>1, UnrolledSlots
  <1>6. Unrolled(t) = k
    BY <1>1, <1>5, UnrolledSlots
  <1>7. k <= hi
    BY <1>4
  <1>8. IsLive(t)
    BY <1>1, <1>2, <1>6, <1>7, LiveWindow
  <1>9. queue'[t] = queue[Unrolled(s) % Size]
    BY <1>4, <1>6, <1>7 DEF quicksort_pgs
  <1>10. Unrolled(s) % Size = s
    BY <1>1, UnrolledSlots
  <1> QED BY <1>8, <1>9, <1>10

(* A merge of the first two entries.                                       *)
LEMMA LiveAfterMerge ==
    ASSUME Typed, Counted, pc = "merge", lo < hi - 1, Mergeable, MergeEntries,
           lo % Size = head, NEW s \in Slots, IsLive(s)
    PROVE  \E t \in Slots : IsLive(t)' /\ Pages(queue[s]) \subseteq Pages(queue'[t])
  <1>1. PICK a, b \in Slots : a = lo % Size /\ b = (lo + 1) % Size /\ a # b /\ b = (a + 1) % Size
    BY MergeSlots
  <1>2. /\ queue \in [Slots -> Entries] /\ queue[a] \in Entries /\ queue[b] \in Entries
        /\ head = a /\ InRing \in Int /\ lo \in Int /\ hi \in Int
    BY <1>1, RingFacts DEF Typed, TypeOK
  <1>3. PICK new : new = BUILD_ENTRY(queue[a].addr, GET_PG_CNT(queue[a]) + GET_PG_CNT(queue[b]))
    OBVIOUS
  <1>4. Pages(new) = Pages(queue[a]) \cup Pages(queue[b])
    BY <1>1, <1>2, <1>3, MergedPages DEF Mergeable
  <1>5. /\ queue' = [queue EXCEPT ![b] = new, ![a] = Zero]
        /\ head' = (head + 1) % Size /\ tail' = tail
    BY <1>1, <1>3 DEF MergeEntries
  <1>6. Distance(head, s) \in Nat /\ Distance(head, s) < InRing
    BY SlotsFromHead DEF IsLive, InRing, Typed, TypeOK
  <1>7. ~IsEmpty /\ InRing > 2
    <2>1. InRing # 0
      BY <1>2, <1>6
    <2>2. hi - lo < InRing
      BY <2>1 DEF Counted, WindowCounted
    <2> QED BY <1>2, <2>1, <2>2, RingFacts
  <1>8. \A t \in Slots : IsLive(t)' <=> IsLive(t) /\ t # a
    BY <1>2, <1>5, <1>7, LiveAfterHead
  <1>9. IsLive(b)
    <2>1. Distance(b, b) = Distance(a, b) - 1 /\ Distance(b, b) = 0 /\ Distance(a, b) \in Int
      BY <1>1, SlotsFromHead
    <2>2. Distance(head, b) = 1
      BY <1>2, <2>1
    <2> QED BY <1>7, <2>2, <1>2 DEF IsLive, InRing
  <1>10. queue'[b] = new /\ \A t \in Slots : t # a /\ t # b => queue'[t] = queue[t]
    BY <1>1, <1>2, <1>5
  <1>11. CASE s = a \/ s = b
    BY <1>1, <1>4, <1>8, <1>9, <1>10, <1>11
  <1>12. CASE s # a /\ s # b
    BY <1>8, <1>10, <1>12
  <1> QED BY <1>11, <1>12

LEMMA TrackedKept ==
    ASSUME \A s \in Slots : IsLive(s) =>
              \/ \E t \in Slots : IsLive(t)' /\ Pages(queue[s]) \subseteq Pages(queue'[t])
              \/ Pages(queue[s]) \subseteq Pages(val') \cup block',
           Pages(val) \cup Run(addr, left) \cup block \cup held
              \subseteq LiveFrames' \cup Pages(val') \cup Run(addr', left') \cup block' \cup held' \cup {0}
    PROVE  Tracked \subseteq Tracked'
  <1>1. \A f : f \in LiveFrames <=> \E s \in Slots : IsLive(s) /\ f \in Pages(queue[s])
    BY DEF LiveFrames
  <1>2. \A f : f \in LiveFrames' <=> \E t \in Slots : IsLive(t)' /\ f \in Pages(queue'[t])
    BY DEF LiveFrames
  <1>3. Tracked' = (LiveFrames' \cup Pages(val') \cup Run(addr', left') \cup block' \cup held') \ {0}
    BY DEF Tracked, Pages, Run, GET_PG_CNT
  <1>4. LiveFrames \subseteq LiveFrames' \cup Pages(val') \cup block'
    BY <1>1, <1>2
  <1> QED BY <1>3, <1>4 DEF Tracked

LEMMA RingUntouched ==
    ASSUME UNCHANGED queueVars
    PROVE  \A s \in Slots : IsLive(s) =>
              \E t \in Slots : IsLive(t)' /\ Pages(queue[s]) \subseteq Pages(queue'[t])
  <1> SUFFICES ASSUME NEW s \in Slots, IsLive(s)
               PROVE  \E t \in Slots : IsLive(t)' /\ Pages(queue[s]) \subseteq Pages(queue'[t])
    OBVIOUS
  <1>1. queue' = queue /\ head' = head /\ tail' = tail
    BY DEF queueVars
  <1>2. IsLive(s)'
    BY <1>1 DEF IsLive, Distance
  <1> QED BY <1>1, <1>2

LEMMA FreeKeepsTrack ==
    ASSUME Typed, Tidy, pc = "idle", NEW a, NEW n, pagealloc_free(a, n)
    PROVE  Tracked \subseteq Tracked'
  <1>1. /\ held' = held \ Run(a, n) /\ addr' = a /\ left' = n
        /\ UNCHANGED <<queueVars, val, block>>
    BY DEF pagealloc_free, allocVars, insertVars
  <1>2. Run(addr, left) = {}
    <2>1. left = 0 /\ addr \in Nat
      BY DEF Tidy, InHand, Typed, TypeOK
    <2> QED BY <2>1 DEF Run
  <1> QED BY <1>1, <1>2, RingUntouched, TrackedKept

LEMMA InsertKeepsTrack ==
    ASSUME Typed, Tidy, TryInsert, UNCHANGED <<addr, left, block, held>>
    PROVE  Tracked \subseteq Tracked'
  <1>1. /\ \A s \in Slots : IsLive(s) => IsLive(s)' /\ queue'[s] = queue[s]
        /\ \E t \in Slots : IsLive(t)' /\ queue'[t] = val
    BY LiveAfterInsert
  <1>2. \A f : f \in LiveFrames' <=> \E t \in Slots : IsLive(t)' /\ f \in Pages(queue'[t])
    BY DEF LiveFrames
  <1>3. Pages(val) \subseteq LiveFrames'
    BY <1>1, <1>2
  <1> QED BY <1>1, <1>3, TrackedKept

LEMMA FreeLoopKeepsTrack ==
    ASSUME Typed, Tidy, FreeLoop
    PROVE  Tracked \subseteq Tracked'
  <1> DEFINE n == IF left >= MaxEntries THEN MaxEntries ELSE left
  <1>1. pc = "free" /\ UNCHANGED <<queueVars, held, block>>
    BY DEF FreeLoop, allocVars
  <1>2. Pages(val) = {0}
    BY <1>1, ZeroIsEntry DEF Tidy, InHand
  <1>3. Run(addr, left) \subseteq Pages(val') \cup Run(addr', left')
    <2>1. CASE left > 0
      <3>1. n \in 1 .. MaxEntries /\ n \in 0 .. left /\ addr \in Nat /\ left \in Nat
        BY <2>1, PageAllocAssumption DEF Typed, TypeOK
      <3>2. val' = BUILD_ENTRY(addr, n) /\ addr' = addr + n /\ left' = left - n
        BY <2>1 DEF FreeLoop, insert_queue
      <3>3. Pages(val') = Run(addr, n) /\ Run(addr', left') = Run(addr + n, left - n)
        BY <3>1, <3>2, BuiltPages
      <3> HIDE DEF n
      <3> QED BY <3>1, <3>3, CutRun
    <2>2. CASE left = 0
      BY <2>2 DEF Run, Typed, TypeOK
    <2> QED BY <2>1, <2>2 DEF FreeLoop
  <1> QED BY <1>1, <1>2, <1>3, RingUntouched, TrackedKept

LEMMA ScanKeepsTrack ==
    ASSUME Typed, Tidy, AllocScan
    PROVE  Tracked \subseteq Tracked'
  <1>1. /\ pc = "scan" /\ UNCHANGED <<addr, left, held>>
        /\ val = Zero /\ block = {}
    BY DEF AllocScan, freeVars, Tidy, InHand
  <1>2. Pages(val) = {0}
    BY <1>1, ZeroIsEntry
  <1>3. CASE IsEmpty
    <2>1. UNCHANGED <<queueVars, val, block>>
      BY <1>3 DEF AllocScan, insertVars
    <2> QED BY <1>1, <2>1, RingUntouched, TrackedKept
  <1>4. CASE ~IsEmpty
    <2>1. PICK deq : deq = queue_peek
      OBVIOUS
    <2>2. /\ deq = queue[head] /\ deq \in Entries /\ head \in Slots
          /\ queue' = [queue EXCEPT ![head] = Zero]
          /\ head' = (head + 1) % Size /\ tail' = tail
          /\ queue \in [Slots -> Entries]
      BY <1>4, <2>1 DEF queue_peek, AllocScan, queue_trydequeue, Typed, TypeOK
    <2>3. /\ deq.addr \in Nat /\ want \in Nat
          /\ GET_PG_CNT(deq) \in 1 .. MaxEntries
          /\ Pages(deq) = Run(deq.addr, GET_PG_CNT(deq))
      BY <2>2, EntryPages DEF Typed, TypeOK
    <2>4. Pages(deq) \subseteq Pages(val') \cup block'
      <3>1. CASE TooShort(deq)
        BY <3>1 DEF TooShort, insert_queue
      <3>2. CASE Split(deq)
        <4>1. /\ want \in 0 .. GET_PG_CNT(deq)
              /\ GET_PG_CNT(deq) - want \in 1 .. MaxEntries
              /\ deq.addr + want \in Nat
          BY <2>3, <3>2, PageAllocAssumption DEF Split
        <4>2. /\ block' = Run(deq.addr, want)
              /\ Pages(val') = Run(deq.addr + want, GET_PG_CNT(deq) - want)
          BY <3>2, <4>1, BuiltPages DEF Split, insert_queue
        <4> QED BY <2>3, <4>1, <4>2, CutRun
      <3>3. CASE ExactFit(deq)
        BY <2>3, <3>3 DEF ExactFit
      <3> QED BY <1>4, <2>1, <3>1, <3>2, <3>3 DEF AllocScan
    <2>5. \A s \in Slots : IsLive(s)' <=> IsLive(s) /\ s # head
      BY <1>4, <2>2, LiveAfterHead
    <2>6. \A s \in Slots : s # head => queue'[s] = queue[s]
      BY <2>2
    <2>7. \A s \in Slots : IsLive(s) =>
             \/ \E t \in Slots : IsLive(t)' /\ Pages(queue[s]) \subseteq Pages(queue'[t])
             \/ Pages(queue[s]) \subseteq Pages(val') \cup block'
      BY <2>2, <2>4, <2>5, <2>6
    <2>8. Pages(val) \cup Run(addr, left) \cup block \cup held
             \subseteq LiveFrames' \cup Pages(val') \cup Run(addr', left') \cup block' \cup held' \cup {0}
      BY <1>1, <1>2
    <2> QED BY <2>7, <2>8, TrackedKept
  <1> QED BY <1>3, <1>4

LEMMA StepKeepsTrack ==
    ASSUME Typed, Counted, Tidy, [Next]_vars, ~MergesPastHead
    PROVE  Tracked \subseteq Tracked'
  <1> USE DEF Tidy, InHand
  <1>1. CASE pagealloc_init
    BY <1>1, FreeKeepsTrack DEF pagealloc_init
  <1>2. ASSUME NEW a, NEW n, Release(a, n) PROVE Tracked \subseteq Tracked'
    BY <1>2, FreeKeepsTrack DEF Release
  <1>3. CASE quicksort_pgs
    <2>1. UNCHANGED <<val, addr, left, block, held, head, tail>>
      BY <1>3 DEF quicksort_pgs, allocVars, freeVars, insertVars
    <2>2. \A s \in Slots : IsLive(s) => \E t \in Slots : IsLive(t) /\ queue'[t] = queue[s]
      BY <1>3, LiveAfterSort
    <2>3. \A t \in Slots : IsLive(t)' <=> IsLive(t)
      BY <2>1 DEF IsLive, Distance
    <2> QED BY <2>1, <2>2, <2>3, TrackedKept
  <1>4. CASE CompactLoop
    <2>1. UNCHANGED <<val, addr, left, block, held>>
      BY <1>4 DEF CompactLoop, allocVars, freeVars, insertVars
    <2>2. CASE UNCHANGED queueVars
      BY <2>1, <2>2, RingUntouched, TrackedKept
    <2>3. ASSUME pc = "merge", lo < hi - 1, Mergeable, MergeEntries PROVE Tracked \subseteq Tracked'
      BY <2>1, <2>3, LiveAfterMerge, TrackedKept DEF MergesPastHead
    <2> QED BY <1>4, <2>2, <2>3 DEF CompactLoop
  <1>5. CASE Insert \/ InsertRetry
    <2>1. UNCHANGED <<addr, left, block, held>>
      BY <1>5 DEF Insert, InsertRetry, allocVars, freeVars
    <2>2. CASE TryInsert
      BY <2>1, <2>2, InsertKeepsTrack
    <2>3. CASE UNCHANGED <<queueVars, insertVars>>
      BY <2>1, <2>3, RingUntouched, TrackedKept DEF insertVars
    <2> QED BY <1>5, <2>2, <2>3 DEF Insert, InsertRetry
  <1>6. CASE FreeLoop
    BY <1>6, FreeLoopKeepsTrack
  <1>7. CASE AllocPass
    <2>1. UNCHANGED <<queueVars, val, addr, left, held>> /\ block = {}
      BY <1>7 DEF AllocPass, insertVars, freeVars
    <2> QED BY <2>1, RingUntouched, TrackedKept
  <1>8. CASE AllocScan
    BY <1>8, ScanKeepsTrack
  <1>9. CASE AllocGrant
    <2>1. UNCHANGED <<queueVars, val, addr, left>> /\ held' = held \cup block
      BY <1>9 DEF AllocGrant, insertVars, freeVars
    <2> QED BY <2>1, RingUntouched, TrackedKept
  <1>10. CASE UNCHANGED <<queueVars, val, addr, left, block, held>>
    BY <1>10, RingUntouched, TrackedKept
  <1>11. AllocCompact \/ UNCHANGED vars \/ (\E n \in 0 .. MaxRequest : pagealloc_alloc(n))
            => UNCHANGED <<queueVars, val, addr, left, block, held>>
    BY DEF AllocCompact, pagealloc_alloc, vars, allocVars, freeVars, insertVars
  <1> QED BY <1>1, <1>2, <1>3, <1>4, <1>5, <1>6, <1>7, <1>8, <1>9, <1>10, <1>11
          DEF Next, Internal, ClientCall

LEMMA TidyInvariant == Spec => [](Typed /\ Counted /\ Tidy)
  <1>1. Init => Typed /\ Counted /\ Tidy
    BY InitType, InitCounted, InitTidy
  <1>2. Typed /\ Counted /\ Tidy /\ [Next]_vars => (Typed /\ Counted /\ Tidy)'
    BY NextType, NextCounted, NextTidy
  <1> QED BY <1>1, <1>2, PTL DEF Spec

(* No step of the allocator loses a frame, in any memory, ring and history *)
(* of calls, but for a merge that moves the head past an entry which was   *)
(* not merged.                                                             *)
THEOREM FramesStayTracked == Spec => NothingLost
  <1>1. Typed /\ Counted /\ Tidy /\ [Next]_vars
           => [~MergesPastHead => Tracked \subseteq Tracked']_vars
    BY StepKeepsTrack
  <1> QED BY <1>1, TidyInvariant, PTL DEF Spec, NothingLost

-----------------------------------------------------------------------------
(* Failure is honest.  The argument follows a call of pagealloc_alloc: the *)
(* compaction after the first rotation leaves nothing to merge; the second *)
(* rotation finds every entry too short and only moves them; the second    *)
(* compaction then merges nothing, so they are still too short at the end. *)

LiveEntries == {queue[s] : s \in {t \in Slots : IsLive(t)}}

AllShort(E, n) == \A e \in E : GET_PG_CNT(e) < n

(* The two entries are neighbours and fit into one: what Mergeable asks.   *)
Fits(e, f) ==
    /\ GET_PG_CNT(e) + e.addr = f.addr
    /\ GET_PG_CNT(e) + GET_PG_CNT(f) < MaxEntries

(* After a compaction nothing is left to merge, but for the last two       *)
(* entries, which the loop does not look at.                               *)
Settled(E) == \A e, f \in E : Fits(e, f) => \A g \in E : g.addr <= f.addr

(* The last n entries are too short.                                       *)
LastShort(n) ==
    \A s \in Slots : Distance(head, s) \in InRing - n .. InRing - 1 => GET_PG_CNT(queue[s]) < want

(* A rotation has passed over as many entries as it has put back, and it   *)
(* does not change what there is to merge.                                 *)
RotationInv ==
    /\ pc = "scan" =>
          /\ j < 2 /\ ent_cnt = max_iter /\ LastShort(i)
          /\ j = 1 /\ ent_cnt >= 0 => Settled(LiveEntries)
    /\ pc = "insert" /\ after = "scan" =>
          /\ j < 2 /\ side = "back" /\ ent_cnt = max_iter - 1 /\ i \in 1 .. max_iter
          /\ GET_PG_CNT(val) < want /\ LastShort(i - 1)
          /\ j = 1 => Settled(LiveEntries \cup {val})

(* The second rotation comes after a compaction, and what it has found too *)
(* short the compaction after it cannot make longer.                       *)
PassInv ==
    pc = "pass" =>
        /\ j <= 2
        /\ j = 1 /\ ent_cnt >= 0 => Settled(LiveEntries)
        /\ j = 2 /\ ent_cnt >= 0 => AllShort(LiveEntries, want)

CompactInv ==
    pc \in {"sort", "merge"} /\ resume = "pass" =>
        /\ j \in {1, 2}
        /\ j = 2 /\ ent_cnt >= 0 => Settled(LiveEntries) /\ AllShort(LiveEntries, want)

(* The head is at First of the unrolled indices; what lies ahead of the    *)
(* merging loop is sorted, what lies behind it fits nothing.               *)
First == hi - InRing + 1

At(k) == queue[k % Size]

MergeInv ==
    pc = "merge" /\ resume = "pass" /\ ent_cnt >= 0 /\ InRing > 0 =>
        /\ First >= 0 /\ First % Size = head /\ lo <= hi
        /\ \A k \in First .. hi, l \in lo .. hi : k <= l => At(k).addr <= At(l).addr
        /\ \A k \in First .. lo - 1, l \in First .. hi : ~Fits(At(k), At(l))

Honest == RotationInv /\ PassInv /\ CompactInv /\ MergeInv

LEMMA InitHonest == Init => Honest
  BY DEF Init, Honest, RotationInv, PassInv, CompactInv, MergeInv

LEMMA LiveOnes ==
    /\ \A e : e \in LiveEntries <=> \E s \in Slots : IsLive(s) /\ queue[s] = e
    /\ \A e : e \in LiveEntries' <=> \E s \in Slots : IsLive(s)' /\ queue'[s] = e
  BY DEF LiveEntries

LEMMA SameRing ==
    ASSUME UNCHANGED queueVars
    PROVE  LiveEntries' = LiveEntries /\ ent_cnt' = ent_cnt /\ InRing' = InRing
  BY DEF LiveEntries, IsLive, Distance, queueVars, InRing

LEMMA StillSettled ==
    ASSUME NEW E, NEW F \in SUBSET E, Settled(E)
    PROVE  Settled(F)
  BY DEF Settled

LEMMA LiveTypes ==
    ASSUME Typed
    PROVE  /\ LiveEntries \subseteq Entries
           /\ \A s \in Slots : queue[s] \in Entries
  BY DEF LiveEntries, Typed, TypeOK

(* With an exact counter the ring is as long as it says.                   *)
LEMMA ExactCount ==
    ASSUME Typed, Counted, ent_cnt >= 0
    PROVE  InRing = ent_cnt
  BY RingFacts DEF Counted, CountOK

(* No frame lies in two entries, and none of 0 and 1 is managed.           *)
LEMMA SharedFrame ==
    ASSUME Typed, Owned, NEW s \in Slots, NEW t \in Slots,
           queue[s].addr <= queue[t].addr,
           queue[t].addr < queue[s].addr + GET_PG_CNT(queue[s]),
           queue[t].addr # 0
    PROVE  s = t
  <1>1. queue[s] \in Entries /\ queue[t] \in Entries
    BY DEF Typed, TypeOK
  <1>2. queue[t].addr \in Pages(queue[s]) /\ queue[t].addr \in Pages(queue[t])
    BY <1>1, EntryPages DEF Run
  <1> QED BY <1>2 DEF Owned, OneOwner, Apart

LEMMA ManagedAbove == \A f \in Managed : f >= 2
  <1> SUFFICES ASSUME NEW k \in DOMAIN Regions, NEW f \in RegionFrames(k) PROVE f >= 2
    BY DEF Managed
  <1>1. Regions[k].addr >= 2 /\ Regions[k].addr \in Nat /\ Regions[k].len \in Nat
    BY RegionIsRun, RegionsAssumption
  <1> QED BY <1>1 DEF RegionFrames, Run

LEMMA ManagedEntries ==
    ASSUME Typed, Owned, NEW s \in Slots
    PROVE  /\ queue[s] \in Entries
           /\ queue[s].addr # 1
           /\ queue[s].addr = 0 => GET_PG_CNT(queue[s]) = 1
  <1>1. queue[s] \in Entries
    BY DEF Typed, TypeOK
  <1>2. PICK a \in Nat, n \in 1 .. MaxEntries :
           a = queue[s].addr /\ n = GET_PG_CNT(queue[s]) /\ Pages(queue[s]) = Run(a, n)
    BY <1>1, EntryPages
  <1>3. 1 \notin Run(a, n)
    BY <1>2, ManagedAbove DEF Owned, OnlyManaged
  <1>4. n \in Nat \ {0}
    OBVIOUS
  <1>5. a # 1 /\ (a = 0 => n = 1)
    BY <1>3, <1>4 DEF Run
  <1> QED BY <1>1, <1>2, <1>5

(* Between two neighbours there is nothing.                                *)
LEMMA NothingBetween ==
    ASSUME Typed, Owned, NEW s \in Slots, NEW t \in Slots, NEW u \in Slots,
           Fits(queue[s], queue[t]),
           queue[s].addr <= queue[u].addr, queue[u].addr <= queue[t].addr
    PROVE  u = s \/ u = t
  <1>1. PICK a, b, c, n, m \in Nat :
           /\ a = queue[s].addr /\ n = GET_PG_CNT(queue[s])
           /\ b = queue[t].addr /\ m = GET_PG_CNT(queue[t])
           /\ c = queue[u].addr
    BY EntryPages, ManagedEntries
  <1>2. n >= 1 /\ m >= 1
    BY <1>1, EntryPages, ManagedEntries
  <1>3. b = a + n /\ a # 0
    <2>1. b = a + n
      BY <1>1 DEF Fits
    <2>2. b # 1 /\ (a = 0 => n = 1)
      BY <1>1, ManagedEntries
    <2> QED BY <2>1, <2>2
  <1>4. CASE c < b
    BY <1>1, <1>3, <1>4, SharedFrame
  <1>5. CASE c = b
    <2>1. b < b + m /\ b # 0
      BY <1>2, <1>3
    <2> QED BY <1>1, <1>5, <2>1, SharedFrame
  <1> QED BY <1>1, <1>4, <1>5

(* What goes before the entry at m in the sorted window.                   *)
Before(m) ==
    {k \in lo .. hi : \/ At(k).addr < At(m).addr
                      \/ At(k).addr = At(m).addr /\ k < m}

LEMMA RankOrders ==
    ASSUME Typed, NEW m \in lo .. hi
    PROVE  /\ Rank(m) \in 0 .. hi - lo
           /\ \A n \in lo .. hi : At(m).addr < At(n).addr => Rank(m) < Rank(n)
           /\ \A n \in lo .. hi : m # n => Rank(m) # Rank(n)
  <1>1. lo \in Nat /\ hi \in Int /\ lo <= hi
    BY DEF Typed, TypeOK
  <1>2. \A k \in lo .. hi : k \in Nat /\ At(k).addr \in Nat
    BY <1>1, ModSlot, LiveTypes, EntryPages DEF At
  <1>3. IsFiniteSet(lo .. hi) /\ Cardinality(lo .. hi) = hi - lo + 1
    BY <1>1, FS_Interval
  <1>4. ASSUME NEW k \in lo .. hi
        PROVE  /\ Rank(k) = Cardinality(Before(k)) /\ Before(k) \subseteq lo .. hi
               /\ IsFiniteSet(Before(k)) /\ Rank(k) \in Nat
               /\ k \notin Before(k)
    <2>1. Rank(k) = Cardinality(Before(k)) /\ Before(k) \subseteq lo .. hi
      BY DEF Rank, Before, At
    <2>2. IsFiniteSet(Before(k)) /\ Cardinality(Before(k)) \in Nat
      BY <1>3, <2>1, FS_Subset, FS_CardinalityType
    <2>3. k \notin Before(k)
      BY <1>2 DEF Before
    <2> QED BY <2>1, <2>2, <2>3
  <1>5. ASSUME NEW k \in lo .. hi
        PROVE  /\ IsFiniteSet(Before(k) \cup {k})
               /\ Cardinality(Before(k) \cup {k}) = Rank(k) + 1
    BY <1>4, FS_AddElement
  <1>6. ASSUME NEW k \in lo .. hi, NEW l \in lo .. hi, k \in Before(l)
        PROVE  Rank(k) < Rank(l)
    <2>1. Before(k) \cup {k} \subseteq Before(l)
      <3> SUFFICES ASSUME NEW x \in Before(k) PROVE x \in Before(l)
        BY <1>6
      <3>1. x \in lo .. hi
        BY DEF Before
      <3>2. PICK a, b, c \in Nat : a = At(x).addr /\ b = At(k).addr /\ c = At(l).addr
        BY <1>2, <3>1
      <3>3. (a < b \/ (a = b /\ x < k)) /\ (b < c \/ (b = c /\ k < l))
        BY <1>6, <3>2 DEF Before
      <3>4. a < c \/ (a = c /\ x < l)
        BY <1>2, <3>1, <3>3
      <3> QED BY <3>1, <3>2, <3>4 DEF Before
    <2>2. Cardinality(Before(k) \cup {k}) <= Cardinality(Before(l))
      BY <1>4, <2>1, FS_Subset
    <2>3. Rank(k) + 1 <= Rank(l)
      BY <1>4, <1>5, <2>2
    <2> QED BY <1>4, <2>3
  <1>7. Rank(m) \in 0 .. hi - lo
    <2>1. Before(m) \cup {m} \subseteq lo .. hi
      BY <1>4
    <2>2. Cardinality(Before(m) \cup {m}) <= Cardinality(lo .. hi)
      BY <1>3, <2>1, FS_Subset
    <2>3. Rank(m) + 1 <= hi - lo + 1
      BY <1>3, <1>5, <2>2
    <2> QED BY <1>1, <1>4, <2>3
  <1>8. ASSUME NEW n \in lo .. hi, At(m).addr < At(n).addr PROVE Rank(m) < Rank(n)
    <2>1. m \in Before(n)
      BY <1>8 DEF Before
    <2> QED BY <1>6, <2>1
  <1>9. ASSUME NEW n \in lo .. hi, m # n PROVE Rank(m) # Rank(n)
    <2>1. PICK a, b \in Nat : a = At(m).addr /\ b = At(n).addr
      BY <1>2
    <2>2. a < b \/ (a = b /\ m < n) \/ b < a \/ (b = a /\ n < m)
      BY <1>2, <1>9
    <2>3. m \in Before(n) \/ n \in Before(m)
      BY <2>1, <2>2 DEF Before
    <2> QED BY <1>4, <1>6, <2>3
  <1> QED BY <1>7, <1>8, <1>9

(* So there is an entry for every rank, and SortedOrder finds it.          *)
LEMMA SortedRanks ==
    ASSUME Typed, NEW k \in lo .. hi
    PROVE  SortedOrder[k] \in lo .. hi /\ Rank(SortedOrder[k]) = k - lo
  <1>1. lo \in Nat /\ hi \in Int /\ lo <= hi
    BY DEF Typed, TypeOK
  <1> DEFINE f == [m \in lo .. hi |-> Rank(m)]
  <1>2. f \in Injection(lo .. hi, 0 .. hi - lo)
    <2>1. f \in [lo .. hi -> 0 .. hi - lo]
      BY RankOrders
    <2>2. \A m, n \in lo .. hi : f[m] = f[n] => m = n
      BY RankOrders
    <2> QED BY <2>1, <2>2 DEF Injection, IsInjective
  <1>3. f \in Surjection(lo .. hi, 0 .. hi - lo)
    <2>1. /\ IsFiniteSet(0 .. hi - lo)
          /\ Cardinality(lo .. hi) = Cardinality(0 .. hi - lo)
      BY <1>1, FS_Interval
    <2> HIDE DEF f
    <2> QED BY <1>2, <2>1, FS_Injection
  <1>4. k - lo \in 0 .. hi - lo
    BY <1>1
  <1>5. \E m \in lo .. hi : f[m] = k - lo
    <2> HIDE DEF f
    <2> QED BY <1>3, <1>4 DEF Surjection
  <1>6. \E m \in lo .. hi : Rank(m) = k - lo
    BY <1>5
  <1>7. SortedOrder[k] = CHOOSE m \in lo .. hi : Rank(m) = k - lo
    BY DEF SortedOrder
  <1> QED BY <1>6, <1>7

LEMMA SortedWindow ==
    ASSUME Typed, quicksort_pgs, NEW k \in lo .. hi
    PROVE  /\ At(k)' = At(SortedOrder[k])
           /\ SortedOrder[k] \in lo .. hi
           /\ \A l \in lo .. hi : k <= l => At(k)'.addr <= At(l)'.addr
  <1>1. ASSUME NEW l \in lo .. hi PROVE At(l)' = At(SortedOrder[l])
    <2>1. pc = "sort" /\ l <= hi
      BY DEF quicksort_pgs
    <2>2. l % Size \in Slots /\ Unrolled(l % Size) = l
      BY <2>1, UnrolledSlots
    <2>3. queue'[l % Size] = queue[SortedOrder[l] % Size]
      BY <2>1, <2>2 DEF quicksort_pgs
    <2> QED BY <2>3 DEF At
  <1>2. ASSUME NEW l \in lo .. hi, k <= l PROVE At(k)'.addr <= At(l)'.addr
    <2>1. PICK m, n \in lo .. hi :
             m = SortedOrder[k] /\ n = SortedOrder[l] /\ Rank(m) = k - lo /\ Rank(n) = l - lo
      BY SortedRanks
    <2>2. At(m).addr \in Nat /\ At(n).addr \in Nat
      <3>1. m \in Nat /\ n \in Nat
        BY DEF Typed, TypeOK
      <3> QED BY <3>1, ModSlot, LiveTypes, EntryPages DEF At
    <2>3. ~(At(n).addr < At(m).addr)
      <3>1. lo \in Nat /\ ~(l - lo < k - lo)
        BY <1>2 DEF Typed, TypeOK
      <3> QED BY <2>1, <3>1, RankOrders
    <2>4. At(m).addr <= At(n).addr
      BY <2>2, <2>3
    <2>5. At(k)' = At(m) /\ At(l)' = At(n)
      BY <1>1, <2>1
    <2> QED BY <2>4, <2>5
  <1> QED BY <1>1, <1>2, SortedRanks

(* Indices less than a turn apart are as far apart as their slots.         *)
LEMMA UnrolledDistance ==
    ASSUME NEW f \in Nat, NEW k \in Nat, f <= k, k - f < Size, k < 2 * Size
    PROVE  Distance(f % Size, k % Size) = k - f
  <1>1. Size \in Nat \ {0} /\ f < 2 * Size
    BY SizeAssumption
  <1>2. f % Size = (IF f < Size THEN f ELSE f - Size) /\ k % Size = (IF k < Size THEN k ELSE k - Size)
    BY <1>1, WrapOnce
  <1>3. CASE k < Size
    BY <1>1, <1>2, <1>3 DEF Distance
  <1>4. CASE f >= Size
    BY <1>1, <1>2, <1>4 DEF Distance
  <1>5. CASE f < Size /\ k >= Size
    BY <1>1, <1>2, <1>5 DEF Distance
  <1> QED BY <1>1, <1>3, <1>4, <1>5

(* The indices from First to hi are those of the live slots.               *)
LEMMA LivePositions ==
    ASSUME Typed, pc = "merge", InRing > 0, First >= 0, First % Size = head
    PROVE  /\ First \in Nat /\ First <= hi /\ hi - First = InRing - 1
           /\ \A k \in First .. hi :
                 /\ k \in Nat /\ k < 2 * Size /\ k % Size \in Slots /\ IsLive(k % Size)
                 /\ At(k) \in Entries
           /\ \A k, l \in First .. hi : k # l => k % Size # l % Size
           /\ \A s \in Slots : IsLive(s) => \E k \in First .. hi : s = k % Size
  <1>1. /\ head \in Slots /\ hi \in Int /\ lo \in Nat /\ hi < 2 * Size
        /\ InRing \in 1 .. Size - 1 /\ Size \in Nat
    BY RingFacts DEF Typed, WindowOK
  <1>2. First \in Nat /\ First <= hi /\ hi - First = InRing - 1
    BY <1>1 DEF First
  <1>3. ASSUME NEW k \in First .. hi
        PROVE  /\ k \in Nat /\ k < 2 * Size
               /\ k % Size = IF k < Size THEN k ELSE k - Size
    BY <1>1, <1>2, WrapOnce
  <1>4. head = IF First < Size THEN First ELSE First - Size
    BY <1>2, <1>3
  <1>5. ASSUME NEW k \in First .. hi
        PROVE  k % Size \in Slots /\ IsLive(k % Size) /\ Distance(head, k % Size) = k - First
    <2>1. k % Size \in Slots
      BY <1>3, ModSlot
    <2>2. Distance(head, k % Size) = k - First
      <3>1. First <= k /\ k - First < Size
        BY <1>1, <1>2
      <3> QED BY <1>2, <1>3, <3>1, UnrolledDistance
    <2>3. k - First < InRing
      BY <1>1, <1>2
    <2>4. IsLive(k % Size)
      BY <2>2, <2>3 DEF IsLive, InRing
    <2> QED BY <2>1, <2>2, <2>4
  <1>6. ASSUME NEW k \in First .. hi, NEW l \in First .. hi, k % Size = l % Size PROVE k = l
    <2>1. k - First = l - First
      BY <1>5, <1>6
    <2> QED BY <1>2, <1>3, <2>1
  <1>7. ASSUME NEW s \in Slots, IsLive(s) PROVE \E k \in First .. hi : s = k % Size
    <2>1. PICK d \in Nat : d = Distance(head, s) /\ d < InRing
      BY <1>1, <1>7, DistanceRange DEF IsLive, InRing
    <2>2. First + d \in First .. hi
      BY <1>1, <1>2, <2>1
    <2>3. PICK k \in First .. hi : k = First + d
      BY <2>2
    <2>4. s = k % Size
      BY <1>1, <1>2, <1>3, <1>4, <2>1, <2>3 DEF Distance, Slots
    <2> QED BY <2>4
  <1>8. \A k \in First .. hi : At(k) \in Entries
    BY <1>5, LiveTypes DEF At
  <1> QED BY <1>2, <1>3, <1>5, <1>6, <1>7, <1>8

LEMMA FitsFacts ==
    ASSUME NEW e \in Entries, NEW f \in Entries, Fits(e, f)
    PROVE  e.addr < f.addr
  BY EntryPages DEF Fits

(* In the sorted part an entry fits only the one that follows it.          *)
LEMMA FitsNext ==
    ASSUME Typed, Owned, MergeInv, pc = "merge", resume = "pass", ent_cnt >= 0, InRing > 0,
           NEW k \in lo .. hi, NEW l \in First .. hi, Fits(At(k), At(l)), First <= lo
    PROVE  l = k + 1
  <1>1. /\ First >= 0 /\ First % Size = head /\ lo <= hi
        /\ \A a \in First .. hi, b \in lo .. hi : a <= b => At(a).addr <= At(b).addr
    BY DEF MergeInv
  <1>2. First \in Nat /\ lo \in Nat /\ hi \in Int
    BY <1>1, LivePositions DEF Typed, TypeOK
  <1>3. k \in First .. hi /\ k \in Nat /\ l \in Nat
    BY <1>2
  <1>4. At(k) \in Entries /\ At(l) \in Entries
    BY <1>1, <1>3, LivePositions
  <1>5. At(k).addr < At(l).addr /\ At(k).addr \in Nat /\ At(l).addr \in Nat
    BY <1>4, EntryPages, FitsFacts
  <1>6. l > k
    <2>1. l <= k => At(l).addr <= At(k).addr
      BY <1>1
    <2> QED BY <1>3, <1>5, <2>1
  <1>7. PICK m \in lo .. hi : m = k + 1
    BY <1>2, <1>3, <1>6
  <1>8. m \in First .. hi /\ l \in lo .. hi /\ k <= m /\ m <= l
    BY <1>2, <1>3, <1>6, <1>7
  <1>9. At(k).addr <= At(m).addr /\ At(m).addr <= At(l).addr
    BY <1>1, <1>3, <1>8
  <1>10. m % Size = k % Size \/ m % Size = l % Size
    <2>1. k % Size \in Slots /\ l % Size \in Slots /\ m % Size \in Slots
      BY <1>1, <1>3, <1>8, LivePositions
    <2> QED BY <1>9, <2>1, NothingBetween DEF At
  <1>11. m = l
    <2>1. m # k
      BY <1>3, <1>7
    <2> QED BY <1>1, <1>3, <1>8, <1>10, <2>1, LivePositions
  <1> QED BY <1>7, <1>11

(* The end of the loop.                                                    *)
LEMMA MergedSettled ==
    ASSUME Typed, Counted, Owned, MergeInv, pc = "merge", resume = "pass", ent_cnt >= 0,
           lo >= hi - 1
    PROVE  Settled(LiveEntries)
  <1> SUFFICES ASSUME NEW s \in Slots, IsLive(s), NEW t \in Slots, IsLive(t),
                      NEW u \in Slots, IsLive(u), Fits(queue[s], queue[t])
               PROVE  queue[u].addr <= queue[t].addr
    BY LiveOnes DEF Settled
  <1>1. InRing > 0
    <2>1. Distance(head, s) \in Nat /\ Distance(head, s) < InRing
      BY DistanceRange DEF IsLive, InRing, Typed, TypeOK
    <2> QED BY <2>1, RingFacts
  <1>2. /\ First >= 0 /\ First % Size = head /\ lo <= hi
        /\ \A a \in First .. hi, b \in lo .. hi : a <= b => At(a).addr <= At(b).addr
        /\ \A a \in First .. lo - 1, b \in First .. hi : ~Fits(At(a), At(b))
    BY <1>1 DEF MergeInv
  <1>3. First \in Nat /\ First <= lo /\ lo \in Nat /\ hi \in Int
    <2>1. hi - lo < InRing
      BY <1>1, RingFacts DEF Counted, WindowCounted
    <2> QED BY <1>1, <1>2, <2>1, RingFacts DEF First
  <1>4. PICK k, l, m \in First .. hi : s = k % Size /\ t = l % Size /\ u = m % Size
    BY <1>1, <1>2, LivePositions
  <1>5. Fits(At(k), At(l))
    BY <1>4 DEF At
  <1>6. k \in lo .. hi
    BY <1>2, <1>3, <1>4, <1>5
  <1>7. l = k + 1
    BY <1>1, <1>3, <1>5, <1>6, FitsNext
  <1>8. l \in lo .. hi /\ m <= l
    BY <1>3, <1>4, <1>6, <1>7
  <1> QED BY <1>2, <1>4, <1>8 DEF At

(* Where nothing fits, nothing is merged.                                  *)
LEMMA NothingToMerge ==
    ASSUME Typed, Counted, Owned, MergeInv, pc = "merge", resume = "pass", ent_cnt >= 0,
           InRing > 0, Settled(LiveEntries), lo < hi - 1
    PROVE  ~Mergeable
  <1> SUFFICES ASSUME Mergeable PROVE FALSE
    OBVIOUS
  <1>1. /\ First >= 0 /\ First % Size = head /\ lo <= hi
        /\ \A a \in First .. hi, b \in lo .. hi : a <= b => At(a).addr <= At(b).addr
    BY DEF MergeInv
  <1>2. First \in Nat /\ First <= lo /\ lo \in Nat /\ hi \in Int
    <2>1. hi - lo < InRing
      BY RingFacts DEF Counted, WindowCounted
    <2> QED BY <1>1, <2>1, RingFacts DEF First
  <1>3. PICK k, l \in lo .. hi : k = lo /\ l = lo + 1
    BY <1>2
  <1>4. Fits(At(k), At(l))
    BY <1>3 DEF Mergeable, Fits, At
  <1>5. k \in First .. hi /\ l \in First .. hi /\ hi \in First .. hi /\ hi \in lo .. hi
        /\ l <= hi /\ l # hi
    BY <1>2, <1>3
  <1>6. At(k) \in LiveEntries /\ At(l) \in LiveEntries /\ At(hi) \in LiveEntries
    BY <1>1, <1>5, LivePositions, LiveOnes DEF At
  <1>7. At(hi).addr <= At(l).addr
    BY <1>4, <1>6 DEF Settled
  <1>8. At(k).addr <= At(hi).addr
    BY <1>1, <1>2, <1>5
  <1>9. hi % Size = k % Size \/ hi % Size = l % Size
    <2>1. k % Size \in Slots /\ l % Size \in Slots /\ hi % Size \in Slots
      BY <1>1, <1>5, LivePositions
    <2> QED BY <1>4, <1>7, <1>8, <2>1, NothingBetween DEF At
  <1>10. k # hi
    BY <1>2, <1>3
  <1> QED BY <1>1, <1>5, <1>9, <1>10, LivePositions

(* An iteration that does not merge.                                       *)
LEMMA PassedOver ==
    ASSUME Typed, Counted, Owned, MergeInv, pc = "merge", resume = "pass", lo < hi - 1,
           ~Mergeable, lo' = lo + 1, UNCHANGED <<queueVars, hi, pc, resume>>
    PROVE  MergeInv'
  <1> SUFFICES ASSUME ent_cnt >= 0, InRing > 0 PROVE MergeInv'
    <2>1. InRing' = InRing /\ ent_cnt' = ent_cnt
      BY SameRing
    <2> QED BY <2>1 DEF MergeInv
  <1>1. /\ First >= 0 /\ First % Size = head /\ lo <= hi
        /\ \A a \in First .. hi, b \in lo .. hi : a <= b => At(a).addr <= At(b).addr
        /\ \A a \in First .. lo - 1, b \in First .. hi : ~Fits(At(a), At(b))
    BY DEF MergeInv
  <1>2. First \in Nat /\ First <= lo /\ lo \in Nat /\ hi \in Int
    <2>1. hi - lo < InRing
      BY RingFacts DEF Counted, WindowCounted
    <2> QED BY <1>1, <2>1, RingFacts DEF First
  <1>3. ASSUME NEW b \in First .. hi, Fits(At(lo), At(b)) PROVE FALSE
    <2>1. lo \in lo .. hi
      BY <1>1, <1>2
    <2>2. b = lo + 1
      BY <1>2, <1>3, <2>1, FitsNext
    <2> QED BY <1>3, <2>2 DEF Mergeable, Fits, At
  <1>4. \A a \in First .. lo, b \in First .. hi : ~Fits(At(a), At(b))
    <2> SUFFICES ASSUME NEW a \in First .. lo, NEW b \in First .. hi PROVE ~Fits(At(a), At(b))
      OBVIOUS
    <2>1. a = lo \/ a \in First .. lo - 1
      BY <1>2
    <2> QED BY <1>1, <1>3, <2>1
  <1>5. /\ First' = First /\ hi' = hi /\ head' = head /\ lo' - 1 = lo
        /\ \A a : At(a)' = At(a)
    BY <1>2, SameRing DEF First, At, queueVars
  <1>6. lo' <= hi /\ \A a \in First .. hi, b \in lo' .. hi : a <= b => At(a).addr <= At(b).addr
    BY <1>1, <1>2
  <1> QED BY <1>1, <1>4, <1>5, <1>6 DEF MergeInv

(* An iteration that merges: the emptied slot fits nothing, the merged     *)
(* entry starts where the first of the two did.                            *)
LEMMA Merged ==
    ASSUME Typed, Counted, Owned, MergeInv, pc = "merge", resume = "pass", lo < hi - 1,
           Mergeable, MergeEntries, lo' = lo + 1, hi' = hi
    PROVE  MergeInv'
  <1> SUFFICES ASSUME ent_cnt' >= 0 PROVE MergeInv'
    BY DEF MergeInv
  <1>1. ent_cnt >= 0 /\ InRing > 0
    <2>1. ent_cnt' = ent_cnt - 1 /\ ent_cnt \in Int
      BY RingFacts DEF MergeEntries
    <2>2. ent_cnt > 0 /\ ent_cnt >= 0
      BY <2>1
    <2> QED BY <2>2, ExactCount
  <1>2. /\ First >= 0 /\ First % Size = head /\ lo <= hi
        /\ \A a \in First .. hi, b \in lo .. hi : a <= b => At(a).addr <= At(b).addr
        /\ \A a \in First .. lo - 1, b \in First .. hi : ~Fits(At(a), At(b))
    BY <1>1 DEF MergeInv
  <1>3. First \in Nat /\ First <= lo /\ lo \in Nat /\ hi \in Int
    <2>1. hi - lo < InRing
      BY <1>1, RingFacts DEF Counted, WindowCounted
    <2> QED BY <1>1, <1>2, <2>1, RingFacts DEF First
  <1>4. PICK x, y \in Entries : x = At(lo) /\ y = At(lo + 1)
    BY <1>1, <1>2, <1>3, LivePositions
  <1>5. PICK new : new = BUILD_ENTRY(x.addr, GET_PG_CNT(x) + GET_PG_CNT(y))
    OBVIOUS
  <1>6. /\ new \in Entries /\ new.addr = x.addr
        /\ GET_PG_CNT(new) = GET_PG_CNT(x) + GET_PG_CNT(y)
    <2>1. PICK n \in 1 .. MaxEntries : n = GET_PG_CNT(x) + GET_PG_CNT(y)
      <3>1. GET_PG_CNT(x) + GET_PG_CNT(y) < MaxEntries
        BY <1>4 DEF Mergeable, At
      <3> QED BY <1>4, <3>1, EntryPages, PageAllocAssumption
    <2>2. (n - 1) % MaxEntries = n - 1
      BY PageAllocAssumption
    <2>3. x.addr \in Nat /\ n \in Int
      BY EntryPages
    <2>4. GET_PG_CNT(new) = n
      BY <1>5, <2>1, <2>2 DEF BUILD_ENTRY, GET_PG_CNT
    <2> QED BY <1>5, <2>1, <2>3, <2>4, BuiltEntry DEF BUILD_ENTRY
  <1>7. /\ queue' = [queue EXCEPT ![(lo + 1) % Size] = new, ![lo % Size] = Zero]
        /\ head' = (head + 1) % Size /\ tail' = tail
    BY <1>4, <1>5 DEF MergeEntries, At
  <1>8. InRing' = InRing - 1 /\ First' = First + 1
    <2>1. InRing' = InRing - 1 /\ InRing \in Int
      BY <1>1, <1>7, RingShrinks, RingFacts
    <2> QED BY <1>3, <2>1 DEF First
  <1>9. First < hi /\ (First + 1) % Size = head'
    <2>1. First < hi
      BY <1>3
    <2>2. /\ First < 2 * Size /\ First + 1 < 2 * Size /\ First + 1 \in First .. hi
      BY <1>1, <1>2, <1>3, <2>1, LivePositions
    <2>3. First % Size = IF First < Size THEN First ELSE First - Size
      BY <1>3, <2>2, WrapOnce
    <2>4. (First + 1) % Size = IF First + 1 < Size THEN First + 1 ELSE First + 1 - Size
      <3>1. PICK k \in Nat : k = First + 1 /\ k < 2 * Size
        BY <1>3, <2>2
      <3>2. k % Size = IF k < Size THEN k ELSE k - Size
        BY <3>1, WrapOnce
      <3> QED BY <1>3, <3>1, <3>2, SizeAssumption
    <2>5. (head + 1) % Size = IF head + 1 < Size THEN head + 1 ELSE 0
      BY NextSlot DEF Typed, TypeOK
    <2> QED BY <1>2, <1>3, <1>7, <2>1, <2>2, <2>3, <2>4, <2>5, SizeAssumption
  <1>10. ASSUME NEW k \in First .. hi
         PROVE  At(k)' = IF k = lo THEN Zero ELSE IF k = lo + 1 THEN new ELSE At(k)
    <2>1. PICK l, m \in First .. hi : l = lo /\ m = lo + 1
      BY <1>3
    <2>2. /\ k % Size \in Slots /\ l % Size \in Slots /\ m % Size \in Slots
          /\ (k # l => k % Size # l % Size) /\ (k # m => k % Size # m % Size)
      BY <1>1, <1>2, <2>1, LivePositions
    <2>3. queue \in [Slots -> Entries]
      BY DEF Typed, TypeOK
    <2>4. queue'[k % Size] = IF k = l THEN Zero ELSE IF k = m THEN new ELSE queue[k % Size]
      BY <1>7, <2>1, <2>2, <2>3
    <2> QED BY <2>1, <2>4 DEF At
  <1>11. /\ x.addr \in Nat /\ Zero.addr = 0 /\ GET_PG_CNT(Zero) = 1
         /\ GET_PG_CNT(x) \in Nat \ {0} /\ GET_PG_CNT(y) \in Nat \ {0}
         /\ \A k \in First .. hi : /\ At(k) \in Entries /\ At(k).addr \in Nat /\ At(k).addr # 1
                                   /\ GET_PG_CNT(At(k)) \in Nat \ {0}
    <2>1. Zero.addr = 0 /\ GET_PG_CNT(Zero) = 1
      BY PageAllocAssumption DEF GET_PG_CNT
    <2>2. \A e \in Entries : e.addr \in Nat /\ GET_PG_CNT(e) \in Nat \ {0}
      BY EntryPages
    <2>3. \A k \in First .. hi : At(k) \in Entries /\ At(k).addr # 1
      BY <1>1, <1>2, LivePositions, ManagedEntries DEF At
    <2> QED BY <2>1, <2>2, <2>3
  <1>12. ASSUME NEW k \in First + 1 .. hi, NEW l \in lo + 1 .. hi, k <= l
         PROVE  At(k)'.addr <= At(l)'.addr
    <2>1. k \in First .. hi /\ l \in First .. hi /\ l \in lo .. hi /\ lo \in lo .. hi
          /\ lo \in First .. hi /\ k \in Int /\ l \in Int /\ l # lo
      BY <1>3
    <2>2. At(lo).addr <= At(l).addr
      BY <1>2, <2>1
    <2>3. At(l)'.addr = IF l = lo + 1 THEN x.addr ELSE At(l).addr
      BY <1>6, <1>10, <2>1
    <2>4. CASE k = lo
      BY <1>10, <1>11, <2>1, <2>3, <2>4
    <2>5. CASE k = lo + 1
      <3>1. At(k)'.addr = x.addr
        BY <1>3, <1>6, <1>10, <2>1, <2>5
      <3> QED BY <1>4, <1>11, <2>2, <2>3, <3>1
    <2>6. CASE k < lo
      <3>1. At(k)' = At(k)
        BY <1>3, <1>10, <2>1, <2>6
      <3>2. At(k).addr <= At(lo).addr /\ At(k).addr <= At(l).addr
        BY <1>2, <1>3, <2>1, <2>6, <1>12
      <3> QED BY <1>4, <2>3, <3>1, <3>2
    <2>7. CASE k > lo + 1
      <3>1. At(k)' = At(k) /\ l # lo + 1
        BY <1>3, <1>10, <1>12, <2>1, <2>7
      <3>2. At(k).addr <= At(l).addr
        BY <1>2, <1>12, <2>1
      <3> QED BY <2>3, <3>1, <3>2
    <2> QED BY <1>3, <2>1, <2>4, <2>5, <2>6, <2>7
  <1>13. ASSUME NEW k \in First + 1 .. lo, NEW l \in First + 1 .. hi, Fits(At(k)', At(l)')
         PROVE  FALSE
    <2>1. k \in First .. hi /\ l \in First .. hi /\ k \in Int /\ l \in Int
      BY <1>3
    <2>2. PICK e, f : e = At(k)' /\ f = At(l)'
      OBVIOUS
    <2>3. /\ GET_PG_CNT(e) + e.addr = f.addr
          /\ GET_PG_CNT(e) + GET_PG_CNT(f) < MaxEntries
      BY <1>13, <2>2 DEF Fits
    <2>4. f.addr \in {0, x.addr, At(l).addr} /\ f.addr # 1
      <3>1. lo \in First .. hi
        BY <1>3
      <3> QED BY <1>4, <1>6, <1>10, <1>11, <2>1, <2>2, <3>1
    <2>5. CASE k = lo
      BY <1>10, <1>11, <2>1, <2>2, <2>3, <2>4, <2>5
    <2>6. CASE k # lo
      <3>1. e = At(k) /\ k \in First .. lo - 1
        BY <1>3, <1>10, <2>1, <2>2, <2>6
      <3>2. GET_PG_CNT(e) \in Nat \ {0} /\ e.addr \in Nat
        BY <1>11, <2>1, <3>1
      <3>3. CASE l = lo
        BY <1>10, <1>11, <2>1, <2>2, <2>3, <3>2, <3>3
      <3>4. CASE l = lo + 1
        <4>1. f = new /\ l # lo
          BY <1>3, <1>10, <2>1, <2>2, <3>4
        <4>2. GET_PG_CNT(e) + e.addr = x.addr
          BY <1>6, <2>3, <4>1
        <4>3. GET_PG_CNT(e) + GET_PG_CNT(x) < MaxEntries
          BY <1>6, <1>11, <2>3, <3>2, <4>1, PageAllocAssumption
        <4>4. Fits(At(k), At(lo)) /\ lo \in First .. hi
          BY <1>3, <1>4, <3>1, <4>2, <4>3 DEF Fits
        <4> QED BY <1>2, <3>1, <4>4
      <3>5. CASE l # lo /\ l # lo + 1
        BY <1>2, <1>10, <1>13, <2>1, <2>2, <3>1, <3>5
      <3> QED BY <3>3, <3>4, <3>5
    <2> QED BY <2>5, <2>6
  <1>14. lo' - 1 = lo /\ lo' <= hi /\ First' >= 0 /\ First' % Size = head'
    BY <1>3, <1>8, <1>9
  <1> QED BY <1>8, <1>12, <1>13, <1>14 DEF MergeInv

LEMMA MergeHonest ==
    ASSUME Typed, Counted, Owned, Honest, CompactLoop
    PROVE  Honest'
  <1> USE DEF Honest
  <1>1. pc = "merge" /\ UNCHANGED <<j, want, after>> /\ resume \in {"idle", "pass", "retry"}
    BY DEF CompactLoop, allocVars, insertVars, Typed, TypeOK
  <1>2. CASE lo < hi - 1
    <2>1. UNCHANGED <<pc, hi, resume>> /\ lo' = lo + 1
      BY <1>2, RingFacts DEF CompactLoop
    <2>2. RotationInv' /\ PassInv'
      BY <1>1, <2>1 DEF RotationInv, PassInv
    <2>3. CASE resume # "pass"
      BY <2>1, <2>2, <2>3 DEF CompactInv, MergeInv
    <2>4. CASE resume = "pass" /\ ~Mergeable
      <3>1. UNCHANGED queueVars
        BY <1>2, <2>4, RingFacts DEF CompactLoop
      <3>2. MergeInv'
        BY <1>1, <1>2, <2>1, <2>4, <3>1, PassedOver
      <3>3. LiveEntries' = LiveEntries /\ ent_cnt' = ent_cnt
        BY <3>1, SameRing
      <3>4. CompactInv'
        BY <1>1, <2>1, <3>3 DEF CompactInv
      <3> QED BY <2>2, <3>2, <3>4
    <2>5. CASE resume = "pass" /\ Mergeable
      <3>1. MergeEntries
        BY <1>2, <2>5, RingFacts DEF CompactLoop
      <3>2. MergeInv'
        BY <1>1, <1>2, <2>1, <2>5, <3>1, Merged
      <3>3. ASSUME j = 2, ent_cnt' >= 0 PROVE FALSE
        <4>1. ent_cnt' = ent_cnt - 1 /\ ent_cnt \in Int
          BY <3>1, RingFacts DEF MergeEntries
        <4>2. ent_cnt >= 0 /\ ent_cnt > 0
          BY <3>3, <4>1
        <4>3. InRing > 0
          BY <4>2, ExactCount
        <4>4. Settled(LiveEntries)
          BY <1>1, <2>5, <3>3, <4>2 DEF CompactInv
        <4> QED BY <1>1, <1>2, <2>5, <4>2, <4>3, <4>4, NothingToMerge
      <3>4. CompactInv'
        BY <1>1, <2>1, <2>5, <3>3 DEF CompactInv
      <3> QED BY <2>2, <3>2, <3>4
    <2> QED BY <2>3, <2>4, <2>5
  <1>3. CASE lo >= hi - 1
    <2>1. pc' = resume /\ UNCHANGED queueVars
      BY <1>3, RingFacts DEF CompactLoop
    <2>2. LiveEntries' = LiveEntries /\ ent_cnt' = ent_cnt
      BY <2>1, SameRing
    <2>3. resume = "pass" /\ ent_cnt >= 0 => Settled(LiveEntries)
      BY <1>1, <1>3, MergedSettled
    <2>4. PassInv'
      BY <1>1, <2>1, <2>2, <2>3 DEF PassInv, CompactInv
    <2> QED BY <1>1, <2>1, <2>4 DEF RotationInv, CompactInv, MergeInv
  <1> QED BY <1>2, <1>3, RingFacts

LEMMA SortHonest ==
    ASSUME Typed, Counted, Tidy, Honest, quicksort_pgs
    PROVE  Honest'
  <1>1. /\ pc = "sort" /\ pc' = "merge"
        /\ UNCHANGED <<head, tail, ent_cnt, j, want, lo, hi, resume>>
    BY DEF quicksort_pgs, allocVars, compactVars
  <1>2. InRing' = InRing /\ \A s \in Slots : IsLive(s)' <=> IsLive(s)
    BY <1>1 DEF InRing, IsLive, Distance
  <1>3. LiveEntries' \subseteq LiveEntries
    <2> SUFFICES ASSUME NEW t \in Slots, IsLive(t) PROVE queue'[t] \in LiveEntries
      BY <1>2, LiveOnes
    <2>1. ~IsEmpty
      <3>1. Distance(head, t) \in Nat /\ Distance(head, t) < InRing
        BY DistanceRange DEF IsLive, InRing, Typed, TypeOK
      <3> QED BY <3>1, RingFacts
    <2>2. Unrolled(t) \in lo .. hi /\ Unrolled(t) % Size = t
      <3>1. Unrolled(t) <= hi /\ Unrolled(t) % Size = t /\ Unrolled(t) \in Nat /\ Unrolled(t) >= lo
        BY <1>1, <2>1, LiveWindow, UnrolledSlots DEF Tidy
      <3> QED BY <3>1, RingFacts
    <2>3. PICK k, m \in lo .. hi : k = Unrolled(t) /\ m = SortedOrder[k] /\ At(k)' = At(m)
      BY <2>2, SortedWindow
    <2>4. m % Size \in Slots /\ Unrolled(m % Size) = m /\ m <= hi
      BY <1>1, UnrolledSlots
    <2>5. IsLive(m % Size)
      BY <1>1, <2>1, <2>4, LiveWindow DEF Tidy
    <2>6. queue'[t] = queue[m % Size]
      BY <2>2, <2>3 DEF At
    <2> QED BY <2>4, <2>5, <2>6, LiveOnes
  <1>4. CompactInv'
    <2>1. Settled(LiveEntries) => Settled(LiveEntries')
      BY <1>3, StillSettled
    <2>2. AllShort(LiveEntries, want) => AllShort(LiveEntries', want')
      BY <1>1, <1>3 DEF AllShort
    <2> QED BY <1>1, <2>1, <2>2 DEF Honest, CompactInv
  <1>5. MergeInv'
    <2> SUFFICES ASSUME InRing > 0 PROVE MergeInv'
      BY <1>2 DEF MergeInv
    <2>1. lo = head /\ hi = lo + InRing - 1
      BY <1>1, RingFacts, LiveWindow DEF Tidy, SortsTheRing
    <2>2. First' = lo /\ lo \in Nat /\ lo <= hi
      BY <1>1, <1>2, <2>1, RingFacts DEF First
    <2>3. lo % Size = head
      <3>1. lo < Size
        BY <2>1, RingFacts DEF Slots
      <3> QED BY <2>1, <2>2, <3>1, SizeAssumption
    <2>4. \A k, l \in lo .. hi : k <= l => At(k)'.addr <= At(l)'.addr
      BY SortedWindow
    <2>5. lo .. lo - 1 = {}
      BY <2>2
    <2> QED BY <1>1, <2>2, <2>3, <2>4, <2>5 DEF MergeInv
  <1> QED BY <1>1, <1>4, <1>5 DEF Honest, RotationInv, PassInv

(* An entry that is put back is the last, and too short.                   *)
LEMMA InsertHonest ==
    ASSUME Typed, Counted, Honest, Insert \/ InsertRetry
    PROVE  Honest'
  <1> USE DEF Honest
  <1>1. /\ UNCHANGED <<i, max_iter, want, j>> /\ pc \in {"insert", "retry"}
        /\ (pc = "retry" => after = "free")
    BY DEF Insert, InsertRetry, allocVars, Counted, RoomToPutBack
  <1>2. CASE TryInsert /\ after # "scan"
    <2>1. pc' \in {"idle", "grant", "free"}
      BY <1>2 DEF TryInsert, Typed, TypeOK
    <2> QED BY <2>1 DEF RotationInv, PassInv, CompactInv, MergeInv
  <1>3. CASE TryInsert /\ after = "scan"
    <2>1. pc = "insert" /\ pc' = "scan"
      BY <1>1, <1>3 DEF TryInsert
    <2>2. /\ j < 2 /\ side = "back" /\ ent_cnt = max_iter - 1 /\ i \in 1 .. max_iter
          /\ GET_PG_CNT(val) < want /\ LastShort(i - 1)
          /\ j = 1 => Settled(LiveEntries \cup {val})
      BY <1>3, <2>1 DEF RotationInv
    <2>3. /\ head \in Slots /\ tail \in Slots /\ queue \in [Slots -> Entries]
          /\ head' = head /\ queue' = [queue EXCEPT ![tail] = val]
      BY <1>3, <2>2 DEF TryInsert, queue_tryenqueue, Typed, TypeOK
    <2>4. InRing' = InRing + 1 /\ ent_cnt' = ent_cnt + 1 /\ InRing \in Nat
      BY <1>3, RingGrows, RingFacts
    <2>5. LastShort(i)'
      <3> SUFFICES ASSUME NEW s \in Slots, Distance(head, s) \in InRing' - i .. InRing' - 1
                   PROVE  GET_PG_CNT(queue'[s]) < want
        BY <1>1, <2>3 DEF LastShort
      <3>1. CASE s = tail
        BY <2>2, <2>3, <3>1
      <3>2. CASE s # tail
        <4>1. Distance(head, s) # InRing
          BY <2>3, <3>2, SizeAssumption DEF InRing, Distance, Slots
        <4>2. InRing' - i = InRing - (i - 1) /\ InRing' - 1 = InRing
          BY <2>2, <2>4
        <4>3. Distance(head, s) \in InRing - (i - 1) .. InRing - 1
          BY <2>2, <2>4, <4>1, <4>2
        <4>4. queue'[s] = queue[s]
          BY <2>3, <3>2
        <4> QED BY <2>2, <4>3, <4>4 DEF LastShort
      <3> QED BY <3>1, <3>2
    <2>6. j = 1 => Settled(LiveEntries')
      <3>1. LiveEntries' \subseteq LiveEntries \cup {val}
        <4>1. /\ \A s \in Slots : IsLive(s) => IsLive(s)' /\ queue'[s] = queue[s]
              /\ \E t \in Slots : /\ IsLive(t)' /\ ~IsLive(t) /\ queue'[t] = val
                                  /\ \A s \in Slots : IsLive(s)' => s = t \/ IsLive(s)
          BY <1>3, LiveAfterInsert
        <4> QED BY <4>1, LiveOnes
      <3> QED BY <2>2, <3>1, StillSettled
    <2>7. ent_cnt' = max_iter
      BY <2>2, <2>4, RingFacts
    <2> QED BY <1>1, <2>1, <2>2, <2>5, <2>6, <2>7 DEF RotationInv, PassInv, CompactInv, MergeInv
  <1>4. CASE compact_queue("retry")
    BY <1>4 DEF compact_queue, RotationInv, PassInv, CompactInv, MergeInv
  <1>5. CASE pc' = "enqueue_panic"
    BY <1>5 DEF RotationInv, PassInv, CompactInv, MergeInv
  <1> QED BY <1>2, <1>3, <1>4, <1>5 DEF Insert, InsertRetry

LEMMA ScanHonest ==
    ASSUME Typed, Counted, Honest, AllocScan
    PROVE  Honest'
  <1> USE DEF Honest
  <1>1. pc = "scan" /\ i < max_iter /\ UNCHANGED <<want, j, max_iter>>
    BY DEF AllocScan
  <1>2. ent_cnt >= 1 /\ InRing = ent_cnt /\ ~IsEmpty
    BY <1>1, RingFacts DEF Counted, ScanCounted, CountOK
  <1>3. /\ j < 2 /\ ent_cnt = max_iter /\ LastShort(i)
        /\ j = 1 => Settled(LiveEntries)
    BY <1>1, <1>2, RingFacts DEF RotationInv
  <1>4. PICK deq : deq = queue_peek
    OBVIOUS
  <1>5. CASE ~TooShort(deq)
    <2>1. Split(deq) \/ ExactFit(deq)
      BY <1>2, <1>4, <1>5 DEF AllocScan
    <2>2. pc' = "grant" \/ (pc' = "insert" /\ after' = "grant")
      BY <2>1 DEF Split, ExactFit, insert_queue
    <2> QED BY <2>2 DEF RotationInv, PassInv, CompactInv, MergeInv
  <1>6. CASE TooShort(deq)
    <2>1. /\ GET_PG_CNT(deq) < want /\ i' = i + 1
          /\ val' = deq /\ side' = "back" /\ after' = "scan" /\ pc' = "insert"
      BY <1>6 DEF TooShort, insert_queue
    <2>2. /\ deq = queue[head] /\ head \in Slots /\ queue \in [Slots -> Entries]
          /\ queue' = [queue EXCEPT ![head] = Zero]
          /\ head' = (head + 1) % Size /\ tail' = tail /\ ent_cnt' = ent_cnt - 1
      BY <1>2, <1>4 DEF queue_peek, AllocScan, queue_trydequeue, Typed, TypeOK
    <2>3. InRing' = InRing - 1
      BY <1>2, <2>2, RingShrinks
    <2>4. \A s \in Slots : IsLive(s)' <=> IsLive(s) /\ s # head
      BY <1>2, <2>2, LiveAfterHead
    <2>5. \A s \in Slots : s # head => queue'[s] = queue[s]
      BY <2>2
    <2>6. LastShort(i - 1)'
      <3> SUFFICES ASSUME NEW s \in Slots, Distance(head', s) \in InRing' - i .. InRing' - 1
                   PROVE  GET_PG_CNT(queue'[s]) < want
        <4>1. i' - 1 = i
          BY <2>1, RingFacts
        <4> QED BY <1>1, <4>1 DEF LastShort
      <3>1. IsLive(s)'
        <4>1. Distance(head', s) < InRing'
          BY <1>2, <2>3, RingFacts
        <4> QED BY <4>1 DEF IsLive, InRing
      <3>2. s # head
        BY <2>4, <3>1
      <3>3. Distance(head', s) = Distance(head, s) - 1 /\ Distance(head, s) \in Int
        BY <2>2, <3>2, SlotsFromHead
      <3>4. Distance(head, s) \in InRing - i .. InRing - 1
        BY <2>3, <3>3, RingFacts
      <3> QED BY <1>3, <2>5, <3>2, <3>4 DEF LastShort
    <2>7. j = 1 => Settled(LiveEntries' \cup {val'})
      <3>1. IsLive(head)
        <4>1. Distance(head, head) = 0
          BY <2>2, SlotsFromHead
        <4> QED BY <1>2, <4>1, RingFacts DEF IsLive, InRing
      <3>2. LiveEntries' \cup {val'} \subseteq LiveEntries
        BY <2>1, <2>2, <2>4, <2>5, <3>1, LiveOnes
      <3> QED BY <1>3, <3>2, StillSettled
    <2>8. ent_cnt' = max_iter - 1 /\ i' \in 1 .. max_iter
      BY <1>1, <1>3, <2>1, <2>2, RingFacts
    <2> QED BY <1>1, <1>3, <2>1, <2>6, <2>7, <2>8 DEF RotationInv, PassInv, CompactInv, MergeInv
  <1> QED BY <1>5, <1>6

(* A rotation that comes to its end has found every entry too short.       *)
LEMMA CompactHonest ==
    ASSUME Typed, Counted, Honest, AllocCompact
    PROVE  Honest'
  <1>1. /\ pc = "scan" /\ i >= max_iter /\ pc' = "sort" /\ resume' = "pass"
        /\ j' = j + 1 /\ UNCHANGED <<queueVars, want>>
    BY DEF AllocCompact, compact_queue
  <1>2. /\ j < 2 /\ ent_cnt = max_iter /\ LastShort(i)
        /\ j = 1 /\ ent_cnt >= 0 => Settled(LiveEntries)
    BY <1>1 DEF Honest, RotationInv
  <1>3. j \in Nat
    BY DEF Typed, TypeOK
  <1>4. ASSUME ent_cnt >= 0 PROVE AllShort(LiveEntries, want)
    <2> SUFFICES ASSUME NEW s \in Slots, IsLive(s) PROVE GET_PG_CNT(queue[s]) < want
      BY LiveOnes DEF AllShort
    <2>1. InRing <= i
      BY <1>1, <1>2, <1>4, ExactCount
    <2>2. Distance(head, s) \in Nat /\ Distance(head, s) < InRing
      BY DistanceRange DEF IsLive, InRing, Typed, TypeOK
    <2>3. Distance(head, s) \in InRing - i .. InRing - 1
      BY <2>1, <2>2, RingFacts
    <2> QED BY <1>2, <2>3 DEF LastShort
  <1>5. LiveEntries' = LiveEntries /\ ent_cnt' = ent_cnt
    BY <1>1, SameRing
  <1>6. CompactInv'
    BY <1>1, <1>2, <1>3, <1>4, <1>5 DEF CompactInv
  <1> QED BY <1>1, <1>6 DEF Honest, RotationInv, PassInv, MergeInv

LEMMA PassHonest ==
    ASSUME Typed, Counted, Honest, AllocPass
    PROVE  Honest'
  <1>1. pc = "pass" /\ UNCHANGED queueVars
    BY DEF AllocPass
  <1>2. CASE j = 2
    <2>1. pc' = "idle"
      BY <1>2 DEF AllocPass, AllocEnds
    <2> QED BY <2>1 DEF Honest, RotationInv, PassInv, CompactInv, MergeInv
  <1>3. CASE j < 2
    <2>1. pc' = "scan" /\ i' = 0 /\ max_iter' = ent_cnt /\ j' = j
      BY <1>3 DEF AllocPass
    <2>2. LastShort(i)'
      <3>1. InRing' - i' .. InRing' - 1 = {}
        BY <1>1, <2>1, SameRing, RingFacts
      <3> QED BY <3>1 DEF LastShort
    <2>3. LiveEntries' = LiveEntries /\ ent_cnt' = ent_cnt
      BY <1>1, SameRing
    <2>4. j = 1 /\ ent_cnt >= 0 => Settled(LiveEntries)
      BY <1>1 DEF Honest, PassInv
    <2>5. RotationInv'
      BY <1>3, <2>1, <2>2, <2>3, <2>4 DEF RotationInv
    <2> QED BY <2>1, <2>5 DEF Honest, PassInv, CompactInv, MergeInv
  <1> QED BY <1>2, <1>3 DEF AllocPass

LEMMA NextHonest ==
    ASSUME Typed, Counted, Tidy, Owned, Honest, [Next]_vars
    PROVE  Honest'
  <1>1. CASE \E n \in 0 .. MaxRequest : pagealloc_alloc(n)
    <2>1. pc' = "pass" /\ j' = 0
      BY <1>1 DEF pagealloc_alloc
    <2> QED BY <2>1 DEF Honest, RotationInv, PassInv, CompactInv, MergeInv
  <1>2. CASE pagealloc_init \/ FreeLoop \/ AllocGrant
             \/ \E a \in held, n \in 1 .. MaxRequest : Release(a, n)
    <2>1. pc' \in {"free", "idle"} \/ (pc' = "insert" /\ after' = "free")
      BY <1>2 DEF pagealloc_init, Release, pagealloc_free, FreeLoop, insert_queue,
                  AllocGrant, AllocEnds
    <2> QED BY <2>1 DEF Honest, RotationInv, PassInv, CompactInv, MergeInv
  <1>3. CASE UNCHANGED vars
    <2>1. /\ UNCHANGED <<pc, j, i, max_iter, want, side, after, val, resume, lo, hi, head, queue>>
          /\ LiveEntries' = LiveEntries /\ ent_cnt' = ent_cnt /\ InRing' = InRing
      BY <1>3, SameRing DEF vars, allocVars, insertVars, compactVars, queueVars
    <2>2. RotationInv'
      BY <2>1 DEF Honest, RotationInv, LastShort
    <2>3. PassInv' /\ CompactInv'
      BY <2>1 DEF Honest, PassInv, CompactInv
    <2>4. First' = First /\ \A k : At(k)' = At(k)
      BY <2>1 DEF First, At
    <2>5. MergeInv'
      BY <2>1, <2>4 DEF Honest, MergeInv
    <2> QED BY <2>2, <2>3, <2>5 DEF Honest
  <1> QED BY <1>1, <1>2, <1>3, MergeHonest, SortHonest, InsertHonest, ScanHonest,
             CompactHonest, PassHonest
          DEF Next, Internal, ClientCall

(* An allocation that fails has met no run that is long enough, and there  *)
(* is none when it gives up, after the second compaction; provided that    *)
(* the counter of the ring is not one turn short.                          *)
THEOREM NoFalseFailure == Spec => []FailureIsHonest
  <1>1. Init => Honest
    BY InitHonest
  <1>2. Typed /\ Counted /\ Tidy /\ Owned /\ Honest /\ [Next]_vars => Honest'
    BY NextHonest
  <1>3. Honest => FailureIsHonest
    BY LiveOnes DEF Honest, PassInv, FailureIsHonest, GivesUp, NoneLongEnough, AllShort
  <1> QED BY <1>1, <1>2, <1>3, TidyInvariant, OwnershipInvariant, PTL DEF Spec, Ownership

-----------------------------------------------------------------------------
(***************************************************************************)
(* The ring buffer of queue.c under any sequence of calls.                 *)
(***************************************************************************)

(* The inductive invariant: the counter and the cleared slots need each    *)
(* other's facts about head and tail, which are ClientTypeOK's.            *)
ClientInv == ClientTypeOK /\ CountIsDistance /\ DeadSlotsClear

LEMMA InitInv == ClientInit => ClientInv
  BY SizeAssumption, ClientAssumption
  DEF ClientInit, queue_init, ClientInv, ClientTypeOK, CountIsDistance, DeadSlotsClear,
      Distance, Slots

LEMMA EnqueueInv ==
    ASSUME ClientInv, NEW v \in Values, queue_tryenqueue(v), answer' = v
    PROVE  ClientInv'
  <1> USE SizeAssumption DEF ClientInv
  <1>1. tail' = IF tail + 1 < Size THEN tail + 1 ELSE 0
    BY NextSlot DEF queue_tryenqueue, ClientTypeOK
  <1>2. head # tail'
    BY DEF queue_tryenqueue, NoRoom
  <1>3. ClientTypeOK'
    BY <1>1 DEF queue_tryenqueue, ClientTypeOK, Slots
  <1>4. CountIsDistance'
    BY <1>1, <1>2 DEF queue_tryenqueue, ClientTypeOK, CountIsDistance, Distance, Slots
  <1>5. DeadSlotsClear'
    BY <1>1, <1>2 DEF queue_tryenqueue, ClientTypeOK, DeadSlotsClear, Distance, Slots
  <1> QED BY <1>3, <1>4, <1>5

LEMMA EnqueueFrontInv ==
    ASSUME ClientInv, NEW v \in Values, queue_tryenqueue_front(v), answer' = v
    PROVE  ClientInv'
  <1> USE SizeAssumption DEF ClientInv
  <1>1. head' = IF head > 0 THEN head - 1 ELSE Size - 1
    BY NextSlot DEF queue_tryenqueue_front, ClientTypeOK
  <1>2. head # IF tail + 1 < Size THEN tail + 1 ELSE 0
    BY NextSlot DEF queue_tryenqueue_front, NoRoom, ClientTypeOK
  <1>3. ClientTypeOK'
    BY <1>1 DEF queue_tryenqueue_front, ClientTypeOK, Slots
  <1>4. CountIsDistance'
    BY <1>1, <1>2
    DEF queue_tryenqueue_front, ClientTypeOK, CountIsDistance, Distance, Slots
  <1>5. DeadSlotsClear'
    BY <1>1, <1>2
    DEF queue_tryenqueue_front, ClientTypeOK, DeadSlotsClear, Distance, Slots
  <1> QED BY <1>3, <1>4, <1>5

LEMMA DequeueInv ==
    ASSUME ClientInv, queue_trydequeue, answer' = queue_peek
    PROVE  ClientInv'
  <1> USE SizeAssumption DEF ClientInv
  <1>1. head' = IF head + 1 < Size THEN head + 1 ELSE 0
    BY NextSlot DEF queue_trydequeue, ClientTypeOK
  <1>2. head # tail
    BY DEF queue_trydequeue, IsEmpty
  <1>3. ClientTypeOK'
    BY <1>1, ClientAssumption DEF queue_trydequeue, queue_peek, ClientTypeOK, Slots
  <1>4. CountIsDistance'
    BY <1>1, <1>2
    DEF queue_trydequeue, ClientTypeOK, CountIsDistance, Distance, Slots
  <1>5. DeadSlotsClear'
    BY <1>1, <1>2
    DEF queue_trydequeue, ClientTypeOK, DeadSlotsClear, Distance, Slots
  <1> QED BY <1>3, <1>4, <1>5

LEMMA StutterInv ==
    ASSUME ClientInv, UNCHANGED queueVars, answer' \in Values \cup {Refused}
    PROVE  ClientInv'
  BY DEF ClientInv, queueVars, ClientTypeOK, CountIsDistance, DeadSlotsClear, Distance

LEMMA NextInv == ClientInv /\ [ClientNext]_clientVars => ClientInv'
  <1> SUFFICES ASSUME ClientInv, [ClientNext]_clientVars PROVE ClientInv'
    OBVIOUS
  <1>1. ASSUME NEW v \in Values, TryEnqueue(v) PROVE ClientInv'
    BY <1>1, EnqueueInv, StutterInv DEF TryEnqueue
  <1>2. ASSUME NEW v \in Values, TryEnqueueFront(v) PROVE ClientInv'
    BY <1>2, EnqueueFrontInv, StutterInv DEF TryEnqueueFront
  <1>3. CASE TryDequeue
    BY <1>3, DequeueInv, StutterInv DEF TryDequeue
  <1>4. CASE Peek
    <2>1. queue_peek \in Values
      BY DEF ClientInv, ClientTypeOK, queue_peek
    <2> QED BY <1>4, <2>1, StutterInv DEF Peek
  <1>5. CASE UNCHANGED clientVars
    BY <1>5, StutterInv DEF clientVars, queueVars, ClientInv, ClientTypeOK
  <1> QED BY <1>1, <1>2, <1>3, <1>4, <1>5 DEF ClientNext

(* queue_entcnt and the cleared slots, for every ring and every sequence   *)
(* of calls: the counter of queue.c is the number of slots from head to    *)
(* tail, and the slots outside are 0.                                      *)
THEOREM CountAndClearSlots == ClientSpec => [](CountIsDistance /\ DeadSlotsClear)
  <1>1. ClientSpec => []ClientInv
    BY InitInv, NextInv, PTL DEF ClientSpec
  <1>2. ClientInv => CountIsDistance /\ DeadSlotsClear
    BY DEF ClientInv
  <1> QED BY <1>1, <1>2, PTL

-----------------------------------------------------------------------------
(***************************************************************************)
(* The refinement: every call of the ring is the deque's call.             *)
(***************************************************************************)

(* The slot k places after slot h.                                         *)
Ahead(h, k) == IF h + k < Size THEN h + k ELSE h + k - Size

(* How the stored values, as a sequence, are read off the ring.            *)
Reads(seq, q, h, n) ==
    /\ n \in 0 .. Size - 1
    /\ seq \in Seq(Values)
    /\ Len(seq) = n
    /\ \A k \in 1 .. n : /\ Ahead(h, k - 1) \in Slots
                         /\ seq[k] = q[Ahead(h, k - 1)]

(* Steps of one slot, in terms of Ahead.                                   *)
LEMMA AheadSteps ==
    ASSUME NEW h \in Slots, NEW n \in 0 .. Size - 1
    PROVE  /\ Ahead(h, 0) = h
           /\ (h + 1) % Size = Ahead(h, 1)
           /\ Ahead(h, n) \in Slots
           /\ h = Ahead(SlotBefore(h), 1) \/ Size = 1
           /\ SlotBefore(h) \in Slots
           /\ \A k \in 1 .. n : /\ Ahead(Ahead(h, 1), k - 1) = Ahead(h, k)
                                /\ Ahead(h, k) # h
  BY SizeAssumption, NextSlot DEF Ahead, Slots

LEMMA WindowReads ==
    ASSUME NEW q \in [Slots -> Values], NEW h \in Slots,
           NEW n \in 0 .. Size - 1
    PROVE  Reads([k \in 1 .. n |-> q[(h + k - 1) % Size]], q, h, n)
  <1> USE SizeAssumption
  <1> DEFINE seq == [k \in 1 .. n |-> q[(h + k - 1) % Size]]
  <1>1. ASSUME NEW k \in 1 .. n
        PROVE  /\ (h + k - 1) % Size = Ahead(h, k - 1)
               /\ Ahead(h, k - 1) \in Slots
    <2>1. PICK m \in Nat : m = h + k - 1 /\ m < 2 * Size
      BY DEF Slots
    <2>2. m % Size = IF m < Size THEN m ELSE m - Size
      BY <2>1, WrapOnce
    <2>3. m = h + (k - 1)
      BY <2>1 DEF Slots
    <2>4. (h + k - 1) % Size = m % Size
      BY <2>1
    <2>5. m % Size = Ahead(h, k - 1)
      BY <2>1, <2>2, <2>3 DEF Ahead, Slots
    <2>6. Ahead(h, k - 1) \in Slots
      BY DEF Ahead, Slots
    <2> QED BY <2>4, <2>5, <2>6
  <1>2. seq \in [1 .. n -> Values]
    BY <1>1
  <1>3. seq \in Seq(Values) /\ Len(seq) = n
    BY <1>2
  <1>4. \A k \in 1 .. n : seq[k] = q[Ahead(h, k - 1)]
    BY <1>1
  <1> QED BY <1>1, <1>3, <1>4 DEF Reads

LEMMA ItemsRead ==
    /\ ClientInv => Reads(Items, queue, head, ent_cnt)
    /\ ClientInv' => Reads(Items', queue', head', ent_cnt')
  <1>1. ASSUME ClientInv PROVE Reads(Items, queue, head, ent_cnt)
    <2>1. ent_cnt \in 0 .. Size - 1 /\ ent_cnt = Distance(head, tail)
      BY <1>1, SizeAssumption
      DEF ClientInv, ClientTypeOK, CountIsDistance, Distance, Slots
    <2>2. queue \in [Slots -> Values] /\ head \in Slots
      BY <1>1 DEF ClientInv, ClientTypeOK
    <2> QED BY <2>1, <2>2, WindowReads DEF Items
  <1>2. ASSUME ClientInv' PROVE Reads(Items', queue', head', ent_cnt')
    <2>1. ent_cnt' \in 0 .. Size - 1 /\ ent_cnt' = Distance(head', tail')
      <3>1. head' \in Slots /\ tail' \in Slots
        BY <1>2 DEF ClientInv, ClientTypeOK
      <3>2. ent_cnt' = Distance(head', tail')
        BY <1>2 DEF ClientInv, CountIsDistance, Distance
      <3> QED BY <3>1, <3>2, DistanceRange
    <2>2. queue' \in [Slots -> Values] /\ head' \in Slots
      BY <1>2 DEF ClientInv, ClientTypeOK
    <2>3. Items' = [k \in 1 .. ent_cnt' |-> queue'[(head' + k - 1) % Size]]
      BY <2>1 DEF Items, Distance
    <2> QED BY <2>1, <2>2, <2>3, WindowReads
  <1> QED BY <1>1, <1>2

LEMMA PushBackStep ==
    ASSUME ClientInv, NEW v \in Values, queue_tryenqueue(v), answer' = v
    PROVE  D!PushBack(v)
  <1> USE SizeAssumption
  <1>1. Reads(Items, queue, head, ent_cnt)
    BY ItemsRead
  <1>2. Reads(Items', queue', head', ent_cnt')
    BY ItemsRead, EnqueueInv
  <1>3. /\ ent_cnt' = ent_cnt + 1 /\ head' = head
        /\ queue' = [queue EXCEPT ![tail] = v]
        /\ tail \in Slots /\ head \in Slots /\ queue \in [Slots -> Values]
    BY DEF queue_tryenqueue, ClientInv, ClientTypeOK
  <1>4. tail = Ahead(head, ent_cnt)
    BY DEF ClientInv, ClientTypeOK, CountIsDistance, Distance, Ahead, Slots
  <1>5. ASSUME NEW k \in 1 .. ent_cnt PROVE Items'[k] = Items[k]
    <2>1. k \in 1 .. ent_cnt'
      BY <1>1, <1>3 DEF Reads
    <2>2. Items'[k] = queue'[Ahead(head, k - 1)]
      BY <1>2, <1>3, <2>1 DEF Reads
    <2>3. Items[k] = queue[Ahead(head, k - 1)] /\ Ahead(head, k - 1) \in Slots
      BY <1>1 DEF Reads
    <2>4. Ahead(head, k - 1) # tail
      BY <1>1, <1>3, <1>4 DEF Ahead, Slots, Reads
    <2> QED BY <1>3, <2>2, <2>3, <2>4
  <1>6. Items'[ent_cnt + 1] = v
    <2>1. ent_cnt + 1 \in 1 .. ent_cnt' /\ (ent_cnt + 1) - 1 = ent_cnt
      BY <1>1, <1>3 DEF Reads
    <2>2. Items'[ent_cnt + 1] = queue'[Ahead(head, ent_cnt)]
      BY <1>2, <1>3, <2>1 DEF Reads
    <2> QED BY <1>3, <1>4, <2>2
  <1>7. Items' = Append(Items, v)
    BY <1>1, <1>2, <1>3, <1>5, <1>6 DEF Reads
  <1>8. Len(Items) < Size - 1
    BY <1>1, <1>2, <1>3 DEF Reads
  <1> QED BY <1>7, <1>8 DEF D!PushBack

LEMMA PushFrontStep ==
    ASSUME ClientInv, NEW v \in Values, queue_tryenqueue_front(v), answer' = v
    PROVE  D!PushFront(v)
  <1> USE SizeAssumption
  <1>1. Reads(Items, queue, head, ent_cnt)
    BY ItemsRead
  <1>2. Reads(Items', queue', head', ent_cnt')
    BY ItemsRead, EnqueueFrontInv
  <1>3. /\ ent_cnt' = ent_cnt + 1
        /\ queue' = [queue EXCEPT ![head'] = v]
        /\ head \in Slots /\ queue \in [Slots -> Values]
    BY DEF queue_tryenqueue_front, ClientInv, ClientTypeOK
  <1>4. head' \in Slots /\ head = Ahead(head', 1)
    <2>1. Size # 1
      BY <1>1, <1>2, <1>3 DEF Reads
    <2> QED BY <1>3, <2>1, AheadSteps DEF queue_tryenqueue_front
  <1>5. ASSUME NEW k \in 1 .. ent_cnt PROVE Items'[k + 1] = Items[k]
    <2>1. k + 1 \in 1 .. ent_cnt' /\ (k + 1) - 1 = k
      BY <1>1, <1>3 DEF Reads
    <2>2. Items'[k + 1] = queue'[Ahead(head', k)]
      BY <1>2, <2>1 DEF Reads
    <2>3. Items[k] = queue[Ahead(head, k - 1)] /\ Ahead(head, k - 1) \in Slots
      BY <1>1 DEF Reads
    <2>4. ent_cnt' \in 0 .. Size - 1 /\ ent_cnt \in 0 .. Size - 1
      BY <1>1, <1>2 DEF Reads
    <2>5. Ahead(head, k - 1) = Ahead(head', k) /\ Ahead(head', k) # head'
      BY <1>4, <2>4, AheadSteps
    <2> QED BY <1>3, <2>2, <2>3, <2>5
  <1>6. Items'[1] = v
    <2>1. 1 \in 1 .. ent_cnt' /\ Ahead(head', 1 - 1) = head'
      BY <1>1, <1>3, <1>4, AheadSteps DEF Reads
    <2>2. Items'[1] = queue'[head']
      BY <1>2, <2>1 DEF Reads
    <2> QED BY <1>3, <1>4, <2>2
  <1>7. Items' = <<v>> \o Items
    BY <1>1, <1>2, <1>3, <1>5, <1>6 DEF Reads
  <1>8. Len(Items) < Size - 1
    BY <1>1, <1>2, <1>3 DEF Reads
  <1> QED BY <1>7, <1>8 DEF D!PushFront

(* The first stored value is the one at head, and there is one exactly     *)
(* when head and tail differ.                                              *)
LEMMA FirstItem ==
    ASSUME ClientInv
    PROVE  /\ IsEmpty <=> Items = << >>
           /\ ~IsEmpty => Head(Items) = queue_peek
           /\ NoRoom <=> Len(Items) = Size - 1
  <1> USE SizeAssumption
  <1>1. Reads(Items, queue, head, ent_cnt) /\ head \in Slots /\ tail \in Slots
    BY ItemsRead DEF ClientInv, ClientTypeOK
  <1>2. IsEmpty <=> ent_cnt = 0
    BY <1>1 DEF ClientInv, CountIsDistance, Distance, IsEmpty, Slots
  <1>3. NoRoom <=> ent_cnt = Size - 1
    BY <1>1, DistanceRange DEF ClientInv, CountIsDistance, NoRoom
  <1>4. ASSUME ~IsEmpty PROVE Items[1] = queue_peek
    <2>1. 1 \in 1 .. ent_cnt /\ Ahead(head, 1 - 1) = head
      BY <1>1, <1>2, <1>4 DEF Reads, Ahead, Slots
    <2> QED BY <1>1, <2>1 DEF Reads, queue_peek
  <1>5. Items = << >> <=> ent_cnt = 0
    BY <1>1 DEF Reads
  <1>6. ~IsEmpty => Head(Items) = Items[1]
    BY <1>1, <1>2, <1>5
  <1> QED BY <1>1, <1>2, <1>3, <1>4, <1>5, <1>6 DEF Reads

LEMMA PopStep ==
    ASSUME ClientInv, queue_trydequeue, answer' = queue_peek
    PROVE  D!Pop
  <1> USE SizeAssumption
  <1>1. Reads(Items, queue, head, ent_cnt)
    BY ItemsRead
  <1>2. Reads(Items', queue', head', ent_cnt')
    BY ItemsRead, DequeueInv
  <1>3. /\ ent_cnt' = ent_cnt - 1
        /\ queue' = [queue EXCEPT ![head] = Zero]
        /\ head \in Slots /\ queue \in [Slots -> Values]
    BY DEF queue_trydequeue, ClientInv, ClientTypeOK
  <1>4. head' \in Slots /\ head' = Ahead(head, 1)
    BY <1>3, NextSlot DEF queue_trydequeue, Ahead, Slots
  <1>5. Items # << >> /\ Head(Items) = queue_peek
    BY FirstItem DEF queue_trydequeue
  <1>6. ASSUME NEW k \in 1 .. ent_cnt - 1 PROVE Items'[k] = Items[k + 1]
    <2>1. k + 1 \in 1 .. ent_cnt /\ (k + 1) - 1 = k /\ k \in 1 .. ent_cnt'
      BY <1>1, <1>3 DEF Reads
    <2>2. Items'[k] = queue'[Ahead(head', k - 1)]
      BY <1>2, <2>1 DEF Reads
    <2>3. Items[k + 1] = queue[Ahead(head, k)] /\ Ahead(head, k) \in Slots
      BY <1>1, <2>1 DEF Reads
    <2>4. ent_cnt \in 0 .. Size - 1
      BY <1>1 DEF Reads
    <2>5. Ahead(head', k - 1) = Ahead(head, k) /\ Ahead(head, k) # head
      BY <1>3, <1>4, <2>1, <2>4 DEF Ahead, Slots
    <2> QED BY <1>3, <2>2, <2>3, <2>5
  <1>7. Items' = Tail(Items)
    BY <1>1, <1>2, <1>3, <1>5, <1>6 DEF Reads
  <1> QED BY <1>5, <1>7 DEF D!Pop

LEMMA RefinedInit == ClientInit => D!Init
  BY SizeAssumption
  DEF ClientInit, queue_init, D!Init, Items, Distance

LEMMA RefinedStep ==
    ASSUME ClientInv, [ClientNext]_clientVars
    PROVE  [D!Next]_(D!vars)
  <1>0. UNCHANGED queueVars => UNCHANGED Items
    BY DEF queueVars, Items, Distance
  <1>1. ASSUME NEW v \in Values, TryEnqueue(v) PROVE D!Next
    BY <1>0, <1>1, PushBackStep, FirstItem DEF TryEnqueue, D!Next, D!RefusePush
  <1>2. ASSUME NEW v \in Values, TryEnqueueFront(v) PROVE D!Next
    BY <1>0, <1>2, PushFrontStep, FirstItem
    DEF TryEnqueueFront, D!Next, D!RefusePush
  <1>3. CASE TryDequeue
    BY <1>0, <1>3, PopStep, FirstItem DEF TryDequeue, D!Next, D!RefusePop
  <1>4. CASE Peek
    BY <1>0, <1>4, FirstItem DEF Peek, D!Next, D!Peek, D!RefusePop
  <1>5. CASE UNCHANGED clientVars
    BY <1>0, <1>5 DEF clientVars, queueVars, D!vars
  <1> QED BY <1>1, <1>2, <1>3, <1>4, <1>5 DEF ClientNext

(* The ring buffer of queue.c implements the bounded deque: for every      *)
(* number of slots and every sequence of calls, each call answers what a   *)
(* deque of Size - 1 values answers.                                       *)
THEOREM RingIsDeque == ClientSpec => ImplementsDeque
  <1>1. ClientSpec => []ClientInv
    BY InitInv, NextInv, PTL DEF ClientSpec
  <1>2. ClientInv /\ [ClientNext]_clientVars => [D!Next]_(D!vars)
    BY RefinedStep
  <1> QED BY <1>1, <1>2, RefinedInit, PTL DEF ClientSpec, D!Spec, ImplementsDeque

=============================================================================
