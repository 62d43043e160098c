----------------------------- MODULE PageAlloc -----------------------------
(***************************************************************************)
(* The physical page allocator of kernel/src/pagealloc.c.                  *)
(*                                                                         *)
(* Free memory is a ring (module Queue) of entries, each a run of page     *)
(* frames.  pagealloc_alloc rotates the ring until a run is long enough,   *)
(* cuts the request off its front, and compacts the ring (sorts it and     *)
(* merges neighbouring runs) when a whole rotation found nothing.          *)
(* pagealloc_free appends runs, and compacts the ring when it is full.     *)
(*                                                                         *)
(* Addresses and sizes are counted in frames of BTM_LEVEL bytes, so that   *)
(* the panics on a misaligned one are left out.  The boot information and  *)
(* the memory for the ring are there when pagealloc_init asks.  Each       *)
(* loop iteration and each call of the C code is one step; nothing in the  *)
(* kernel interrupts the allocator, which runs on the boot processor only. *)
(* The locals of a call take their initial values again when it returns.   *)
(***************************************************************************)
EXTENDS Queue, Sequences, FiniteSets, Functions

CONSTANTS
    MaxEntries,   \* MAX_ENTRIES: the most frames one entry can hold
    Regions,      \* bootinfo's available regions, in frames, as a sequence
    MemPages,     \* btm_sz: the memory size bootinfo reports, in frames
    MaxRequest    \* the largest request and release of a client (a bound)

(* The frames of a run that starts at frame a and has n frames.            *)
Run(a, n) == a .. a + n - 1

RegionFrames(k) == Run(Regions[k].addr, Regions[k].len)

Managed == UNION {RegionFrames(k) : k \in DOMAIN Regions}

ASSUME PageAllocAssumption ==
    /\ MaxEntries \in Nat \ {0}
    /\ MaxRequest \in Nat
    /\ MemPages \in Nat
    /\ Size = MemPages \div 2 + 1
    /\ Zero = [addr |-> 0, pg |-> 0]

(* bootinfo reserves everything below 2MB, which is more than two frames,  *)
(* and its regions do not overlap.                                         *)
ASSUME RegionsAssumption ==
    /\ Regions \in Seq([addr : Nat, len : Nat])
    /\ \A k \in DOMAIN Regions : Regions[k].addr >= 2
    /\ \A k, l \in DOMAIN Regions :
          k # l => RegionFrames(k) \cap RegionFrames(l) = {}

VARIABLES
    pc,         \* where the allocator is
    nextRegion, \* i of pagealloc_init: the next region to release
    held,       \* the frames that belong to the allocator's clients
    free_mem,   \* free_mem, in frames
    want,       \* pg_cnt of pagealloc_alloc
    j,          \* its rotation of the ring, 0 or 1
    i,          \* the entries it has dequeued in this rotation
    max_iter,   \* the entries it will dequeue in this rotation
    block,      \* the frames it is about to return
    addr,       \* addr of pagealloc_free
    left,       \* page_cnt - pg_0 of pagealloc_free
    val,        \* the entry being inserted, or Zero
    side,       \* where it goes: "front" for insert_queue_front
    after,      \* where the insertion returns to
    lo, hi,     \* compact_queue's window
    resume      \* where compact_queue returns to

allocVars   == <<want, j, i, max_iter, block>>
freeVars    == <<addr, left>>
insertVars  == <<val, side, after>>
compactVars == <<lo, hi, resume>>
vars == <<queueVars, pc, nextRegion, held, free_mem,
          allocVars, freeVars, insertVars, compactVars>>

-----------------------------------------------------------------------------
(* Entries.                                                                *)

(* Mutant: the count is stored as it is.                                   *)
BuildEntryOneMore(a, pages) == [addr |-> a, pg |-> pages % MaxEntries]

BUILD_ENTRY(a, pages) == [addr |-> a, pg |-> (pages - 1) % MaxEntries]

GET_PG_CNT(e) == e.pg + 1

Pages(e) == Run(e.addr, GET_PG_CNT(e))

Init ==
    /\ queue_init
    /\ pc = "idle"
    /\ nextRegion = 1
    /\ held = Managed
    /\ free_mem = 0
    /\ want = 0 /\ j = 0 /\ i = 0 /\ max_iter = 0
    /\ block = {}
    /\ addr = 0 /\ left = 0
    /\ val = Zero /\ side = "back" /\ after = "idle"
    /\ lo = 0 /\ hi = 0 /\ resume = "idle"

-----------------------------------------------------------------------------
(* compact_queue.                                                          *)

(* The call: the window is head..tail-1, unrolled past the last slot; for  *)
(* an empty ring it is the whole ring.                                     *)
compact_queue(return) ==
    /\ pc' = "sort"
    /\ lo' = head
    /\ hi' = IF tail - 1 < head THEN tail - 1 + Size ELSE tail - 1
    /\ resume' = return

(* The unrolled index of slot s in a window that starts at lo.             *)
Unrolled(s) == IF s >= lo THEN s ELSE s + Size

(* How many entries of the window go before the one at index m.            *)
Rank(m) ==
    LET Addr(k) == queue[k % Size].addr
    IN  Cardinality({k \in lo .. hi : \/ Addr(k) < Addr(m)
                                      \/ Addr(k) = Addr(m) /\ k < m})

(* The window's indices in the order of their entries' addresses.          *)
SortedOrder == [k \in lo .. hi |-> CHOOSE m \in lo .. hi : Rank(m) = k - lo]

(* quicksort_pgs(queue, lo, hi, size).  Module PageSort shows that the     *)
(* code sorts.  It is not stable, but entries with equal addresses are     *)
(* equal (both are Zero), so there is one sorted arrangement.              *)
quicksort_pgs ==
    /\ pc = "sort"
    /\ SortedOrder \in Bijection(lo .. hi, lo .. hi)
    /\ queue' = [s \in Slots |-> IF Unrolled(s) <= hi
                                 THEN queue[SortedOrder[Unrolled(s)] % Size]
                                 ELSE queue[s]]
    /\ pc' = "merge"
    /\ UNCHANGED <<head, tail, ent_cnt, nextRegion, held, free_mem,
                   allocVars, freeVars, insertVars, compactVars>>

(* The entries at lo and lo + 1 are neighbours and fit into one entry.     *)
Mergeable ==
    LET cur == queue[lo % Size]
        nxt == queue[(lo + 1) % Size]
    IN  /\ GET_PG_CNT(cur) + cur.addr = nxt.addr
        /\ GET_PG_CNT(cur) + GET_PG_CNT(nxt) < MaxEntries

(* Mutant: the merged entries are still counted as two.                    *)
MergeUncounted ==
    LET cur == queue[lo % Size]
        nxt == queue[(lo + 1) % Size]
        pages == GET_PG_CNT(cur) + GET_PG_CNT(nxt)
    IN  /\ queue' = [queue EXCEPT
                       ![(lo + 1) % Size] = BUILD_ENTRY(cur.addr, pages),
                       ![lo % Size] = Zero]
        /\ head' = (head + 1) % Size
        /\ UNCHANGED <<tail, ent_cnt>>

(* One iteration that merges.                                              *)
MergeEntries ==
    LET cur == queue[lo % Size]
        nxt == queue[(lo + 1) % Size]
        pages == GET_PG_CNT(cur) + GET_PG_CNT(nxt)
    IN  /\ queue' = [queue EXCEPT
                       ![(lo + 1) % Size] = BUILD_ENTRY(cur.addr, pages),
                       ![lo % Size] = Zero]
        /\ head' = (head + 1) % Size
        /\ ent_cnt' = ent_cnt - 1
        /\ UNCHANGED tail

(* The merging loop, and the return.                                       *)
CompactLoop ==
    /\ pc = "merge"
    /\ \/ /\ lo < hi - 1
          /\ lo' = lo + 1
          /\ \/ Mergeable /\ MergeEntries
             \/ ~Mergeable /\ UNCHANGED queueVars
          /\ UNCHANGED <<pc, hi, resume>>
       \/ /\ lo >= hi - 1
          /\ pc' = resume
          /\ lo' = 0 /\ hi' = 0 /\ resume' = "idle"
          /\ UNCHANGED queueVars
    /\ UNCHANGED <<nextRegion, held, free_mem, allocVars, freeVars, insertVars>>

-----------------------------------------------------------------------------
(* insert_queue and insert_queue_front.                                    *)

(* The call: entry e goes to the ring's front or back.                     *)
insert_queue(e, at, return) ==
    /\ val' = e
    /\ side' = at
    /\ after' = return
    /\ pc' = "insert"

InsertEnds == val' = Zero /\ side' = "back" /\ after' = "idle"

TryInsert ==
    /\ \/ side = "front" /\ queue_tryenqueue_front(val)
       \/ side = "back" /\ queue_tryenqueue(val)
    /\ pc' = after
    /\ InsertEnds

(* Mutant: an entry that does not fit is dropped.                          *)
InsertOrDrop ==
    /\ pc = "insert"
    /\ \/ TryInsert
       \/ NoRoom /\ pc' = after /\ InsertEnds /\ UNCHANGED queueVars
    /\ UNCHANGED <<nextRegion, held, free_mem, allocVars, freeVars, compactVars>>

(* The first attempt, which compacts the ring if it is full.               *)
Insert ==
    /\ pc = "insert"
    /\ \/ TryInsert /\ UNCHANGED compactVars
       \/ NoRoom /\ compact_queue("retry") /\ UNCHANGED <<queueVars, insertVars>>
    /\ UNCHANGED <<nextRegion, held, free_mem, allocVars, freeVars>>

(* The second attempt, and PANIC("Failed to enqueue entry.").              *)
InsertRetry ==
    /\ pc = "retry"
    /\ \/ TryInsert
       \/ NoRoom /\ pc' = "enqueue_panic" /\ UNCHANGED <<queueVars, insertVars>>
    /\ UNCHANGED <<nextRegion, held, free_mem,
                   allocVars, freeVars, compactVars>>

-----------------------------------------------------------------------------
(* pagealloc_free and pagealloc_init.                                      *)

(* The call.  A client releases frames it holds.                           *)
pagealloc_free(a, n) ==
    /\ held' = held \ Run(a, n)
    /\ free_mem' = free_mem + n
    /\ addr' = a
    /\ left' = n
    /\ pc' = "free"
    /\ UNCHANGED <<queueVars, allocVars, insertVars, compactVars>>

(* pagealloc_init releases every region that bootinfo lists.               *)
pagealloc_init ==
    /\ pc = "idle"
    /\ nextRegion <= Len(Regions)
    /\ pagealloc_free(Regions[nextRegion].addr, Regions[nextRegion].len)
    /\ nextRegion' = nextRegion + 1

Release(a, n) ==
    /\ pc = "idle"
    /\ nextRegion > Len(Regions)
    /\ Run(a, n) \subseteq held
    /\ pagealloc_free(a, n)
    /\ UNCHANGED nextRegion

(* One iteration of pagealloc_free, and the return.                        *)
FreeLoop ==
    /\ pc = "free"
    /\ \/ LET cur_pg == IF left >= MaxEntries THEN MaxEntries ELSE left
          IN  /\ left > 0
              /\ addr' = addr + cur_pg
              /\ left' = left - cur_pg
              /\ insert_queue(BUILD_ENTRY(addr, cur_pg), "back", "free")
       \/ /\ left = 0
          /\ pc' = "idle"
          /\ addr' = 0
          /\ UNCHANGED <<left, insertVars>>
    /\ UNCHANGED <<queueVars, nextRegion, held, free_mem,
                   allocVars, compactVars>>

-----------------------------------------------------------------------------
(* pagealloc_alloc.                                                        *)

(* The call.  The code drops domain, color and flags, so that the test for *)
(* physmem_alloc_flags_32bit is never true.                                *)
pagealloc_alloc(n) ==
    /\ pc = "idle"
    /\ nextRegion > Len(Regions)
    /\ want' = n
    /\ j' = 0
    /\ pc' = "pass"
    /\ UNCHANGED <<queueVars, nextRegion, held, free_mem,
                   i, max_iter, block, freeVars, insertVars, compactVars>>

AllocEnds ==
    /\ pc' = "idle"
    /\ want' = 0 /\ j' = 0 /\ i' = 0 /\ max_iter' = 0
    /\ block' = {}

(* Mutant: the rotation takes one entry more than it counted.              *)
AllocPassOneMore ==
    /\ pc = "pass"
    /\ \/ /\ j < 2
          /\ max_iter' = ent_cnt + 1
          /\ i' = 0
          /\ pc' = "scan"
          /\ UNCHANGED <<want, j, block>>
       \/ /\ j = 2
          /\ AllocEnds
    /\ UNCHANGED <<queueVars, nextRegion, held, free_mem,
                   freeVars, insertVars, compactVars>>

(* The head of the outer loop.  After two rotations the call returns -1.   *)
AllocPass ==
    /\ pc = "pass"
    /\ \/ /\ j < 2
          /\ max_iter' = ent_cnt
          /\ i' = 0
          /\ pc' = "scan"
          /\ UNCHANGED <<want, j, block>>
       \/ /\ j = 2
          /\ AllocEnds
    /\ UNCHANGED <<queueVars, nextRegion, held, free_mem,
                   freeVars, insertVars, compactVars>>

(* Mutants: an entry of the very length is passed over; what is left of a  *)
(* cut entry starts where the block does.                                  *)
TooShortOrEqual(deq) ==
    /\ GET_PG_CNT(deq) <= want
    /\ insert_queue(deq, "back", "scan")
    /\ i' = i + 1
    /\ UNCHANGED block

SplitInPlace(deq) ==
    /\ GET_PG_CNT(deq) > want
    /\ block' = Run(deq.addr, want)
    /\ insert_queue(BUILD_ENTRY(deq.addr, GET_PG_CNT(deq) - want),
                    "front", "grant")
    /\ UNCHANGED i

(* What happens to the dequeued entry: it is too short and goes to the     *)
(* back, or it is granted and what is left of it goes to the front.        *)
TooShort(deq) ==
    /\ GET_PG_CNT(deq) < want
    /\ insert_queue(deq, "back", "scan")
    /\ i' = i + 1
    /\ UNCHANGED block

Split(deq) ==
    /\ GET_PG_CNT(deq) > want
    /\ block' = Run(deq.addr, want)
    /\ insert_queue(BUILD_ENTRY(deq.addr + want, GET_PG_CNT(deq) - want),
                    "front", "grant")
    /\ UNCHANGED i

ExactFit(deq) ==
    /\ GET_PG_CNT(deq) = want
    /\ block' = Run(deq.addr, want)
    /\ pc' = "grant"
    /\ UNCHANGED <<i, insertVars>>

(* An iteration of the inner loop.  PANIC("Out of Memory!") is the case    *)
(* of a ring that is empty before the count read at the start has run out. *)
AllocScan ==
    /\ pc = "scan"
    /\ i < max_iter
    /\ IF IsEmpty
       THEN pc' = "oom_panic" /\ UNCHANGED <<queueVars, i, block, insertVars>>
       ELSE /\ queue_trydequeue
            /\ \/ TooShort(queue_peek)
               \/ Split(queue_peek)
               \/ ExactFit(queue_peek)
    /\ UNCHANGED <<nextRegion, held, free_mem, want, j, max_iter,
                   freeVars, compactVars>>

(* Mutant: the rotations are not counted.                                  *)
AllocCompactForever ==
    /\ pc = "scan"
    /\ i >= max_iter
    /\ compact_queue("pass")
    /\ i' = 0 /\ max_iter' = 0
    /\ UNCHANGED <<queueVars, nextRegion, held, free_mem, want, j,
                   block, freeVars, insertVars>>

(* The end of a rotation: compact and go round again.                      *)
AllocCompact ==
    /\ pc = "scan"
    /\ i >= max_iter
    /\ compact_queue("pass")
    /\ j' = j + 1 /\ i' = 0 /\ max_iter' = 0
    /\ UNCHANGED <<queueVars, nextRegion, held, free_mem, want,
                   block, freeVars, insertVars>>

(* The successful return.                                                  *)
AllocGrant ==
    /\ pc = "grant"
    /\ free_mem' = free_mem - want
    /\ held' = held \cup block
    /\ AllocEnds
    /\ UNCHANGED <<queueVars, nextRegion, freeVars, insertVars, compactVars>>

-----------------------------------------------------------------------------

ClientCall ==
    \/ \E n \in 0 .. MaxRequest : pagealloc_alloc(n)
    \/ \E a \in held, n \in 1 .. MaxRequest : Release(a, n)

(* The steps the allocator takes on its own.                               *)
Internal ==
    \/ pagealloc_init
    \/ quicksort_pgs \/ CompactLoop
    \/ Insert \/ InsertRetry
    \/ FreeLoop
    \/ AllocPass \/ AllocScan \/ AllocCompact \/ AllocGrant

Next == ClientCall \/ Internal

(* The processor keeps executing the allocator's code.                     *)
Spec == Init /\ [][Next]_vars /\ WF_vars(Internal)

-----------------------------------------------------------------------------

Entries == [addr : Nat, pg : 0 .. MaxEntries - 1]

TypeOK ==
    /\ queue \in [Slots -> Entries]
    /\ head \in Slots /\ tail \in Slots /\ ent_cnt \in Int
    /\ pc \in {"idle", "pass", "scan", "grant", "free", "insert", "retry",
               "sort", "merge", "enqueue_panic", "oom_panic"}
    /\ after \in {"idle", "scan", "grant", "free"}
    /\ resume \in {"idle", "pass", "retry"}
    /\ nextRegion \in 1 .. Len(Regions) + 1
    /\ held \subseteq Nat /\ block \subseteq Nat /\ free_mem \in Int
    /\ want \in Nat
    /\ j \in Nat /\ i \in Nat /\ max_iter \in Int
    /\ addr \in Nat /\ left \in Nat
    /\ val \in Entries /\ side \in {"front", "back"}
    /\ lo \in Nat /\ hi \in Int

Apart(F, G) == F \cap G \subseteq {0}

(* Every frame but frame 0 has at most one owner: a slot of the ring (a    *)
(* dead one too, since compact_queue can bring it back to life), the entry *)
(* being inserted, the rest of a release, the block about to be returned,  *)
(* or the clients.  So pagealloc_alloc never returns a frame that a client *)
(* holds or that is still free, whatever mix of splitting, merging,        *)
(* sorting and refused insertions came before.                             *)
OneOwner ==
    /\ \A s, t \in Slots : s # t => Apart(Pages(queue[s]), Pages(queue[t]))
    /\ \A s \in Slots : /\ Apart(Pages(queue[s]), Pages(val))
                        /\ Apart(Pages(queue[s]), Run(addr, left))
                        /\ Apart(Pages(queue[s]), block)
                        /\ Apart(Pages(queue[s]), held)
    /\ Apart(Pages(val), Run(addr, left))
    /\ Apart(Pages(val), block)
    /\ Apart(Pages(val), held)
    /\ Apart(Run(addr, left), block)
    /\ Apart(Run(addr, left), held)
    /\ Apart(block, held)

(* Apart from frame 0, the allocator never tracks or returns a frame that  *)
(* pagealloc_init was not given: no cut, merge or chunk of BUILD_ENTRY     *)
(* reaches past the run it came from.                                      *)
OnlyManaged ==
    /\ \A s \in Slots : Pages(queue[s]) \subseteq Managed \cup {0}
    /\ Pages(val) \cup Run(addr, left) \cup block \cup held
          \subseteq Managed \cup {0}

IsLive(s) == Distance(head, s) < Distance(head, tail)

LiveFrames == UNION {Pages(queue[s]) : s \in {t \in Slots : IsLive(t)}}

(* The frames that are free, on their way, or with a client.               *)
Tracked ==
    (LiveFrames \cup Pages(val) \cup Run(addr, left) \cup block \cup held) \ {0}

(* compact_queue moves the head forward whichever two entries it merged.   *)
MergesPastHead == pc = "merge" /\ lo < hi - 1 /\ Mergeable /\ lo % Size # head

(* No step loses track of a frame, with one exception: a merge of two      *)
(* entries that are not the first, after which the head skips an entry     *)
(* that was not merged.                                                    *)
NothingLost == [][~MergesPastHead => Tracked \subseteq Tracked']_vars

(* The counter of the ring never exceeds the number of live entries: it is *)
(* exact, or, once a compaction of an empty ring revived dead entries,     *)
(* short by the size of the ring.                                          *)
CountNeverAhead ==
    ent_cnt \in {Distance(head, tail), Distance(head, tail) - Size}

(* PANIC("Out of Memory!") is unreachable: the rotation dequeues at most   *)
(* as many entries as there are, even though each one is put back or cut   *)
(* in between.                                                             *)
NeverOutOfEntries == pc # "oom_panic"

GivesUp == pc = "pass" /\ j = 2

NoneLongEnough == \A s \in Slots : IsLive(s) => GET_PG_CNT(queue[s]) < want

(* When pagealloc_alloc gives up with -1 and the counter is exact, no live *)
(* entry is long enough, those that the last compaction merged included.   *)
FailureIsHonest == GivesUp /\ ent_cnt >= 0 => NoneLongEnough

(* Every call of pagealloc_alloc and pagealloc_free returns or panics.     *)
CallsEnd == pc # "idle" ~> pc \in {"idle", "enqueue_panic"}

=============================================================================
