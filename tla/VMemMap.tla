------------------------------ MODULE VMemMap ------------------------------
(***************************************************************************)
(* The page tables of kernel/src/vmem.c: vmem_map and its recursion        *)
(* vmem_map_st over the levels of the tables, vmem_unmap, and the walk of  *)
(* vmem_virttophys.                                                        *)
(*                                                                         *)
(* The module follows the calls for kernel addresses.  They change the     *)
(* tables below kmem.ptable one entry at a time, and at the end copy       *)
(* kmem.ptable to the core's ktable.  vmem_virttophys takes no lock: the   *)
(* properties speak about what it finds between any two steps.             *)
(*                                                                         *)
(* Addresses and sizes are counted in pages of 4KiB.                       *)
(***************************************************************************)
EXTENDS Integers, Sequences, FiniteSets, FiniteSetsExt

CONSTANTS
    Fanout,    \* 512, the entries of a table
    Last,      \* 3, the level of the 4KiB pages
    LargeAvail,\* the levels with largepage_avail
    Word,      \* 2^64 bytes, in pages: sizes and addresses wrap around
    Frames,    \* the page frames pagealloc_alloc hands out for tables
    Requests,  \* the calls of vmem_map: [virt, phys, size, cache]
    MaxCalls   \* the calls that are made (a bound)

Root == 0

Caches == {"writethrough", "uncached", "writecomplete", "writeback"}

(* levels[]: the pages that an entry of a table stands for.                *)
Levels[lv \in 0 .. Last] == IF lv = Last THEN 1 ELSE Fanout * Levels[lv + 1]

Crosses(r, n) == r.virt \div n # (r.virt + r.size - 1) \div n

(* The ranges vmem_map_st is made for: within the address space, aligned   *)
(* to the pages it may map them with, and to the pages of the level below  *)
(* wherever they go on into another table.                                 *)
MadeFor(r) ==
    /\ r.virt + r.size <= Fanout * Levels[0]
    /\ r.phys + r.size < Word
    /\ \A lv \in LargeAvail : r.size % Levels[lv] = 0 => r.virt % Levels[lv] = 0
    /\ \A lv \in 0 .. Last - 1 :
          Crosses(r, Levels[lv]) => r.virt % Levels[lv + 1] = 0

ASSUME VMemAssumption ==
    /\ Fanout \in Nat /\ Fanout > 1
    /\ Last \in Nat \ {0}
    /\ Word \in Nat /\ Word > Fanout * Levels[0]
    /\ LargeAvail \subseteq 1 .. Last /\ Last \in LargeAvail
    /\ Frames \subseteq Nat \ {Root}
    /\ MaxCalls \in Nat

ASSUME RequestsAssumption ==
    /\ Requests \subseteq
          [virt : Nat, phys : Nat, size : Nat \ {0}, cache : Caches]
    /\ \A r \in Requests : MadeFor(r)

VARIABLES
    table,   \* the entries of every table; those of Root are kmem.ptable
    ktable,  \* the core's copy of kmem.ptable, which the processor walks
    free,    \* the frames pagealloc_alloc has not handed out
    stack,   \* the calls of vmem_map_st, innermost last
    fresh,   \* n_lv between pagealloc_alloc and its use
    pc,      \* where the innermost call is
    call,    \* the call that is being served
    ret,     \* rVal
    made     \* the requests that have been made

vars == <<table, ktable, free, stack, fresh, pc, call, ret, made>>

-----------------------------------------------------------------------------
(* Entries and levels.                                                     *)

(* The address bits, PRESENT, LARGEPAGE and the cache bits of an entry.    *)
Absent == [present |-> FALSE, large |-> FALSE, addr |-> 0, bits |-> {}]

(* What is in a frame that has just been allocated.                        *)
Stale == [present |-> TRUE, large |-> FALSE, addr |-> Word - 1, bits |-> {}]

(* (virt & masks[lv]) >> shamts[lv].                                       *)
Index(virt, lv) == (virt \div Levels[lv]) % Fanout

CacheBits(cache) ==
    CASE cache = "writethrough" -> {"WRITETHROUGH"}
      [] cache = "uncached" -> {"CACHEDISABLE"}
      [] cache = "writecomplete" -> {"WRITETHROUGH", "CACHEDISABLE"}
      [] cache = "writeback" -> {}

(* The type the processor takes from the PAT register that vmem_init sets. *)
PAT(bits) ==
    CASE bits = {} -> "writeback"
      [] bits = {"WRITETHROUGH"} -> "writethrough"
      [] bits = {"CACHEDISABLE"} -> "uncached"
      [] bits = {"WRITETHROUGH", "CACHEDISABLE"} -> "writecomplete"

Leaf(lv, phys) == [present |-> TRUE, large |-> lv # Last, addr |-> phys,
                   bits |-> CacheBits(call.cache)]

Link(frame) == [present |-> TRUE, large |-> FALSE, addr |-> frame, bits |-> {}]

Init ==
    /\ table = [t \in Frames \cup {Root} |->
                  [k \in 0 .. Fanout - 1 |-> IF t = Root THEN Absent ELSE Stale]]
    /\ ktable = table[Root]
    /\ free = Frames
    /\ stack = << >>
    /\ fresh = Root
    /\ pc = "idle"
    /\ call = [op |-> "none", virt |-> 0, phys |-> 0, size |-> 0,
               cache |-> "writeback"]
    /\ ret = "none"
    /\ made = << >>

-----------------------------------------------------------------------------
(* vmem_map_st.                                                            *)

(* The locals of a call; leaf is the test of its first if.                 *)
Frame(lv, t, virt, phys, size) ==
    [lv |-> lv, t |-> t, virt |-> virt, phys |-> phys, size |-> size,
     idx |-> Index(virt, lv),
     leaf |-> size % Levels[lv] = 0 /\ lv \in LargeAvail]

Top == stack[Len(stack)]

Below == SubSeq(stack, 1, Len(stack) - 1)

Entry == table[Top.t][Top.idx]

SetEntry(e) == table' = [table EXCEPT ![Top.t][Top.idx] = e]

(* A loop moves on by n pages.                                             *)
Advance(f, n) == [f EXCEPT !.virt = (@ + n) % Word,
                           !.phys = (@ + n) % Word,
                           !.size = (@ - n) % Word,
                           !.idx = @ + 1]

(* A result other than vmem_err_continue goes up to vmem_map at once.      *)
Finish(r) ==
    /\ ret' = r
    /\ stack' = << >>
    /\ pc' = "copy"
    /\ UNCHANGED <<table, free, fresh>>

(* Mutant: the index of the child is not taken into account.               *)
SkipWholeTable(f) == Advance(f, Levels[f.lv])

(* i_sz: what is left of the child's table behind the child's index.       *)
SkipChild(f) ==
    Advance(f, (Fanout - Index(f.virt, f.lv + 1)) * Levels[f.lv + 1])

(* vmem_err_continue: the caller goes on behind the child.                 *)
Continue ==
    IF Below = << >> THEN Finish("continue")
    ELSE /\ stack' = [Below EXCEPT ![Len(Below)] = SkipChild(@)]
         /\ UNCHANGED <<table, free, fresh, pc, ret>>

(* Mutant: the entry is written without a look at it.                      *)
OverwriteLeaf ==
    /\ Top.leaf
    /\ \/ Top.size = 0 /\ Finish("none")
       \/ Top.size > 0 /\ Top.idx = Fanout /\ Continue
       \/ /\ Top.size > 0 /\ Top.idx < Fanout
          /\ SetEntry(Leaf(Top.lv, Top.phys))
          /\ stack' = Append(Below, Advance(Top, Levels[Top.lv]))
          /\ UNCHANGED <<free, fresh, pc, ret>>

(* An iteration of the loop that writes page entries.                      *)
MapLeaf ==
    /\ Top.leaf
    /\ \/ Top.size = 0 /\ Finish("none")
       \/ Top.size > 0 /\ Top.idx = Fanout /\ Continue
       \/ /\ Top.size > 0 /\ Top.idx < Fanout
          /\ Entry.present
          /\ Finish("alreadymapped")
       \/ /\ Top.size > 0 /\ Top.idx < Fanout
          /\ ~Entry.present
          /\ SetEntry(Leaf(Top.lv, Top.phys))
          /\ stack' = Append(Below, Advance(Top, Levels[Top.lv]))
          /\ UNCHANGED <<free, fresh, pc, ret>>

(* Mutant: the new table is linked before it is cleared.                   *)
LinkUncleared ==
    /\ fresh' = IF free = {} THEN -1 ELSE Min(free)
    /\ free' = free \ {fresh'}
    /\ pc' = "clear"
    /\ SetEntry(Link(fresh'))
    /\ UNCHANGED <<stack, ret>>

(* The call of pagealloc_alloc and PANIC("Pagetable allocation failure!"). *)
(* A failed pagealloc_alloc returns -1.                                    *)
AllocTable ==
    /\ fresh' = IF free = {} THEN -1 ELSE Min(free)
    /\ free' = free \ {fresh'}
    /\ pc' = IF fresh' = 0 THEN "panic" ELSE "clear"
    /\ UNCHANGED <<table, stack, ret>>

(* Mutant: any entry is taken for a large page.                            *)
MapNodeRefusing ==
    /\ ~Top.leaf
    /\ \/ Top.idx = Fanout /\ Continue
       \/ Top.idx < Fanout /\ Top.size = 0 /\ Finish("none")
       \/ /\ Top.idx < Fanout /\ Top.size > 0
          /\ \/ Entry.addr = 0 /\ AllocTable
             \/ Entry.addr # 0 /\ Finish("alreadymapped")

(* An iteration of the loop that goes down a level.  The loop leaves at    *)
(* its end when the index has reached the end of the table.                *)
MapNode ==
    /\ ~Top.leaf
    /\ \/ Top.idx = Fanout /\ Continue
       \/ Top.idx < Fanout /\ Top.size = 0 /\ Finish("none")
       \/ /\ Top.idx < Fanout /\ Top.size > 0
          /\ \/ Entry.addr = 0 /\ AllocTable
             \/ Entry.addr # 0 /\ Entry.large /\ Finish("alreadymapped")
             \/ /\ Entry.addr # 0 /\ ~Entry.large
                /\ stack' = Append(stack, Frame(Top.lv + 1, Entry.addr,
                                                Top.virt, Top.phys, Top.size))
                /\ UNCHANGED <<table, free, fresh, pc, ret>>

vmem_map_st ==
    /\ pc = "walk"
    /\ MapLeaf \/ MapNode
    /\ UNCHANGED <<ktable, call, made>>

(* memset.  vmem_phystovirt puts frame -1 below KERN_TOP_BASE, where       *)
(* nothing is mapped.                                                      *)
ClearTable ==
    /\ pc = "clear"
    /\ \/ /\ fresh \in Frames
          /\ table' = [table EXCEPT ![fresh] = [k \in 0 .. Fanout - 1 |-> Absent]]
          /\ pc' = "link"
       \/ /\ fresh \notin Frames
          /\ pc' = "fault"
          /\ UNCHANGED table
    /\ UNCHANGED <<ktable, free, stack, fresh, call, ret, made>>

LinkTable ==
    /\ pc = "link"
    /\ SetEntry(Link(fresh))
    /\ fresh' = Root
    /\ pc' = "walk"
    /\ UNCHANGED <<ktable, free, stack, call, ret, made>>

-----------------------------------------------------------------------------
(* vmem_map and vmem_unmap, for an address of the kernel.                  *)

MapCall(r) == [op |-> "map", virt |-> r.virt, phys |-> r.phys,
               size |-> r.size, cache |-> r.cache]

UnmapCall(r) == [MapCall(r) EXCEPT !.op = "unmap"]

vmem_map(r) ==
    /\ pc = "idle"
    /\ Len(made) < MaxCalls
    /\ call' = MapCall(r)
    /\ made' = Append(made, MapCall(r))
    /\ stack' = <<Frame(0, Root, r.virt, r.phys, r.size)>>
    /\ pc' = "walk"
    /\ UNCHANGED <<table, ktable, free, fresh, ret>>

(* Its size is 0 from the start: vmem_unmap_st returns 0 at once.          *)
vmem_unmap(r) ==
    /\ pc = "idle"
    /\ Len(made) < MaxCalls
    /\ call' = UnmapCall(r)
    /\ made' = Append(made, UnmapCall(r))
    /\ ret' = "none"
    /\ pc' = "copy"
    /\ UNCHANGED <<table, ktable, free, stack, fresh>>

(* memcpy of kmem.ptable to ktable, at the end of both calls.              *)
CopyToKtable ==
    /\ pc = "copy"
    /\ ktable' = table[Root]
    /\ pc' = "return"
    /\ UNCHANGED <<table, free, stack, fresh, call, ret, made>>

Return ==
    /\ pc = "return"
    /\ pc' = "idle"
    /\ call' = [op |-> "none", virt |-> 0, phys |-> 0, size |-> 0,
                cache |-> "writeback"]
    /\ ret' = "none"
    /\ UNCHANGED <<table, ktable, free, stack, fresh, made>>

Next ==
    \/ \E r \in Requests : vmem_map(r) \/ vmem_unmap(r)
    \/ vmem_map_st \/ ClearTable \/ LinkTable
    \/ CopyToKtable \/ Return

Spec == Init /\ [][Next]_vars

-----------------------------------------------------------------------------
(* vmem_virttophys.                                                        *)

Unmapped == [phys |-> -1, cache |-> "none"]

(* What a walk finds in memory that is not a table.                        *)
Nowhere == [phys |-> -2, cache |-> "none"]

(* The walk through the tables tb below the table top, for every level and *)
(* table it may be at.                                                     *)
Walk(tb, top, virt) ==
    LET At[lv \in 0 .. Last] == [t \in DOMAIN tb |->
            LET e == IF lv = 0 THEN top[Index(virt, 0)] ELSE tb[t][Index(virt, lv)]
            IN  IF ~e.present THEN Unmapped
                ELSE IF lv = Last \/ (e.large /\ lv \in LargeAvail)
                THEN [phys |-> e.addr + (virt % Levels[lv]), cache |-> PAT(e.bits)]
                ELSE IF e.addr \in DOMAIN tb THEN At[lv + 1][e.addr]
                ELSE Nowhere]
    IN  At

vmem_virttophys(virt) == Walk(table, ktable, virt)[0][Root]

-----------------------------------------------------------------------------

Pages == 0 .. Fanout * Levels[0] - 1

InRange(c, virt) == virt \in c.virt .. c.virt + c.size - 1

(* What request c wants page virt to be.                                   *)
Asked(c, virt) == [phys |-> c.phys + (virt - c.virt), cache |-> c.cache]

Wanted(virt) == {Asked(made[k], virt) : k \in
    {l \in DOMAIN made : made[l].op = "map" /\ InRange(made[l], virt)}}

(* At no moment of a call, not even between the allocation of a table and  *)
(* its use, does a kernel address translate to anything but what some call *)
(* of vmem_map asked for, with the memory type it asked for.               *)
NeverWrong ==
    \A virt \in Pages : vmem_virttophys(virt) \in {Unmapped} \cup Wanted(virt)

Returns(op, result) == pc = "return" /\ call.op = op /\ ret = result

(* vmem.c: "Add to kernel map".  When vmem_map returns 0, the whole range  *)
(* is mapped as asked, whatever was mapped before and however the range is *)
(* split between tables and large pages.                                   *)
MapsWhatWasAsked ==
    Returns("map", "none") =>
        \A virt \in Pages : InRange(call, virt) =>
            vmem_virttophys(virt) = Asked(call, virt)

(* vmem_map_st takes an entry with address 0 for a missing table, and so   *)
(* replaces a large page that maps physical address 0.                     *)
ReplacesLargePage == pc = "link" /\ Entry.large

TranslationsStay ==
    \A virt \in Pages : LET before == vmem_virttophys(virt)
                        IN  before # Unmapped => vmem_virttophys(virt)' = before

(* No call changes or removes a mapping, with that exception: a call that  *)
(* meets one stops.                                                        *)
OldMappingsStay == [][~ReplacesLargePage => TranslationsStay]_vars

(* vmem_err_alreadymapped is returned only if an earlier call has mapped a *)
(* page of the range: a table that exists is never a reason by itself.     *)
RefusalIsHonest ==
    Returns("map", "alreadymapped") =>
        \E virt \in Pages, k \in 1 .. Len(made) - 1 :
            /\ InRange(call, virt) /\ InRange(made[k], virt)
            /\ made[k].op = "map"
            /\ vmem_virttophys(virt) = Asked(made[k], virt)

=============================================================================
