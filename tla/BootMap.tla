------------------------------- MODULE BootMap -------------------------------
(***************************************************************************)
(* How the memory that the boot loader reports reaches the page allocator: *)
(* bootinfo_parse_and_store (kernel/src/bootinfo.c) cuts what is reserved  *)
(* off the entries of the multiboot memory map and stores the rest;        *)
(* pagealloc_init (kernel/src/pagealloc.c) rounds the stored regions to    *)
(* pages and releases them with pagealloc_free.                            *)
(*                                                                         *)
(* One step is one iteration of one of the two loops.  Addresses are bytes *)
(* and their arithmetic is modulo Word.  Module PageAlloc goes on from     *)
(* here: its Regions are the released ranges.                              *)
(***************************************************************************)
EXTENDS Integers, Sequences

CONSTANTS
    Word,         \* 2^64
    Limit,        \* the end of the physical address space
    PageSize,     \* BTM_LEVEL
    LowLimit,     \* MiB(2)
    KernelStart,  \* _region_kernel_start_
    KernelEnd,    \* _region_kernel_end_
    Maps          \* the memory maps a boot loader may report

Entry == [addr : Nat, len : Nat, type : {"available", "other"}]

Span(e) == e.addr .. e.addr + e.len - 1

(* linker.ld: the kernel is linked at 2MB.  The physical address space has *)
(* 52 bits.  The entries of a memory map do not overlap.                   *)
ASSUME BootMapAssumption ==
    /\ Word \in Nat /\ Limit \in Nat /\ Word >= 2 * Limit
    /\ PageSize \in Nat \ {0} /\ Limit % PageSize = 0
    /\ LowLimit \in Nat /\ LowLimit % PageSize = 0
    /\ KernelStart = LowLimit
    /\ KernelEnd \in KernelStart .. Limit
    /\ Maps \subseteq Seq(Entry)
    /\ \A m \in Maps : /\ \A k \in DOMAIN m : m[k].addr + m[k].len <= Limit
                       /\ \A k, l \in DOMAIN m :
                             k # l => Span(m[k]) \cap Span(m[l]) = {}

VARIABLES
    mmap,      \* the multiboot memory map
    mmap_e,    \* the next entry that bootinfo reads
    map,       \* bootinfo.mmap, the stored entries
    mem_sz,    \* bootinfo.mem_sz, which sizes the allocator's ring
    i,         \* the next stored entry that pagealloc_init reads
    released   \* the ranges given to pagealloc_free so far

bootVars == <<mmap, mmap_e, map, mem_sz, i, released>>

BootInit ==
    /\ mmap \in Maps
    /\ mmap_e = 1
    /\ map = << >>
    /\ mem_sz = 0
    /\ i = 1
    /\ released = << >>

-----------------------------------------------------------------------------
(* bootinfo_parse_and_store.                                               *)

Nothing(e) == [e EXCEPT !.len = 0]

(* The entry without what lies below address to, or an empty one.          *)
Cut(e, to) ==
    LET diff == (to - e.addr) % Word
    IN  IF diff >= e.len THEN Nothing(e)
        ELSE [e EXCEPT !.addr = (@ + diff) % Word, !.len = @ - diff]

AboveLow(e) == IF e.addr < LowLimit THEN Cut(e, LowLimit) ELSE e

(* The branch for an entry that starts below the kernel is nested in the   *)
(* opposite test, so it is dead.                                           *)
AboveKernel(e) == IF e.addr >= KernelStart THEN Cut(e, KernelEnd) ELSE e

Parse ==
    /\ mmap_e <= Len(mmap)
    /\ LET low == AboveLow(mmap[mmap_e])
           e == AboveKernel(low)
       IN  map' = IF low.len = 0 \/ e.len = 0 THEN map ELSE Append(map, e)
    /\ mem_sz' = IF mmap[mmap_e].type = "available"
                 THEN (mem_sz + mmap[mmap_e].len) % Word ELSE mem_sz
    /\ mmap_e' = mmap_e + 1
    /\ UNCHANGED <<mmap, i, released>>

-----------------------------------------------------------------------------
(* pagealloc_init.                                                         *)

(* Mutant: the address is rounded down.                                    *)
RoundDown(val, mult) == val - (val % mult)

roundUp_po2(val, mult) ==
    LET sum == (val + (mult - 1)) % Word
    IN  sum - (sum % mult)

(* The range that is released for a stored region.  The length is rounded  *)
(* before the address.                                                     *)
ToPages(e) == [addr |-> roundUp_po2(e.addr, PageSize),
               len |-> e.len - (e.len % PageSize)]

(* Mutant: the last stored entry is forgotten.                             *)
ReleaseButLast ==
    /\ mmap_e > Len(mmap)
    /\ i < Len(map)
    /\ released' = IF map[i].type = "available"
                   THEN Append(released, ToPages(map[i])) ELSE released
    /\ i' = i + 1
    /\ UNCHANGED <<mmap, mmap_e, map, mem_sz>>

Release ==
    /\ mmap_e > Len(mmap)
    /\ i <= Len(map)
    /\ released' = IF map[i].type = "available"
                   THEN Append(released, ToPages(map[i])) ELSE released
    /\ i' = i + 1
    /\ UNCHANGED <<mmap, mmap_e, map, mem_sz>>

BootNext == Parse \/ Release

BootSpec == BootInit /\ [][BootNext]_bootVars /\ WF_bootVars(BootNext)

-----------------------------------------------------------------------------

(* bootinfo.c: "Reserve everything below 2MB", "Reserve kernel memory".    *)
(* Whatever the map, no page below 2MB and none that holds a byte of the   *)
(* kernel is released.                                                     *)
ReservedNeverReleased ==
    \A k \in DOMAIN released :
        Span(released[k]) \cap (0 .. KernelEnd - 1) = {}

Released == UNION {Span(released[k]) : k \in DOMAIN released}

Page(a) == {b \in 0 .. Limit : b \div PageSize = a \div PageSize}

(* The page that follows the kernel reaches the allocator if the boot      *)
(* loader reports it and the memory up to it in one entry.                 *)
MemoryAfterKernelReleased ==
    LET First == Page(KernelEnd + PageSize - 1)
    IN  (\E k \in DOMAIN mmap : /\ mmap[k].type = "available"
                                /\ First \cup {KernelEnd} \subseteq Span(mmap[k]))
           ~> First \subseteq Released

=============================================================================
