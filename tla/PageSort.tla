------------------------------ MODULE PageSort ------------------------------
(***************************************************************************)
(* quicksort_pgs and partition_pgs of kernel/src/pagealloc.c, which sort a *)
(* window of the allocator's ring by address.  The window is given by      *)
(* unrolled indices, read and written modulo the size of the ring; the     *)
(* recursion is an explicit stack.                                         *)
(***************************************************************************)
EXTENDS Integers, Sequences, Functions

CONSTANTS Size,   \* sz, the number of slots
          Words   \* what the slots hold: an address and, below it, a count

ASSUME PageSortAssumption ==
    /\ Size \in Nat \ {0}
    /\ Words \subseteq Nat
    /\ 0 \in Words

VARIABLES
    data,    \* the slots
    lo, hi,  \* the window of the current call of quicksort_pgs
    callers, \* the windows the suspended calls go on with, innermost last
    pivot,   \* pivot of partition_pgs
    i, j,    \* its two scans
    pc,      \* where the current call is
    given    \* the slots and the window at the outermost call

vars == <<data, lo, hi, callers, pivot, i, j, pc, given>>

(* The address above the bits of the count.                                *)
GET_ADDR(e) == e \div 2

At(k) == data[k % Size]

Windows == {w \in (0 .. Size - 1) \X (0 .. 2 * Size - 1) :
              w[1] <= w[2] /\ w[2] < w[1] + Size}

(* compact_queue never passes an empty window.                             *)
Init ==
    /\ data \in [0 .. Size - 1 -> Words]
    /\ \E w \in Windows :
          lo = w[1] /\ hi = w[2] /\ given = [data |-> data, lo |-> w[1], hi |-> w[2]]
    /\ callers = << >>
    /\ pivot = 0 /\ i = 0 /\ j = 0
    /\ pc = "while"

(* Mutant: a window of one entry is partitioned too.                       *)
PartitionSingle ==
    /\ pc = "while"
    /\ hi >= lo
    /\ pivot' = GET_ADDR(At((lo + hi) \div 2))
    /\ i' = lo - 1
    /\ j' = hi + 1
    /\ pc' = "down"
    /\ UNCHANGED <<data, lo, hi, callers, given>>

(* The loop goes on: partition_pgs is called.                              *)
Partition ==
    /\ pc = "while"
    /\ hi > lo
    /\ pivot' = GET_ADDR(At((lo + hi) \div 2))
    /\ i' = lo - 1
    /\ j' = hi + 1
    /\ pc' = "down"
    /\ UNCHANGED <<data, lo, hi, callers, given>>

(* The loop ends: the call returns to its caller.                          *)
Return ==
    /\ pc = "while"
    /\ hi <= lo
    /\ \/ /\ callers = << >>
          /\ pc' = "done"
          /\ UNCHANGED <<lo, hi, callers>>
       \/ /\ callers # << >>
          /\ lo' = callers[Len(callers)].lo
          /\ hi' = callers[Len(callers)].hi
          /\ callers' = SubSeq(callers, 1, Len(callers) - 1)
          /\ UNCHANGED pc
    /\ UNCHANGED <<data, pivot, i, j, given>>

(* Mutant: the scan passes entries that are equal to the pivot.            *)
ScanDownPastEqual ==
    /\ pc = "down"
    /\ j' = j - 1
    /\ pc' = IF GET_ADDR(At(j - 1)) >= pivot THEN "down" ELSE "up"
    /\ UNCHANGED <<data, lo, hi, callers, pivot, i, given>>

(* One iteration of do j--; while (...).                                   *)
ScanDown ==
    /\ pc = "down"
    /\ j' = j - 1
    /\ pc' = IF GET_ADDR(At(j - 1)) > pivot THEN "down" ELSE "up"
    /\ UNCHANGED <<data, lo, hi, callers, pivot, i, given>>

(* One iteration of do i++; while (...).                                   *)
ScanUp ==
    /\ pc = "up"
    /\ i' = i + 1
    /\ pc' = IF GET_ADDR(At(i + 1)) < pivot THEN "up" ELSE "compare"
    /\ UNCHANGED <<data, lo, hi, callers, pivot, j, given>>

(* Mutant: a plain assignment in the wrong order.                          *)
Overwritten(s, t) == [data EXCEPT ![s] = data[t]]

(* The three exclusive ors: they exchange two slots, and clear one.        *)
Exchanged(s, t) ==
    IF s = t THEN [data EXCEPT ![s] = 0]
             ELSE [data EXCEPT ![s] = data[t], ![t] = data[s]]

Swap ==
    /\ pc = "compare"
    /\ i < j
    /\ data' = Exchanged(i % Size, j % Size)
    /\ pc' = "down"
    /\ UNCHANGED <<lo, hi, callers, pivot, i, j, given>>

(* The two parts partition_pgs returns, and the one that is longer.        *)
Lower == [lo |-> lo, hi |-> j]
Upper == [lo |-> j + 1, hi |-> hi]
LowerIsLonger == j - lo > hi - j

(* quicksort_pgs calls itself on one part and goes on with the other.      *)
Recurse(part, rest) ==
    /\ lo' = part.lo
    /\ hi' = part.hi
    /\ callers' = Append(callers, rest)

PartitionReturn ==
    /\ pc = "compare"
    /\ i >= j
    /\ \/ LowerIsLonger /\ Recurse(Lower, Upper)
       \/ ~LowerIsLonger /\ Recurse(Upper, Lower)
    /\ pc' = "while"
    /\ pivot' = 0 /\ i' = 0 /\ j' = 0
    /\ UNCHANGED <<data, given>>

Next == Partition \/ Return \/ ScanDown \/ ScanUp \/ Swap \/ PartitionReturn

Spec == Init /\ [][Next]_vars /\ WF_vars(Next)

-----------------------------------------------------------------------------

InWindow(s) == \E k \in given.lo .. given.hi : k % Size = s

(* When the outermost call returns, the window is sorted by address, it    *)
(* holds the words it held before, and no other slot has changed: no       *)
(* exclusive or has met itself, and no index has wrapped into the rest of  *)
(* the ring.                                                               *)
SortsTheWindow ==
    pc = "done" =>
        /\ \A k \in given.lo .. given.hi - 1 : GET_ADDR(At(k)) <= GET_ADDR(At(k + 1))
        /\ \A w \in Words : LET Places(d) == {s \in DOMAIN d : d[s] = w}
                            IN  ExistsBijection(Places(data), Places(given.data))
        /\ \A s \in DOMAIN data : InWindow(s) \/ data[s] = given.data[s]

(* The scans have no bound of their own: they stop inside the window of    *)
(* the call, because of the pivot first and of what was exchanged later.   *)
ScansStayInside ==
    /\ pc \in {"up", "compare"} => j >= lo
    /\ pc = "compare" => i <= hi

(* The sort terminates.                                                    *)
Terminates == <>(pc = "done")

=============================================================================
