--------------------------- MODULE PageSortProofs ---------------------------
(***************************************************************************)
(* Proof that the sort of pagealloc.c sorts its window of the ring, for    *)
(* every size of the ring, every window and every content.                 *)
(*                                                                         *)
(* The unrolled indices of a window meet no slot twice, so it is read as a *)
(* function from them to addresses (Keys).  The windows that the calls     *)
(* still have to sort (Stack) share no index, and any two entries that are *)
(* not in one of them together are in order.                               *)
(***************************************************************************)
EXTENDS PageSort, TLAPS

Slots == 0 .. Size - 1

Positions == given.lo .. given.hi

Keys == [k \in Positions |-> GET_ADDR(At(k))]

Parts == {p \in [lo : Positions, hi : Positions] : p.lo <= p.hi}

(* The windows of the suspended calls, and that of the current one.        *)
Stack == Append(callers, [lo |-> lo, hi |-> hi])

TypeInv ==
    /\ given.data \in [Slots -> Words] /\ <<given.lo, given.hi>> \in Windows
    /\ data \in [Slots -> Words]
    /\ callers \in Seq(Parts)
    /\ lo \in Positions /\ hi \in Positions /\ lo <= hi
    /\ pivot \in Nat /\ i \in Int /\ j \in Int
    /\ pc \in {"while", "down", "up", "compare", "done"}
    /\ pc = "done" => hi <= lo /\ callers = << >>

Together(stack, k, l) ==
    \E n \in 1 .. Len(stack) : k \in stack[n].lo .. stack[n].hi /\ l \in stack[n].lo .. stack[n].hi

WindowsApart ==
    \A m, n \in 1 .. Len(Stack) : \A k \in Positions :
        k \in Stack[m].lo .. Stack[m].hi /\ k \in Stack[n].lo .. Stack[n].hi => m = n

OrderedApart ==
    \A k, l \in Positions : k < l /\ ~Together(Stack, k, l) => Keys[k] <= Keys[l]

(* What partition_pgs has put on its sides, and what stops its scans.      *)
SidesInv ==
    pc \in {"down", "up", "compare"} =>
        /\ lo < hi
        /\ \A k \in lo .. (IF pc = "compare" THEN i - 1 ELSE i) : Keys[k] <= pivot
        /\ \A k \in (IF pc = "down" THEN j ELSE j + 1) .. hi : Keys[k] >= pivot
        /\ pc # "down" => Keys[j] <= pivot
        /\ pc = "compare" => Keys[i] >= pivot

ScanInv ==
    /\ pc = "down" => /\ i >= lo - 1 /\ i < j /\ j <= hi + 1
                      /\ \E k \in lo .. j - 1 : Keys[k] <= pivot
    /\ pc = "up" => i >= lo - 1 /\ j \in lo .. hi
    /\ pc \in {"down", "up"} => \E k \in i + 1 .. hi : Keys[k] >= pivot
    /\ pc = "compare" => i \in lo .. hi /\ j \in lo .. hi

(* In the first round the middle stops the scan up before the last entry.  *)
FirstRound ==
    /\ (pc = "down" /\ j = hi + 1) \/ (pc = "up" /\ j = hi) =>
          \E k \in i + 1 .. hi - 1 : Keys[k] >= pivot
    /\ pc = "compare" => i < hi \/ j < hi

Moved(f) ==
    /\ f \in Bijection(Slots, Slots)
    /\ \A s \in Slots : data[s] = given.data[f[s]]
    /\ \A s \in Slots : InWindow(s) \/ f[s] = s

PermInv == \E f \in [Slots -> Slots] : Moved(f)

IInv ==
    /\ TypeInv
    /\ WindowsApart /\ OrderedApart
    /\ SidesInv /\ ScanInv /\ FirstRound
    /\ PermInv

-----------------------------------------------------------------------------
(* Indices, slots and keys.                                                *)

LEMMA SlotOfIndex ==
    ASSUME NEW k \in Nat, k < 2 * Size
    PROVE  k % Size \in Slots /\ k % Size = IF k < Size THEN k ELSE k - Size
  <1>1. CASE k < Size
    BY <1>1, PageSortAssumption DEF Slots
  <1>2. CASE k >= Size
    BY <1>2, PageSortAssumption DEF Slots
  <1> QED BY <1>1, <1>2, PageSortAssumption

LEMMA PositionRange ==
    ASSUME TypeInv
    PROVE  /\ given.lo \in Nat /\ given.hi \in Nat /\ given.lo <= given.hi
           /\ given.hi < given.lo + Size /\ given.hi < 2 * Size
           /\ \A k \in Positions : k \in Nat /\ k < 2 * Size
  <1>1. <<given.lo, given.hi>> \in Windows
    BY DEF TypeInv
  <1>2. /\ given.lo \in 0 .. Size - 1 /\ given.hi \in 0 .. 2 * Size - 1
        /\ given.lo <= given.hi /\ given.hi < given.lo + Size
    BY <1>1 DEF Windows
  <1> QED BY <1>2, PageSortAssumption DEF Positions

LEMMA SlotsOnce ==
    ASSUME TypeInv, NEW k \in Positions, NEW l \in Positions
    PROVE  k % Size \in Slots /\ (k % Size = l % Size => k = l)
  <1>1. /\ k \in Nat /\ k < 2 * Size /\ l \in Nat /\ l < 2 * Size
        /\ given.lo \in Nat /\ given.hi < given.lo + Size /\ given.hi \in Nat
    BY PositionRange
  <1>2. k % Size \in Slots /\ k % Size = IF k < Size THEN k ELSE k - Size
    BY <1>1, SlotOfIndex
  <1>3. l % Size = IF l < Size THEN l ELSE l - Size
    BY <1>1, SlotOfIndex
  <1>4. k - l < Size /\ l - k < Size
    BY <1>1, PageSortAssumption DEF Positions
  <1> QED BY <1>1, <1>2, <1>3, <1>4, PageSortAssumption

LEMMA KeysType ==
    ASSUME TypeInv
    PROVE  /\ Keys \in [Positions -> Nat]
           /\ \A k \in Positions : Keys[k] = GET_ADDR(At(k)) /\ At(k) \in Words
  <1>1. ASSUME NEW k \in Positions PROVE At(k) \in Words
    <2>1. k % Size \in Slots
      BY SlotsOnce
    <2> QED BY <2>1 DEF At, TypeInv
  <1>2. ASSUME NEW k \in Positions PROVE GET_ADDR(At(k)) \in Nat
    <2>1. At(k) \in Nat
      BY <1>1, PageSortAssumption
    <2> QED BY <2>1 DEF GET_ADDR
  <1> QED BY <1>1, <1>2 DEF Keys

LEMMA KeysStay ==
    ASSUME UNCHANGED <<data, given>>
    PROVE  Keys' = Keys /\ Positions' = Positions /\ Parts' = Parts
  <1>1. Positions' = Positions
    BY DEF Positions
  <1>2. ASSUME NEW k PROVE At(k)' = At(k)
    BY DEF At
  <1> QED BY <1>1, <1>2 DEF Keys, Parts

LEMMA KeysExchanged ==
    ASSUME TypeInv, NEW m \in Positions, NEW n \in Positions, m # n,
           data' = Exchanged(m % Size, n % Size), given' = given
    PROVE  Keys' = [Keys EXCEPT ![m] = Keys[n], ![n] = Keys[m]]
  <1>1. Positions' = Positions
    BY DEF Positions
  <1>2. /\ m % Size \in Slots /\ n % Size \in Slots /\ m % Size # n % Size
        /\ \A k \in Positions : /\ k % Size \in Slots
                                /\ k % Size = m % Size => k = m
                                /\ k % Size = n % Size => k = n
    BY SlotsOnce
  <1>3. /\ data' = [data EXCEPT ![m % Size] = data[n % Size], ![n % Size] = data[m % Size]]
        /\ data \in [Slots -> Words]
    BY <1>2 DEF Exchanged, TypeInv
  <1>4. ASSUME NEW k \in Positions
        PROVE  At(k)' = IF k = m THEN At(n) ELSE IF k = n THEN At(m) ELSE At(k)
    <2>1. At(k)' = data'[k % Size]
      BY DEF At
    <2>2. At(k) = data[k % Size] /\ At(m) = data[m % Size] /\ At(n) = data[n % Size]
      BY DEF At
    <2>3. data'[k % Size] = IF k % Size = n % Size THEN data[m % Size]
                            ELSE IF k % Size = m % Size THEN data[n % Size] ELSE data[k % Size]
      BY <1>2, <1>3
    <2> QED BY <1>2, <2>1, <2>2, <2>3
  <1>5. Keys' = [k \in Positions |-> GET_ADDR(At(k)')]
    BY <1>1 DEF Keys, GET_ADDR
  <1>6. ASSUME NEW k \in Positions
        PROVE  Keys'[k] = IF k = m THEN Keys[n] ELSE IF k = n THEN Keys[m] ELSE Keys[k]
    BY <1>4, <1>5 DEF Keys
  <1> QED BY <1>5, <1>6 DEF Keys

-----------------------------------------------------------------------------
(* The steps of partition_pgs.                                             *)

LEMMA StackShape ==
    ASSUME TypeInv
    PROVE  /\ Len(callers) \in Nat /\ Len(Stack) = Len(callers) + 1
           /\ \A n \in 1 .. Len(callers) : Stack[n] = callers[n] /\ callers[n] \in Parts
           /\ Stack[Len(callers) + 1].lo = lo /\ Stack[Len(callers) + 1].hi = hi
           /\ Stack \in Seq(Parts)
           /\ lo \in Int /\ hi \in Int
           /\ \A k : k \in lo .. hi => k \in Positions
  <1>1. /\ callers \in Seq(Parts) /\ lo \in Positions /\ hi \in Positions /\ lo <= hi
        /\ given.lo \in Nat /\ given.hi \in Nat
    BY PositionRange DEF TypeInv
  <1>2. PICK w : w = [lo |-> lo, hi |-> hi]
    OBVIOUS
  <1>3. w \in Parts /\ w.lo = lo /\ w.hi = hi
    BY <1>1, <1>2 DEF Parts
  <1>4. Stack = Append(callers, w)
    BY <1>2 DEF Stack
  <1>5. /\ Len(callers) \in Nat /\ Len(Stack) = Len(callers) + 1
        /\ \A n \in 1 .. Len(callers) : Stack[n] = callers[n] /\ callers[n] \in Parts
        /\ Stack[Len(callers) + 1] = w /\ Stack \in Seq(Parts)
    BY <1>1, <1>3, <1>4
  <1>6. /\ lo \in Int /\ hi \in Int
        /\ \A k : k \in lo .. hi => k \in Positions
    BY <1>1 DEF Positions
  <1> QED BY <1>3, <1>5, <1>6

LEMMA DataStays ==
    ASSUME IInv, UNCHANGED <<data, given, lo, hi, callers>>
    PROVE  /\ Keys' = Keys /\ Stack' = Stack
           /\ WindowsApart' /\ OrderedApart' /\ PermInv'
  <1>1. Keys' = Keys /\ Positions' = Positions /\ Stack' = Stack
    BY KeysStay DEF Stack
  <1>2. WindowsApart'
    BY <1>1 DEF IInv, WindowsApart
  <1>3. OrderedApart'
    BY <1>1 DEF IInv, OrderedApart, Together
  <1>4. PermInv'
    <2>1. PICK f \in [Slots -> Slots] : Moved(f)
      BY DEF IInv, PermInv
    <2>2. Moved(f)'
      BY <2>1 DEF Moved, InWindow
    <2> QED BY <2>2 DEF PermInv
  <1> QED BY <1>1, <1>2, <1>3, <1>4

LEMMA TypeStays ==
    ASSUME TypeInv, UNCHANGED <<data, given, lo, hi, callers>>,
           pivot' \in Nat, i' \in Int, j' \in Int, pc' \in {"while", "down", "up", "compare"}
    PROVE  TypeInv'
  BY KeysStay DEF TypeInv

LEMMA PartitionStep == IInv /\ Partition => IInv'
  <1> SUFFICES ASSUME IInv, Partition PROVE IInv'
    OBVIOUS
  <1> DEFINE middle == (lo + hi) \div 2
  <1>1. /\ hi > lo /\ pivot' = GET_ADDR(At(middle)) /\ i' = lo - 1 /\ j' = hi + 1
        /\ pc' = "down" /\ UNCHANGED <<data, given, lo, hi, callers>>
    BY DEF Partition
  <1>2. lo \in Int /\ hi \in Int /\ \A k : k \in lo .. hi => k \in Positions
    BY StackShape DEF IInv
  <1>3. middle \in lo .. hi - 1
    BY <1>1, <1>2
  <1>4. middle \in Positions
    BY <1>2, <1>3
  <1> HIDE DEF middle
  <1>5. pivot' = Keys[middle] /\ pivot' \in Nat
    BY <1>1, <1>4, KeysType DEF IInv
  <1>6. Keys' = Keys /\ WindowsApart' /\ OrderedApart' /\ PermInv'
    BY <1>1, DataStays
  <1>7. TypeInv'
    BY <1>1, <1>2, <1>5, TypeStays DEF IInv
  <1>8. Keys[middle] \in Nat
    BY <1>4, KeysType DEF IInv
  <1>9. SidesInv'
    BY <1>1, <1>2, <1>6 DEF SidesInv
  <1>10. middle \in lo .. hi + 1 - 1 /\ middle \in lo - 1 + 1 .. hi /\ middle \in lo - 1 + 1 .. hi - 1
    BY <1>2, <1>3
  <1>11. ScanInv'
    BY <1>1, <1>2, <1>5, <1>6, <1>8, <1>10 DEF ScanInv
  <1>12. FirstRound'
    BY <1>1, <1>2, <1>5, <1>6, <1>8, <1>10 DEF FirstRound
  <1> QED BY <1>6, <1>7, <1>9, <1>11, <1>12 DEF IInv

LEMMA ScanDownStep == IInv /\ ScanDown => IInv'
  <1> SUFFICES ASSUME IInv, ScanDown PROVE IInv'
    OBVIOUS
  <1>1. /\ pc = "down" /\ j' = j - 1 /\ i' = i /\ pivot' = pivot
        /\ pc' = IF GET_ADDR(At(j - 1)) > pivot THEN "down" ELSE "up"
        /\ UNCHANGED <<data, given, lo, hi, callers>>
    BY DEF ScanDown
  <1>2. /\ lo \in Int /\ hi \in Int /\ i \in Int /\ j \in Int /\ pivot \in Nat
        /\ \A k : k \in lo .. hi => k \in Positions
    BY StackShape DEF IInv, TypeInv
  <1>3. /\ lo < hi /\ i >= lo - 1 /\ i < j /\ j <= hi + 1
        /\ \A k \in lo .. i : Keys[k] <= pivot
        /\ \A k \in j .. hi : Keys[k] >= pivot
    BY <1>1 DEF IInv, SidesInv, ScanInv
  <1>4. PICK low \in lo .. j - 1 : Keys[low] <= pivot
    BY <1>1 DEF IInv, ScanInv
  <1>5. j - 1 \in lo .. hi
    BY <1>2, <1>3, <1>4
  <1>6. Keys[j - 1] = GET_ADDR(At(j - 1)) /\ Keys[j - 1] \in Nat
    BY <1>2, <1>5, KeysType DEF IInv
  <1>7. PICK high \in i + 1 .. hi : Keys[high] >= pivot
    BY <1>1 DEF IInv, ScanInv
  <1>8. Keys' = Keys /\ WindowsApart' /\ OrderedApart' /\ PermInv'
    BY <1>1, DataStays
  <1>9. TypeInv'
    BY <1>1, <1>2, TypeStays DEF IInv
  <1>10. pc' = "down" => Keys[j - 1] > pivot
    BY <1>1, <1>6
  <1>11. pc' = "up" => Keys[j - 1] <= pivot
    BY <1>1, <1>2, <1>6
  <1>12. pc' \in {"down", "up"}
    BY <1>1
  <1>13. SidesInv'
    <2>1. ASSUME pc' = "down", NEW k \in j - 1 .. hi PROVE Keys[k] >= pivot
      <3>1. k = j - 1 \/ k \in j .. hi
        BY <1>2
      <3> QED BY <1>2, <1>3, <1>6, <1>10, <2>1, <3>1
    <2>2. \A k \in j - 1 + 1 .. hi : Keys[k] >= pivot
      BY <1>2, <1>3
    <2> QED BY <1>1, <1>3, <1>8, <1>11, <1>12, <2>1, <2>2 DEF SidesInv
  <1>14. ScanInv'
    <2>1. ASSUME pc' = "down" PROVE i < j - 1 /\ low \in lo .. j - 1 - 1
      <3>1. low # j - 1
        BY <1>2, <1>4, <1>6, <1>10, <2>1
      <3>2. low <= j - 2
        BY <1>2, <3>1
      <3>3. i # j - 1
        <4>1. i = j - 1 => j - 1 \in lo .. i
          BY <1>2, <1>5
        <4> QED BY <1>2, <1>3, <1>6, <1>10, <2>1, <4>1
      <3> QED BY <1>2, <1>3, <3>2, <3>3
    <2> QED BY <1>1, <1>2, <1>3, <1>4, <1>5, <1>7, <1>8, <1>12, <2>1 DEF ScanInv
  <1>15. FirstRound'
    <2>1. ASSUME pc' = "up", j - 1 = hi PROVE \E k \in i + 1 .. hi - 1 : Keys[k] >= pivot
      <3>1. j = hi + 1
        BY <1>2, <2>1
      <3> QED BY <1>1, <3>1 DEF IInv, FirstRound
    <2>2. j - 1 # hi + 1
      BY <1>2, <1>3
    <2> QED BY <1>1, <1>8, <1>12, <2>1, <2>2 DEF FirstRound
  <1> QED BY <1>8, <1>9, <1>13, <1>14, <1>15 DEF IInv

LEMMA ScanUpStep == IInv /\ ScanUp => IInv'
  <1> SUFFICES ASSUME IInv, ScanUp PROVE IInv'
    OBVIOUS
  <1>1. /\ pc = "up" /\ i' = i + 1 /\ j' = j /\ pivot' = pivot
        /\ pc' = IF GET_ADDR(At(i + 1)) < pivot THEN "up" ELSE "compare"
        /\ UNCHANGED <<data, given, lo, hi, callers>>
    BY DEF ScanUp
  <1>2. /\ lo \in Int /\ hi \in Int /\ i \in Int /\ j \in Int /\ pivot \in Nat
        /\ \A k : k \in lo .. hi => k \in Positions
    BY StackShape DEF IInv, TypeInv
  <1>3. /\ lo < hi /\ i >= lo - 1 /\ j \in lo .. hi
        /\ \A k \in lo .. i : Keys[k] <= pivot
        /\ \A k \in j + 1 .. hi : Keys[k] >= pivot
        /\ Keys[j] <= pivot
    BY <1>1 DEF IInv, SidesInv, ScanInv
  <1>4. PICK high \in i + 1 .. hi : Keys[high] >= pivot
    BY <1>1 DEF IInv, ScanInv
  <1>5. i + 1 \in lo .. hi
    BY <1>2, <1>3, <1>4
  <1>6. Keys[i + 1] = GET_ADDR(At(i + 1)) /\ Keys[i + 1] \in Nat
    BY <1>2, <1>5, KeysType DEF IInv
  <1>7. Keys' = Keys /\ WindowsApart' /\ OrderedApart' /\ PermInv'
    BY <1>1, DataStays
  <1>8. TypeInv'
    BY <1>1, <1>2, TypeStays DEF IInv
  <1>9. pc' = "up" => Keys[i + 1] < pivot
    BY <1>1, <1>6
  <1>10. pc' = "compare" => Keys[i + 1] >= pivot
    BY <1>1, <1>2, <1>6
  <1>11. pc' \in {"up", "compare"}
    BY <1>1
  <1>12. SidesInv'
    <2>1. ASSUME pc' = "up", NEW k \in lo .. i + 1 PROVE Keys[k] <= pivot
      <3>1. k = i + 1 \/ k \in lo .. i
        BY <1>2
      <3> QED BY <1>2, <1>3, <1>6, <1>9, <2>1, <3>1
    <2>2. CASE pc' = "up"
      BY <1>1, <1>3, <1>7, <2>1, <2>2 DEF SidesInv
    <2>3. CASE pc' = "compare"
      <3>1. /\ lo' = lo /\ hi' = hi /\ i' = i + 1 /\ j' = j /\ pivot' = pivot /\ Keys' = Keys
        BY <1>1, <1>7
      <3>2. Keys[i + 1] >= pivot
        BY <1>10, <2>3
      <3>3. \A k \in lo' .. i' - 1 : Keys'[k] <= pivot'
        <4>1. i' - 1 = i
          BY <1>2, <3>1
        <4> QED BY <1>3, <3>1, <4>1
      <3>4. \A k \in j' + 1 .. hi' : Keys'[k] >= pivot'
        BY <1>3, <3>1
      <3>5. lo' < hi' /\ Keys'[j'] <= pivot' /\ Keys'[i'] >= pivot'
        BY <1>3, <3>1, <3>2
      <3> QED BY <2>3, <3>3, <3>4, <3>5 DEF SidesInv
    <2> QED BY <1>11, <2>2, <2>3
  <1>13. ScanInv'
    <2>1. ASSUME pc' = "up" PROVE high \in i + 1 + 1 .. hi
      <3>1. high # i + 1
        BY <1>2, <1>4, <1>6, <1>9, <2>1
      <3> QED BY <1>2, <3>1
    <2> QED BY <1>1, <1>2, <1>3, <1>4, <1>5, <1>7, <1>11, <2>1 DEF ScanInv
  <1>14. FirstRound'
    <2>1. ASSUME j = hi PROVE \E k \in i + 1 .. hi - 1 : Keys[k] >= pivot
      BY <1>1, <2>1 DEF IInv, FirstRound
    <2>2. ASSUME pc' = "up", j = hi PROVE \E k \in i + 1 + 1 .. hi - 1 : Keys[k] >= pivot
      <3>1. PICK k \in i + 1 .. hi - 1 : Keys[k] >= pivot
        BY <2>1, <2>2
      <3>2. k # i + 1
        BY <1>2, <1>6, <1>9, <2>2, <3>1
      <3>3. k \in i + 1 + 1 .. hi - 1
        BY <1>2, <3>2
      <3> QED BY <3>1, <3>3
    <2>3. i + 1 < hi \/ j < hi
      <3>1. CASE j = hi
        BY <1>2, <2>1, <3>1
      <3>2. CASE j # hi
        BY <1>2, <1>3, <3>2
      <3> QED BY <3>1, <3>2
    <2> QED BY <1>1, <1>7, <1>11, <2>2, <2>3 DEF FirstRound
  <1> QED BY <1>7, <1>8, <1>12, <1>13, <1>14 DEF IInv

LEMMA CurrentApart ==
    ASSUME IInv, NEW k \in lo .. hi, NEW l \in Positions, l \notin lo .. hi
    PROVE  ~Together(Stack, k, l) /\ ~Together(Stack, l, k)
  <1>1. /\ Len(callers) + 1 \in 1 .. Len(Stack) /\ k \in Positions
        /\ Stack[Len(callers) + 1].lo = lo /\ Stack[Len(callers) + 1].hi = hi
    BY StackShape DEF IInv
  <1>2. ASSUME NEW n \in 1 .. Len(Stack), k \in Stack[n].lo .. Stack[n].hi,
               l \in Stack[n].lo .. Stack[n].hi
        PROVE  FALSE
    <2>1. n = Len(callers) + 1
      BY <1>1, <1>2 DEF IInv, WindowsApart
    <2> QED BY <1>1, <1>2, <2>1
  <1> QED BY <1>2 DEF Together

LEMMA ExchangeIsBijection ==
    ASSUME NEW S, NEW f \in Bijection(S, S), NEW s \in S, NEW t \in S, s # t
    PROVE  [f EXCEPT ![s] = f[t], ![t] = f[s]] \in Bijection(S, S)
  <1> DEFINE g == [f EXCEPT ![s] = f[t], ![t] = f[s]]
  <1>1. /\ f \in [S -> S]
        /\ \A a, b \in S : f[a] = f[b] => a = b
        /\ \A c \in S : \E a \in S : f[a] = c
    BY DEF Bijection, Injection, Surjection, IsInjective
  <1>2. g \in [S -> S]
    BY <1>1
  <1>3. \A a \in S : g[a] = IF a = t THEN f[s] ELSE IF a = s THEN f[t] ELSE f[a]
    BY <1>1
  <1> HIDE DEF g
  <1>4. \A a, b \in S : g[a] = g[b] => a = b
    BY <1>1, <1>3
  <1>5. ASSUME NEW c \in S PROVE \E a \in S : g[a] = c
    <2>1. PICK a \in S : f[a] = c
      BY <1>1
    <2>2. CASE a = s
      BY <1>3, <2>1, <2>2
    <2>3. CASE a = t
      BY <1>3, <2>1, <2>3
    <2>4. CASE a # s /\ a # t
      BY <1>3, <2>1, <2>4
    <2> QED BY <2>2, <2>3, <2>4
  <1>6. g \in Bijection(S, S)
    BY <1>2, <1>4, <1>5 DEF Bijection, Injection, Surjection, IsInjective
  <1> QED BY <1>6 DEF g

LEMMA SwapStep == IInv /\ Swap => IInv'
  <1> SUFFICES ASSUME IInv, Swap PROVE IInv'
    OBVIOUS
  <1>1. /\ pc = "compare" /\ i < j /\ pc' = "down"
        /\ data' = Exchanged(i % Size, j % Size)
        /\ lo' = lo /\ hi' = hi /\ callers' = callers /\ pivot' = pivot
        /\ i' = i /\ j' = j /\ given' = given
    BY DEF Swap
  <1>2. /\ lo \in Int /\ hi \in Int /\ i \in Int /\ j \in Int /\ pivot \in Nat
        /\ \A k : k \in lo .. hi => k \in Positions
    BY StackShape DEF IInv, TypeInv
  <1>3. /\ lo < hi /\ i \in lo .. hi /\ j \in lo .. hi
        /\ \A k \in lo .. i - 1 : Keys[k] <= pivot
        /\ \A k \in j + 1 .. hi : Keys[k] >= pivot
        /\ Keys[j] <= pivot /\ Keys[i] >= pivot
    BY <1>1 DEF IInv, SidesInv, ScanInv
  <1>4. i \in Positions /\ j \in Positions /\ i # j
    BY <1>1, <1>2, <1>3
  <1>5. /\ Keys' = [Keys EXCEPT ![i] = Keys[j], ![j] = Keys[i]]
        /\ Keys \in [Positions -> Nat]
    BY <1>1, <1>4, KeysExchanged, KeysType DEF IInv
  <1> DEFINE Was(k) == IF k = i THEN j ELSE IF k = j THEN i ELSE k
  <1>6. \A k \in Positions : Keys'[k] = Keys[Was(k)] /\ Was(k) \in Positions
    BY <1>4, <1>5
  <1>7. \A k \in Positions : /\ k \in lo .. hi => Was(k) \in lo .. hi
                             /\ k \notin lo .. hi => Was(k) = k
    BY <1>3
  <1>8. Positions' = Positions /\ Stack' = Stack /\ Parts' = Parts
    BY <1>1 DEF Positions, Stack, Parts
  <1>9. WindowsApart'
    BY <1>8 DEF IInv, WindowsApart
  <1>10. OrderedApart'
    <2>1. ASSUME NEW k \in Positions, NEW l \in Positions, k < l, ~Together(Stack, k, l)
          PROVE  Keys'[k] <= Keys'[l]
      <3>1. Was(k) < Was(l) /\ ~Together(Stack, Was(k), Was(l))
        <4>1. CASE k \in lo .. hi /\ l \in lo .. hi
          <5>1. Together(Stack, k, l)
            BY <4>1, StackShape DEF IInv, Together
          <5> QED BY <2>1, <5>1
        <4>2. CASE k \in lo .. hi /\ l \notin lo .. hi
          <5>1. Was(l) = l /\ Was(k) \in lo .. hi
            BY <1>7, <4>2
          <5>2. k \in Int /\ l \in Int /\ l > hi
            BY <1>2, <2>1, <4>2, PositionRange DEF IInv
          <5>3. Was(k) < l
            BY <1>2, <5>1, <5>2
          <5> QED BY <4>2, <5>1, <5>3, CurrentApart
        <4>3. CASE k \notin lo .. hi /\ l \in lo .. hi
          <5>1. Was(k) = k /\ Was(l) \in lo .. hi
            BY <1>7, <4>3
          <5>2. k \in Int /\ l \in Int /\ k < lo
            BY <1>2, <2>1, <4>3, PositionRange DEF IInv
          <5>3. k < Was(l)
            BY <1>2, <5>1, <5>2
          <5> QED BY <4>3, <5>1, <5>3, CurrentApart
        <4>4. CASE k \notin lo .. hi /\ l \notin lo .. hi
          BY <1>7, <2>1, <4>4
        <4> QED BY <4>1, <4>2, <4>3, <4>4
      <3>2. Keys[Was(k)] <= Keys[Was(l)]
        BY <1>6, <3>1 DEF IInv, OrderedApart
      <3> QED BY <1>6, <3>2
    <2>2. \A k, l : Together(Stack, k, l)' = Together(Stack, k, l)
      BY <1>8 DEF Together
    <2> QED BY <1>8, <2>1, <2>2 DEF OrderedApart
  <1>11. Keys'[i] = Keys[j] /\ Keys'[j] = Keys[i]
    BY <1>4, <1>6
  <1>12. \A k \in lo .. hi : k # i /\ k # j => Keys'[k] = Keys[k]
    BY <1>2, <1>6
  <1>13. SidesInv'
    <2>1. ASSUME NEW k \in lo .. i PROVE Keys'[k] <= pivot
      <3>1. k = i \/ (k \in lo .. i - 1 /\ k \in lo .. hi /\ k # i /\ k # j)
        BY <1>1, <1>2, <1>3
      <3> QED BY <1>3, <1>11, <1>12, <3>1
    <2>2. ASSUME NEW k \in j .. hi PROVE Keys'[k] >= pivot
      <3>1. k = j \/ (k \in j + 1 .. hi /\ k \in lo .. hi /\ k # i /\ k # j)
        BY <1>1, <1>2, <1>3
      <3> QED BY <1>3, <1>11, <1>12, <3>1
    <2> QED BY <1>1, <1>3, <2>1, <2>2 DEF SidesInv
  <1>14. ScanInv'
    <2>1. i \in lo .. j - 1 /\ j \in i + 1 .. hi
      BY <1>1, <1>2, <1>3
    <2>2. i >= lo - 1 /\ i < j /\ j <= hi + 1
      BY <1>1, <1>2, <1>3
    <2>3. Keys'[i] <= pivot /\ Keys'[j] >= pivot
      BY <1>3, <1>11
    <2> QED BY <1>1, <2>1, <2>2, <2>3 DEF ScanInv
  <1>15. FirstRound'
    <2>1. j # hi + 1
      BY <1>2, <1>3
    <2> QED BY <1>1, <2>1 DEF FirstRound
  <1>16. /\ i % Size \in Slots /\ j % Size \in Slots /\ i % Size # j % Size
         /\ data \in [Slots -> Words]
    BY <1>4, SlotsOnce DEF IInv, TypeInv
  <1> DEFINE s == i % Size
             t == j % Size
  <1>17. data' = [data EXCEPT ![s] = data[t], ![t] = data[s]]
    BY <1>1, <1>16 DEF Exchanged
  <1> HIDE DEF s, t
  <1>18. s \in Slots /\ t \in Slots /\ s # t
    BY <1>16 DEF s, t
  <1>19. data' \in [Slots -> Words]
    BY <1>16, <1>17, <1>18
  <1>20. TypeInv'
    BY <1>1, <1>8, <1>19 DEF IInv, TypeInv
  <1>21. PermInv'
    <2>1. PICK f \in [Slots -> Slots] : Moved(f)
      BY DEF IInv, PermInv
    <2>2. PICK g : g = [f EXCEPT ![s] = f[t], ![t] = f[s]]
      OBVIOUS
    <2>3. g \in Bijection(Slots, Slots)
      BY <1>18, <2>1, <2>2, ExchangeIsBijection DEF Moved
    <2>4. g \in [Slots -> Slots]
      BY <1>18, <2>2
    <2>5. ASSUME NEW u \in Slots PROVE data'[u] = given.data[g[u]]
      BY <1>16, <1>17, <1>18, <2>1, <2>2 DEF Moved
    <2>6. InWindow(s) /\ InWindow(t)
      BY <1>4 DEF InWindow, Positions, s, t
    <2>7. ASSUME NEW u \in Slots PROVE InWindow(u) \/ g[u] = u
      BY <1>18, <2>1, <2>2, <2>6 DEF Moved
    <2>8. \A u : InWindow(u)' = InWindow(u)
      BY <1>1 DEF InWindow
    <2>9. Moved(g)'
      BY <1>1, <2>3, <2>5, <2>7, <2>8 DEF Moved
    <2> QED BY <2>4, <2>9 DEF PermInv
  <1> QED BY <1>9, <1>10, <1>13, <1>14, <1>15, <1>20, <1>21 DEF IInv

-----------------------------------------------------------------------------
(* The steps of quicksort_pgs.                                             *)

LEMMA PoppedAndPushed ==
    ASSUME NEW S, NEW s \in Seq(S), s # << >>
    PROVE  /\ Len(s) \in Nat /\ Len(s) >= 1 /\ s[Len(s)] \in S
           /\ SubSeq(s, 1, Len(s) - 1) \in Seq(S)
           /\ Append(SubSeq(s, 1, Len(s) - 1), s[Len(s)]) = s
  OBVIOUS

LEMMA ReturnStep == IInv /\ Return => IInv'
  <1> SUFFICES ASSUME IInv, Return PROVE IInv'
    OBVIOUS
  <1>1. pc = "while" /\ hi <= lo /\ UNCHANGED <<data, pivot, i, j, given>>
    BY DEF Return
  <1>2. Keys' = Keys /\ Positions' = Positions /\ Parts' = Parts
    BY <1>1, KeysStay
  <1>3. lo \in Int /\ hi \in Int /\ lo = hi
    BY <1>1, StackShape DEF IInv, TypeInv
  <1>4. CASE callers = << >> /\ pc' = "done" /\ UNCHANGED <<lo, hi, callers>>
    <2>1. WindowsApart' /\ OrderedApart' /\ PermInv'
      BY <1>1, <1>4, DataStays
    <2>2. TypeInv'
      BY <1>1, <1>2, <1>4 DEF IInv, TypeInv
    <2>3. SidesInv' /\ ScanInv' /\ FirstRound'
      BY <1>4 DEF SidesInv, ScanInv, FirstRound
    <2> QED BY <2>1, <2>2, <2>3 DEF IInv
  <1>5. CASE /\ callers # << >>
             /\ lo' = callers[Len(callers)].lo
             /\ hi' = callers[Len(callers)].hi
             /\ callers' = SubSeq(callers, 1, Len(callers) - 1)
             /\ UNCHANGED pc
    <2>1. /\ Len(callers) \in Nat /\ Len(callers) >= 1
          /\ callers[Len(callers)] \in Parts /\ callers' \in Seq(Parts)
          /\ Append(callers', callers[Len(callers)]) = callers
      BY <1>5, PoppedAndPushed DEF IInv, TypeInv
    <2>2. PICK w : w = callers[Len(callers)]
      OBVIOUS
    <2>3. w \in Parts /\ lo' = w.lo /\ hi' = w.hi
      BY <1>5, <2>1, <2>2
    <2>4. w = [lo |-> lo', hi |-> hi']
      BY <2>3 DEF Parts
    <2>5. Stack' = callers
      BY <2>1, <2>2, <2>4 DEF Stack
    <2>6. /\ Len(Stack) = Len(callers) + 1
          /\ \A n \in 1 .. Len(callers) : Stack[n] = callers[n]
          /\ Stack[Len(callers) + 1].lo = lo /\ Stack[Len(callers) + 1].hi = hi
      BY StackShape DEF IInv
    <2>7. lo' \in Positions /\ hi' \in Positions /\ lo' <= hi'
      BY <2>3 DEF Parts
    <2>8. TypeInv'
      BY <1>1, <1>2, <1>5, <2>1, <2>7 DEF IInv, TypeInv
    <2>9. WindowsApart'
      <3>1. ASSUME NEW m \in 1 .. Len(callers), NEW n \in 1 .. Len(callers), NEW k \in Positions,
                   k \in callers[m].lo .. callers[m].hi, k \in callers[n].lo .. callers[n].hi
            PROVE  m = n
        <4>1. m \in 1 .. Len(Stack) /\ n \in 1 .. Len(Stack)
          BY <2>1, <2>6
        <4> QED BY <2>6, <3>1, <4>1 DEF IInv, WindowsApart
      <3> QED BY <1>2, <2>5, <3>1 DEF WindowsApart
    <2>10. OrderedApart'
      <3>1. ASSUME NEW k \in Positions, NEW l \in Positions, k < l, ~Together(callers, k, l)
            PROVE  Keys[k] <= Keys[l]
        <4>1. ASSUME NEW n \in 1 .. Len(Stack), k \in Stack[n].lo .. Stack[n].hi,
                     l \in Stack[n].lo .. Stack[n].hi
              PROVE  FALSE
          <5>1. CASE n \in 1 .. Len(callers)
            BY <2>6, <3>1, <4>1, <5>1 DEF Together
          <5>2. CASE n = Len(callers) + 1
            <6>1. k \in lo .. hi /\ l \in lo .. hi
              BY <2>6, <4>1, <5>2
            <6> QED BY <1>3, <3>1, <6>1
          <5> QED BY <2>1, <2>6, <5>1, <5>2
        <4>2. ~Together(Stack, k, l)
          BY <4>1 DEF Together
        <4> QED BY <3>1, <4>2 DEF IInv, OrderedApart
      <3>2. \A k, l : Together(Stack, k, l)' = Together(callers, k, l)
        BY <2>5 DEF Together
      <3> QED BY <1>2, <3>1, <3>2 DEF OrderedApart
    <2>11. SidesInv' /\ ScanInv' /\ FirstRound'
      BY <1>1, <1>5 DEF SidesInv, ScanInv, FirstRound
    <2>12. PermInv'
      <3>1. PICK f \in [Slots -> Slots] : Moved(f)
        BY DEF IInv, PermInv
      <3>2. Moved(f)'
        BY <1>1, <3>1 DEF Moved, InWindow
      <3> QED BY <3>2 DEF PermInv
    <2> QED BY <2>8, <2>9, <2>10, <2>11, <2>12 DEF IInv
  <1> QED BY <1>4, <1>5 DEF Return

LEMMA PartitionReturnStep == IInv /\ PartitionReturn => IInv'
  <1> SUFFICES ASSUME IInv, PartitionReturn PROVE IInv'
    OBVIOUS
  <1>1. /\ pc = "compare" /\ i >= j /\ pc' = "while"
        /\ pivot' = 0 /\ i' = 0 /\ j' = 0 /\ data' = data /\ given' = given
    BY DEF PartitionReturn
  <1>2. /\ lo \in Int /\ hi \in Int /\ i \in Int /\ j \in Int /\ pivot \in Nat
        /\ \A k : k \in lo .. hi => k \in Positions
    BY StackShape DEF IInv, TypeInv
  <1>3. /\ lo < hi /\ i \in lo .. hi /\ j \in lo .. hi
        /\ \A k \in lo .. i - 1 : Keys[k] <= pivot
        /\ \A k \in j + 1 .. hi : Keys[k] >= pivot
        /\ Keys[j] <= pivot
        /\ i < hi \/ j < hi
    BY <1>1 DEF IInv, SidesInv, ScanInv, FirstRound
  <1>4. lo <= j /\ j < hi
    BY <1>1, <1>2, <1>3
  <1>5. ASSUME NEW k \in lo .. j PROVE Keys[k] <= pivot
    <2>1. k = j \/ k \in lo .. i - 1
      BY <1>1, <1>2
    <2> QED BY <1>3, <2>1
  <1>6. Keys' = Keys /\ Positions' = Positions /\ Parts' = Parts
    BY <1>1, KeysStay
  <1>7. PICK low, high : low = Lower /\ high = Upper
    OBVIOUS
  <1>8. /\ low \in Parts /\ low.lo = lo /\ low.hi = j
        /\ high \in Parts /\ high.lo = j + 1 /\ high.hi = hi
    BY <1>2, <1>4, <1>7 DEF Lower, Upper, Parts
  <1>9. PICK part, rest : /\ (part = low /\ rest = high) \/ (part = high /\ rest = low)
                          /\ lo' = part.lo /\ hi' = part.hi /\ callers' = Append(callers, rest)
    BY <1>7 DEF PartitionReturn, Recurse
  <1>10. /\ part \in Parts /\ rest \in Parts /\ callers \in Seq(Parts)
         /\ part = [lo |-> lo', hi |-> hi']
    BY <1>8, <1>9 DEF Parts, IInv, TypeInv
  <1>11. Stack' = Append(Append(callers, rest), part)
    BY <1>9, <1>10 DEF Stack
  <1>12. PICK N : N = Len(callers)
    OBVIOUS
  <1>13. /\ N \in Nat /\ Len(Stack') = N + 2
         /\ \A n \in 1 .. N : Stack'[n] = callers[n]
         /\ Stack'[N + 1] = rest /\ Stack'[N + 2] = part
    BY <1>10, <1>11, <1>12
  <1>14. /\ Len(Stack) = N + 1 /\ \A n \in 1 .. N : Stack[n] = callers[n]
         /\ Stack[N + 1].lo = lo /\ Stack[N + 1].hi = hi
    BY <1>12, StackShape DEF IInv
  <1>15. PICK a, b \in {N + 1, N + 2} : a # b /\ Stack'[a] = low /\ Stack'[b] = high
    <2>1. N + 1 # N + 2
      BY <1>13
    <2>2. CASE part = low /\ rest = high
      BY <1>13, <2>1, <2>2
    <2>3. CASE part = high /\ rest = low
      BY <1>13, <2>1, <2>3
    <2> QED BY <1>9, <2>2, <2>3
  <1>16. \A n \in 1 .. Len(Stack') : n \in 1 .. N \/ n = a \/ n = b
    BY <1>13, <1>15
  <1>17. a \in 1 .. Len(Stack') /\ b \in 1 .. Len(Stack')
    BY <1>13, <1>15
  <1>18. TypeInv'
    <2>1. callers' \in Seq(Parts)
      BY <1>9, <1>10
    <2>2. lo' \in Positions /\ hi' \in Positions /\ lo' <= hi'
      BY <1>9, <1>10 DEF Parts
    <2> QED BY <1>1, <1>6, <2>1, <2>2 DEF IInv, TypeInv
  <1>19. WindowsApart'
    <2>1. ASSUME NEW n \in 1 .. N, NEW k \in lo .. hi, k \in callers[n].lo .. callers[n].hi
          PROVE  FALSE
      <3>1. n \in 1 .. Len(Stack) /\ N + 1 \in 1 .. Len(Stack) /\ n # N + 1 /\ k \in Positions
        BY <1>2, <1>13, <1>14
      <3> QED BY <1>14, <2>1, <3>1 DEF IInv, WindowsApart
    <2>2. ASSUME NEW m \in 1 .. N, NEW n \in 1 .. N, NEW k \in Positions,
                 k \in callers[m].lo .. callers[m].hi, k \in callers[n].lo .. callers[n].hi
          PROVE  m = n
      <3>1. m \in 1 .. Len(Stack) /\ n \in 1 .. Len(Stack)
        BY <1>13, <1>14
      <3> QED BY <1>14, <2>2, <3>1 DEF IInv, WindowsApart
    <2>3. \A k : /\ k \in low.lo .. low.hi => k \in lo .. hi
                 /\ k \in high.lo .. high.hi => k \in lo .. hi
                 /\ ~(k \in low.lo .. low.hi /\ k \in high.lo .. high.hi)
      BY <1>2, <1>4, <1>8
    <2>4. ASSUME NEW m \in 1 .. Len(Stack'), NEW n \in 1 .. Len(Stack'), NEW k \in Positions,
                 k \in Stack'[m].lo .. Stack'[m].hi, k \in Stack'[n].lo .. Stack'[n].hi
          PROVE  m = n
      <3>1. CASE m \in 1 .. N /\ n \in 1 .. N
        BY <1>13, <2>2, <2>4, <3>1
      <3>2. CASE m \in 1 .. N /\ n \in {a, b}
        BY <1>13, <1>15, <2>1, <2>3, <2>4, <3>2
      <3>3. CASE m \in {a, b} /\ n \in 1 .. N
        BY <1>13, <1>15, <2>1, <2>3, <2>4, <3>3
      <3>4. CASE m \in {a, b} /\ n \in {a, b}
        BY <1>15, <2>3, <2>4, <3>4
      <3> QED BY <1>16, <3>1, <3>2, <3>3, <3>4
    <2> QED BY <1>6, <2>4 DEF WindowsApart
  <1>20. OrderedApart'
    <2>1. ASSUME NEW k \in Positions, NEW l \in Positions, k < l, ~Together(Stack', k, l)
          PROVE  Keys[k] <= Keys[l]
      <3>1. CASE Together(Stack, k, l)
        <4>1. PICK n \in 1 .. Len(Stack) : k \in Stack[n].lo .. Stack[n].hi /\ l \in Stack[n].lo .. Stack[n].hi
          BY <3>1 DEF Together
        <4>2. n \notin 1 .. N
          <5>1. n \in 1 .. N => n \in 1 .. Len(Stack') /\ Stack'[n] = Stack[n]
            BY <1>13, <1>14
          <5> QED BY <2>1, <4>1, <5>1 DEF Together
        <4>3. n = N + 1
          BY <1>13, <1>14, <4>2
        <4>4. k \in lo .. hi /\ l \in lo .. hi
          BY <1>14, <4>1, <4>3
        <4>5. ~(k \in low.lo .. low.hi /\ l \in low.lo .. low.hi)
          BY <1>15, <1>17, <2>1 DEF Together
        <4>6. ~(k \in high.lo .. high.hi /\ l \in high.lo .. high.hi)
          BY <1>15, <1>17, <2>1 DEF Together
        <4>7. k \in lo .. j /\ l \in j + 1 .. hi
          BY <1>2, <1>4, <1>8, <2>1, <4>4, <4>5, <4>6
        <4>8. Keys[k] <= pivot /\ Keys[l] >= pivot
          BY <1>3, <1>5, <4>7
        <4>9. Keys[k] \in Nat /\ Keys[l] \in Nat
          BY KeysType DEF IInv
        <4> QED BY <1>2, <4>8, <4>9
      <3>2. CASE ~Together(Stack, k, l)
        BY <2>1, <3>2 DEF IInv, OrderedApart
      <3> QED BY <3>1, <3>2
    <2>2. \A k, l : Together(Stack, k, l)' = Together(Stack', k, l)
      BY DEF Together
    <2> QED BY <1>6, <2>1, <2>2 DEF OrderedApart
  <1>21. SidesInv' /\ ScanInv' /\ FirstRound'
    BY <1>1 DEF SidesInv, ScanInv, FirstRound
  <1>22. PermInv'
    <2>1. PICK f \in [Slots -> Slots] : Moved(f)
      BY DEF IInv, PermInv
    <2>2. Moved(f)'
      BY <1>1, <2>1 DEF Moved, InWindow
    <2> QED BY <2>2 DEF PermInv
  <1> QED BY <1>18, <1>19, <1>20, <1>21, <1>22 DEF IInv

-----------------------------------------------------------------------------
(* The invariant is inductive.                                             *)

LEMMA InitHolds == Init => IInv
  <1> SUFFICES ASSUME Init PROVE IInv
    OBVIOUS
  <1>1. /\ data \in [Slots -> Words]
        /\ given.data = data /\ given.lo = lo /\ given.hi = hi /\ <<lo, hi>> \in Windows
        /\ callers = << >> /\ pivot = 0 /\ i = 0 /\ j = 0 /\ pc = "while"
    <2>1. PICK w \in Windows :
             lo = w[1] /\ hi = w[2] /\ given = [data |-> data, lo |-> w[1], hi |-> w[2]]
      BY DEF Init
    <2>2. w = <<w[1], w[2]>>
      BY DEF Windows
    <2>3. <<lo, hi>> = w
      BY <2>1, <2>2
    <2> QED BY <2>1, <2>3 DEF Init, Slots
  <1>2. lo \in Int /\ hi \in Int /\ lo <= hi
    BY <1>1 DEF Windows
  <1>3. TypeInv
    <2>1. lo \in Positions /\ hi \in Positions
      BY <1>1, <1>2 DEF Positions
    <2>2. callers \in Seq(Parts)
      BY <1>1
    <2>3. <<given.lo, given.hi>> = <<lo, hi>>
      BY <1>1
    <2> QED BY <1>1, <1>2, <2>1, <2>2, <2>3 DEF TypeInv
  <1>4. Len(Stack) = 1 /\ Stack[1].lo = lo /\ Stack[1].hi = hi
    BY <1>1, <1>3, StackShape
  <1>5. WindowsApart
    BY <1>4 DEF WindowsApart
  <1>6. \A k, l \in Positions : Together(Stack, k, l)
    BY <1>1, <1>4 DEF Positions, Together
  <1>7. OrderedApart
    BY <1>6 DEF OrderedApart
  <1>8. SidesInv /\ ScanInv /\ FirstRound
    BY <1>1 DEF SidesInv, ScanInv, FirstRound
  <1>9. PermInv
    <2> DEFINE f == [s \in Slots |-> s]
    <2>1. f \in [Slots -> Slots] /\ \A s \in Slots : f[s] = s
      OBVIOUS
    <2> HIDE DEF f
    <2>2. f \in Bijection(Slots, Slots)
      BY <2>1 DEF Bijection, Injection, Surjection, IsInjective
    <2>3. Moved(f)
      BY <1>1, <2>1, <2>2 DEF Moved
    <2> QED BY <2>1, <2>3 DEF PermInv
  <1> QED BY <1>3, <1>5, <1>7, <1>8, <1>9 DEF IInv

LEMMA StutterStep == IInv /\ UNCHANGED vars => IInv'
  <1> SUFFICES ASSUME IInv, UNCHANGED vars PROVE IInv'
    OBVIOUS
  <1>1. UNCHANGED <<data, given, lo, hi, callers, pivot, i, j, pc>>
    BY DEF vars
  <1>2. Keys' = Keys /\ WindowsApart' /\ OrderedApart' /\ PermInv'
    BY <1>1, DataStays
  <1>3. TypeInv'
    BY <1>1, KeysStay DEF IInv, TypeInv
  <1>4. SidesInv' /\ ScanInv' /\ FirstRound'
    BY <1>1, <1>2 DEF IInv, SidesInv, ScanInv, FirstRound
  <1> QED BY <1>2, <1>3, <1>4 DEF IInv

(* Whatever has been done so far, the sort has what it needs to go on.     *)
THEOREM Inductive == Spec => []IInv
  <1>1. IInv /\ [Next]_vars => IInv'
    BY PartitionStep, ReturnStep, ScanDownStep, ScanUpStep, SwapStep, PartitionReturnStep,
       StutterStep DEF Next
  <1> QED BY InitHolds, <1>1, PTL DEF Spec

-----------------------------------------------------------------------------

(* do j--; and do i++; of partition_pgs have no bound: on every ring and   *)
(* every content an entry of the window stops them.                        *)
THEOREM ScansInside == Spec => []ScansStayInside
  <1>1. IInv => ScansStayInside
    <2>1. ASSUME IInv PROVE lo \in Int /\ hi \in Int
      BY <2>1, StackShape DEF IInv
    <2> QED BY <2>1 DEF IInv, ScanInv, ScansStayInside
  <1> QED BY Inductive, <1>1, PTL

LEMMA SameWords ==
    ASSUME IInv, NEW w
    PROVE  ExistsBijection({s \in DOMAIN data : data[s] = w},
                           {s \in DOMAIN given.data : given.data[s] = w})
  <1> DEFINE now == {s \in Slots : data[s] = w}
             then == {s \in Slots : given.data[s] = w}
  <1>1. PICK f \in [Slots -> Slots] : Moved(f)
    BY DEF IInv, PermInv
  <1>2. /\ \A s \in Slots : data[s] = given.data[f[s]]
        /\ \A s, t \in Slots : f[s] = f[t] => s = t
        /\ \A t \in Slots : \E s \in Slots : f[s] = t
    BY <1>1 DEF Moved, Bijection, Injection, Surjection, IsInjective
  <1> DEFINE g == [s \in now |-> f[s]]
  <1>3. \A s \in now : s \in Slots /\ g[s] = f[s] /\ f[s] \in then
    BY <1>1, <1>2
  <1>4. g \in [now -> then]
    BY <1>3
  <1>5. \A s, t \in now : g[s] = g[t] => s = t
    BY <1>2, <1>3
  <1>6. ASSUME NEW t \in then PROVE \E s \in now : g[s] = t
    <2>1. PICK s \in Slots : f[s] = t
      BY <1>2, <1>6
    <2>2. s \in now
      BY <1>2, <1>6, <2>1
    <2> QED BY <1>3, <2>1, <2>2
  <1> HIDE DEF g, now, then
  <1>7. g \in Bijection(now, then)
    BY <1>4, <1>5, <1>6 DEF Bijection, Injection, Surjection, IsInjective
  <1>8. ExistsBijection(now, then)
    BY <1>7 DEF ExistsBijection
  <1>9. DOMAIN data = Slots /\ DOMAIN given.data = Slots
    BY DEF IInv, TypeInv
  <1> QED BY <1>8, <1>9 DEF now, then

(* quicksort_pgs returns with the window sorted by address, with the words *)
(* it was given and with the rest of the ring as it was, for every ring,   *)
(* every window that compact_queue passes and every content.               *)
THEOREM Sorted == Spec => []SortsTheWindow
  <1>1. ASSUME IInv, pc = "done" PROVE SortsTheWindow
    <2>1. callers = << >> /\ hi <= lo /\ lo \in Int /\ hi \in Int
      BY <1>1, StackShape DEF IInv, TypeInv
    <2>2. Len(Stack) = 1 /\ Stack[1].lo = lo /\ Stack[1].hi = hi
      BY <1>1, <2>1, StackShape DEF IInv
    <2>3. given.lo \in Nat /\ given.hi \in Nat
      BY <1>1, PositionRange DEF IInv
    <2>4. ASSUME NEW k \in given.lo .. given.hi - 1
          PROVE  GET_ADDR(At(k)) <= GET_ADDR(At(k + 1))
      <3>1. k \in Positions /\ k + 1 \in Positions /\ k \in Int /\ k < k + 1
        BY <2>3 DEF Positions
      <3>2. ~Together(Stack, k, k + 1)
        BY <2>1, <2>2, <3>1 DEF Together
      <3>3. Keys[k] <= Keys[k + 1]
        BY <1>1, <3>1, <3>2 DEF IInv, OrderedApart
      <3> QED BY <1>1, <3>1, <3>3, KeysType DEF IInv
    <2>5. ASSUME NEW s \in DOMAIN data PROVE InWindow(s) \/ data[s] = given.data[s]
      <3>1. s \in Slots
        BY <1>1 DEF IInv, TypeInv
      <3>2. PICK f \in [Slots -> Slots] : Moved(f)
        BY <1>1 DEF IInv, PermInv
      <3> QED BY <3>1, <3>2 DEF Moved
    <2>6. \A w \in Words : ExistsBijection({s \in DOMAIN data : data[s] = w},
                                           {s \in DOMAIN given.data : given.data[s] = w})
      BY <1>1, SameWords
    <2> QED BY <1>1, <2>4, <2>5, <2>6 DEF SortsTheWindow
  <1>2. IInv => SortsTheWindow
    BY <1>1 DEF SortsTheWindow
  <1> QED BY Inductive, <1>2, PTL

=============================================================================
