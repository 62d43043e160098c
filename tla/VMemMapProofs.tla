--------------------------- MODULE VMemMapProofs ---------------------------
(***************************************************************************)
(* Proof that vmem_map maps what it was asked to and nothing else, keeps   *)
(* what was mapped and refuses for a reason only, for every number of      *)
(* levels, every size of the tables and every sequence of calls.           *)
(*                                                                         *)
(* The tables form a tree.  A table has a place in it: its level, and the  *)
(* first page of the range that it translates.                             *)
(***************************************************************************)
EXTENDS VMemMap, FiniteSetTheorems, SequenceTheorems, WellFoundedInduction,
        TLAPS

-----------------------------------------------------------------------------
(* The inductive invariant.                                                *)

Tabs == {Root} \cup Frames

Slots == 0 .. Fanout - 1

(* The tables that are in use: linked, or about to be linked.              *)
Used == {Root} \cup (Frames \ (free \cup {fresh}))

Places == [Tabs -> [lv : 0 .. Last, base : Nat]]

(* The first page of entry k of table t.                                   *)
Spot(p, t, k) == p[t].base + k * Levels[p[t].lv]

IsLink(p, U, t, k, e) ==
    /\ p[t].lv < Last
    /\ e.addr \in U \ {Root} /\ e = Link(e.addr)
    /\ p[e.addr].lv = p[t].lv + 1 /\ p[e.addr].base = Spot(p, t, k)

LeafOf(r, lv, virt) ==
    [present |-> TRUE, large |-> lv # Last, addr |-> r.phys + (virt - r.virt),
     bits |-> CacheBits(r.cache)]

(* Entry e in slot k of table t maps a part of what r asks for.            *)
Maps(p, t, k, e, r) ==
    /\ r.op = "map"
    /\ r.virt <= Spot(p, t, k) /\ Spot(p, t, k + 1) <= r.virt + r.size
    /\ e = LeafOf(r, p[t].lv, Spot(p, t, k))

(* The call under way has mapped what lies below done only.                *)
IsLeaf(p, t, k, e, ms, done) ==
    /\ p[t].lv \in LargeAvail
    /\ \E m \in DOMAIN ms : /\ Maps(p, t, k, e, ms[m])
                            /\ m = Len(ms) => Spot(p, t, k + 1) <= done

Fits(p, U, t, k, e, ms, done) ==
    e = Absent \/ IsLink(p, U, t, k, e) \/ IsLeaf(p, t, k, e, ms, done)

Tree(p, U) ==
    /\ p[Root] = [lv |-> 0, base |-> 0]
    /\ \A t \in U \ {Root} : p[t].lv > 0
    /\ \A t \in U : p[t].base % (Fanout * Levels[p[t].lv]) = 0

Shape(p, U, tb, ms, done) ==
    /\ Tree(p, U)
    /\ \A t \in U, k \in Slots : Fits(p, U, t, k, tb[t][k], ms, done)

Done == IF stack = << >> THEN Fanout * Levels[0] ELSE Top.virt

FrameSet == [lv : 0 .. Last, t : Tabs, virt : Nat, phys : Nat, size : Nat,
             idx : 0 .. Fanout, leaf : BOOLEAN]

(* Where a call of vmem_map_st is in the range of c.                       *)
FrameInv(p, U, c, f) ==
    /\ f.t \in U /\ f.lv = p[f.t].lv
    /\ c.virt <= f.virt /\ f.virt <= c.virt + c.size
    /\ f.phys = c.phys + (f.virt - c.virt)
    /\ f.size = c.virt + c.size - f.virt
    /\ Spot(p, f.t, f.idx) <= f.virt
    /\ f.idx < Fanout => f.virt < Spot(p, f.t, f.idx + 1)
    /\ f.idx = Fanout => f.virt = Spot(p, f.t, f.idx)
    /\ f.leaf => /\ f.lv \in LargeAvail /\ f.size % Levels[f.lv] = 0
                 /\ f.virt = Spot(p, f.t, f.idx)
    /\ ~f.leaf => /\ f.lv < Last
                  /\ f.virt = Spot(p, f.t, f.idx) \/ f.virt = c.virt
                  /\ f.idx = Fanout => f.size > 0

(* Frame f is one of the request c, and its loop has not run out.          *)
Starts(p, U, c, f) == f \in FrameSet /\ FrameInv(p, U, c, f) /\ f.idx < Fanout

(* The call of frame f has called that of frame g.                         *)
Calls(p, tb, f, g) ==
    /\ ~f.leaf /\ f.idx < Fanout /\ f.size > 0
    /\ tb[f.t][f.idx] = Link(g.t)
    /\ g.lv = f.lv + 1 /\ p[g.t].base = Spot(p, f.t, f.idx)

StackInv(p, U, tb, c, s) ==
    /\ s \in Seq(FrameSet)
    /\ s # << >> => s[1].t = Root
    /\ \A n \in 1 .. Len(s) : FrameInv(p, U, c, s[n])
    /\ \A n \in 1 .. Len(s) - 1 : Calls(p, tb, s[n], s[n + 1])

Entries == [present : BOOLEAN, large : BOOLEAN, addr : Int,
            bits : SUBSET {"WRITETHROUGH", "CACHEDISABLE"}]

CallSet == {MapCall(r) : r \in Requests} \cup {UnmapCall(r) : r \in Requests}

TypeInv ==
    /\ table \in [Tabs -> [Slots -> Entries]]
    /\ ktable \in [Slots -> Entries]
    /\ free \subseteq Frames
    /\ fresh \in Tabs \cup {-1}
    /\ pc \in {"idle", "walk", "clear", "link", "copy", "return", "fault"}
    /\ made \in Seq(CallSet)

PcInv ==
    /\ stack # << >> <=> pc \in {"walk", "clear", "link", "fault"}
    /\ pc \notin {"clear", "link", "fault"} => fresh = Root
    /\ pc # "idle" => made # << >> /\ call = made[Len(made)]
    /\ stack # << >> => call.op = "map"
    /\ pc \in {"clear", "link"} =>
          /\ ~Top.leaf /\ Top.idx < Fanout /\ Top.size > 0 /\ Entry.addr = 0
          /\ fresh # Root /\ fresh \notin free
    /\ pc = "link" => fresh \in Frames /\ table[fresh] = [k \in Slots |-> Absent]

(* The core's table lags behind the kernel's until the end of the call.    *)
KtableInv ==
    /\ \A k \in Slots : ktable[k] = Absent \/ ktable[k] = table[Root][k]
    /\ pc = "return" => ktable = table[Root]

(* What a walk finds in the kernel's tables tb.                            *)
Found(tb, virt) == Walk(tb, tb[Root], virt)[0][Root]

(* Call c has mapped its range up to end.                                  *)
MappedTo(tb, c, end) == \A virt \in Pages :
    c.virt <= virt /\ virt < end => Found(tb, virt) = Asked(c, virt)

(* Call c, the last one of ms, met what an earlier one has mapped.         *)
Refused(tb, c, ms) == \E virt \in Pages, m \in 1 .. Len(ms) - 1 :
    /\ InRange(c, virt) /\ InRange(ms[m], virt) /\ ms[m].op = "map"
    /\ Found(tb, virt) = Asked(ms[m], virt)

ResultInv ==
    /\ stack # << >> => MappedTo(table, call, Top.virt)
    /\ pc \in {"copy", "return"} /\ call.op = "map" =>
          /\ ret = "none" => MappedTo(table, call, call.virt + call.size)
          /\ ret = "alreadymapped" => Refused(table, call, made)

(* Only a table that is just being filled is empty.                        *)
HasEntry(tb, t) == \E k \in Slots : tb[t][k].present

Filling(tb, f, t) ==
    /\ f.size > 0 /\ f.idx < Fanout
    /\ t = f.t \/ (~f.leaf /\ tb[f.t][f.idx] = Link(t))

FilledInv == \A t \in Used \ {Root} :
    HasEntry(table, t) \/ (stack # << >> /\ Filling(table, Top, t))

PlaceInv(p) ==
    /\ Shape(p, Used, table, made, Done)
    /\ StackInv(p, Used, table, call, stack)

IInv ==
    /\ TypeInv /\ PcInv /\ KtableInv /\ ResultInv /\ FilledInv
    /\ \E p \in Places : PlaceInv(p)

-----------------------------------------------------------------------------
(* Recursion from the last level upwards.                                  *)

LEMMA LeastOne ==
    ASSUME NEW S \in SUBSET Nat, S # {}
    PROVE  \E x \in S : \A y \in S : x <= y
  <1> DEFINE Below1 == {ss \in Nat \X Nat : ss[1] < ss[2]}
  <1>1. IsWellFoundedOn(Below1, Nat)
    BY NatLessThanWellFounded, Zenon DEF OpToRel
  <1> HIDE DEF Below1
  <1>2. PICK x \in S : \A y \in S : ~(<<y, x>> \in Below1)
    BY <1>1, WFMin, Zenon
  <1>3. ASSUME NEW y \in S PROVE x <= y
    <2>1. <<y, x>> \in Nat \X Nat /\ <<y, x>>[1] = y /\ <<y, x>>[2] = x
      OBVIOUS
    <2>2. ~(y < x)
      BY <1>2, <2>1, Zenon DEF Below1
    <2>3. x \in Nat /\ y \in Nat
      OBVIOUS
    <2> QED BY <2>2, <2>3
  <1> QED BY <1>3

(* A set of levels that has the last one, and the level above each of its  *)
(* own, has all.                                                           *)
LEMMA DownInduction ==
    ASSUME NEW S, Last \in S,
           \A lv \in 0 .. Last - 1 : lv + 1 \in S => lv \in S
    PROVE  0 .. Last \subseteq S
  <1> DEFINE Bad == {n \in Nat : n <= Last /\ Last - n \notin S}
  <1>1. SUFFICES Bad = {}
    <2>1. ASSUME NEW lv \in 0 .. Last PROVE Last - lv \in Nat /\ Last - lv <= Last /\ Last - (Last - lv) = lv
      BY VMemAssumption
    <2> QED BY <1>1, <2>1
  <1>2. SUFFICES ASSUME Bad # {} PROVE FALSE
    OBVIOUS
  <1>3. PICK n \in Bad : \A y \in Bad : n <= y
    BY <1>2, LeastOne
  <1>4. n # 0
    BY VMemAssumption
  <1>5. n - 1 \in Nat /\ n - 1 \notin Bad
    BY <1>3, <1>4
  <1>6. Last - (n - 1) \in S /\ Last - n \in 0 .. Last - 1 /\ Last - (n - 1) = Last - n + 1
    BY <1>4, <1>5, VMemAssumption
  <1> QED BY <1>3, <1>6

Solves(f, X, first, G) ==
    /\ f \in [0 .. Last -> X]
    /\ f[Last] = first
    /\ \A lv \in 0 .. Last - 1 : f[lv] = G[lv][f[lv + 1]]

LEMMA DownRecursion ==
    ASSUME NEW X, NEW first \in X, NEW G \in [0 .. Last -> [X -> X]]
    PROVE  \E f : Solves(f, X, first, G)
  <1> DEFINE Good(lv, f) == /\ f[Last] = first
                            /\ \A l \in lv .. Last - 1 : f[l] = G[l][f[l + 1]]
             S == {lv \in 0 .. Last : \E f \in [0 .. Last -> X] : Good(lv, f)}
  <1>1. Last \in S
    <2>1. [l \in 0 .. Last |-> first] \in [0 .. Last -> X]
      OBVIOUS
    <2>2. Good(Last, [l \in 0 .. Last |-> first])
      BY VMemAssumption
    <2> QED BY <2>1, <2>2, VMemAssumption
  <1>2. ASSUME NEW lv \in 0 .. Last - 1, lv + 1 \in S PROVE lv \in S
    <2>1. PICK f \in [0 .. Last -> X] : Good(lv + 1, f)
      BY <1>2
    <2> DEFINE g == [f EXCEPT ![lv] = G[lv][f[lv + 1]]]
    <2>2. lv \in 0 .. Last /\ lv + 1 \in 0 .. Last /\ lv # Last
      BY VMemAssumption
    <2>3. f[lv + 1] \in X /\ G[lv][f[lv + 1]] \in X
      BY <2>2
    <2>4. g \in [0 .. Last -> X]
      BY <2>3
    <2>5. ASSUME NEW l \in lv .. Last - 1 PROVE g[l] = G[l][g[l + 1]]
      <3>1. l \in 0 .. Last /\ l + 1 \in 0 .. Last /\ l + 1 # lv
        BY <2>2, VMemAssumption
      <3>2. g[l + 1] = f[l + 1]
        BY <3>1
      <3>3. CASE l = lv
        BY <3>1, <3>2, <3>3
      <3>4. CASE l # lv
        <4>1. l \in lv + 1 .. Last - 1
          BY <3>4, VMemAssumption
        <4>2. g[l] = f[l]
          BY <3>1, <3>4
        <4> QED BY <2>1, <3>2, <4>1, <4>2
      <3> QED BY <3>3, <3>4
    <2>6. g[Last] = first
      BY <2>1, <2>2, VMemAssumption
    <2>7. Good(lv, g)
      BY <2>5, <2>6
    <2> HIDE DEF g, Good
    <2> QED BY <2>2, <2>4, <2>7
  <1>3. 0 \in S
    <2> HIDE DEF S
    <2> QED BY <1>1, <1>2, DownInduction, VMemAssumption
  <1>4. PICK f \in [0 .. Last -> X] : Good(0, f)
    BY <1>3
  <1> QED BY <1>4 DEF Solves

LEMMA LevelsDef ==
    Levels = [lv \in 0 .. Last |-> IF lv = Last THEN 1 ELSE Fanout * Levels[lv + 1]]
  <1> DEFINE G == [lv \in 0 .. Last |-> [n \in Nat |-> Fanout * n]]
  <1>1. G \in [0 .. Last -> [Nat -> Nat]]
    BY VMemAssumption
  <1>2. PICK f : Solves(f, Nat, 1, G)
    <2> HIDE DEF G
    <2>1. PICK X, first : X = Nat /\ first = 1
      OBVIOUS
    <2>2. first \in X /\ G \in [0 .. Last -> [X -> X]]
      BY <1>1, <2>1
    <2> QED BY <2>1, <2>2, DownRecursion
  <1>3. ASSUME NEW lv \in 0 .. Last
        PROVE  f[lv] = IF lv = Last THEN 1 ELSE Fanout * f[lv + 1]
    <2>1. CASE lv = Last
      BY <1>2, <2>1 DEF Solves
    <2>2. CASE lv # Last
      <3>1. lv \in 0 .. Last - 1 /\ lv + 1 \in 0 .. Last
        BY <2>2, VMemAssumption
      <3>2. f[lv] = G[lv][f[lv + 1]] /\ f[lv + 1] \in Nat
        BY <1>2, <3>1 DEF Solves
      <3> QED BY <2>2, <3>2
    <2> QED BY <2>1, <2>2
  <1>4. f = [lv \in 0 .. Last |-> IF lv = Last THEN 1 ELSE Fanout * f[lv + 1]]
    BY <1>2, <1>3 DEF Solves
  <1>5. \E h : h = [lv \in 0 .. Last |-> IF lv = Last THEN 1 ELSE Fanout * h[lv + 1]]
    BY <1>4
  <1> QED BY <1>5 DEF Levels

LEMMA LevelsAre ==
    /\ Levels[Last] = 1
    /\ \A lv \in 0 .. Last : Levels[lv] \in Nat \ {0}
    /\ \A lv \in 0 .. Last - 1 : Levels[lv] = Fanout * Levels[lv + 1]
  <1>1. Levels[Last] = 1
    BY LevelsDef, VMemAssumption
  <1>2. ASSUME NEW lv \in 0 .. Last - 1 PROVE Levels[lv] = Fanout * Levels[lv + 1]
    <2>1. lv \in 0 .. Last /\ lv # Last
      BY VMemAssumption
    <2> QED BY <2>1, LevelsDef
  <1> DEFINE S == {lv \in 0 .. Last : Levels[lv] \in Nat \ {0}}
  <1>3. Last \in S
    BY <1>1, VMemAssumption
  <1>4. ASSUME NEW lv \in 0 .. Last - 1, lv + 1 \in S PROVE lv \in S
    <2>1. lv \in 0 .. Last /\ Levels[lv + 1] \in Nat \ {0}
      BY <1>4, VMemAssumption
    <2>2. \A a \in Nat \ {0}, b \in Nat \ {0} : a * b \in Nat \ {0}
      OBVIOUS
    <2>3. Fanout \in Nat \ {0}
      BY VMemAssumption
    <2> QED BY <1>2, <2>1, <2>2, <2>3
  <1>5. 0 .. Last \subseteq S
    <2> HIDE DEF S
    <2> QED BY <1>3, <1>4, DownInduction
  <1> QED BY <1>1, <1>2, <1>5

-----------------------------------------------------------------------------
(* The walk.                                                               *)

EntryAt(tb, top, virt, lv, t) ==
    IF lv = 0 THEN top[Index(virt, 0)] ELSE tb[t][Index(virt, lv)]

EndsAt(e, lv) == lv = Last \/ (e.large /\ lv \in LargeAvail)

Value(e, lv, virt) == [phys |-> e.addr + (virt % Levels[lv]), cache |-> PAT(e.bits)]

LEMMA WalkUnfolds ==
    ASSUME NEW tb, NEW top, NEW virt, NEW lv \in 0 .. Last, NEW t \in DOMAIN tb
    PROVE  LET e == EntryAt(tb, top, virt, lv, t) IN
           Walk(tb, top, virt)[lv][t] =
               IF ~e.present THEN Unmapped
               ELSE IF EndsAt(e, lv) THEN Value(e, lv, virt)
               ELSE IF e.addr \in DOMAIN tb THEN Walk(tb, top, virt)[lv + 1][e.addr]
               ELSE Nowhere
  <1> DEFINE E(l, u) == EntryAt(tb, top, virt, l, u)
             R == {Unmapped, Nowhere} \cup
                      {Value(E(l, u), l, virt) : l \in 0 .. Last, u \in DOMAIN tb}
             X == [DOMAIN tb -> R]
             Row(l, below) == [u \in DOMAIN tb |->
                 IF ~E(l, u).present THEN Unmapped
                 ELSE IF EndsAt(E(l, u), l) THEN Value(E(l, u), l, virt)
                 ELSE IF E(l, u).addr \in DOMAIN tb THEN below[E(l, u).addr]
                 ELSE Nowhere]
             LastRow == [u \in DOMAIN tb |->
                 IF ~E(Last, u).present THEN Unmapped ELSE Value(E(Last, u), Last, virt)]
             G == [l \in 0 .. Last |-> [below \in X |-> Row(l, below)]]
             IsWalk(f) == f = [l \in 0 .. Last |-> [u \in DOMAIN tb |->
                 LET e == IF l = 0 THEN top[Index(virt, 0)] ELSE tb[u][Index(virt, l)]
                 IN  IF ~e.present THEN Unmapped
                     ELSE IF l = Last \/ (e.large /\ l \in LargeAvail)
                     THEN [phys |-> e.addr + (virt % Levels[l]), cache |-> PAT(e.bits)]
                     ELSE IF e.addr \in DOMAIN tb THEN f[l + 1][e.addr]
                     ELSE Nowhere]]
  <1>1. ASSUME NEW l \in 0 .. Last, NEW below \in X PROVE Row(l, below) \in X
    <2>1. ASSUME NEW u \in DOMAIN tb
          PROVE  Value(E(l, u), l, virt) \in R
      OBVIOUS
    <2>2. ASSUME NEW u \in DOMAIN tb, E(l, u).addr \in DOMAIN tb
          PROVE  below[E(l, u).addr] \in R
      BY <2>2
    <2> HIDE DEF R, E
    <2>3. Unmapped \in R /\ Nowhere \in R
      BY DEF R
    <2> QED BY <2>1, <2>2, <2>3
  <1>2. LastRow \in X
    <2>1. ASSUME NEW u \in DOMAIN tb
          PROVE  Value(E(Last, u), Last, virt) \in R
      BY VMemAssumption
    <2>3. Unmapped \in R
      OBVIOUS
    <2> HIDE DEF R, E
    <2> QED BY <2>1, <2>3
  <1>3. G \in [0 .. Last -> [X -> X]]
    <2> HIDE DEF X, Row
    <2> QED BY <1>1
  <1>4. PICK f : Solves(f, X, LastRow, G)
    <2> HIDE DEF X, LastRow, G
    <2> QED BY <1>2, <1>3, DownRecursion
  <1>5. \A l \in 0 .. Last : f[l] \in X
    BY <1>4 DEF Solves
  <1>6. ASSUME NEW l \in 0 .. Last
        PROVE  f[l] = Row(l, f[l + 1])
    <2>1. CASE l = Last
      <3>1. f[l] = LastRow
        BY <1>4, <2>1 DEF Solves
      <3> QED BY <2>1, <3>1 DEF EndsAt
    <2>2. CASE l # Last
      <3>1. l \in 0 .. Last - 1 /\ l + 1 \in 0 .. Last
        BY <2>2, VMemAssumption
      <3> HIDE DEF X, Row, G, LastRow
      <3>2. f[l] = G[l][f[l + 1]]
        BY <1>4, <3>1 DEF Solves
      <3>3. f[l + 1] \in X
        BY <1>5, <3>1
      <3>4. G[l][f[l + 1]] = Row(l, f[l + 1])
        BY <3>3 DEF G
      <3> QED BY <3>2, <3>4
    <2> QED BY <2>1, <2>2
  <1>7. f = [l \in 0 .. Last |-> Row(l, f[l + 1])]
    <2> HIDE DEF Row, X, LastRow, G
    <2> QED BY <1>4, <1>6 DEF Solves
  <1>8. IsWalk(f)
    BY <1>7, Zenon DEF EntryAt, EndsAt, Value
  <1>9. IsWalk(Walk(tb, top, virt))
    BY <1>8, Zenon DEF Walk
  <1> DEFINE W == Walk(tb, top, virt)
  <1>10. W = [l \in 0 .. Last |-> Row(l, W[l + 1])]
    BY <1>9, Zenon DEF EntryAt, EndsAt, Value
  <1>11. W[lv] = Row(lv, W[lv + 1])
    <2> HIDE DEF W, Row
    <2> QED BY <1>10
  <1>12. W[lv][t] = Row(lv, W[lv + 1])[t]
    BY <1>11
  <1> HIDE DEF W
  <1>13. W[lv][t] = IF ~E(lv, t).present THEN Unmapped
               ELSE IF EndsAt(E(lv, t), lv) THEN Value(E(lv, t), lv, virt)
               ELSE IF E(lv, t).addr \in DOMAIN tb THEN W[lv + 1][E(lv, t).addr]
               ELSE Nowhere
    <2> HIDE DEF E
    <2> QED BY <1>12
  <1> QED BY <1>13, Zenon DEF W

-----------------------------------------------------------------------------
(* The arithmetic of addresses.                                            *)

LEMMA Division ==
    ASSUME NEW a \in Nat, NEW b \in Nat \ {0}
    PROVE  /\ a \div b \in Nat /\ a % b \in 0 .. b - 1
           /\ a = b * (a \div b) + (a % b)
  OBVIOUS

LEMMA DivisionUnique ==
    ASSUME NEW b \in Nat \ {0}, NEW q \in Nat, NEW r \in 0 .. b - 1
    PROVE  (b * q + r) \div b = q /\ (b * q + r) % b = r
  <1> DEFINE a == b * q + r
  <1>1. a \in Nat
    <2>1. b * q \in Nat
      OBVIOUS
    <2> QED BY <2>1
  <1> HIDE DEF a
  <1>2. PICK d \in Nat, m \in 0 .. b - 1 : d = a \div b /\ m = a % b
    BY <1>1, Division
  <1>3. a = b * d + m
    BY <1>1, <1>2, Division
  <1>4. a = b * q + r
    BY DEF a
  <1>5. ~(d < q)
    <2>1. SUFFICES ASSUME d < q PROVE FALSE
      OBVIOUS
    <2>2. PICK n \in Nat : q = d + 1 + n
      <3>1. q - d - 1 \in Nat /\ q = d + 1 + (q - d - 1)
        BY <2>1
      <3> QED BY <3>1
    <2>3. b * q = b * d + b + b * n /\ b * n \in Nat /\ b * d \in Nat
      BY <2>2
    <2> QED BY <1>3, <1>4, <2>3
  <1>6. ~(q < d)
    <2>1. SUFFICES ASSUME q < d PROVE FALSE
      OBVIOUS
    <2>2. PICK n \in Nat : d = q + 1 + n
      <3>1. d - q - 1 \in Nat /\ d = q + 1 + (d - q - 1)
        BY <2>1
      <3> QED BY <3>1
    <2>3. b * d = b * q + b + b * n /\ b * n \in Nat /\ b * q \in Nat
      BY <2>2
    <2> QED BY <1>3, <1>4, <2>3
  <1>7. d = q
    BY <1>5, <1>6
  <1>8. b * d = b * q /\ b * q \in Nat
    BY <1>7
  <1>9. m = r
    BY <1>3, <1>4, <1>8
  <1> QED BY <1>2, <1>7, <1>9 DEF a

(* A multiple of b.                                                        *)
LEMMA Multiple ==
    ASSUME NEW b \in Nat \ {0}
    PROVE  /\ \A q \in Nat : (b * q) % b = 0
           /\ \A a \in Nat : a % b = 0 => \E q \in Nat : a = b * q
  <1>1. ASSUME NEW q \in Nat PROVE (b * q) % b = 0
    <2>1. b * q + 0 = b * q /\ 0 \in 0 .. b - 1
      OBVIOUS
    <2> QED BY <2>1, DivisionUnique
  <1>2. ASSUME NEW a \in Nat, a % b = 0 PROVE \E q \in Nat : a = b * q
    <2>1. a \div b \in Nat /\ a = b * (a \div b) + 0
      BY <1>2, Division
    <2>2. b * (a \div b) \in Nat
      BY <2>1
    <2>3. a = b * (a \div b)
      BY <2>1, <2>2
    <2> QED BY <2>1, <2>3
  <1> QED BY <1>1, <1>2

LEMMA Multiples ==
    ASSUME NEW b \in Nat \ {0}, NEW x \in Nat, NEW y \in Nat, x % b = 0, y % b = 0
    PROVE  /\ (x + y) % b = 0
           /\ x <= y => (y - x) % b = 0
           /\ x < y => x + b <= y
  <1>1. PICK q \in Nat : x = b * q
    BY Multiple
  <1>2. PICK r \in Nat : y = b * r
    BY Multiple
  <1>3. (x + y) % b = 0
    <2>1. PICK z \in Nat, w \in Nat : z = x + y /\ w = q + r
      OBVIOUS
    <2>2. z = b * w
      BY <1>1, <1>2, <2>1
    <2>3. z % b = 0
      BY <2>2, Multiple
    <2> QED BY <2>1, <2>3
  <1>4. ASSUME x < y PROVE \E n \in Nat : r = q + 1 + n
    <2>1. ~(r <= q)
      <3>1. SUFFICES ASSUME r <= q PROVE FALSE
        OBVIOUS
      <3>2. PICK n \in Nat : q = r + n
        <4>1. q - r \in Nat /\ q = r + (q - r)
          BY <3>1
        <4> QED BY <4>1
      <3>3. b * q = b * r + b * n /\ b * n \in Nat /\ b * r \in Nat
        BY <3>2
      <3> QED BY <1>1, <1>2, <1>4, <3>3
    <2>2. r - q - 1 \in Nat /\ r = q + 1 + (r - q - 1)
      BY <2>1
    <2> QED BY <2>2
  <1>5. ASSUME x < y PROVE x + b <= y /\ (y - x) % b = 0
    <2>1. PICK n \in Nat : r = q + 1 + n
      BY <1>4, <1>5
    <2>2. b * r = b * q + b + b * n /\ b * n \in Nat /\ b * q \in Nat
      BY <2>1
    <2>3. y - x = b * (n + 1) /\ n + 1 \in Nat
      BY <1>1, <1>2, <2>2
    <2> QED BY <1>1, <1>2, <2>2, <2>3, Multiple
  <1>6. ASSUME x = y PROVE (y - x) % b = 0
    BY <1>6
  <1> QED BY <1>3, <1>5, <1>6

(* A multiple of a multiple of b.                                          *)
LEMMA MultipleOfProduct ==
    ASSUME NEW a \in Nat \ {0}, NEW b \in Nat \ {0}, NEW x \in Nat, x % (a * b) = 0
    PROVE  x % b = 0
  <1>1. a * b \in Nat \ {0}
    OBVIOUS
  <1>2. PICK q \in Nat : x = (a * b) * q
    BY <1>1, Multiple
  <1>3. x = b * (a * q) /\ a * q \in Nat
    BY <1>2
  <1> QED BY <1>3, Multiple

(* The range of an entry, and the entry a page is in.                      *)
LEMMA PlaceTypes ==
    ASSUME NEW p \in Places, NEW t \in Tabs
    PROVE  /\ p[t].lv \in 0 .. Last /\ p[t].base \in Nat
           /\ Levels[p[t].lv] \in Nat \ {0}
  BY LevelsAre DEF Places

LEMMA SpotNat ==
    ASSUME NEW p \in Places, NEW t \in Tabs, NEW k \in Nat
    PROVE  /\ Spot(p, t, k) \in Nat
           /\ Spot(p, t, k + 1) = Spot(p, t, k) + Levels[p[t].lv]
           /\ Spot(p, t, 0) = p[t].base
  BY PlaceTypes DEF Spot

LEMMA SpotOrder ==
    ASSUME NEW p \in Places, NEW t \in Tabs, NEW j \in Nat, NEW k \in Nat, j < k
    PROVE  Spot(p, t, j + 1) <= Spot(p, t, k)
  <1>1. PICK s \in Nat \ {0} : s = Levels[p[t].lv]
    BY PlaceTypes
  <1>2. PICK n \in Nat : k = j + 1 + n
    <2>1. k - j - 1 \in Nat /\ k = j + 1 + (k - j - 1)
      OBVIOUS
    <2> QED BY <2>1
  <1>3. k * s = (j + 1) * s + n * s /\ n * s \in Nat /\ (j + 1) * s \in Nat
    BY <1>2
  <1> QED BY <1>1, <1>3, PlaceTypes DEF Spot

Aligned(p, t) == p[t].base % (Fanout * Levels[p[t].lv]) = 0

LEMMA SpotAligned ==
    ASSUME NEW p \in Places, NEW t \in Tabs, Aligned(p, t), NEW k \in Nat
    PROVE  Spot(p, t, k) % Levels[p[t].lv] = 0
  <1>1. PICK s \in Nat \ {0} : s = Levels[p[t].lv]
    BY PlaceTypes
  <1>2. p[t].base \in Nat /\ p[t].base % s = 0
    <2>1. Fanout \in Nat \ {0}
      BY VMemAssumption
    <2> QED BY <1>1, <2>1, PlaceTypes, MultipleOfProduct DEF Aligned
  <1>3. (s * k) % s = 0 /\ s * k \in Nat /\ s * k = k * s
    BY Multiple
  <1>4. (p[t].base + s * k) % s = 0
    BY <1>2, <1>3, Multiples
  <1> QED BY <1>1, <1>3, <1>4 DEF Spot

LEMMA SpotSplits ==
    ASSUME NEW p \in Places, NEW t \in Tabs, Aligned(p, t),
           NEW k \in Slots, NEW v \in Nat,
           Spot(p, t, k) <= v, v < Spot(p, t, k + 1)
    PROVE  /\ Index(v, p[t].lv) = k
           /\ v % Levels[p[t].lv] = v - Spot(p, t, k)
  <1>1. PICK s \in Nat \ {0} : s = Levels[p[t].lv]
    BY PlaceTypes
  <1>2. Fanout \in Nat \ {0} /\ k \in Nat /\ k \in 0 .. Fanout - 1
    BY VMemAssumption DEF Slots
  <1>3. PICK q \in Nat : p[t].base = (Fanout * s) * q
    <2>1. PICK c \in Nat \ {0} : c = Fanout * s
      BY <1>2
    <2>2. PICK b \in Nat : b = p[t].base
      BY PlaceTypes
    <2>3. b % c = 0
      BY <1>1, <2>1, <2>2 DEF Aligned
    <2>4. PICK q \in Nat : b = c * q
      BY <2>3, Multiple
    <2> QED BY <2>1, <2>2, <2>4
  <1>4. PICK r \in 0 .. s - 1 : r = v - Spot(p, t, k)
    BY <1>1, <1>2, SpotNat
  <1>5. PICK m \in Nat : m = Fanout * q + k
    <2>1. Fanout * q \in Nat
      BY <1>2
    <2> QED BY <1>2, <2>1
  <1>6. v = s * m + r
    <2>1. Spot(p, t, k) = (Fanout * s) * q + k * s
      BY <1>1, <1>3 DEF Spot
    <2>2. s * m = (Fanout * s) * q + k * s /\ s * m \in Nat
      BY <1>2, <1>5
    <2> QED BY <1>4, <2>1, <2>2
  <1>7. v \div s = m /\ v % s = r
    BY <1>6, DivisionUnique
  <1>8. m % Fanout = k
    BY <1>2, <1>5, DivisionUnique
  <1> QED BY <1>1, <1>4, <1>7, <1>8 DEF Index

LEMMA IndexFinds ==
    ASSUME NEW p \in Places, NEW t \in Tabs, Aligned(p, t), NEW v \in Nat,
           p[t].base <= v, v < Spot(p, t, Fanout)
    PROVE  LET k == Index(v, p[t].lv) IN
           /\ k \in Slots
           /\ Spot(p, t, k) <= v /\ v < Spot(p, t, k + 1)
           /\ v % Levels[p[t].lv] = v - Spot(p, t, k)
  <1>1. PICK s \in Nat \ {0} : s = Levels[p[t].lv]
    BY PlaceTypes
  <1>2. PICK d \in Nat : d = v - p[t].base
    BY PlaceTypes
  <1>3. PICK k \in Nat, r \in 0 .. s - 1 : d = s * k + r
    <2>1. d \div s \in Nat /\ d % s \in 0 .. s - 1 /\ d = s * (d \div s) + (d % s)
      BY Division
    <2> QED BY <2>1
  <1>4. Spot(p, t, k) = p[t].base + s * k /\ s * k \in Nat
    <2>1. k * s = s * k /\ s * k \in Nat
      BY <1>3
    <2> QED BY <1>1, <2>1 DEF Spot
  <1>5. Spot(p, t, k) <= v /\ v < Spot(p, t, k + 1)
    <2>1. Spot(p, t, k + 1) = Spot(p, t, k) + s
      BY <1>1, <1>3, SpotNat
    <2>2. v = Spot(p, t, k) + r
      BY <1>2, <1>3, <1>4, PlaceTypes
    <2> QED BY <1>3, <1>4, <2>1, <2>2, PlaceTypes
  <1>6. k < Fanout
    <2>1. CASE Fanout < k
      <3>1. Spot(p, t, Fanout + 1) <= Spot(p, t, k)
        BY <2>1, SpotOrder, VMemAssumption
      <3> QED BY <1>1, <1>3, <1>5, <3>1, SpotNat, VMemAssumption
    <2>2. CASE Fanout = k
      BY <1>5, <2>2, SpotNat
    <2> QED BY <1>3, <2>1, <2>2, VMemAssumption
  <1>7. k \in Slots
    BY <1>3, <1>6, VMemAssumption DEF Slots
  <1> QED BY <1>5, <1>7, SpotSplits

-----------------------------------------------------------------------------
(* A step of the walk.                                                     *)

Translates(p, t, v) == p[t].base <= v /\ v < Spot(p, t, Fanout)

TableSet == [Tabs -> [Slots -> Entries]]

(* The entry of t that the walk reads.                                     *)
Seen(tb, top, t, k) == IF t = Root THEN top[k] ELSE tb[t][k]

(* Every entry that top, the table of the first level, has is Root's.      *)
IsTop(tb, top) ==
    /\ top \in [Slots -> Entries]
    /\ \A k \in Slots : top[k] = Absent \/ top[k] = tb[Root][k]

LEMMA AbsentIs ==
    /\ Absent \in Entries /\ ~Absent.present /\ Absent.addr = 0 /\ ~Absent.large
    /\ \A f : /\ Link(f).present /\ ~Link(f).large /\ Link(f).addr = f
              /\ f \in Tabs => Link(f) \in Entries
  <1>1. Tabs \subseteq Int
    BY VMemAssumption DEF Tabs, Root
  <1>2. Absent \in Entries /\ ~Absent.present /\ Absent.addr = 0 /\ ~Absent.large
    BY DEF Absent, Entries
  <1>3. ASSUME NEW f PROVE Link(f).present /\ ~Link(f).large /\ Link(f).addr = f
    BY DEF Link
  <1>4. ASSUME NEW f \in Tabs PROVE Link(f) \in Entries
    BY <1>1 DEF Link, Entries
  <1> QED BY <1>2, <1>3, <1>4

LEMMA RootTab == Root \in Tabs /\ Root = 0 /\ 0 \in 0 .. Last /\ Fanout \in Nat \ {0}
  BY VMemAssumption DEF Tabs, Root

(* A table that is linked translates the range of the entry.               *)
LEMMA LinkRange ==
    ASSUME NEW p \in Places, NEW U \in SUBSET Tabs, NEW t \in U, NEW k \in Nat, NEW e,
           IsLink(p, U, t, k, e)
    PROVE  /\ e.addr \in U /\ e.addr # Root /\ e.present /\ ~e.large
           /\ p[e.addr].base = Spot(p, t, k)
           /\ Spot(p, e.addr, Fanout) = Spot(p, t, k + 1)
           /\ p[t].lv \in 0 .. Last - 1
  <1>1. PICK c \in U : c = e.addr /\ c # Root /\ e = Link(c)
    BY DEF IsLink
  <1>2. p[t].lv \in 0 .. Last - 1
    BY PlaceTypes, VMemAssumption DEF IsLink
  <1>3. Levels[p[t].lv] = Fanout * Levels[p[c].lv]
    BY <1>1, <1>2, LevelsAre DEF IsLink
  <1>4. Spot(p, c, Fanout) = p[c].base + Levels[p[t].lv]
    BY <1>3 DEF Spot
  <1>5. p[c].base = Spot(p, t, k)
    BY <1>1 DEF IsLink
  <1>6. Spot(p, t, k + 1) = Spot(p, t, k) + Levels[p[t].lv]
    BY SpotNat
  <1> QED BY <1>1, <1>2, <1>4, <1>5, <1>6, AbsentIs

LEMMA PatOfBits == \A c \in Caches : PAT(CacheBits(c)) = c
  <1>1. /\ CacheBits("writethrough") = {"WRITETHROUGH"}
        /\ CacheBits("uncached") = {"CACHEDISABLE"}
        /\ CacheBits("writecomplete") = {"WRITETHROUGH", "CACHEDISABLE"}
        /\ CacheBits("writeback") = {}
    BY DEF CacheBits
  <1>2. "WRITETHROUGH" # "CACHEDISABLE"
    OBVIOUS
  <1>3. /\ {"WRITETHROUGH"} # {} /\ {"CACHEDISABLE"} # {}
        /\ {"WRITETHROUGH", "CACHEDISABLE"} # {} /\ {"WRITETHROUGH"} # {"CACHEDISABLE"}
        /\ {"WRITETHROUGH"} # {"WRITETHROUGH", "CACHEDISABLE"}
        /\ {"CACHEDISABLE"} # {"WRITETHROUGH", "CACHEDISABLE"}
    BY <1>2
  <1>4. /\ PAT({"WRITETHROUGH"}) = "writethrough"
        /\ PAT({"CACHEDISABLE"}) = "uncached"
        /\ PAT({"WRITETHROUGH", "CACHEDISABLE"}) = "writecomplete"
        /\ PAT({}) = "writeback"
    BY <1>3 DEF PAT
  <1> QED BY <1>1, <1>4 DEF Caches

LEMMA CallTypes ==
    ASSUME NEW c \in CallSet
    PROVE  /\ c.virt \in Nat /\ c.phys \in Nat /\ c.size \in Nat \ {0}
           /\ c.cache \in Caches /\ c.op \in {"map", "unmap"} /\ MadeFor(c)
  <1>1. PICK r \in Requests : c = MapCall(r) \/ c = UnmapCall(r)
    BY DEF CallSet
  <1>2. /\ c.virt = r.virt /\ c.phys = r.phys /\ c.size = r.size /\ c.cache = r.cache
        /\ c.op \in {"map", "unmap"}
    BY <1>1 DEF MapCall, UnmapCall
  <1>3. MadeFor(c)
    <2>1. MadeFor(r)
      BY RequestsAssumption
    <2> QED BY <1>2, <2>1 DEF MadeFor, Crosses
  <1>4. r \in [virt : Nat, phys : Nat, size : Nat \ {0}, cache : Caches]
    BY RequestsAssumption
  <1> QED BY <1>2, <1>3, <1>4

(* What the walk W finds in slot k with entry e, whose range has page v.   *)
Finds(p, U, t, k, v, e, W) ==
    /\ e = Absent => W[p[t].lv][t] = Unmapped
    /\ IsLink(p, U, t, k, e) =>
         /\ W[p[t].lv][t] = W[p[t].lv + 1][e.addr]
         /\ p[t].lv + 1 = p[e.addr].lv
         /\ Translates(p, e.addr, v)
    /\ \A r \in CallSet : Maps(p, t, k, e, r) /\ p[t].lv \in LargeAvail =>
         W[p[t].lv][t] = Asked(r, v) /\ InRange(r, v) /\ r.op = "map"

LEMMA WalkStep ==
    ASSUME NEW p \in Places, NEW U \in SUBSET Tabs, NEW tb \in TableSet, NEW top,
           Tree(p, U), NEW t \in U, NEW k \in Slots, NEW v \in Nat,
           Spot(p, t, k) <= v, v < Spot(p, t, k + 1)
    PROVE  Finds(p, U, t, k, v, Seen(tb, top, t, k), Walk(tb, top, v))
  <1> DEFINE e == Seen(tb, top, t, k)
             W == Walk(tb, top, v)
  <1>1. /\ t \in Tabs /\ p[t].lv \in 0 .. Last /\ p[t].base \in Nat /\ k \in Nat
        /\ Levels[p[t].lv] \in Nat \ {0}
    BY PlaceTypes, VMemAssumption DEF Slots
  <1>2. Index(v, p[t].lv) = k /\ v % Levels[p[t].lv] = v - Spot(p, t, k)
    <2>1. Aligned(p, t)
      BY DEF Tree, Aligned
    <2> QED BY <1>1, <2>1, SpotSplits
  <1>3. EntryAt(tb, top, v, p[t].lv, t) = e
    <2>1. t = Root <=> p[t].lv = 0
      BY <1>1 DEF Tree
    <2> QED BY <1>2, <2>1 DEF EntryAt, Seen
  <1>4. DOMAIN tb = Tabs
    BY DEF TableSet
  <1>5. W[p[t].lv][t] =
               IF ~e.present THEN Unmapped
               ELSE IF EndsAt(e, p[t].lv) THEN Value(e, p[t].lv, v)
               ELSE IF e.addr \in DOMAIN tb THEN W[p[t].lv + 1][e.addr]
               ELSE Nowhere
    BY <1>1, <1>3, <1>4, WalkUnfolds
  <1> HIDE DEF e, W
  <1>6. ASSUME e = Absent PROVE W[p[t].lv][t] = Unmapped
    BY <1>5, <1>6, AbsentIs
  <1>7. ASSUME IsLink(p, U, t, k, e)
        PROVE  /\ W[p[t].lv][t] = W[p[t].lv + 1][e.addr]
               /\ p[t].lv + 1 = p[e.addr].lv
               /\ Translates(p, e.addr, v)
    <2>1. /\ e.addr \in Tabs /\ e.present /\ ~e.large /\ p[t].lv # Last
          /\ p[e.addr].base = Spot(p, t, k)
          /\ Spot(p, e.addr, Fanout) = Spot(p, t, k + 1)
      BY <1>1, <1>7, LinkRange
    <2>2. W[p[t].lv][t] = W[p[t].lv + 1][e.addr]
      BY <1>4, <1>5, <2>1 DEF EndsAt
    <2>3. p[t].lv + 1 = p[e.addr].lv
      BY <1>7 DEF IsLink
    <2> QED BY <2>1, <2>2, <2>3 DEF Translates
  <1>8. ASSUME NEW r \in CallSet, Maps(p, t, k, e, r), p[t].lv \in LargeAvail
        PROVE  W[p[t].lv][t] = Asked(r, v) /\ InRange(r, v) /\ r.op = "map"
    <2>1. /\ r.virt \in Nat /\ r.phys \in Nat /\ r.size \in Nat /\ r.cache \in Caches
      BY CallTypes
    <2>2. PICK x \in Nat, y \in Nat : x = Spot(p, t, k) /\ y = Spot(p, t, k + 1)
      BY <1>1, SpotNat
    <2>3. InRange(r, v)
      BY <1>8, <2>1, <2>2 DEF Maps, InRange
    <2>4. e.present /\ (p[t].lv = Last \/ e.large) /\ e.addr = r.phys + (x - r.virt)
            /\ e.bits = CacheBits(r.cache)
      BY <1>8, <2>2 DEF Maps, LeafOf
    <2>5. Value(e, p[t].lv, v) = Asked(r, v)
      <3>1. e.addr + (v % Levels[p[t].lv]) = r.phys + (v - r.virt)
        BY <1>2, <2>1, <2>2, <2>4
      <3> QED BY <2>1, <2>4, <3>1, PatOfBits DEF Value, Asked
    <2>6. EndsAt(e, p[t].lv)
      BY <1>8, <2>4 DEF EndsAt
    <2> QED BY <1>5, <1>8, <2>3, <2>4, <2>5, <2>6 DEF Maps
  <1>9. Finds(p, U, t, k, v, e, W)
    BY <1>6, <1>7, <1>8 DEF Finds
  <1> QED BY <1>9 DEF e, W

(* The slot that page v is in.                                             *)
InSlot(p, t, k, v) == Spot(p, t, k) <= v /\ v < Spot(p, t, k + 1)

LEMMA SlotOf ==
    ASSUME NEW p \in Places, NEW U \in SUBSET Tabs, Tree(p, U), NEW t \in U, NEW v \in Nat
    PROVE  /\ Translates(p, t, v) => \E k \in Slots : InSlot(p, t, k, v)
           /\ \A k \in Slots : InSlot(p, t, k, v) => Translates(p, t, v)
  <1>1. t \in Tabs /\ Aligned(p, t)
    BY DEF Tree, Aligned
  <1>2. ASSUME Translates(p, t, v) PROVE \E k \in Slots : InSlot(p, t, k, v)
    BY <1>1, <1>2, IndexFinds DEF Translates, InSlot
  <1>3. ASSUME NEW k \in Slots, InSlot(p, t, k, v) PROVE Translates(p, t, v)
    <2>1. k \in Nat /\ k < Fanout /\ Fanout \in Nat
      BY VMemAssumption DEF Slots
    <2>2. p[t].base <= Spot(p, t, k)
      <3>1. CASE k = 0
        BY <1>1, <3>1, SpotNat
      <3>2. CASE k > 0
        <4>1. Spot(p, t, 0 + 1) <= Spot(p, t, k)
          BY <1>1, <2>1, <3>2, SpotOrder
        <4>2. Spot(p, t, 0) <= Spot(p, t, 0 + 1) /\ Spot(p, t, 0) = p[t].base
          BY <1>1, SpotNat, PlaceTypes
        <4> QED BY <1>1, <2>1, <4>1, <4>2, SpotNat
      <3> QED BY <2>1, <3>1, <3>2
    <2>3. Spot(p, t, k + 1) <= Spot(p, t, Fanout)
      BY <1>1, <2>1, SpotOrder
    <2> QED BY <1>1, <1>3, <2>1, <2>2, <2>3, SpotNat, PlaceTypes DEF InSlot, Translates
  <1> QED BY <1>2, <1>3

LEMMA SeenFits ==
    ASSUME NEW p, NEW U \in SUBSET Tabs, NEW tb, NEW top, IsTop(tb, top),
           NEW ms, NEW done, Shape(p, U, tb, ms, done), NEW t \in U, NEW k \in Slots
    PROVE  Fits(p, U, t, k, Seen(tb, top, t, k), ms, done)
  BY DEF Shape, Fits, Seen, IsTop

LEMMA EntryKinds ==
    ASSUME NEW p, NEW U, NEW t, NEW k, NEW e, NEW ms, NEW done
    PROVE  /\ IsLink(p, U, t, k, e) => e.present /\ ~e.large /\ e.addr # 0
           /\ IsLeaf(p, t, k, e, ms, done) => e.present /\ e.large = (p[t].lv # Last)
  <1>1. ASSUME IsLink(p, U, t, k, e) PROVE e.present /\ ~e.large /\ e.addr # 0
    BY <1>1, AbsentIs, RootTab DEF IsLink
  <1>2. ASSUME IsLeaf(p, t, k, e, ms, done) PROVE e.present /\ e.large = (p[t].lv # Last)
    <2>1. PICK m \in DOMAIN ms : Maps(p, t, k, e, ms[m])
      BY <1>2 DEF IsLeaf
    <2> QED BY <2>1 DEF Maps, LeafOf
  <1> QED BY <1>1, <1>2

LEMMA RootIsTop ==
    ASSUME NEW tb \in TableSet
    PROVE  IsTop(tb, tb[Root]) /\ \A t, k : Seen(tb, tb[Root], t, k) = tb[t][k]
  BY RootTab DEF TableSet, IsTop, Seen

(* What the calls ms want page v to be.                                    *)
WantedBy(ms, v) == {Asked(ms[m], v) : m \in
    {l \in DOMAIN ms : ms[l].op = "map" /\ InRange(ms[l], v)}}

(* A walk finds nothing, or what some call has asked for.                  *)
LEMMA WalkIsSound ==
    ASSUME NEW p \in Places, NEW U \in SUBSET Tabs, NEW tb \in TableSet,
           NEW top, IsTop(tb, top), NEW ms \in Seq(CallSet), NEW done,
           Shape(p, U, tb, ms, done), NEW v \in Nat
    PROVE  \A t \in U : Translates(p, t, v) =>
               Walk(tb, top, v)[p[t].lv][t] \in {Unmapped} \cup WantedBy(ms, v)
  <1> DEFINE W == Walk(tb, top, v)
             Good(t) == Translates(p, t, v) =>
                            W[p[t].lv][t] \in {Unmapped} \cup WantedBy(ms, v)
             S == {lv \in 0 .. Last : \A t \in U : p[t].lv = lv => Good(t)}
  <1>1. ASSUME NEW lv \in 0 .. Last, lv # Last => lv + 1 \in S, NEW t \in U,
               p[t].lv = lv, Translates(p, t, v)
        PROVE  W[lv][t] \in {Unmapped} \cup WantedBy(ms, v)
    <2>1. Tree(p, U)
      BY DEF Shape
    <2>2. PICK k \in Slots : InSlot(p, t, k, v)
      BY <1>1, <2>1, SlotOf
    <2> DEFINE e == Seen(tb, top, t, k)
    <2> HIDE DEF e, W
    <2>3. Finds(p, U, t, k, v, e, W)
      BY <2>1, <2>2, WalkStep DEF InSlot, e, W
    <2>4. CASE IsLink(p, U, t, k, e)
      <3>1. e.addr \in U /\ p[t].lv < Last
        BY <2>4 DEF IsLink
      <3>2. lv + 1 \in S
        BY <1>1, <3>1
      <3> QED BY <1>1, <2>3, <2>4, <3>1, <3>2 DEF Finds
    <2>5. CASE IsLeaf(p, t, k, e, ms, done)
      <3>1. PICK m \in DOMAIN ms : Maps(p, t, k, e, ms[m])
        BY <2>5 DEF IsLeaf
      <3>2. ms[m] \in CallSet /\ p[t].lv \in LargeAvail
        BY <2>5 DEF IsLeaf
      <3>3. W[p[t].lv][t] = Asked(ms[m], v) /\ InRange(ms[m], v) /\ ms[m].op = "map"
        BY <2>3, <3>1, <3>2 DEF Finds
      <3> QED BY <1>1, <3>3 DEF WantedBy
    <2>6. Fits(p, U, t, k, e, ms, done)
      BY SeenFits DEF e
    <2> QED BY <1>1, <2>3, <2>4, <2>5, <2>6 DEF Fits, Finds
  <1>2. Last \in S
    BY <1>1, VMemAssumption
  <1>3. ASSUME NEW lv \in 0 .. Last - 1, lv + 1 \in S PROVE lv \in S
    BY <1>1, <1>3, VMemAssumption
  <1>4. 0 .. Last \subseteq S
    <2> HIDE DEF S
    <2> QED BY <1>2, <1>3, DownInduction
  <1> QED BY <1>4, PlaceTypes

(* No entry for page v is another in tb2 and top2 than in tb and top, if   *)
(* there is one.                                                           *)
KeepsEntries(p, U, v, tb, top, tb2, top2) ==
    \A t \in U, k \in Slots : InSlot(p, t, k, v) /\ Seen(tb, top, t, k) # Absent =>
        Seen(tb2, top2, t, k) = Seen(tb, top, t, k)

KeepsWalk(p, U, v, W, W2) == \A t \in U :
    Translates(p, t, v) /\ W[p[t].lv][t] # Unmapped => W2[p[t].lv][t] = W[p[t].lv][t]

(* Writing entries that the walk finds absent changes nothing that it      *)
(* finds.                                                                  *)
LEMMA WalkIsStable ==
    ASSUME NEW p \in Places, NEW U \in SUBSET Tabs, NEW tb \in TableSet,
           NEW top, IsTop(tb, top), NEW ms \in Seq(CallSet), NEW done,
           Shape(p, U, tb, ms, done), NEW v \in Nat, NEW tb2 \in TableSet, NEW top2,
           KeepsEntries(p, U, v, tb, top, tb2, top2)
    PROVE  KeepsWalk(p, U, v, Walk(tb, top, v), Walk(tb2, top2, v))
  <1> DEFINE W == Walk(tb, top, v)
             W2 == Walk(tb2, top2, v)
             Good(t) == Translates(p, t, v) /\ W[p[t].lv][t] # Unmapped =>
                            W2[p[t].lv][t] = W[p[t].lv][t]
             S == {lv \in 0 .. Last : \A t \in U : p[t].lv = lv => Good(t)}
  <1>1. ASSUME NEW lv \in 0 .. Last, lv # Last => lv + 1 \in S, NEW t \in U,
               p[t].lv = lv, Translates(p, t, v), W[lv][t] # Unmapped
        PROVE  W2[lv][t] = W[lv][t]
    <2>1. Tree(p, U)
      BY DEF Shape
    <2>2. PICK k \in Slots : InSlot(p, t, k, v)
      BY <1>1, <2>1, SlotOf
    <2> DEFINE e == Seen(tb, top, t, k)
    <2> HIDE DEF e, W, W2
    <2>3. Finds(p, U, t, k, v, e, W)
      BY <2>1, <2>2, WalkStep DEF InSlot, e, W
    <2>4. e # Absent
      BY <1>1, <2>3 DEF Finds
    <2>5. Seen(tb2, top2, t, k) = e
      BY <2>2, <2>4 DEF e, KeepsEntries
    <2>6. Finds(p, U, t, k, v, e, W2)
      <3>1. Finds(p, U, t, k, v, Seen(tb2, top2, t, k), Walk(tb2, top2, v))
        BY <2>1, <2>2, WalkStep DEF InSlot
      <3> QED BY <2>5, <3>1 DEF W2
    <2>7. CASE IsLink(p, U, t, k, e)
      <3>1. e.addr \in U /\ p[t].lv < Last
        BY <2>7 DEF IsLink
      <3>2. lv + 1 \in S
        BY <1>1, <3>1
      <3>3. Good(e.addr)
        BY <1>1, <2>3, <2>7, <3>1, <3>2 DEF Finds
      <3> QED BY <1>1, <2>3, <2>6, <2>7, <3>1, <3>3 DEF Finds
    <2>8. CASE IsLeaf(p, t, k, e, ms, done)
      <3>1. PICK m \in DOMAIN ms : Maps(p, t, k, e, ms[m])
        BY <2>8 DEF IsLeaf
      <3>2. ms[m] \in CallSet /\ p[t].lv \in LargeAvail
        BY <2>8 DEF IsLeaf
      <3> QED BY <1>1, <2>3, <2>6, <3>1, <3>2 DEF Finds
    <2>9. Fits(p, U, t, k, e, ms, done)
      BY SeenFits DEF e
    <2> QED BY <2>4, <2>7, <2>8, <2>9 DEF Fits
  <1>2. Last \in S
    BY <1>1, VMemAssumption
  <1>3. ASSUME NEW lv \in 0 .. Last - 1, lv + 1 \in S PROVE lv \in S
    BY <1>1, <1>3, VMemAssumption
  <1>4. 0 .. Last \subseteq S
    <2> HIDE DEF S
    <2> QED BY <1>2, <1>3, DownInduction
  <1>5. \A t \in U : Good(t)
    BY <1>4, PlaceTypes
  <1> QED BY <1>5 DEF KeepsWalk

(* The tables on the stack are those that the walk goes through.           *)
LEMMA WalkReaches ==
    ASSUME NEW p \in Places, NEW U \in SUBSET Tabs, NEW tb \in TableSet,
           NEW c, NEW s, Tree(p, U), StackInv(p, U, tb, c, s),
           NEW n \in 1 .. Len(s), NEW v \in Nat, Translates(p, s[n].t, v)
    PROVE  Walk(tb, tb[Root], v)[0][Root] = Walk(tb, tb[Root], v)[s[n].lv][s[n].t]
  <1> DEFINE W == Walk(tb, tb[Root], v)
             Bad == {m \in 1 .. Len(s) : /\ Translates(p, s[m].t, v)
                                         /\ W[0][Root] # W[s[m].lv][s[m].t]}
  <1> HIDE DEF W
  <1>1. SUFFICES ASSUME Bad # {} PROVE FALSE
    BY DEF W
  <1>2. PICK m \in Bad : \A l \in Bad : m <= l
    <2>1. Bad \in SUBSET Nat
      OBVIOUS
    <2> HIDE DEF Bad
    <2> QED BY <1>1, <2>1, LeastOne
  <1>3. s \in Seq(FrameSet) /\ Len(s) \in Nat /\ m \in 1 .. Len(s)
    BY DEF StackInv
  <1>4. \A l \in 1 .. Len(s) : FrameInv(p, U, c, s[l]) /\ s[l].t \in U /\ s[l].lv = p[s[l].t].lv
    BY DEF StackInv, FrameInv
  <1>5. m # 1
    <2>1. ASSUME m = 1 PROVE FALSE
      <3>1. s[1].t = Root
        BY <1>3, <2>1 DEF StackInv
      <3>2. s[1].lv = 0
        BY <1>3, <1>4, <2>1, <3>1 DEF Tree
      <3> QED BY <2>1, <3>1, <3>2
    <2> QED BY <2>1
  <1> DEFINE l == m - 1
  <1>6. l \in 1 .. Len(s) - 1 /\ l \in 1 .. Len(s) /\ l + 1 = m /\ ~(m <= l)
    BY <1>3, <1>5
  <1> HIDE DEF l
  <1>7. Calls(p, tb, s[l], s[m])
    BY <1>6 DEF StackInv
  <1> DEFINE k == s[l].idx
             t == s[l].t
             g == s[m].t
  <1>8. t \in U /\ g \in U /\ p[t].lv = s[l].lv /\ p[g].lv = s[m].lv
    BY <1>3, <1>4, <1>6
  <1>9. s[l] \in FrameSet
    BY <1>3, <1>6, ElementOfSeq
  <1>10. k \in Slots /\ k \in Nat
    <2>1. k \in 0 .. Fanout
      BY <1>9 DEF FrameSet
    <2>2. k < Fanout
      BY <1>7 DEF Calls
    <2> HIDE DEF k
    <2> QED BY <2>1, <2>2, RootTab DEF Slots
  <1>11. g # Root
    <2>1. s[m].lv = s[l].lv + 1
      BY <1>7 DEF Calls
    <2>2. s[l].lv \in 0 .. Last
      BY <1>9 DEF FrameSet
    <2>3. p[g].lv # 0
      BY <1>8, <2>1, <2>2
    <2> QED BY <2>3 DEF Tree
  <1>12. IsLink(p, U, t, k, tb[t][k]) /\ tb[t][k].addr = g
    <2>1. tb[t][k] = Link(g)
      BY <1>7 DEF Calls
    <2>2. tb[t][k].addr = g
      BY <2>1, AbsentIs
    <2>3. p[t].lv < Last
      BY <1>4, <1>6, <1>7, <1>8 DEF FrameInv, Calls
    <2> HIDE DEF t, k, g
    <2> QED BY <1>7, <1>8, <1>11, <2>1, <2>2, <2>3 DEF IsLink, Calls, t, k, g
  <1>13. InSlot(p, t, k, v)
    <2>1. p[g].base = Spot(p, t, k) /\ Spot(p, g, Fanout) = Spot(p, t, k + 1)
      <3> HIDE DEF t, k, g
      <3> QED BY <1>8, <1>10, <1>12, LinkRange
    <2> QED BY <2>1 DEF Translates, InSlot
  <1>14. Translates(p, t, v)
    <2> HIDE DEF t, k
    <2> QED BY <1>8, <1>10, <1>13, SlotOf
  <1>15. W[0][Root] = W[s[l].lv][t]
    BY <1>2, <1>6, <1>14
  <1>16. Finds(p, U, t, k, v, tb[t][k], W)
    <2> HIDE DEF t, k
    <2>1. Seen(tb, tb[Root], t, k) = tb[t][k]
      BY RootIsTop
    <2>2. Finds(p, U, t, k, v, Seen(tb, tb[Root], t, k), Walk(tb, tb[Root], v))
      BY <1>8, <1>10, <1>13, WalkStep DEF InSlot
    <2> QED BY <2>1, <2>2 DEF W
  <1>17. W[s[l].lv][t] = W[s[m].lv][g]
    <2> HIDE DEF t, k, g
    <2>1. W[p[t].lv][t] = W[p[t].lv + 1][g] /\ p[t].lv + 1 = p[g].lv
      BY <1>12, <1>16 DEF Finds
    <2> QED BY <1>8, <2>1
  <1> QED BY <1>15, <1>17

(* Table t translates a page as one of the earlier calls of ms asked.      *)
OldPage(p, t, tb, ms) == \E v \in Nat, m \in 1 .. Len(ms) - 1 :
    /\ Translates(p, t, v) /\ InRange(ms[m], v) /\ ms[m].op = "map"
    /\ Walk(tb, tb[Root], v)[p[t].lv][t] = Asked(ms[m], v)

(* A page of an earlier call is below every table that has not been made   *)
(* for the last call, because no table is left without an entry.           *)
LEMMA FullTable ==
    ASSUME NEW p \in Places, NEW U \in SUBSET Tabs, NEW tb \in TableSet,
           NEW ms \in Seq(CallSet), NEW done \in Nat, Shape(p, U, tb, ms, done),
           NEW lo \in 0 .. Last,
           \A t \in U \ {Root} : lo <= p[t].lv => HasEntry(tb, t)
    PROVE  \A t \in U \ {Root} : lo <= p[t].lv /\ done <= p[t].base => OldPage(p, t, tb, ms)
  <1> DEFINE Good(t) == lo <= p[t].lv /\ done <= p[t].base => OldPage(p, t, tb, ms)
             S == {lv \in 0 .. Last : \A t \in U \ {Root} : p[t].lv = lv => Good(t)}
  <1>1. ASSUME NEW lv \in 0 .. Last, lv # Last => lv + 1 \in S, NEW t \in U \ {Root},
               p[t].lv = lv, lo <= lv, done <= p[t].base
        PROVE  OldPage(p, t, tb, ms)
    <2>1. Tree(p, U) /\ t \in U
      BY DEF Shape
    <2>2. PICK k \in Slots : tb[t][k].present
      BY <1>1 DEF HasEntry
    <2> DEFINE e == tb[t][k]
    <2>3. k \in Nat /\ t \in Tabs
      BY VMemAssumption DEF Slots
    <2>4. PICK x \in Nat, y \in Nat : /\ x = Spot(p, t, k) /\ y = Spot(p, t, k + 1)
                                      /\ x < y
      <3>1. PICK n \in Nat \ {0} : n = Levels[p[t].lv]
        BY <2>3, PlaceTypes
      <3>2. PICK x \in Nat : x = Spot(p, t, k) /\ Spot(p, t, k + 1) = x + n
        BY <2>3, <3>1, SpotNat
      <3> QED BY <3>2
    <2>5. done <= x
      <3>1. InSlot(p, t, k, x)
        BY <2>4 DEF InSlot
      <3>2. Translates(p, t, x)
        BY <2>1, <3>1, SlotOf
      <3> QED BY <1>1, <2>3, <2>4, <3>2, PlaceTypes DEF Translates
    <2>6. ASSUME NEW v \in Nat, InSlot(p, t, k, v)
          PROVE  Finds(p, U, t, k, v, e, Walk(tb, tb[Root], v)) /\ Translates(p, t, v)
      <3>1. Seen(tb, tb[Root], t, k) = e
        BY RootIsTop
      <3>2. Finds(p, U, t, k, v, Seen(tb, tb[Root], t, k), Walk(tb, tb[Root], v))
        BY <2>1, <2>6, WalkStep DEF InSlot
      <3> QED BY <2>1, <2>6, <3>1, <3>2, SlotOf
    <2>7. e # Absent
      BY <2>2, AbsentIs
    <2>8. Fits(p, U, t, k, e, ms, done)
      BY DEF Shape
    <2> HIDE DEF e
    <2>9. CASE IsLink(p, U, t, k, e)
      <3>1. /\ e.addr \in U \ {Root} /\ p[e.addr].base = x
            /\ Spot(p, e.addr, Fanout) = y /\ lv + 1 = p[e.addr].lv /\ lv # Last
        <4>1. lv # Last /\ lv + 1 = p[e.addr].lv
          BY <1>1, <2>9, LinkRange DEF IsLink
        <4> QED BY <2>1, <2>3, <2>4, <2>9, <4>1, LinkRange
      <3>2. lv + 1 \in S /\ lo <= lv + 1
        BY <1>1, <3>1
      <3>3. OldPage(p, e.addr, tb, ms)
        BY <2>5, <3>1, <3>2
      <3>4. PICK v \in Nat, m \in 1 .. Len(ms) - 1 :
                /\ Translates(p, e.addr, v) /\ InRange(ms[m], v) /\ ms[m].op = "map"
                /\ Walk(tb, tb[Root], v)[p[e.addr].lv][e.addr] = Asked(ms[m], v)
        BY <3>3 DEF OldPage
      <3>5. InSlot(p, t, k, v)
        BY <2>4, <3>1, <3>4 DEF Translates, InSlot
      <3>6. Walk(tb, tb[Root], v)[p[t].lv][t] = Asked(ms[m], v) /\ Translates(p, t, v)
        BY <1>1, <2>6, <2>9, <3>1, <3>4, <3>5 DEF Finds
      <3> QED BY <3>4, <3>6 DEF OldPage
    <2>10. CASE IsLeaf(p, t, k, e, ms, done)
      <3>1. PICK m \in DOMAIN ms : Maps(p, t, k, e, ms[m]) /\ (m = Len(ms) => y <= done)
        BY <2>4, <2>10 DEF IsLeaf
      <3>2. m \in 1 .. Len(ms) - 1 /\ ms[m] \in CallSet
        BY <2>4, <2>5, <3>1
      <3>3. InSlot(p, t, k, x)
        BY <2>4 DEF InSlot
      <3>4. /\ Walk(tb, tb[Root], x)[p[t].lv][t] = Asked(ms[m], x)
            /\ InRange(ms[m], x) /\ ms[m].op = "map" /\ Translates(p, t, x)
        BY <2>6, <2>10, <3>1, <3>2, <3>3 DEF Finds, IsLeaf
      <3> QED BY <3>2, <3>4 DEF OldPage
    <2> QED BY <2>7, <2>8, <2>9, <2>10 DEF Fits
  <1>2. Last \in S
    BY <1>1, VMemAssumption
  <1>3. ASSUME NEW lv \in 0 .. Last - 1, lv + 1 \in S PROVE lv \in S
    BY <1>1, <1>3, VMemAssumption
  <1>4. 0 .. Last \subseteq S
    <2> HIDE DEF S
    <2> QED BY <1>2, <1>3, DownInduction
  <1> QED BY <1>4, PlaceTypes

-----------------------------------------------------------------------------
(* The calls of vmem_map_st.                                               *)

(* A multiple of b between a and c.                                        *)
LEMMA LevelAligned ==
    ASSUME NEW a \in Nat, NEW b \in Nat \ {0}, NEW m \in Nat, NEW c \in Nat,
           m % b = 0, a < m, m <= c
    PROVE  a \div b # c \div b
  <1>1. PICK q \in Nat, r \in 0 .. b - 1 : q = a \div b /\ a = b * q + r
    <2>1. a \div b \in Nat /\ a % b \in 0 .. b - 1 /\ a = b * (a \div b) + (a % b)
      BY Division
    <2> QED BY <2>1
  <1>2. PICK n \in Nat : m = b * n
    BY Multiple
  <1>3. SUFFICES ASSUME q = c \div b PROVE FALSE
    BY <1>1
  <1>4. PICK d \in 0 .. b - 1 : c = b * q + d
    <2>1. c % b \in 0 .. b - 1 /\ c = b * (c \div b) + (c % b)
      BY Division
    <2> QED BY <1>3, <2>1
  <1>5. ~(n <= q)
    <2>1. SUFFICES ASSUME n <= q PROVE FALSE
      OBVIOUS
    <2>2. PICK j \in Nat : q = n + j
      <3>1. q - n \in Nat /\ q = n + (q - n)
        BY <2>1
      <3> QED BY <3>1
    <2>3. b * q = b * n + b * j /\ b * j \in Nat /\ b * n \in Nat
      BY <2>2
    <2> QED BY <1>1, <1>2, <2>3
  <1>6. PICK j \in Nat : n = q + 1 + j
    <2>1. n - q - 1 \in Nat /\ n = q + 1 + (n - q - 1)
      BY <1>5
    <2> QED BY <2>1
  <1>7. b * n = b * q + b + b * j /\ b * j \in Nat /\ b * q \in Nat
    BY <1>6
  <1> QED BY <1>2, <1>4, <1>7

(* A call that starts in table t, at the start of its range or of the      *)
(* request.                                                                *)
LEMMA FrameStarts ==
    ASSUME NEW p \in Places, NEW U \in SUBSET Tabs, Tree(p, U), NEW t \in U,
           NEW c \in CallSet, NEW v \in Nat, Translates(p, t, v),
           c.virt <= v, v < c.virt + c.size, v = c.virt \/ v = p[t].base
    PROVE  Starts(p, U, c, Frame(p[t].lv, t, v, c.phys + (v - c.virt), c.virt + c.size - v))
  <1>1. /\ c.virt \in Nat /\ c.phys \in Nat /\ c.size \in Nat \ {0} /\ MadeFor(c)
    BY CallTypes
  <1>2. PICK lv \in 0 .. Last : lv = p[t].lv
    BY PlaceTypes
  <1>3. PICK k \in Slots : k = Index(v, lv) /\ InSlot(p, t, k, v)
                           /\ v % Levels[lv] = v - Spot(p, t, k)
    <2>1. Aligned(p, t) /\ t \in Tabs
      BY DEF Tree, Aligned
    <2>2. /\ Index(v, lv) \in Slots
          /\ InSlot(p, t, Index(v, lv), v)
          /\ v % Levels[lv] = v - Spot(p, t, Index(v, lv))
      BY <1>2, <2>1, IndexFinds DEF Translates, InSlot
    <2> QED BY <2>2
  <1>4. PICK size \in Nat, phys \in Nat : size = c.virt + c.size - v
                                          /\ phys = c.phys + (v - c.virt)
    BY <1>1
  <1> DEFINE f == Frame(lv, t, v, phys, size)
  <1>5. /\ f.lv = lv /\ f.t = t /\ f.virt = v /\ f.phys = phys /\ f.size = size
        /\ f.idx = k /\ f.leaf = (size % Levels[lv] = 0 /\ lv \in LargeAvail)
        /\ f = [lv |-> lv, t |-> t, virt |-> v, phys |-> phys, size |-> size,
                idx |-> k, leaf |-> size % Levels[lv] = 0 /\ lv \in LargeAvail]
    BY <1>3 DEF Frame
  <1> HIDE DEF f
  <1>6. k \in 0 .. Fanout /\ k < Fanout /\ k \in Nat
    BY VMemAssumption DEF Slots
  <1>7. f \in FrameSet
    <2>1. f.leaf \in BOOLEAN /\ t \in Tabs
      BY <1>5
    <2> QED BY <1>5, <1>6, <2>1 DEF FrameSet
  <1>12. ASSUME v = p[t].base PROVE v = Spot(p, t, k)
    <2>1. Spot(p, t, 0) = v /\ 0 \in Nat /\ t \in Tabs
      BY <1>12, SpotNat
    <2>2. CASE k = 0
      BY <2>1, <2>2
    <2>3. CASE k > 0
      <3>1. Spot(p, t, 0 + 1) <= Spot(p, t, k)
        BY <1>6, <2>1, <2>3, SpotOrder
      <3>2. PICK n \in Nat \ {0} : n = Levels[p[t].lv]
        BY PlaceTypes
      <3>3. Spot(p, t, 0 + 1) = v + n
        BY <2>1, <3>2, SpotNat
      <3> QED BY <1>3, <1>6, <3>1, <3>3, SpotNat DEF InSlot
    <2> QED BY <1>6, <2>2, <2>3
  <1>8. ASSUME f.leaf
        PROVE  lv \in LargeAvail /\ size % Levels[lv] = 0 /\ v = Spot(p, t, k)
    <2>1. lv \in LargeAvail /\ size % Levels[lv] = 0
      BY <1>5, <1>8
    <2>2. ASSUME v = c.virt PROVE v = Spot(p, t, k)
      <3>1. v % Levels[lv] = 0
        <4>1. size = c.size
          BY <1>1, <1>4, <2>2
        <4> QED BY <1>1, <2>1, <2>2, <4>1 DEF MadeFor
      <3>2. t \in Tabs /\ Spot(p, t, k) \in Nat
        BY <1>6, SpotNat
      <3> QED BY <1>3, <3>1, <3>2
    <2> QED BY <1>12, <2>1, <2>2
  <1>9. ASSUME ~f.leaf PROVE lv < Last
    <2>1. size % 1 = 0
      OBVIOUS
    <2>2. lv # Last
      BY <1>5, <1>9, <2>1, LevelsAre, VMemAssumption
    <2> QED BY <2>2, VMemAssumption
  <1>10. v = Spot(p, t, k) \/ v = c.virt
    BY <1>12
  <1>11. FrameInv(p, U, c, f)
    <2>1. f.t \in U /\ f.lv = p[f.t].lv
      BY <1>2, <1>5
    <2>2. c.virt <= f.virt /\ f.virt <= c.virt + c.size
      BY <1>1, <1>5
    <2>3. f.phys = c.phys + (f.virt - c.virt) /\ f.size = c.virt + c.size - f.virt
      BY <1>4, <1>5
    <2>4. Spot(p, f.t, f.idx) <= f.virt /\ f.virt < Spot(p, f.t, f.idx + 1)
      BY <1>3, <1>5 DEF InSlot
    <2>5. f.idx # Fanout
      BY <1>5, <1>6, RootTab
    <2> QED BY <1>5, <1>8, <1>9, <1>10, <2>1, <2>2, <2>3, <2>4, <2>5 DEF FrameInv
  <1> QED BY <1>2, <1>4, <1>5, <1>6, <1>7, <1>11 DEF f, Starts

(* A loop moves on within the request: nothing wraps around.               *)
Moved(f, n, g) ==
    /\ g \in FrameSet
    /\ g.virt = f.virt + n /\ g.phys = f.phys + n /\ g.size = f.size - n
    /\ g.idx = f.idx + 1 /\ g.lv = f.lv /\ g.t = f.t /\ g.leaf = f.leaf

LEMMA AdvanceIs ==
    ASSUME NEW p, NEW U, NEW c \in CallSet, NEW f \in FrameSet, FrameInv(p, U, c, f),
           NEW n \in Nat, f.virt + n <= c.virt + c.size, f.idx < Fanout
    PROVE  Moved(f, n, Advance(f, n))
  <1>1. /\ c.virt \in Nat /\ c.phys \in Nat /\ c.size \in Nat \ {0}
        /\ c.virt + c.size <= Fanout * Levels[0] /\ c.phys + c.size < Word
    BY CallTypes DEF MadeFor
  <1>2. PICK w \in Nat : w = Word
    BY VMemAssumption
  <1>3. c.virt + c.size < w /\ c.phys + c.size < w
    <2>1. PICK z \in Nat : z = Fanout * Levels[0]
      BY RootTab, LevelsAre
    <2> QED BY <1>1, <1>2, <2>1, VMemAssumption
  <1>4. \A x \in 0 .. w - 1 : x % w = x
    <2>1. ASSUME NEW x \in 0 .. w - 1 PROVE x % w = x
      <3>1. w \in Nat \ {0} /\ w * 0 + x = x /\ 0 \in Nat
        OBVIOUS
      <3> QED BY <3>1, DivisionUnique
    <2> QED BY <2>1
  <1>5. /\ f.virt \in Nat /\ f.phys \in Nat /\ f.size \in Nat /\ f.idx \in 0 .. Fanout
        /\ f.lv \in 0 .. Last /\ f.t \in Tabs /\ f.leaf \in BOOLEAN
    BY DEF FrameSet
  <1>6. /\ f.virt + n \in 0 .. w - 1 /\ f.phys + n \in 0 .. w - 1
        /\ f.size - n \in 0 .. w - 1
    BY <1>1, <1>3, <1>5 DEF FrameInv
  <1>7. Advance(f, n) = [lv |-> f.lv, t |-> f.t, virt |-> f.virt + n, phys |-> f.phys + n,
                         size |-> f.size - n, idx |-> f.idx + 1, leaf |-> f.leaf]
    <2>1. /\ (f.virt + n) % Word = f.virt + n /\ (f.phys + n) % Word = f.phys + n
          /\ (f.size - n) % Word = f.size - n
      BY <1>2, <1>4, <1>6
    <2>2. f = [lv |-> f.lv, t |-> f.t, virt |-> f.virt, phys |-> f.phys,
               size |-> f.size, idx |-> f.idx, leaf |-> f.leaf]
      BY DEF FrameSet
    <2>3. Advance(f, n) = [lv |-> f.lv, t |-> f.t, virt |-> (f.virt + n) % Word,
                           phys |-> (f.phys + n) % Word, size |-> (f.size - n) % Word,
                           idx |-> f.idx + 1, leaf |-> f.leaf]
      <3> DEFINE virt == (f.virt + n) % Word
                 phys == (f.phys + n) % Word
                 size == (f.size - n) % Word
                 f1 == [f EXCEPT !.virt = virt]
                 f2 == [f1 EXCEPT !.phys = phys]
                 f3 == [f2 EXCEPT !.size = size]
      <3>1. f1 = [lv |-> f.lv, t |-> f.t, virt |-> virt, phys |-> f.phys,
                  size |-> f.size, idx |-> f.idx, leaf |-> f.leaf]
        <4> HIDE DEF virt
        <4> QED BY <2>2
      <3>2. f2 = [lv |-> f.lv, t |-> f.t, virt |-> virt, phys |-> phys,
                  size |-> f.size, idx |-> f.idx, leaf |-> f.leaf]
        <4> HIDE DEF virt, phys, f1
        <4> QED BY <3>1
      <3>3. f3 = [lv |-> f.lv, t |-> f.t, virt |-> virt, phys |-> phys,
                  size |-> size, idx |-> f.idx, leaf |-> f.leaf]
        <4> HIDE DEF virt, phys, size, f2
        <4> QED BY <3>2
      <3>4. Advance(f, n) = [f3 EXCEPT !.idx = f.idx + 1]
        <4>1. Advance(f, n) = [f3 EXCEPT !.idx = f3.idx + 1]
          <5>1. f1.phys = f.phys /\ f2.size = f.size
            <6> HIDE DEF virt, phys, f1, f2
            <6> QED BY <3>1, <3>2
          <5> QED BY <5>1, Zenon DEF Advance
        <4> HIDE DEF virt, phys, size, f3
        <4> QED BY <3>3, <4>1
      <3> HIDE DEF virt, phys, size, f3
      <3>5. Advance(f, n) = [lv |-> f.lv, t |-> f.t, virt |-> virt, phys |-> phys,
                             size |-> size, idx |-> f.idx + 1, leaf |-> f.leaf]
        BY <3>3, <3>4
      <3> QED BY <3>5 DEF virt, phys, size
    <2> QED BY <2>1, <2>3
  <1>8. f.idx + 1 \in 0 .. Fanout
    BY <1>5, VMemAssumption
  <1> QED BY <1>5, <1>6, <1>7, <1>8 DEF FrameSet, Moved

LeafMoved(p, U, c, f, g) ==
    /\ g \in FrameSet /\ FrameInv(p, U, c, g)
    /\ g.lv = f.lv /\ g.t = f.t /\ g.leaf
    /\ g.virt = Spot(p, f.t, f.idx + 1) /\ g.virt <= c.virt + c.size
    /\ f.virt = Spot(p, f.t, f.idx)

LEMMA LeafAdvances ==
    ASSUME NEW p \in Places, NEW U \in SUBSET Tabs, NEW c \in CallSet,
           NEW f \in FrameSet, FrameInv(p, U, c, f), f.leaf, f.size > 0, f.idx < Fanout
    PROVE  LeafMoved(p, U, c, f, Advance(f, Levels[f.lv]))
  <1>1. /\ f.t \in U /\ f.t \in Tabs /\ f.lv = p[f.t].lv /\ f.lv \in 0 .. Last
        /\ f.virt \in Nat /\ f.phys \in Nat /\ f.size \in Nat /\ f.idx \in 0 .. Fanout - 1
        /\ f.idx \in Nat
    BY VMemAssumption DEF FrameInv, FrameSet
  <1>2. PICK n \in Nat \ {0} : n = Levels[f.lv]
    BY <1>1, LevelsAre
  <1>3. f.size % n = 0 /\ f.virt = Spot(p, f.t, f.idx) /\ f.lv \in LargeAvail
    BY <1>2 DEF FrameInv
  <1>4. n <= f.size /\ (f.size - n) % n = 0
    <2>1. 0 % n = 0 /\ n % n = 0 /\ 0 \in Nat /\ 0 < f.size
      <3>1. n * 0 = 0 /\ n * 1 = n
        OBVIOUS
      <3>2. (n * 0) % n = 0 /\ (n * 1) % n = 0
        BY Multiple
      <3> QED BY <3>1, <3>2
    <2>2. 0 + n <= f.size
      BY <1>1, <1>3, <2>1, Multiples
    <2> QED BY <1>1, <1>3, <2>1, <2>2, Multiples
  <1>5. c.virt \in Nat /\ c.size \in Nat /\ c.phys \in Nat
    BY CallTypes
  <1>6. f.virt + n <= c.virt + c.size
    BY <1>1, <1>4, <1>5 DEF FrameInv
  <1> DEFINE g == Advance(f, n)
  <1>7. /\ g \in FrameSet
        /\ g.virt = f.virt + n /\ g.phys = f.phys + n /\ g.size = f.size - n
        /\ g.idx = f.idx + 1 /\ g.lv = f.lv /\ g.t = f.t /\ g.leaf = f.leaf
    <2>1. Moved(f, n, g)
      BY <1>6, AdvanceIs
    <2> HIDE DEF g
    <2> QED BY <2>1 DEF Moved
  <1> HIDE DEF g
  <1>8. /\ g.virt = Spot(p, f.t, g.idx)
        /\ g.virt < Spot(p, f.t, g.idx + 1)
    <2>1. Spot(p, f.t, f.idx + 1) = f.virt + n
      BY <1>1, <1>2, <1>3, SpotNat
    <2>2. Spot(p, f.t, g.idx + 1) = Spot(p, f.t, g.idx) + n /\ g.idx \in Nat
      BY <1>1, <1>2, <1>7, SpotNat
    <2>3. g.virt = Spot(p, f.t, g.idx)
      BY <1>7, <2>1
    <2> QED BY <1>1, <1>2, <1>7, <2>2, <2>3
  <1>9. FrameInv(p, U, c, g)
    <2>1. g.t \in U /\ g.lv = p[g.t].lv
      BY <1>1, <1>7
    <2>2. c.virt <= g.virt /\ g.virt <= c.virt + c.size
      BY <1>1, <1>5, <1>6, <1>7 DEF FrameInv
    <2>3. g.phys = c.phys + (g.virt - c.virt) /\ g.size = c.virt + c.size - g.virt
      BY <1>1, <1>5, <1>7 DEF FrameInv
    <2>4. /\ Spot(p, g.t, g.idx) <= g.virt
          /\ g.virt < Spot(p, g.t, g.idx + 1) /\ g.virt = Spot(p, g.t, g.idx)
      BY <1>1, <1>7, <1>8
    <2>5. g.leaf /\ g.lv \in LargeAvail /\ g.size % Levels[g.lv] = 0
      BY <1>2, <1>3, <1>4, <1>7
    <2> QED BY <2>1, <2>2, <2>3, <2>4, <2>5 DEF FrameInv
  <1>10. g.virt = Spot(p, f.t, f.idx + 1)
    BY <1>7, <1>8
  <1>11. g.virt <= c.virt + c.size
    BY <1>6, <1>7
  <1>12. LeafMoved(p, U, c, f, g)
    BY <1>1, <1>3, <1>7, <1>9, <1>10, <1>11 DEF LeafMoved
  <1> QED BY <1>2, <1>12 DEF g

(* What i_sz is for: the caller goes on where the child's table ends.      *)
LEMMA NodeAdvances ==
    ASSUME NEW p \in Places, NEW U \in SUBSET Tabs, Tree(p, U), NEW tb, NEW c \in CallSet,
           NEW f \in FrameSet, FrameInv(p, U, c, f), NEW g \in FrameSet, FrameInv(p, U, c, g),
           Calls(p, tb, f, g), g.idx = Fanout, g.size > 0
    PROVE  LET h == SkipChild(f) IN
           /\ h \in FrameSet /\ FrameInv(p, U, c, h)
           /\ h.lv = f.lv /\ h.t = f.t /\ ~h.leaf /\ h.virt = g.virt
  <1>1. /\ f.t \in U /\ f.t \in Tabs /\ f.lv = p[f.t].lv /\ f.lv \in 0 .. Last
        /\ f.virt \in Nat /\ f.phys \in Nat /\ f.size \in Nat /\ f.idx \in 0 .. Fanout - 1
        /\ f.idx \in Nat /\ ~f.leaf /\ f.lv < Last
    BY VMemAssumption DEF FrameInv, FrameSet, Calls
  <1>2. /\ g.t \in U /\ g.t \in Tabs /\ g.lv = f.lv + 1 /\ p[g.t].lv = f.lv + 1
        /\ p[g.t].base = Spot(p, f.t, f.idx)
        /\ g.virt \in Nat /\ g.virt = Spot(p, g.t, Fanout)
    BY DEF FrameInv, FrameSet, Calls
  <1>3. PICK n \in Nat \ {0} : n = Levels[f.lv]
    BY <1>1, LevelsAre
  <1>4. PICK m \in Nat \ {0} : m = Levels[f.lv + 1]
    BY <1>2, PlaceTypes
  <1>5. n = Fanout * m
    <2>1. f.lv \in 0 .. Last - 1
      BY <1>1, VMemAssumption
    <2> QED BY <1>3, <1>4, <2>1, LevelsAre
  <1>6. PICK x \in Nat : x = Spot(p, f.t, f.idx) /\ Spot(p, f.t, f.idx + 1) = x + n
    BY <1>1, <1>3, SpotNat
  <1>7. g.virt = x + n /\ x <= f.virt /\ f.virt < x + n
    <2>1. Spot(p, g.t, Fanout) = x + n
      BY <1>2, <1>4, <1>5, <1>6 DEF Spot
    <2>2. f.idx < Fanout
      BY <1>1, RootTab
    <2>3. x <= f.virt /\ f.virt < x + n
      BY <1>6, <2>2, Zenon DEF FrameInv
    <2> QED BY <1>2, <2>1, <2>3
  <1>8. /\ c.virt \in Nat /\ c.phys \in Nat /\ c.size \in Nat \ {0} /\ MadeFor(c)
    BY CallTypes
  <1>9. g.virt < c.virt + c.size
    BY <1>2, <1>8 DEF FrameInv, FrameSet
  <1>10. PICK j \in Slots : /\ j = Index(f.virt, f.lv + 1) /\ InSlot(p, g.t, j, f.virt)
                            /\ f.virt % m = f.virt - Spot(p, g.t, j)
    <2>1. Aligned(p, g.t)
      BY <1>2 DEF Tree, Aligned
    <2>2. p[g.t].base <= f.virt /\ f.virt < Spot(p, g.t, Fanout)
      BY <1>2, <1>6, <1>7
    <2>3. /\ Index(f.virt, f.lv + 1) \in Slots
          /\ InSlot(p, g.t, Index(f.virt, f.lv + 1), f.virt)
          /\ f.virt % m = f.virt - Spot(p, g.t, Index(f.virt, f.lv + 1))
      BY <1>1, <1>2, <1>4, <2>1, <2>2, IndexFinds DEF InSlot
    <2> QED BY <2>3
  <1>11. f.virt = Spot(p, g.t, j)
    <2>1. j \in Nat /\ j >= 0 /\ Spot(p, g.t, j) \in Nat
      BY <1>2, VMemAssumption, SpotNat DEF Slots
    <2>2. CASE f.virt = x
      <3>1. x % m = 0
        <4>1. x % n = 0
          <5>1. Aligned(p, f.t)
            BY <1>1 DEF Tree, Aligned
          <5> QED BY <1>1, <1>3, <1>6, <5>1, SpotAligned
        <4>2. PICK q \in Nat \ {0} : q = Fanout
          BY RootTab
        <4>3. x % (q * m) = 0
          BY <1>5, <4>1, <4>2
        <4> QED BY <4>3, MultipleOfProduct
      <3> QED BY <1>10, <2>1, <2>2, <3>1
    <2>3. CASE f.virt = c.virt
      <3>1. (x + n) % n = 0
        <4>1. Aligned(p, f.t)
          BY <1>1 DEF Tree, Aligned
        <4> QED BY <1>1, <1>3, <1>6, <4>1, SpotAligned
      <3>2. c.virt \div n # (c.virt + c.size - 1) \div n
        <4>1. PICK y \in Nat, z \in Nat : y = x + n /\ z = c.virt + c.size - 1
          <5>1. x + n \in Nat /\ c.virt + c.size - 1 \in Nat
            BY <1>8
          <5> QED BY <5>1
        <4>2. c.virt < y /\ y <= z
          BY <1>7, <1>8, <1>9, <2>3, <4>1
        <4> QED BY <1>8, <3>1, <4>1, <4>2, LevelAligned
      <3>3. f.virt % m = 0
        <4>1. f.lv \in 0 .. Last - 1
          BY <1>1, VMemAssumption
        <4>2. Crosses(c, Levels[f.lv]) => c.virt % Levels[f.lv + 1] = 0
          BY <1>8, <4>1 DEF MadeFor
        <4> QED BY <1>3, <1>4, <2>3, <3>2, <4>2 DEF Crosses
      <3> QED BY <1>1, <1>10, <2>1, <3>3
    <2>4. f.virt = x \/ f.virt = c.virt
      BY <1>1, <1>6, Zenon DEF FrameInv
    <2> QED BY <2>2, <2>3, <2>4
  <1>12. PICK d \in Nat : d = (Fanout - j) * m /\ f.virt + d = x + n
    <2>1. Spot(p, g.t, j) = x + j * m
      BY <1>2, <1>4, <1>6 DEF Spot
    <2>2. PICK i \in Nat : i = Fanout - j /\ Fanout = j + i /\ j \in Nat
      <3>1. j \in Nat /\ Fanout - j \in Nat /\ Fanout = j + (Fanout - j)
        BY RootTab DEF Slots
      <3> QED BY <3>1
    <2>3. i * m \in Nat /\ j * m \in Nat /\ (j + i) * m = j * m + i * m
      BY <2>2
    <2>4. f.virt + i * m = x + n
      BY <1>5, <1>11, <2>1, <2>2, <2>3
    <2> QED BY <2>2, <2>3, <2>4
  <1>13. SkipChild(f) = Advance(f, d)
    BY <1>4, <1>10, <1>12 DEF SkipChild
  <1> DEFINE h == Advance(f, d)
  <1>14. /\ h \in FrameSet
         /\ h.virt = f.virt + d /\ h.phys = f.phys + d /\ h.size = f.size - d
         /\ h.idx = f.idx + 1 /\ h.lv = f.lv /\ h.t = f.t /\ h.leaf = f.leaf
    <2>1. f.virt + d <= c.virt + c.size /\ f.idx < Fanout
      BY <1>7, <1>8, <1>9, <1>12 DEF Calls
    <2>2. Moved(f, d, h)
      BY <2>1, AdvanceIs
    <2> HIDE DEF h
    <2> QED BY <2>2 DEF Moved
  <1> HIDE DEF h
  <1>15. h.virt = g.virt /\ h.virt = Spot(p, f.t, h.idx) /\ h.virt < Spot(p, f.t, h.idx + 1)
    <2>1. Spot(p, f.t, h.idx + 1) = Spot(p, f.t, h.idx) + n /\ h.idx \in Nat
      BY <1>1, <1>3, <1>14, SpotNat
    <2>2. h.virt = Spot(p, f.t, h.idx)
      BY <1>6, <1>12, <1>14
    <2> QED BY <1>6, <1>7, <1>12, <1>14, <2>1, <2>2
  <1>16. FrameInv(p, U, c, h)
    <2>1. h.t \in U /\ h.lv = p[h.t].lv /\ ~h.leaf /\ h.lv < Last
      BY <1>1, <1>14
    <2>2. c.virt <= h.virt /\ h.virt <= c.virt + c.size
      BY <1>1, <1>8, <1>9, <1>14, <1>15 DEF FrameInv
    <2>3. h.phys = c.phys + (h.virt - c.virt) /\ h.size = c.virt + c.size - h.virt
      BY <1>1, <1>8, <1>14 DEF FrameInv
    <2>4. /\ Spot(p, h.t, h.idx) <= h.virt
          /\ h.virt < Spot(p, h.t, h.idx + 1) /\ h.virt = Spot(p, h.t, h.idx)
      BY <1>1, <1>14, <1>15
    <2>5. h.size > 0
      BY <1>8, <1>9, <1>15, <2>2, <2>3, <1>2
    <2> QED BY <2>1, <2>2, <2>3, <2>4, <2>5 DEF FrameInv
  <1> QED BY <1>1, <1>13, <1>14, <1>15, <1>16 DEF h

-----------------------------------------------------------------------------
(* What the steps do to the tree and to the stack.                         *)

LEMMA SlotEnd ==
    ASSUME NEW p \in Places, NEW U \in SUBSET Tabs, NEW t \in U, NEW k \in Slots
    PROVE  /\ Spot(p, t, k) \in Nat /\ Spot(p, t, k + 1) \in Nat
           /\ Spot(p, t, k) < Spot(p, t, k + 1)
  <1>1. k \in Nat
    BY VMemAssumption DEF Slots
  <1>2. PICK n \in Nat \ {0} : n = Levels[p[t].lv]
    BY PlaceTypes
  <1>3. Spot(p, t, k) \in Nat /\ Spot(p, t, k + 1) = Spot(p, t, k) + n
    BY <1>1, <1>2, SpotNat
  <1> QED BY <1>3

LEMMA ShapeMonotone ==
    ASSUME NEW p \in Places, NEW U \in SUBSET Tabs, NEW tb, NEW ms, NEW done \in Nat,
           NEW end \in Nat, done <= end, Shape(p, U, tb, ms, done)
    PROVE  Shape(p, U, tb, ms, end)
  <1>1. ASSUME NEW t \in U, NEW k \in Slots, Fits(p, U, t, k, tb[t][k], ms, done)
        PROVE  Fits(p, U, t, k, tb[t][k], ms, end)
    <2>1. PICK x \in Nat : x = Spot(p, t, k + 1)
      BY SlotEnd
    <2>2. x <= done => x <= end
      OBVIOUS
    <2> QED BY <1>1, <2>1, <2>2, Zenon DEF Fits, IsLeaf
  <1> QED BY <1>1 DEF Shape

LEMMA ShapeNewCall ==
    ASSUME NEW p \in Places, NEW U \in SUBSET Tabs, NEW tb, NEW ms \in Seq(CallSet),
           NEW done, NEW c \in CallSet, NEW end, Shape(p, U, tb, ms, done)
    PROVE  Shape(p, U, tb, Append(ms, c), end)
  <1> DEFINE ms2 == Append(ms, c)
  <1>1. /\ DOMAIN ms \subseteq DOMAIN ms2 /\ \A m \in DOMAIN ms : ms2[m] = ms[m]
        /\ \A m \in DOMAIN ms : m # Len(ms2)
    OBVIOUS
  <1> HIDE DEF ms2
  <1>2. ASSUME NEW t \in U, NEW k \in Slots, Fits(p, U, t, k, tb[t][k], ms, done)
        PROVE  Fits(p, U, t, k, tb[t][k], ms2, end)
    <2>1. CASE IsLeaf(p, t, k, tb[t][k], ms, done)
      <3>1. PICK m \in DOMAIN ms : Maps(p, t, k, tb[t][k], ms[m])
        BY <2>1 DEF IsLeaf
      <3>2. m \in DOMAIN ms2 /\ ms2[m] = ms[m] /\ m # Len(ms2)
        BY <1>1
      <3> QED BY <2>1, <3>1, <3>2 DEF IsLeaf, Fits
    <2> QED BY <1>2, <2>1 DEF Fits
  <1> QED BY <1>2 DEF Shape, ms2

(* Entry e is written to slot k of table t.                                *)
Written(tb, t, k, e) == [tb EXCEPT ![t][k] = e]

LEMMA ShapeSetLeaf ==
    ASSUME NEW p \in Places, NEW U \in SUBSET Tabs, NEW tb \in TableSet,
           NEW ms \in Seq(CallSet), ms # << >>, NEW done \in Nat, Shape(p, U, tb, ms, done),
           NEW t \in U, NEW k \in Slots, NEW e, Maps(p, t, k, e, ms[Len(ms)]),
           p[t].lv \in LargeAvail, done <= Spot(p, t, k + 1)
    PROVE  Shape(p, U, Written(tb, t, k, e), ms, Spot(p, t, k + 1))
  <1> DEFINE tb2 == Written(tb, t, k, e)
             end == Spot(p, t, k + 1)
  <1>1. end \in Nat /\ Shape(p, U, tb, ms, end)
    BY SlotEnd, ShapeMonotone
  <1>2. ASSUME NEW u \in U, NEW j \in Slots, u # t \/ j # k PROVE tb2[u][j] = tb[u][j]
    BY <1>2 DEF TableSet, Written
  <1>3. tb2[t][k] = e
    BY DEF TableSet, Written
  <1> HIDE DEF tb2
  <1>4. Fits(p, U, t, k, e, ms, end)
    <2>1. Len(ms) \in DOMAIN ms /\ end <= end
      BY <1>1
    <2> QED BY <2>1 DEF Fits, IsLeaf
  <1>5. ASSUME NEW u \in U, NEW j \in Slots PROVE Fits(p, U, u, j, tb2[u][j], ms, end)
    <2>1. CASE u = t /\ j = k
      BY <1>3, <1>4, <2>1
    <2>2. CASE u # t \/ j # k
      BY <1>1, <1>2, <2>2 DEF Shape
    <2> QED BY <2>1, <2>2
  <1> QED BY <1>1, <1>5 DEF Shape, tb2

(* A table that is not in use does not matter.                             *)
LEMMA ShapeUsed ==
    ASSUME NEW p, NEW U, NEW tb, NEW tb2, NEW ms, NEW done, Shape(p, U, tb, ms, done),
           \A t \in U : tb2[t] = tb[t]
    PROVE  Shape(p, U, tb2, ms, done)
  BY DEF Shape

(* The new table c gets its place where it is linked, in slot k of t.      *)
Placed(p, t, k, c) == [p EXCEPT ![c] = [lv |-> p[t].lv + 1, base |-> Spot(p, t, k)]]

NewPlace(p, U, t, k, c, p2) ==
    /\ p2 \in Places
    /\ p2[c].lv = p[t].lv + 1 /\ p2[c].base = Spot(p, t, k)
    /\ \A u \in U : p2[u] = p[u]

LEMMA PlacedIs ==
    ASSUME NEW p \in Places, NEW U \in SUBSET Tabs, NEW t \in U, NEW k \in Slots,
           NEW c \in Tabs, p[t].lv < Last, c \notin U
    PROVE  NewPlace(p, U, t, k, c, Placed(p, t, k, c))
  <1>1. p[t].lv + 1 \in 0 .. Last
    BY PlaceTypes, VMemAssumption
  <1>2. PICK lv \in 0 .. Last, x \in Nat : lv = p[t].lv + 1 /\ x = Spot(p, t, k)
    BY <1>1, SlotEnd
  <1>3. Placed(p, t, k, c) = [p EXCEPT ![c] = [lv |-> lv, base |-> x]]
    BY <1>2 DEF Placed
  <1>4. /\ Placed(p, t, k, c) \in Places
        /\ Placed(p, t, k, c)[c] = [lv |-> lv, base |-> x]
        /\ \A u \in U : Placed(p, t, k, c)[u] = p[u]
    BY <1>3 DEF Places
  <1> QED BY <1>2, <1>4 DEF NewPlace

LEMMA ShapeLink ==
    ASSUME NEW p \in Places, NEW U \in SUBSET Tabs, Root \in U, NEW tb \in TableSet,
           NEW ms \in Seq(CallSet), NEW done \in Nat, Shape(p, U, tb, ms, done),
           NEW t \in U, NEW k \in Slots, p[t].lv < Last,
           NEW c \in Tabs, c \notin U, tb[c] = [j \in Slots |-> Absent]
    PROVE  Shape(Placed(p, t, k, c), U \cup {c}, Written(tb, t, k, Link(c)), ms, done)
  <1> DEFINE p2 == Placed(p, t, k, c)
             tb2 == Written(tb, t, k, Link(c))
             V == U \cup {c}
  <1>1. /\ p2 \in Places /\ p2[c].lv = p[t].lv + 1 /\ p2[c].base = Spot(p, t, k)
        /\ \A u \in U : p2[u] = p[u]
    <2>1. NewPlace(p, U, t, k, c, p2)
      BY PlacedIs
    <2> HIDE DEF p2
    <2> QED BY <2>1 DEF NewPlace
  <1>8. ASSUME NEW u \in U, NEW j PROVE Spot(p2, u, j) = Spot(p, u, j)
    <2> HIDE DEF p2
    <2> QED BY <1>1 DEF Spot
  <1>2. ASSUME NEW u \in U, NEW j \in Slots, u # t \/ j # k PROVE tb2[u][j] = tb[u][j]
    BY <1>2 DEF TableSet, Written
  <1>3. tb2[t][k] = Link(c)
    BY DEF TableSet, Written
  <1>4. \A j \in Slots : tb2[c][j] = Absent
    BY DEF TableSet, Written
  <1>5. Tree(p, U)
    BY DEF Shape
  <1> HIDE DEF tb2, p2
  <1>6. Tree(p2, V)
    <2>1. p2[Root] = [lv |-> 0, base |-> 0]
      BY <1>1, <1>5 DEF Tree
    <2>2. p2[c].lv > 0
      BY <1>1, PlaceTypes
    <2>3. p2[c].base % (Fanout * Levels[p2[c].lv]) = 0
      <3>1. p[t].lv \in 0 .. Last - 1
        BY PlaceTypes, VMemAssumption
      <3>2. Fanout * Levels[p2[c].lv] = Levels[p[t].lv]
        BY <1>1, <3>1, LevelsAre
      <3>3. Aligned(p, t) /\ k \in Nat
        BY <1>5, VMemAssumption DEF Tree, Aligned, Slots
      <3> QED BY <1>1, <3>2, <3>3, SpotAligned
    <2>4. \A u \in U \ {Root} : p2[u].lv > 0
      BY <1>1, <1>5 DEF Tree
    <2>5. \A u \in U : p2[u].base % (Fanout * Levels[p2[u].lv]) = 0
      BY <1>1, <1>5 DEF Tree
    <2> QED BY <2>1, <2>2, <2>3, <2>4, <2>5 DEF Tree
  <1>7. ASSUME NEW u \in V, NEW j \in Slots PROVE Fits(p2, V, u, j, tb2[u][j], ms, done)
    <2>1. CASE u = c
      BY <1>4, <2>1 DEF Fits
    <2>2. CASE u = t /\ j = k
      <3>1. Link(c).addr = c /\ c # Root
        BY AbsentIs
      <3>2. IsLink(p2, V, t, k, Link(c))
        BY <1>1, <1>8, <3>1 DEF IsLink
      <3> QED BY <1>3, <2>2, <3>2 DEF Fits
    <2>3. CASE u \in U /\ (u # t \/ j # k)
      <3>1. tb2[u][j] = tb[u][j]
        BY <1>2, <2>3
      <3> DEFINE e == tb[u][j]
      <3>2. Fits(p, U, u, j, e, ms, done)
        BY <2>3 DEF Shape
      <3> HIDE DEF e
      <3>6. Fits(p2, V, u, j, e, ms, done)
        <4>3. CASE IsLink(p, U, u, j, e)
          <5>1. /\ e.addr \in U \ {Root} /\ p[u].lv < Last /\ e = Link(e.addr)
                /\ p[e.addr].lv = p[u].lv + 1 /\ p[e.addr].base = Spot(p, u, j)
            BY <4>3 DEF IsLink
          <5>2. p2[e.addr] = p[e.addr] /\ p2[u] = p[u] /\ Spot(p2, u, j) = Spot(p, u, j)
            BY <1>1, <1>8, <2>3, <5>1
          <5>3. IsLink(p2, V, u, j, e)
            BY <5>1, <5>2 DEF IsLink
          <5> QED BY <5>3 DEF Fits
        <4>4. CASE IsLeaf(p, u, j, e, ms, done)
          <5>1. /\ p2[u] = p[u] /\ Spot(p2, u, j) = Spot(p, u, j)
                /\ Spot(p2, u, j + 1) = Spot(p, u, j + 1)
            BY <1>1, <1>8, <2>3
          <5>2. \A r : Maps(p2, u, j, e, r) <=> Maps(p, u, j, e, r)
            BY <5>1 DEF Maps
          <5>3. IsLeaf(p2, u, j, e, ms, done)
            BY <4>4, <5>1, <5>2 DEF IsLeaf
          <5> QED BY <5>3 DEF Fits
        <4>5. CASE e = Absent
          BY <4>5 DEF Fits
        <4> QED BY <3>2, <4>3, <4>4, <4>5 DEF Fits
      <3> QED BY <3>1, <3>6 DEF e
    <2> QED BY <2>1, <2>2, <2>3
  <1> QED BY <1>6, <1>7 DEF Shape, tb2, p2

LEMMA CallsLink ==
    ASSUME NEW p \in Places, NEW U \in SUBSET Tabs, Tree(p, U), NEW tb, NEW c, NEW s,
           StackInv(p, U, tb, c, s), NEW n \in 1 .. Len(s) - 1
    PROVE  /\ s[n] \in FrameSet /\ s[n + 1] \in FrameSet
           /\ s[n].t \in U /\ s[n].idx \in Slots
           /\ s[n + 1].t \in U \ {Root}
           /\ tb[s[n].t][s[n].idx] = Link(s[n + 1].t)
  <1>1. s \in Seq(FrameSet) /\ n \in 1 .. Len(s) /\ n + 1 \in 1 .. Len(s)
    BY DEF StackInv
  <1>2. Calls(p, tb, s[n], s[n + 1]) /\ FrameInv(p, U, c, s[n]) /\ FrameInv(p, U, c, s[n + 1])
    BY <1>1 DEF StackInv
  <1>3. s[n] \in FrameSet /\ s[n + 1] \in FrameSet
    BY <1>1, ElementOfSeq
  <1>4. s[n].idx \in Slots /\ s[n].lv \in 0 .. Last
    <2>1. s[n].idx \in 0 .. Fanout /\ s[n].lv \in 0 .. Last
      BY <1>3 DEF FrameSet
    <2>2. s[n].idx < Fanout
      BY <1>2, Zenon DEF Calls
    <2> QED BY <2>1, <2>2, RootTab DEF Slots
  <1>5. /\ s[n].t \in U /\ s[n + 1].t \in U /\ s[n + 1].lv = p[s[n + 1].t].lv
        /\ s[n + 1].lv = s[n].lv + 1 /\ tb[s[n].t][s[n].idx] = Link(s[n + 1].t)
    BY <1>2, Zenon DEF FrameInv, Calls
  <1>6. s[n + 1].t # Root
    <2>1. p[Root].lv = 0
      BY DEF Tree
    <2>2. s[n].lv + 1 # 0
      BY <1>4
    <2> QED BY <1>5, <2>1, <2>2
  <1> QED BY <1>3, <1>4, <1>5, <1>6

(* The links in the tree stay, whatever else is written.                   *)
KeepsLinks(U, tb, tb2) == \A t \in U, k \in Slots, g \in U \ {Root} :
    tb[t][k] = Link(g) => tb2[t][k] = Link(g)

LEMMA StackTouch ==
    ASSUME NEW p \in Places, NEW U \in SUBSET Tabs, Tree(p, U), NEW tb, NEW tb2, NEW c, NEW s,
           StackInv(p, U, tb, c, s), KeepsLinks(U, tb, tb2)
    PROVE  StackInv(p, U, tb2, c, s)
  <1>1. ASSUME NEW n \in 1 .. Len(s) - 1 PROVE Calls(p, tb2, s[n], s[n + 1])
    <2>1. tb2[s[n].t][s[n].idx] = Link(s[n + 1].t)
      BY CallsLink DEF KeepsLinks
    <2>2. Calls(p, tb, s[n], s[n + 1])
      BY DEF StackInv
    <2> QED BY <2>1, <2>2 DEF Calls
  <1> QED BY <1>1 DEF StackInv

LEMMA KeepsAbsent ==
    ASSUME NEW U \in SUBSET Tabs, NEW tb \in TableSet, NEW t \in U, NEW k \in Slots, NEW e,
           tb[t][k].addr = 0 \/ ~tb[t][k].present
    PROVE  KeepsLinks(U, tb, Written(tb, t, k, e))
  <1> DEFINE tb2 == Written(tb, t, k, e)
  <1>1. ASSUME NEW u \in U, NEW j \in Slots, u # t \/ j # k PROVE tb2[u][j] = tb[u][j]
    BY <1>1 DEF TableSet, Written
  <1> HIDE DEF tb2
  <1>2. ASSUME NEW u \in U, NEW j \in Slots, NEW g \in U \ {Root}, tb[u][j] = Link(g)
        PROVE  tb2[u][j] = Link(g)
    <2>1. tb[u][j].present /\ tb[u][j].addr # 0
      BY <1>2, AbsentIs, RootTab
    <2> QED BY <1>1, <1>2, <2>1
  <1> QED BY <1>2 DEF KeepsLinks, tb2

(* The calls up to the n-th, whose frame is now h.                         *)
LEMMA StackPrefix ==
    ASSUME NEW p, NEW U, NEW tb, NEW c, NEW s,
           StackInv(p, U, tb, c, s), NEW n \in 1 .. Len(s),
           NEW h \in FrameSet, FrameInv(p, U, c, h), h.t = s[n].t, h.lv = s[n].lv,
           NEW r \in Seq(FrameSet), Len(r) = n, r[n] = h, \A m \in 1 .. n - 1 : r[m] = s[m]
    PROVE  StackInv(p, U, tb, c, r)
  <1>1. s \in Seq(FrameSet) /\ Len(s) \in Nat /\ Len(r) \in Nat
    BY DEF StackInv
  <1>2. r[1].t = Root
    <2>1. s[1].t = Root
      BY <1>1 DEF StackInv
    <2>2. r[1].t = s[1].t
      <3>1. CASE n = 1
        BY <3>1
      <3>2. CASE n # 1
        BY <1>1, <3>2
      <3> QED BY <3>1, <3>2
    <2> QED BY <2>1, <2>2
  <1>3. ASSUME NEW m \in 1 .. n PROVE FrameInv(p, U, c, r[m])
    <2>1. m \in 1 .. Len(s)
      BY <1>1
    <2>2. FrameInv(p, U, c, s[m])
      BY <2>1 DEF StackInv
    <2>3. m = n \/ m \in 1 .. n - 1
      BY <1>1
    <2> QED BY <2>2, <2>3
  <1>4. ASSUME NEW m \in 1 .. n - 1 PROVE Calls(p, tb, r[m], r[m + 1])
    <2>1. Calls(p, tb, s[m], s[m + 1])
      BY <1>1 DEF StackInv
    <2>2. r[m] = s[m] /\ r[m + 1].t = s[m + 1].t /\ r[m + 1].lv = s[m + 1].lv
      <3>1. CASE m + 1 = n
        BY <3>1
      <3>2. CASE m + 1 # n
        BY <1>1, <3>2
      <3> QED BY <3>1, <3>2
    <2> QED BY <2>1, <2>2 DEF Calls
  <1> QED BY <1>2, <1>3, <1>4 DEF StackInv

LEMMA StackPush ==
    ASSUME NEW p, NEW U, NEW tb, NEW c, NEW s,
           StackInv(p, U, tb, c, s), s # << >>,
           NEW h \in FrameSet, FrameInv(p, U, c, h), Calls(p, tb, s[Len(s)], h)
    PROVE  StackInv(p, U, tb, c, Append(s, h))
  <1> DEFINE r == Append(s, h)
  <1>1. /\ s \in Seq(FrameSet) /\ Len(s) \in Nat /\ Len(s) >= 1
        /\ r \in Seq(FrameSet) /\ Len(r) = Len(s) + 1 /\ r[Len(s) + 1] = h
        /\ \A m \in 1 .. Len(s) : r[m] = s[m]
    BY DEF StackInv
  <1> HIDE DEF r
  <1>2. r[1].t = Root
    BY <1>1 DEF StackInv
  <1>3. ASSUME NEW m \in 1 .. Len(r) PROVE FrameInv(p, U, c, r[m])
    <2>1. m = Len(s) + 1 \/ m \in 1 .. Len(s)
      BY <1>1
    <2> QED BY <1>1, <2>1 DEF StackInv
  <1>4. ASSUME NEW m \in 1 .. Len(r) - 1 PROVE Calls(p, tb, r[m], r[m + 1])
    <2>1. m = Len(s) \/ (m \in 1 .. Len(s) - 1 /\ m + 1 \in 1 .. Len(s))
      BY <1>1
    <2>2. CASE m = Len(s)
      BY <1>1, <2>2
    <2>3. CASE m \in 1 .. Len(s) - 1 /\ m + 1 \in 1 .. Len(s)
      BY <1>1, <2>3 DEF StackInv
    <2> QED BY <2>1, <2>2, <2>3
  <1> QED BY <1>1, <1>2, <1>3, <1>4 DEF StackInv, r

(* The stack is the same in the tree with the new table.                   *)
LEMMA StackLinked ==
    ASSUME NEW p \in Places, NEW U \in SUBSET Tabs, Tree(p, U), NEW tb, NEW c, NEW s,
           StackInv(p, U, tb, c, s), NEW p2 \in Places, NEW V, U \subseteq V,
           \A u \in U : p2[u] = p[u]
    PROVE  StackInv(p2, V, tb, c, s)
  <1>1. ASSUME NEW f, FrameInv(p, U, c, f) PROVE FrameInv(p2, V, c, f)
    <2>1. f.t \in U /\ f.t \in V /\ p2[f.t] = p[f.t]
      BY <1>1 DEF FrameInv
    <2>2. \A k : Spot(p2, f.t, k) = Spot(p, f.t, k)
      BY <2>1, Zenon DEF Spot
    <2> QED BY <1>1, <2>1, <2>2, Zenon DEF FrameInv
  <1>2. ASSUME NEW n \in 1 .. Len(s) - 1 PROVE Calls(p2, tb, s[n], s[n + 1])
    <2>1. s[n].t \in U /\ s[n + 1].t \in U
      BY CallsLink
    <2>2. Calls(p, tb, s[n], s[n + 1])
      BY DEF StackInv
    <2>3. Spot(p2, s[n].t, s[n].idx) = Spot(p, s[n].t, s[n].idx) /\ p2[s[n + 1].t] = p[s[n + 1].t]
      BY <2>1, Zenon DEF Spot
    <2> QED BY <2>2, <2>3 DEF Calls
  <1> QED BY <1>1, <1>2 DEF StackInv

-----------------------------------------------------------------------------
(* Writing an entry and what was mapped before.                            *)

LEMMA RootTranslates ==
    ASSUME NEW p \in Places, NEW U, Tree(p, U), NEW v \in Pages
    PROVE  Translates(p, Root, v) /\ v \in Nat /\ p[Root].lv = 0
  <1>1. p[Root].lv = 0 /\ p[Root].base = 0
    BY DEF Tree
  <1>2. PICK z \in Nat : z = Fanout * Levels[0]
    BY RootTab, LevelsAre
  <1>3. v \in Nat /\ v < z
    BY <1>2 DEF Pages
  <1>4. Spot(p, Root, Fanout) = z
    BY <1>1, <1>2 DEF Spot
  <1> QED BY <1>1, <1>3, <1>4 DEF Translates

LEMMA SlotsApart ==
    ASSUME NEW p \in Places, NEW U \in SUBSET Tabs, NEW t \in U, NEW k \in Slots,
           NEW v \in Nat, NEW end \in Nat, v < end, end <= Spot(p, t, k)
    PROVE  ~InSlot(p, t, k, v)
  BY SlotEnd DEF InSlot

LEMMA WriteKeepsFound ==
    ASSUME NEW p \in Places, NEW U \in SUBSET Tabs, Root \in U, NEW tb \in TableSet,
           NEW ms \in Seq(CallSet), NEW done, Shape(p, U, tb, ms, done),
           NEW t \in U, NEW k \in Slots, NEW e \in Entries, NEW v \in Pages,
           tb[t][k] = Absent \/ ~InSlot(p, t, k, v), Found(tb, v) # Unmapped
    PROVE  Found(Written(tb, t, k, e), v) = Found(tb, v)
  <1> DEFINE tb2 == Written(tb, t, k, e)
  <1>1. tb2 \in TableSet
    BY DEF TableSet, Written
  <1>2. Tree(p, U)
    BY DEF Shape
  <1>3. v \in Nat /\ Translates(p, Root, v) /\ p[Root].lv = 0
    BY <1>2, RootTranslates
  <1>4. ASSUME NEW u \in U, NEW j \in Slots, InSlot(p, u, j, v), Seen(tb, tb[Root], u, j) # Absent
        PROVE  Seen(tb2, tb2[Root], u, j) = Seen(tb, tb[Root], u, j)
    <2>1. Seen(tb, tb[Root], u, j) = tb[u][j] /\ Seen(tb2, tb2[Root], u, j) = tb2[u][j]
      <3> HIDE DEF tb2
      <3> QED BY DEF Seen
    <2>2. u # t \/ j # k
      BY <1>4, <2>1
    <2>3. tb2[u][j] = tb[u][j]
      BY <2>2 DEF TableSet, Written
    <2> QED BY <2>1, <2>3
  <1>5. IsTop(tb, tb[Root])
    BY RootIsTop
  <1> HIDE DEF tb2
  <1>7. KeepsEntries(p, U, v, tb, tb[Root], tb2, tb2[Root])
    BY <1>4 DEF KeepsEntries
  <1>6. Walk(tb2, tb2[Root], v)[p[Root].lv][Root] = Walk(tb, tb[Root], v)[p[Root].lv][Root]
    <2>1. Walk(tb, tb[Root], v)[p[Root].lv][Root] # Unmapped
      BY <1>3 DEF Found
    <2>2. KeepsWalk(p, U, v, Walk(tb, tb[Root], v), Walk(tb2, tb2[Root], v))
      BY <1>1, <1>3, <1>5, <1>7, WalkIsStable
    <2> QED BY <1>3, <2>1, <2>2 DEF KeepsWalk
  <1> QED BY <1>3, <1>6 DEF Found, tb2

LEMMA AskedIsMapped ==
    ASSUME NEW c \in CallSet, NEW v \in Nat, c.virt <= v
    PROVE  Asked(c, v) # Unmapped
  <1>1. c.phys + (v - c.virt) # -1
    BY CallTypes
  <1> QED BY <1>1 DEF Asked, Unmapped

LEMMA WriteKeepsMapped ==
    ASSUME NEW p \in Places, NEW U \in SUBSET Tabs, Root \in U, NEW tb \in TableSet,
           NEW ms \in Seq(CallSet), NEW done, Shape(p, U, tb, ms, done),
           NEW t \in U, NEW k \in Slots, NEW e \in Entries,
           NEW c \in CallSet, NEW end \in Nat, MappedTo(tb, c, end),
           tb[t][k] = Absent \/ end <= Spot(p, t, k)
    PROVE  MappedTo(Written(tb, t, k, e), c, end)
  <1>1. ASSUME NEW v \in Pages, c.virt <= v, v < end
        PROVE  Found(Written(tb, t, k, e), v) = Asked(c, v)
    <2>1. v \in Nat
      BY RootTranslates DEF Shape
    <2>2. Found(tb, v) = Asked(c, v)
      BY <1>1 DEF MappedTo
    <2>3. Found(tb, v) # Unmapped
      BY <1>1, <2>1, <2>2, AskedIsMapped
    <2>4. tb[t][k] = Absent \/ ~InSlot(p, t, k, v)
      BY <1>1, <2>1, SlotsApart
    <2>5. Found(Written(tb, t, k, e), v) = Found(tb, v)
      BY <2>3, <2>4, WriteKeepsFound
    <2> QED BY <2>2, <2>5
  <1> QED BY <1>1 DEF MappedTo

(* Tables that are not in use do not matter.                               *)
LEMMA UsedKeepMapped ==
    ASSUME NEW p \in Places, NEW U \in SUBSET Tabs, Root \in U, NEW tb \in TableSet,
           NEW ms \in Seq(CallSet), NEW done, Shape(p, U, tb, ms, done),
           NEW tb2 \in TableSet, \A t \in U : tb2[t] = tb[t],
           NEW c \in CallSet, NEW end, MappedTo(tb, c, end)
    PROVE  MappedTo(tb2, c, end)
  <1>1. ASSUME NEW v \in Pages, c.virt <= v, v < end
        PROVE  Found(tb2, v) = Asked(c, v)
    <2>1. Tree(p, U)
      BY DEF Shape
    <2>2. v \in Nat /\ Translates(p, Root, v) /\ p[Root].lv = 0
      BY <2>1, RootTranslates
    <2>3. Found(tb, v) = Asked(c, v)
      BY <1>1 DEF MappedTo
    <2>4. Found(tb, v) # Unmapped
      BY <1>1, <2>2, <2>3, AskedIsMapped
    <2>5. ASSUME NEW u \in U, NEW j \in Slots
          PROVE  Seen(tb2, tb2[Root], u, j) = Seen(tb, tb[Root], u, j)
      BY DEF Seen
    <2>6. Walk(tb2, tb2[Root], v)[p[Root].lv][Root] = Walk(tb, tb[Root], v)[p[Root].lv][Root]
      <3>1. Walk(tb, tb[Root], v)[p[Root].lv][Root] # Unmapped
        BY <2>2, <2>4 DEF Found
      <3>2. IsTop(tb, tb[Root])
        BY RootIsTop
      <3>3. KeepsEntries(p, U, v, tb, tb[Root], tb2, tb2[Root])
        BY <2>5 DEF KeepsEntries
      <3>4. KeepsWalk(p, U, v, Walk(tb, tb[Root], v), Walk(tb2, tb2[Root], v))
        BY <2>2, <3>2, <3>3, WalkIsStable
      <3> QED BY <2>2, <3>1, <3>4 DEF KeepsWalk
    <2> QED BY <2>2, <2>3, <2>6 DEF Found
  <1> QED BY <1>1 DEF MappedTo

-----------------------------------------------------------------------------
(* What holds in a state of the invariant.                                 *)

LEMMA Facts ==
    ASSUME IInv, NEW p \in Places, PlaceInv(p)
    PROVE  /\ Used \in SUBSET Tabs /\ Root \in Used
           /\ table \in TableSet /\ IsTop(table, ktable)
           /\ made \in Seq(CallSet) /\ stack \in Seq(FrameSet)
           /\ Tree(p, Used) /\ Shape(p, Used, table, made, Done)
           /\ StackInv(p, Used, table, call, stack)
           /\ pc # "idle" => /\ made # << >> /\ call = made[Len(made)]
                             /\ call \in CallSet /\ Len(made) \in DOMAIN made
           /\ Done \in Nat
  <1>1. /\ table \in TableSet /\ made \in Seq(CallSet) /\ IsTop(table, ktable)
        /\ Used \in SUBSET Tabs /\ Root \in Used
    BY DEF IInv, TypeInv, KtableInv, TableSet, IsTop, Used, Tabs
  <1>2. Shape(p, Used, table, made, Done) /\ StackInv(p, Used, table, call, stack)
    BY DEF PlaceInv
  <1>3. Tree(p, Used) /\ stack \in Seq(FrameSet)
    BY <1>2 DEF Shape, StackInv
  <1>4. pc # "idle" => /\ made # << >> /\ call = made[Len(made)]
                       /\ call \in CallSet /\ Len(made) \in DOMAIN made
    BY <1>1 DEF IInv, PcInv
  <1>5. Done \in Nat
    <2>1. CASE stack = << >>
      <3>1. PICK z \in Nat : z = Fanout * Levels[0]
        BY RootTab, LevelsAre
      <3> QED BY <2>1, <3>1 DEF Done
    <2>2. CASE stack # << >>
      <3>1. Len(stack) \in 1 .. Len(stack)
        BY <1>3, <2>2
      <3>2. stack[Len(stack)] \in FrameSet
        BY <1>3, <3>1, ElementOfSeq
      <3> QED BY <2>2, <3>2 DEF Done, Top, FrameSet
    <2> QED BY <2>1, <2>2
  <1> QED BY <1>1, <1>2, <1>3, <1>4, <1>5

LEMMA TopFacts ==
    ASSUME IInv, NEW p \in Places, PlaceInv(p), stack # << >>
    PROVE  /\ Len(stack) \in Nat \ {0} /\ Len(stack) \in 1 .. Len(stack)
           /\ Top \in FrameSet /\ FrameInv(p, Used, call, Top)
           /\ Top.t \in Used /\ Top.t \in Tabs /\ Top.lv = p[Top.t].lv
           /\ Top.lv \in 0 .. Last /\ Top.virt \in Nat /\ Top.size \in Nat
           /\ Top.idx \in 0 .. Fanout /\ (Top.idx < Fanout => Top.idx \in Slots)
           /\ Done = Top.virt /\ call.op = "map" /\ call \in CallSet
           /\ MappedTo(table, call, Top.virt)
           /\ pc \in {"walk", "clear", "link", "fault"}
           /\ call.virt \in Nat /\ call.size \in Nat /\ call.virt <= Top.virt
           /\ Top.virt <= call.virt + call.size /\ Top.size = call.virt + call.size - Top.virt
  <1>1. /\ stack \in Seq(FrameSet) /\ StackInv(p, Used, table, call, stack)
        /\ pc # "idle" => call \in CallSet
    BY Facts
  <1>2. Len(stack) \in Nat \ {0} /\ Len(stack) \in 1 .. Len(stack)
    BY <1>1
  <1>3. Top \in FrameSet /\ FrameInv(p, Used, call, Top)
    BY <1>1, <1>2, ElementOfSeq DEF Top, StackInv
  <1>4. call.op = "map" /\ pc \in {"walk", "clear", "link", "fault"}
    BY DEF IInv, PcInv
  <1>5. call \in CallSet
    BY <1>1, <1>4
  <1>6. MappedTo(table, call, Top.virt) /\ Done = Top.virt
    BY DEF IInv, ResultInv, Done
  <1>7. /\ Top.t \in Tabs /\ Top.lv \in 0 .. Last /\ Top.virt \in Nat /\ Top.size \in Nat
        /\ Top.idx \in 0 .. Fanout
    BY <1>3 DEF FrameSet
  <1>8. Top.idx < Fanout => Top.idx \in Slots
    BY <1>7, RootTab DEF Slots
  <1>9. /\ Top.t \in Used /\ Top.lv = p[Top.t].lv /\ call.virt <= Top.virt
        /\ Top.virt <= call.virt + call.size /\ Top.size = call.virt + call.size - Top.virt
    BY <1>3, Zenon DEF FrameInv
  <1>10. call.virt \in Nat /\ call.size \in Nat
    BY <1>5, CallTypes
  <1> QED BY <1>2, <1>3, <1>4, <1>5, <1>6, <1>7, <1>8, <1>9, <1>10

-----------------------------------------------------------------------------
(* The invariant is inductive.                                             *)

LEMMA InitHolds == Init => IInv
  <1> SUFFICES ASSUME Init PROVE IInv
    OBVIOUS
  <1> DEFINE p == [t \in Tabs |-> [lv |-> 0, base |-> 0]]
  <1>1. Absent \in Entries /\ Stale \in Entries
    BY AbsentIs, VMemAssumption DEF Stale, Entries
  <1>2. /\ table \in [Tabs -> [Slots -> Entries]]
        /\ table[Root] = [k \in Slots |-> Absent] /\ ktable = table[Root]
    <2>1. table = [t \in Tabs |-> [k \in Slots |-> IF t = Root THEN Absent ELSE Stale]]
      BY DEF Init, Tabs, Slots
    <2> QED BY <1>1, <2>1, RootTab DEF Init
  <1>3. TypeInv
    <2>1. ktable \in [Slots -> Entries]
      BY <1>1, <1>2
    <2>2. made \in Seq(CallSet) /\ free \subseteq Frames /\ fresh \in Tabs \cup {-1}
      BY RootTab DEF Init
    <2> QED BY <1>2, <2>1, <2>2 DEF Init, TypeInv
  <1>4. PcInv /\ KtableInv /\ ResultInv
    BY <1>2 DEF Init, PcInv, KtableInv, ResultInv
  <1>5. Used = {Root}
    BY DEF Used, Init
  <1>6. FilledInv
    BY <1>5 DEF FilledInv
  <1>7. p \in Places /\ p[Root] = [lv |-> 0, base |-> 0]
    BY RootTab DEF Places
  <1> HIDE DEF p
  <1>8. PlaceInv(p)
    <2>1. Tree(p, Used)
      <3>1. PICK n \in Nat \ {0} : n = Fanout * Levels[0]
        BY RootTab, LevelsAre
      <3>2. n * 0 = 0 /\ (n * 0) % n = 0
        BY Multiple
      <3> QED BY <1>5, <1>7, <3>1, <3>2 DEF Tree
    <2>2. Shape(p, Used, table, made, Done)
      BY <1>2, <1>5, <2>1 DEF Shape, Fits
    <2>3. StackInv(p, Used, table, call, stack)
      BY DEF StackInv, Init
    <2> QED BY <2>2, <2>3 DEF PlaceInv
  <1> QED BY <1>3, <1>4, <1>6, <1>7, <1>8 DEF IInv

LEMMA StutterHolds == IInv /\ UNCHANGED vars => IInv'
  <1> SUFFICES ASSUME IInv, UNCHANGED vars PROVE IInv'
    OBVIOUS
  <1>1. /\ table' = table /\ ktable' = ktable /\ free' = free /\ stack' = stack
        /\ fresh' = fresh /\ pc' = pc /\ call' = call /\ ret' = ret /\ made' = made
    BY DEF vars
  <1>2. Used' = Used /\ Top' = Top
    BY <1>1 DEF Used, Top
  <1>3. TypeInv' /\ PcInv' /\ KtableInv'
    BY <1>1, <1>2 DEF IInv, TypeInv, PcInv, KtableInv, Entry
  <1>4. ResultInv' /\ FilledInv'
    BY <1>1, <1>2 DEF IInv, ResultInv, FilledInv
  <1>5. PICK p \in Places : PlaceInv(p)
    BY DEF IInv
  <1>6. PlaceInv(p)'
    BY <1>1, <1>2, <1>5 DEF PlaceInv, Done
  <1> QED BY <1>3, <1>4, <1>6 DEF IInv

(* Between two calls every table has an entry.                             *)
LEMMA IdleFacts ==
    ASSUME IInv, stack = << >>
    PROVE  \A t \in Used \ {Root} : HasEntry(table, t)
  BY DEF IInv, FilledInv

LEMMA MapHolds == ASSUME IInv, NEW r \in Requests, vmem_map(r) PROVE IInv'
  <1> DEFINE c == MapCall(r)
  <1>1. /\ c \in CallSet /\ c.op = "map" /\ c.virt = r.virt /\ c.phys = r.phys
        /\ c.size = r.size
    BY DEF CallSet, MapCall
  <1>2. /\ c.virt \in Nat /\ c.phys \in Nat /\ c.size \in Nat \ {0} /\ MadeFor(c)
    BY <1>1, CallTypes
  <1> DEFINE f == Frame(0, Root, r.virt, r.phys, r.size)
  <1>3. /\ pc = "idle" /\ call' = c /\ made' = Append(made, c) /\ stack' = <<f>>
        /\ pc' = "walk" /\ table' = table /\ ktable' = ktable /\ free' = free
        /\ fresh' = fresh
    BY DEF vmem_map
  <1> HIDE DEF c
  <1>4. PICK p \in Places : PlaceInv(p)
    BY DEF IInv
  <1>5. /\ Tree(p, Used) /\ Used \in SUBSET Tabs /\ Root \in Used /\ table \in TableSet
        /\ made \in Seq(CallSet) /\ Shape(p, Used, table, made, Done)
    BY <1>4, Facts
  <1>6. f \in FrameSet /\ FrameInv(p, Used, c, f) /\ f.idx < Fanout
    <2>1. c.virt \in Pages
      <3>1. PICK z \in Nat : z = Fanout * Levels[0]
        BY RootTab, LevelsAre
      <3>2. c.virt + c.size <= z
        BY <1>2, <3>1 DEF MadeFor
      <3> QED BY <1>2, <3>1, <3>2 DEF Pages
    <2>2. Translates(p, Root, c.virt) /\ p[Root].lv = 0
      BY <1>5, <2>1, RootTranslates
    <2>3. c.virt <= c.virt /\ c.virt < c.virt + c.size
      BY <1>2
    <2>4. Starts(p, Used, c, Frame(p[Root].lv, Root, c.virt, c.phys + (c.virt - c.virt),
                                   c.virt + c.size - c.virt))
      BY <1>1, <1>2, <1>5, <2>2, <2>3, FrameStarts
    <2>5. c.phys + (c.virt - c.virt) = c.phys /\ c.virt + c.size - c.virt = c.size
      BY <1>2
    <2>6. Starts(p, Used, c, f)
      BY <1>1, <2>2, <2>4, <2>5
    <2> QED BY <2>6, Zenon DEF Starts
  <1>7. f.t = Root /\ f.virt = c.virt
    BY <1>1 DEF Frame
  <1> HIDE DEF f
  <1>8. Used' = Used /\ Top' = f /\ stack' # << >> /\ stack = << >> /\ fresh = Root
    BY <1>3 DEF Used, Top, IInv, PcInv
  <1>9. TypeInv'
    <2>1. made' \in Seq(CallSet)
      BY <1>1, <1>3, <1>5
    <2> QED BY <1>3, <2>1 DEF IInv, TypeInv
  <1>10. PcInv'
    <2>1. made' # << >> /\ call' = made'[Len(made')]
      BY <1>3, <1>5
    <2> QED BY <1>1, <1>3, <1>8, <2>1 DEF PcInv
  <1>11. KtableInv'
    BY <1>3 DEF IInv, KtableInv
  <1>12. ResultInv'
    <2>1. MappedTo(table, c, f.virt)
      <3>1. ASSUME NEW v \in Pages, c.virt <= v, v < f.virt PROVE FALSE
        BY <1>2, <1>5, <1>7, <3>1, RootTranslates
      <3> QED BY <3>1 DEF MappedTo
    <2> QED BY <1>3, <1>8, <2>1 DEF ResultInv
  <1>13. FilledInv'
    BY <1>3, <1>8, IdleFacts DEF FilledInv
  <1>14. PlaceInv(p)'
    <2>1. Shape(p, Used, table, Append(made, c), f.virt)
      BY <1>1, <1>5, ShapeNewCall
    <2>2. StackInv(p, Used, table, c, <<f>>)
      <3>1. <<f>> \in Seq(FrameSet) /\ Len(<<f>>) = 1 /\ <<f>>[1] = f
        BY <1>6
      <3> QED BY <1>6, <1>7, <3>1 DEF StackInv
    <2> QED BY <1>3, <1>8, <2>1, <2>2 DEF PlaceInv, Done
  <1> QED BY <1>9, <1>10, <1>11, <1>12, <1>13, <1>14 DEF IInv

LEMMA UnmapHolds == ASSUME IInv, NEW r \in Requests, vmem_unmap(r) PROVE IInv'
  <1> DEFINE c == UnmapCall(r)
  <1>1. c \in CallSet /\ c.op = "unmap"
    BY DEF CallSet, MapCall, UnmapCall
  <1>2. /\ pc = "idle" /\ call' = c /\ made' = Append(made, c) /\ stack' = stack
        /\ pc' = "copy" /\ table' = table /\ ktable' = ktable /\ free' = free
        /\ fresh' = fresh
    BY DEF vmem_unmap
  <1> HIDE DEF c
  <1>3. PICK p \in Places : PlaceInv(p)
    BY DEF IInv
  <1>4. /\ Tree(p, Used) /\ Used \in SUBSET Tabs /\ Root \in Used /\ table \in TableSet
        /\ made \in Seq(CallSet) /\ Shape(p, Used, table, made, Done)
    BY <1>3, Facts
  <1>5. Used' = Used /\ stack = << >> /\ fresh = Root
    BY <1>2 DEF Used, IInv, PcInv
  <1>6. TypeInv'
    <2>1. made' \in Seq(CallSet)
      BY <1>1, <1>2, <1>4
    <2> QED BY <1>2, <2>1 DEF IInv, TypeInv
  <1>7. PcInv'
    <2>1. made' # << >> /\ call' = made'[Len(made')]
      BY <1>2, <1>4
    <2> QED BY <1>2, <1>5, <2>1 DEF PcInv
  <1>8. KtableInv' /\ ResultInv'
    BY <1>1, <1>2, <1>5 DEF IInv, KtableInv, ResultInv
  <1>9. FilledInv'
    BY <1>2, <1>5, IdleFacts DEF FilledInv
  <1>10. PlaceInv(p)'
    <2>1. Shape(p, Used, table, Append(made, c), Fanout * Levels[0])
      BY <1>1, <1>3, <1>4, ShapeNewCall
    <2>2. StackInv(p, Used, table, c, << >>)
      BY DEF StackInv
    <2> QED BY <1>2, <1>5, <2>1, <2>2 DEF PlaceInv, Done
  <1> QED BY <1>6, <1>7, <1>8, <1>9, <1>10 DEF IInv

LEMMA CopyHolds == ASSUME IInv, CopyToKtable PROVE IInv'
  <1>1. /\ pc = "copy" /\ ktable' = table[Root] /\ pc' = "return" /\ table' = table
        /\ free' = free /\ stack' = stack /\ fresh' = fresh /\ call' = call
        /\ ret' = ret /\ made' = made
    BY DEF CopyToKtable
  <1>2. Used' = Used /\ stack = << >> /\ fresh = Root
    BY <1>1 DEF Used, IInv, PcInv
  <1>3. PICK p \in Places : PlaceInv(p)
    BY DEF IInv
  <1>4. TypeInv'
    <2>1. table[Root] \in [Slots -> Entries]
      BY RootTab DEF IInv, TypeInv
    <2> QED BY <1>1, <2>1 DEF IInv, TypeInv
  <1>5. PcInv' /\ KtableInv'
    BY <1>1, <1>2 DEF IInv, PcInv, KtableInv
  <1>6. ResultInv' /\ FilledInv'
    BY <1>1, <1>2 DEF IInv, ResultInv, FilledInv
  <1>7. PlaceInv(p)'
    BY <1>1, <1>2, <1>3 DEF PlaceInv, Done
  <1> QED BY <1>3, <1>4, <1>5, <1>6, <1>7 DEF IInv

LEMMA ReturnHolds == ASSUME IInv, Return PROVE IInv'
  <1>1. /\ pc = "return" /\ pc' = "idle" /\ table' = table /\ ktable' = ktable
        /\ free' = free /\ stack' = stack /\ fresh' = fresh /\ made' = made
    BY DEF Return
  <1>2. Used' = Used /\ stack = << >> /\ fresh = Root
    BY <1>1 DEF Used, IInv, PcInv
  <1>3. PICK p \in Places : PlaceInv(p)
    BY DEF IInv
  <1>4. TypeInv'
    BY <1>1 DEF IInv, TypeInv
  <1>5. PcInv' /\ KtableInv'
    BY <1>1, <1>2 DEF IInv, PcInv, KtableInv
  <1>6. ResultInv' /\ FilledInv'
    BY <1>1, <1>2 DEF IInv, ResultInv, FilledInv
  <1>7. PlaceInv(p)'
    <2>1. StackInv(p, Used, table, call', << >>)
      BY DEF StackInv
    <2> QED BY <1>1, <1>2, <1>3, <2>1 DEF PlaceInv, Done
  <1> QED BY <1>3, <1>4, <1>5, <1>6, <1>7 DEF IInv

(* The calls are over, with result r.                                      *)
LEMMA FinishHolds ==
    ASSUME IInv, NEW r, stack # << >>, Finish(r), UNCHANGED <<ktable, call, made>>,
           pc = "walk",
           \A t \in Used \ {Root} : HasEntry(table, t),
           r = "none" => Top.size = 0,
           r = "alreadymapped" => Refused(table, call, made)
    PROVE  IInv'
  <1>1. /\ ret' = r /\ stack' = << >> /\ pc' = "copy" /\ table' = table /\ free' = free
        /\ fresh' = fresh /\ ktable' = ktable /\ call' = call /\ made' = made
    BY DEF Finish
  <1>2. Used' = Used /\ fresh = Root
    BY <1>1 DEF Used, IInv, PcInv
  <1>3. PICK p \in Places : PlaceInv(p)
    BY DEF IInv
  <1>4. /\ Top.virt \in Nat /\ Done = Top.virt /\ call \in CallSet /\ call.op = "map"
        /\ MappedTo(table, call, Top.virt) /\ Top.virt <= call.virt + call.size
        /\ Top.size = call.virt + call.size - Top.virt
        /\ call.virt \in Nat /\ call.size \in Nat
    BY <1>3, TopFacts
  <1>5. TypeInv' /\ KtableInv'
    BY <1>1 DEF IInv, TypeInv, KtableInv
  <1>6. PcInv'
    BY <1>1, <1>2 DEF IInv, PcInv
  <1>7. ResultInv'
    <2>1. r = "none" => MappedTo(table, call, call.virt + call.size)
      <3>1. r = "none" => Top.virt = call.virt + call.size
        BY <1>4
      <3> QED BY <1>4, <3>1
    <2> QED BY <1>1, <2>1 DEF ResultInv
  <1>8. FilledInv'
    BY <1>1, <1>2 DEF FilledInv
  <1>9. PlaceInv(p)'
    <2>1. PICK z \in Nat : z = Fanout * Levels[0]
      BY RootTab, LevelsAre
    <2>2. Top.virt <= z
      BY <1>4, <2>1, CallTypes DEF MadeFor
    <2>3. Shape(p, Used, table, made, z)
      <3>1. Shape(p, Used, table, made, Top.virt) /\ Used \in SUBSET Tabs
        BY <1>3, <1>4, Facts
      <3> QED BY <1>4, <2>2, <3>1, ShapeMonotone
    <2>4. StackInv(p, Used, table, call, << >>)
      BY DEF StackInv
    <2> QED BY <1>1, <1>2, <2>1, <2>3, <2>4 DEF PlaceInv, Done
  <1> QED BY <1>3, <1>5, <1>6, <1>7, <1>8, <1>9 DEF IInv

(* A loop at the end of its table leaves no table empty.                   *)
LEMMA AllFilled ==
    ASSUME IInv, stack # << >>,
           Top.idx = Fanout \/ Top.size = 0
               \/ (Entry.present /\ (Top.leaf \/ \A t : Entry # Link(t))),
           Top.idx \in Slots \/ Top.idx = Fanout \/ Top.size = 0
    PROVE  \A t \in Used \ {Root} : HasEntry(table, t)
  <1>1. ASSUME NEW t \in Used \ {Root}, ~HasEntry(table, t) PROVE FALSE
    <2>1. Filling(table, Top, t)
      BY <1>1 DEF IInv, FilledInv
    <2>2. Top.size > 0 /\ Top.idx < Fanout
      BY <2>1 DEF Filling
    <2>3. Top.size # 0 /\ Top.idx # Fanout
      BY <2>2, RootTab
    <2>4. /\ Entry.present /\ Top.idx \in Slots
          /\ Top.leaf \/ \A u : Entry # Link(u)
      BY <2>3
    <2>5. t = Top.t
      BY <2>1, <2>4 DEF Filling, Entry
    <2> QED BY <1>1, <2>4, <2>5 DEF HasEntry, Entry
  <1> QED BY <1>1

LEMMA ContinueHolds ==
    ASSUME IInv, stack # << >>, Continue, UNCHANGED <<ktable, call, made>>,
           pc = "walk", Top.idx = Fanout, Top.size > 0
    PROVE  IInv'
  <1>1. \A t \in Used \ {Root} : HasEntry(table, t)
    BY AllFilled
  <1>2. CASE Below = << >>
    <2>1. Finish("continue")
      BY <1>2 DEF Continue
    <2> QED BY <1>1, <2>1, FinishHolds
  <1>3. CASE Below # << >>
    <2>1. PICK p \in Places : PlaceInv(p)
      BY DEF IInv
    <2>2. /\ Used \in SUBSET Tabs /\ Tree(p, Used) /\ stack \in Seq(FrameSet)
          /\ StackInv(p, Used, table, call, stack) /\ call \in CallSet /\ call.op = "map"
          /\ Top \in FrameSet /\ Done = Top.virt /\ MappedTo(table, call, Top.virt)
          /\ Shape(p, Used, table, made, Top.virt)
      <3>1. /\ Used \in SUBSET Tabs /\ Tree(p, Used) /\ stack \in Seq(FrameSet)
            /\ StackInv(p, Used, table, call, stack) /\ Shape(p, Used, table, made, Done)
        BY <2>1, Facts
      <3>2. /\ call \in CallSet /\ call.op = "map" /\ Top \in FrameSet
            /\ Done = Top.virt /\ MappedTo(table, call, Top.virt)
        BY <2>1, TopFacts
      <3> QED BY <3>1, <3>2
    <2>3. PICK n \in Nat \ {0} : n + 1 = Len(stack)
      <3>1. Len(stack) \in Nat /\ Len(stack) # 0 /\ Len(stack) # 1
        <4>1. ASSUME Len(stack) = 1 PROVE FALSE
          <5>1. Below \in Seq(FrameSet) /\ Len(Below) = 0
            BY <2>2, <4>1 DEF Below
          <5> QED BY <1>3, <5>1
        <4> QED BY <2>2, <4>1
      <3>2. Len(stack) - 1 \in Nat \ {0} /\ (Len(stack) - 1) + 1 = Len(stack)
        BY <3>1
      <3> QED BY <3>2
    <2>4. /\ Below \in Seq(FrameSet) /\ Len(Below) = n /\ n \in 1 .. Len(stack)
          /\ n \in 1 .. Len(stack) - 1
          /\ \A m \in 1 .. n : Below[m] = stack[m] /\ m \in 1 .. Len(stack)
      BY <2>2, <2>3 DEF Below
    <2> DEFINE f == stack[n]
               h == SkipChild(f)
               s == [Below EXCEPT ![n] = h]
    <2>5. /\ stack' = s /\ table' = table /\ free' = free /\ fresh' = fresh /\ pc' = pc
          /\ ret' = ret /\ ktable' = ktable /\ call' = call /\ made' = made
      BY <1>3, <2>4 DEF Continue
    <2>6. Top = stack[n + 1]
      BY <2>3 DEF Top
    <2>7. f \in FrameSet /\ FrameInv(p, Used, call, f)
      BY <2>2, <2>4, ElementOfSeq DEF StackInv
    <2>8. Calls(p, table, f, Top) /\ FrameInv(p, Used, call, Top)
      BY <2>2, <2>3, <2>4, <2>6 DEF StackInv
    <2>9. /\ h \in FrameSet /\ FrameInv(p, Used, call, h)
          /\ h.lv = f.lv /\ h.t = f.t /\ ~h.leaf /\ h.virt = Top.virt
      <3> HIDE DEF f
      <3> QED BY <2>2, <2>7, <2>8, NodeAdvances
    <2> HIDE DEF h
    <2>10. /\ s \in Seq(FrameSet) /\ Len(s) = n /\ s[n] = h /\ s # << >>
           /\ \A m \in 1 .. n - 1 : s[m] = stack[m]
      BY <2>3, <2>4, <2>9
    <2> HIDE DEF s
    <2>11. StackInv(p, Used, table, call, s)
      BY <2>2, <2>4, <2>9, <2>10, StackPrefix DEF f
    <2>12. Used' = Used /\ Top' = h /\ Top'.virt = Top.virt /\ fresh = Root
      BY <2>5, <2>9, <2>10 DEF Used, Top, IInv, PcInv
    <2>13. TypeInv' /\ KtableInv'
      BY <2>5 DEF IInv, TypeInv, KtableInv
    <2>14. PcInv'
      BY <2>2, <2>5, <2>10, <2>12 DEF IInv, PcInv
    <2>15. ResultInv'
      BY <2>2, <2>5, <2>12 DEF ResultInv
    <2>16. FilledInv'
      BY <1>1, <2>5, <2>12 DEF FilledInv
    <2>17. PlaceInv(p)'
      <3>1. Done' = Top.virt
        BY <2>5, <2>10, <2>12 DEF Done
      <3> QED BY <2>2, <2>5, <2>11, <2>12, <3>1 DEF PlaceInv
    <2> QED BY <2>1, <2>13, <2>14, <2>15, <2>16, <2>17 DEF IInv
  <1> QED BY <1>2, <1>3

(* The innermost loop moves on in its table: the stack with frame h.       *)
LEMMA TopReplaced ==
    ASSUME NEW p \in Places, NEW U, NEW tb, NEW c, stack # << >>,
           StackInv(p, U, tb, c, stack), NEW h \in FrameSet, FrameInv(p, U, c, h),
           h.t = Top.t, h.lv = Top.lv
    PROVE  LET s == Append(Below, h) IN
           s # << >> /\ s[Len(s)] = h /\ StackInv(p, U, tb, c, s)
  <1> DEFINE s == Append(Below, h)
  <1>1. stack \in Seq(FrameSet)
    BY DEF StackInv
  <1>2. PICK n \in Nat : n + 1 = Len(stack)
    <2>1. Len(stack) - 1 \in Nat /\ (Len(stack) - 1) + 1 = Len(stack)
      BY <1>1
    <2> QED BY <2>1
  <1>3. /\ Below \in Seq(FrameSet) /\ Len(Below) = n /\ n + 1 \in 1 .. Len(stack)
        /\ \A m \in 1 .. n : Below[m] = stack[m]
    BY <1>1, <1>2 DEF Below
  <1>4. /\ s \in Seq(FrameSet) /\ Len(s) = n + 1 /\ s[n + 1] = h /\ s # << >>
        /\ \A m \in 1 .. (n + 1) - 1 : s[m] = stack[m]
    BY <1>3
  <1>5. h.t = stack[n + 1].t /\ h.lv = stack[n + 1].lv
    BY <1>2 DEF Top
  <1> HIDE DEF s
  <1>6. StackInv(p, U, tb, c, s)
    BY <1>3, <1>4, <1>5, StackPrefix
  <1> QED BY <1>4, <1>6 DEF s

LEMMA WrittenTypes ==
    ASSUME NEW tb \in TableSet, NEW t \in Tabs, NEW k \in Slots, NEW e \in Entries
    PROVE  /\ Written(tb, t, k, e) \in TableSet
           /\ Written(tb, t, k, e)[t][k] = e
           /\ \A u \in Tabs, j \in Slots : u # t \/ j # k =>
                  Written(tb, t, k, e)[u][j] = tb[u][j]
           /\ \A u \in Tabs : u # t => Written(tb, t, k, e)[u] = tb[u]
  BY DEF Written, TableSet

LEMMA WrittenHasEntry ==
    ASSUME NEW U \in SUBSET Tabs, NEW tb \in TableSet, NEW t \in U, NEW k \in Slots,
           NEW e \in Entries, e.present
    PROVE  /\ HasEntry(Written(tb, t, k, e), t)
           /\ \A u \in U : HasEntry(tb, u) => HasEntry(Written(tb, t, k, e), u)
  <1> DEFINE tb2 == Written(tb, t, k, e)
  <1>1. tb2[t][k] = e /\ \A u \in U : u # t => tb2[u] = tb[u]
    BY WrittenTypes
  <1> HIDE DEF tb2
  <1>2. HasEntry(tb2, t) /\ \A u \in U : HasEntry(tb, u) => HasEntry(tb2, u)
    BY <1>1 DEF HasEntry
  <1> QED BY <1>2 DEF tb2

LEMMA LeafIs ==
    ASSUME NEW c \in CallSet, NEW lv, NEW v \in Nat, c.virt <= v
    PROVE  /\ LeafOf(c, lv, v) \in Entries /\ LeafOf(c, lv, v).present
           /\ call = c => Leaf(lv, c.phys + (v - c.virt)) = LeafOf(c, lv, v)
  <1>1. c.virt \in Nat /\ c.phys \in Nat /\ c.cache \in Caches
    BY CallTypes
  <1>2. c.phys + (v - c.virt) \in Int
    BY <1>1
  <1>3. CacheBits(c.cache) \subseteq {"WRITETHROUGH", "CACHEDISABLE"}
    BY <1>1 DEF CacheBits, Caches
  <1>4. LeafOf(c, lv, v) \in Entries /\ LeafOf(c, lv, v).present
    BY <1>2, <1>3 DEF LeafOf, Entries
  <1>5. call = c => Leaf(lv, c.phys + (v - c.virt)) = LeafOf(c, lv, v)
    BY DEF Leaf, LeafOf
  <1> QED BY <1>4, <1>5

(* A page entry is written: the page is mapped, and it was not before.     *)
LEMMA WriteLeafHolds ==
    ASSUME IInv, stack # << >>, pc = "walk", UNCHANGED <<ktable, call, made>>,
           Top.leaf, Top.size > 0, Top.idx < Fanout, ~Entry.present,
           SetEntry(Leaf(Top.lv, Top.phys)),
           stack' = Append(Below, Advance(Top, Levels[Top.lv])),
           UNCHANGED <<free, fresh, pc, ret>>
    PROVE  IInv'
  <1>1. PICK p \in Places : PlaceInv(p)
    BY DEF IInv
  <1> DEFINE t == Top.t
             k == Top.idx
             e == Leaf(Top.lv, Top.phys)
             h == Advance(Top, Levels[Top.lv])
             tb == Written(table, t, k, e)
             end == Spot(p, t, k + 1)
  <1>2. /\ Used \in SUBSET Tabs /\ Root \in Used /\ table \in TableSet
        /\ made \in Seq(CallSet) /\ made # << >> /\ call = made[Len(made)]
        /\ Shape(p, Used, table, made, Top.virt) /\ Tree(p, Used)
        /\ StackInv(p, Used, table, call, stack) /\ call \in CallSet
    <2>1. Done = Top.virt
      BY <1>1, TopFacts
    <2> QED BY <1>1, <2>1, Facts
  <1>3. /\ Top \in FrameSet /\ FrameInv(p, Used, call, Top) /\ t \in Used /\ k \in Slots
        /\ Top.lv = p[t].lv /\ Top.virt \in Nat /\ call.op = "map"
        /\ MappedTo(table, call, Top.virt) /\ call.virt <= Top.virt
        /\ call.virt \in Nat /\ call.size \in Nat
    BY <1>1, TopFacts
  <1>4. /\ h \in FrameSet /\ FrameInv(p, Used, call, h)
        /\ h.lv = Top.lv /\ h.t = t /\ h.leaf
        /\ h.virt = end /\ h.virt <= call.virt + call.size
        /\ Top.virt = Spot(p, t, k)
    <2>1. LeafMoved(p, Used, call, Top, h)
      BY <1>2, <1>3, LeafAdvances
    <2> HIDE DEF h
    <2> QED BY <2>1 DEF LeafMoved
  <1>5. e = LeafOf(call, p[t].lv, Spot(p, t, k)) /\ e \in Entries /\ e.present
    <2>1. Top.phys = call.phys + (Top.virt - call.virt)
      BY <1>3 DEF FrameInv
    <2> QED BY <1>2, <1>3, <1>4, <2>1, LeafIs
  <1>6. table[t][k] = Absent
    <2>1. Fits(p, Used, t, k, table[t][k], made, Top.virt)
      BY <1>2, <1>3 DEF Shape
    <2>2. ~table[t][k].present
      BY DEF Entry
    <2> QED BY <2>1, <2>2, EntryKinds DEF Fits
  <1>7. /\ table' = tb /\ free' = free /\ fresh' = fresh /\ pc' = pc /\ ret' = ret
        /\ ktable' = ktable /\ call' = call /\ made' = made
    BY DEF SetEntry, Written
  <1> HIDE DEF h, e
  <1>8. /\ tb \in TableSet /\ tb[t][k] = e
        /\ \A u \in Tabs, j \in Slots : u # t \/ j # k => tb[u][j] = table[u][j]
    <2>1. t \in Tabs
      BY <1>2, <1>3
    <2> QED BY <1>2, <1>3, <1>5, <2>1, WrittenTypes
  <1>9. Shape(p, Used, tb, made, end)
    <2>1. Maps(p, t, k, e, made[Len(made)])
      BY <1>2, <1>3, <1>4, <1>5 DEF Maps
    <2>2. p[t].lv \in LargeAvail /\ Top.virt <= Spot(p, t, k + 1)
      <3>1. p[t].lv \in LargeAvail
        BY <1>3 DEF FrameInv
      <3>2. Spot(p, t, k) <= Spot(p, t, k + 1)
        BY <1>2, <1>3, SlotEnd
      <3> QED BY <1>4, <3>1, <3>2
    <2> QED BY <1>2, <1>3, <2>1, <2>2, ShapeSetLeaf
  <1>10. KeepsLinks(Used, table, tb)
    BY <1>2, <1>3, <1>6, AbsentIs, KeepsAbsent
  <1>11. StackInv(p, Used, tb, call, stack)
    BY <1>2, <1>10, StackTouch
  <1>12. /\ stack' # << >> /\ Top' = h /\ StackInv(p, Used, tb, call, stack')
    <2>1. LET s == Append(Below, h) IN
          s # << >> /\ s[Len(s)] = h /\ StackInv(p, Used, tb, call, s)
      BY <1>4, <1>11, TopReplaced
    <2>2. stack' = Append(Below, h)
      BY DEF h
    <2> QED BY <2>1, <2>2 DEF Top
  <1>13. MappedTo(tb, call, Top.virt)
    BY <1>2, <1>3, <1>5, <1>6, WriteKeepsMapped
  <1>14. MappedTo(tb, call, end)
    <2>1. ASSUME NEW v \in Pages, call.virt <= v, v < end, ~(v < Top.virt)
          PROVE  Found(tb, v) = Asked(call, v)
      <3>1. v \in Nat /\ end \in Nat
        BY <1>2, <1>3, SlotEnd, RootTranslates
      <3>2. InSlot(p, t, k, v)
        BY <1>3, <1>4, <2>1, <3>1 DEF InSlot
      <3>3. Translates(p, t, v)
        BY <1>2, <1>3, <3>1, <3>2, SlotOf
      <3>4. Walk(tb, tb[Root], v)[0][Root] = Walk(tb, tb[Root], v)[p[t].lv][t]
        <4>1. Len(stack) \in 1 .. Len(stack) /\ stack[Len(stack)] = Top
          BY <1>1, TopFacts DEF Top
        <4>2. PICK n \in 1 .. Len(stack) : stack[n] = Top
          BY <4>1
        <4>3. Translates(p, stack[n].t, v)
          BY <3>3, <4>2
        <4>4. Walk(tb, tb[Root], v)[0][Root] = Walk(tb, tb[Root], v)[stack[n].lv][stack[n].t]
          BY <1>2, <1>8, <1>11, <3>1, <4>3, WalkReaches
        <4> QED BY <1>3, <4>2, <4>4
      <3>5. Finds(p, Used, t, k, v, e, Walk(tb, tb[Root], v))
        <4>1. Seen(tb, tb[Root], t, k) = e
          BY <1>8 DEF Seen
        <4>2. Finds(p, Used, t, k, v, Seen(tb, tb[Root], t, k), Walk(tb, tb[Root], v))
          BY <1>2, <1>3, <1>8, <3>1, <3>2, WalkStep DEF InSlot
        <4> QED BY <4>1, <4>2
      <3>6. Maps(p, t, k, e, call) /\ p[t].lv \in LargeAvail
        BY <1>3, <1>4, <1>5 DEF Maps, FrameInv
      <3> QED BY <1>2, <3>4, <3>5, <3>6 DEF Finds, Found
    <2> QED BY <1>13, <2>1 DEF MappedTo
  <1>15. Used' = Used
    BY <1>7 DEF Used
  <1>16. TypeInv'
    BY <1>7, <1>8 DEF IInv, TypeInv, TableSet
  <1>17. PcInv'
    BY <1>3, <1>7, <1>12 DEF IInv, PcInv
  <1>18. KtableInv'
    <2>1. ASSUME NEW j \in Slots PROVE ktable[j] = Absent \/ ktable[j] = tb[Root][j]
      <3>1. ktable[j] = Absent \/ ktable[j] = table[Root][j]
        BY DEF IInv, KtableInv
      <3>2. CASE t = Root /\ j = k
        BY <1>6, <3>1, <3>2
      <3>3. CASE t # Root \/ j # k
        BY <1>8, <3>1, <3>3, RootTab
      <3> QED BY <3>2, <3>3
    <2> QED BY <1>7, <2>1 DEF KtableInv
  <1>19. ResultInv'
    BY <1>4, <1>7, <1>12, <1>14 DEF ResultInv
  <1>20. FilledInv'
    <2>1. ASSUME NEW u \in Used \ {Root} PROVE HasEntry(tb, u)
      <3>1. HasEntry(table, u) \/ u = t
        BY DEF IInv, FilledInv, Filling
      <3> QED BY <1>2, <1>3, <1>5, <3>1, WrittenHasEntry
    <2> QED BY <1>7, <1>15, <2>1 DEF FilledInv
  <1>21. PlaceInv(p)'
    <2>1. Done' = end
      BY <1>4, <1>12 DEF Done
    <2> QED BY <1>7, <1>9, <1>12, <1>15, <2>1 DEF PlaceInv
  <1> QED BY <1>1, <1>16, <1>17, <1>18, <1>19, <1>20, <1>21 DEF IInv

LEMMA RangeInPages ==
    ASSUME NEW c \in CallSet, NEW v \in Nat, c.virt <= v, v < c.virt + c.size
    PROVE  InRange(c, v) /\ v \in Pages
  <1>1. c.virt \in Nat /\ c.size \in Nat /\ c.virt + c.size <= Fanout * Levels[0]
    BY CallTypes DEF MadeFor
  <1>2. PICK z \in Nat : z = Fanout * Levels[0]
    BY RootTab, LevelsAre
  <1>3. InRange(c, v)
    BY <1>1 DEF InRange
  <1>4. v \in 0 .. z - 1
    BY <1>1, <1>2
  <1> QED BY <1>2, <1>3, <1>4 DEF Pages

(* A large or a small page that is met was mapped by an earlier call.      *)
LEMMA PageRefuses ==
    ASSUME IInv, NEW p \in Places, PlaceInv(p), stack # << >>, pc = "walk",
           Top.size > 0, Top.idx < Fanout,
           IsLeaf(p, Top.t, Top.idx, Entry, made, Done)
    PROVE  Refused(table, call, made)
  <1> DEFINE t == Top.t
             k == Top.idx
             e == Entry
             v == Top.virt
  <1>1. /\ Used \in SUBSET Tabs /\ Root \in Used /\ table \in TableSet
        /\ made \in Seq(CallSet) /\ made # << >> /\ call = made[Len(made)]
        /\ Shape(p, Used, table, made, v) /\ Tree(p, Used)
        /\ StackInv(p, Used, table, call, stack) /\ call \in CallSet
    <2>1. Done = v
      BY TopFacts
    <2> QED BY <2>1, Facts
  <1>2. /\ Top \in FrameSet /\ FrameInv(p, Used, call, Top) /\ t \in Used /\ k \in Slots
        /\ Top.lv = p[t].lv /\ v \in Nat /\ Done = v
        /\ call.virt <= v /\ v <= call.virt + call.size
        /\ call.virt \in Nat /\ call.size \in Nat /\ Top.size = call.virt + call.size - v
        /\ Len(stack) \in 1 .. Len(stack) /\ stack[Len(stack)] = Top
    BY TopFacts DEF Top
  <1>3. InSlot(p, t, k, v)
    BY <1>2, Zenon DEF FrameInv, InSlot
  <1>4. PICK m \in DOMAIN made :
            Maps(p, t, k, e, made[m]) /\ (m = Len(made) => Spot(p, t, k + 1) <= v)
    BY <1>2 DEF IsLeaf
  <1>5. p[t].lv \in LargeAvail
    BY DEF IsLeaf
  <1>6. m \in 1 .. Len(made) - 1 /\ made[m] \in CallSet
    <2>1. ~(Spot(p, t, k + 1) <= v)
      BY <1>1, <1>2, <1>3, SlotEnd DEF InSlot
    <2> QED BY <1>1, <1>4, <2>1
  <1>7. InRange(call, v) /\ v \in Pages
    <2>1. v < call.virt + call.size
      BY <1>2
    <2> HIDE DEF v
    <2> QED BY <1>1, <1>2, <2>1, RangeInPages
  <1>8. Found(table, v) = Walk(table, table[Root], v)[p[t].lv][t]
    <2>1. PICK n \in 1 .. Len(stack) : stack[n] = Top
      BY <1>2
    <2>2. Translates(p, t, v)
      BY <1>1, <1>2, <1>3, SlotOf
    <2>3. Translates(p, stack[n].t, v)
      BY <2>1, <2>2
    <2>4. Walk(table, table[Root], v)[0][Root]
              = Walk(table, table[Root], v)[stack[n].lv][stack[n].t]
      <3>1. v \in Nat
        BY <1>2
      <3> HIDE DEF v, t
      <3> QED BY <1>1, <2>3, <3>1, WalkReaches
    <2> QED BY <1>2, <2>1, <2>4 DEF Found
  <1>9. Finds(p, Used, t, k, v, e, Walk(table, table[Root], v))
    <2>1. Seen(table, table[Root], t, k) = e
      BY RootIsTop, <1>1 DEF Entry
    <2>2. Finds(p, Used, t, k, v, Seen(table, table[Root], t, k), Walk(table, table[Root], v))
      BY <1>1, <1>2, <1>3, WalkStep DEF InSlot
    <2> QED BY <2>1, <2>2
  <1>10. /\ Found(table, v) = Asked(made[m], v) /\ InRange(made[m], v)
         /\ made[m].op = "map"
    BY <1>4, <1>5, <1>6, <1>8, <1>9 DEF Finds
  <1> HIDE DEF v
  <1> QED BY <1>6, <1>7, <1>10 DEF Refused

(* A table that is met in the place of a page has a page of an earlier     *)
(* call.                                                                   *)
LEMMA TableRefuses ==
    ASSUME IInv, NEW p \in Places, PlaceInv(p), stack # << >>, pc = "walk",
           Top.size > 0, Top.idx < Fanout, Top.leaf,
           IsLink(p, Used, Top.t, Top.idx, Entry)
    PROVE  Refused(table, call, made)
  <1> DEFINE t == Top.t
             k == Top.idx
             c == Entry.addr
  <1>1. /\ Used \in SUBSET Tabs /\ Root \in Used /\ table \in TableSet
        /\ made \in Seq(CallSet) /\ made # << >> /\ call = made[Len(made)]
        /\ Shape(p, Used, table, made, Top.virt) /\ Tree(p, Used)
        /\ StackInv(p, Used, table, call, stack) /\ call \in CallSet
    <2>1. Done = Top.virt
      BY TopFacts
    <2> QED BY <2>1, Facts
  <1>2. /\ Top \in FrameSet /\ FrameInv(p, Used, call, Top) /\ t \in Used /\ k \in Slots
        /\ Top.lv = p[t].lv /\ Top.virt \in Nat /\ Top.size \in Nat
        /\ Top.lv \in 0 .. Last
        /\ call.virt <= Top.virt /\ Top.virt <= call.virt + call.size
        /\ call.virt \in Nat /\ call.size \in Nat
        /\ Top.size = call.virt + call.size - Top.virt
        /\ Len(stack) \in 1 .. Len(stack) /\ stack[Len(stack)] = Top
    BY TopFacts DEF Top
  <1>3. /\ c \in Used \ {Root} /\ p[c].base = Spot(p, t, k)
        /\ Spot(p, c, Fanout) = Spot(p, t, k + 1) /\ p[c].lv = p[t].lv + 1
    <2>1. k \in Nat
      BY <1>2, RootTab DEF Slots
    <2>2. p[c].lv = p[t].lv + 1 /\ c \in Used \ {Root}
      BY DEF IsLink
    <2>3. p[c].base = Spot(p, t, k) /\ Spot(p, c, Fanout) = Spot(p, t, k + 1)
      BY <1>1, <1>2, <2>1, LinkRange
    <2> QED BY <2>2, <2>3
  <1>4. /\ Top.virt = Spot(p, t, k) /\ Spot(p, t, k + 1) <= call.virt + call.size
    <2>1. LeafMoved(p, Used, call, Top, Advance(Top, Levels[Top.lv]))
      BY <1>1, <1>2, RootTab, LeafAdvances DEF Slots
    <2> QED BY <2>1 DEF LeafMoved
  <1>5. ASSUME NEW u \in Used \ {Root}, p[c].lv <= p[u].lv PROVE HasEntry(table, u)
    <2>1. HasEntry(table, u) \/ u = t
      BY DEF IInv, FilledInv, Filling
    <2>2. u # t
      BY <1>1, <1>2, <1>3, <1>5, PlaceTypes
    <2> QED BY <2>1, <2>2
  <1>6. OldPage(p, c, table, made)
    <2>1. p[c].lv \in 0 .. Last /\ Top.virt <= p[c].base
      <3>1. c \in Tabs
        BY <1>1, <1>3
      <3>2. p[c].lv \in 0 .. Last /\ p[c].base \in Nat
        BY <3>1, PlaceTypes
      <3>3. p[c].base = Top.virt
        BY <1>3, <1>4
      <3> QED BY <3>2, <3>3
    <2>2. \A u \in Used \ {Root} : p[c].lv <= p[u].lv => HasEntry(table, u)
      BY <1>5
    <2>3. PICK lo \in 0 .. Last : lo = p[c].lv
      BY <2>1
    <2>4. \A u \in Used \ {Root} : lo <= p[u].lv => HasEntry(table, u)
      BY <2>2, <2>3
    <2>5. \A u \in Used \ {Root} :
              lo <= p[u].lv /\ Top.virt <= p[u].base => OldPage(p, u, table, made)
      BY <1>1, <1>2, <2>4, FullTable
    <2> QED BY <1>3, <2>1, <2>3, <2>5
  <1>7. PICK v \in Nat, m \in 1 .. Len(made) - 1 :
            /\ Translates(p, c, v) /\ InRange(made[m], v) /\ made[m].op = "map"
            /\ Walk(table, table[Root], v)[p[c].lv][c] = Asked(made[m], v)
    BY <1>6 DEF OldPage
  <1>8. InSlot(p, t, k, v)
    BY <1>3, <1>7 DEF Translates, InSlot
  <1>9. InRange(call, v) /\ v \in Pages
    <2>1. Spot(p, t, k) \in Nat /\ Spot(p, t, k + 1) \in Nat
      BY <1>1, <1>2, SlotEnd
    <2>2. call.virt <= v /\ v < call.virt + call.size
      BY <1>2, <1>4, <1>8, <2>1 DEF InSlot
    <2> QED BY <1>1, <2>2, RangeInPages
  <1>10. Found(table, v) = Walk(table, table[Root], v)[p[t].lv][t]
    <2>1. PICK n \in 1 .. Len(stack) : stack[n] = Top
      BY <1>2
    <2>2. Translates(p, t, v)
      BY <1>1, <1>2, <1>8, SlotOf
    <2>3. Translates(p, stack[n].t, v)
      BY <2>1, <2>2
    <2>4. Walk(table, table[Root], v)[0][Root]
              = Walk(table, table[Root], v)[stack[n].lv][stack[n].t]
      BY <1>1, <2>3, WalkReaches
    <2> QED BY <1>2, <2>1, <2>4 DEF Found
  <1>11. Walk(table, table[Root], v)[p[t].lv][t] = Walk(table, table[Root], v)[p[c].lv][c]
    <2>1. Seen(table, table[Root], t, k) = Entry
      BY RootIsTop, <1>1 DEF Entry
    <2>2. Finds(p, Used, t, k, v, Seen(table, table[Root], t, k), Walk(table, table[Root], v))
      BY <1>1, <1>2, <1>8, WalkStep DEF InSlot
    <2> QED BY <1>3, <2>1, <2>2 DEF Finds
  <1> QED BY <1>7, <1>9, <1>10, <1>11 DEF Refused

LEMMA MapLeafHolds ==
    ASSUME IInv, pc = "walk", MapLeaf, UNCHANGED <<ktable, call, made>>
    PROVE  IInv'
  <1>1. PICK p \in Places : PlaceInv(p)
    BY DEF IInv
  <1>2. stack # << >>
    BY DEF IInv, PcInv
  <1>3. /\ Top.size \in Nat /\ Top.idx \in 0 .. Fanout
        /\ Top.idx < Fanout => Top.idx \in Slots
    BY <1>1, <1>2, TopFacts
  <1>4. CASE Top.size = 0 /\ Finish("none")
    <2>1. \A t \in Used \ {Root} : HasEntry(table, t)
      BY <1>2, <1>4, AllFilled
    <2> QED BY <1>2, <1>4, <2>1, FinishHolds
  <1>5. CASE Top.size > 0 /\ Top.idx = Fanout /\ Continue
    BY <1>2, <1>5, ContinueHolds
  <1>6. CASE Top.size > 0 /\ Top.idx < Fanout /\ Entry.present /\ Finish("alreadymapped")
    <2>1. Top.leaf /\ Top.idx \in Slots
      BY <1>3, <1>6 DEF MapLeaf
    <2>2. \A t \in Used \ {Root} : HasEntry(table, t)
      BY <1>2, <1>6, <2>1, AllFilled
    <2>3. Fits(p, Used, Top.t, Top.idx, Entry, made, Done)
      BY <1>1, <1>2, <2>1, Facts, TopFacts DEF Shape, Entry
    <2>4. Refused(table, call, made)
      <3>1. Entry # Absent
        BY <1>6, AbsentIs
      <3> QED BY <1>1, <1>2, <1>6, <2>1, <2>3, <3>1, PageRefuses, TableRefuses DEF Fits
    <2> QED BY <1>2, <1>6, <2>2, <2>4, FinishHolds
  <1>7. CASE /\ Top.size > 0 /\ Top.idx < Fanout /\ ~Entry.present
             /\ SetEntry(Leaf(Top.lv, Top.phys))
             /\ stack' = Append(Below, Advance(Top, Levels[Top.lv]))
             /\ UNCHANGED <<free, fresh, pc, ret>>
    <2>1. Top.leaf
      BY DEF MapLeaf
    <2> QED BY <1>2, <1>7, <2>1, WriteLeafHolds
  <1> QED BY <1>4, <1>5, <1>6, <1>7 DEF MapLeaf

(* pagealloc_alloc hands out a frame that is not in use.                   *)
LEMMA AllocHolds ==
    ASSUME IInv, stack # << >>, pc = "walk", UNCHANGED <<ktable, call, made>>,
           ~Top.leaf, Top.idx < Fanout, Top.size > 0, Entry.addr = 0, AllocTable
    PROVE  IInv'
  <1>1. /\ table' = table /\ stack' = stack /\ ret' = ret /\ ktable' = ktable
        /\ call' = call /\ made' = made
        /\ fresh' = (IF free = {} THEN -1 ELSE Min(free)) /\ free' = free \ {fresh'}
        /\ pc' = IF fresh' = 0 THEN "panic" ELSE "clear"
    BY DEF AllocTable
  <1>2. free \subseteq Frames /\ fresh = Root
    BY DEF IInv, TypeInv, PcInv
  <1>3. IF free = {} THEN fresh' = -1 ELSE fresh' \in free
    <2>1. CASE free = {}
      BY <1>1, <2>1
    <2>2. CASE free # {}
      <3>1. free \in SUBSET Nat
        BY <1>2, VMemAssumption
      <3>2. \E x \in free : \A y \in free : x <= y
        BY <2>2, <3>1, LeastOne
      <3>3. Min(free) \in free
        BY <3>2 DEF Min
      <3> QED BY <1>1, <2>2, <3>3
    <2> QED BY <2>1, <2>2
  <1>4. /\ fresh' \in Tabs \cup {-1} /\ fresh' # Root /\ fresh' \notin free'
        /\ free' \subseteq Frames /\ pc' = "clear"
    <2>1. 0 \notin Frames /\ Root = 0
      BY VMemAssumption DEF Root
    <2> QED BY <1>1, <1>2, <1>3, <2>1 DEF Tabs
  <1>5. Used' = Used
    <2>1. -1 \notin Frames /\ Root \notin Frames
      <3>1. \A x \in Frames : x \in Nat /\ x # Root
        BY VMemAssumption
      <3>2. -1 \notin Nat
        OBVIOUS
      <3> QED BY <3>1, <3>2
    <2> QED BY <1>1, <1>2, <1>3, <2>1 DEF Used
  <1>6. Top' = Top /\ Entry' = Entry
    BY <1>1 DEF Top, Entry
  <1>7. TypeInv'
    BY <1>1, <1>4 DEF IInv, TypeInv
  <1>8. PcInv'
    BY <1>1, <1>4, <1>6 DEF IInv, PcInv
  <1>9. KtableInv' /\ ResultInv' /\ FilledInv'
    BY <1>1, <1>4, <1>5, <1>6 DEF IInv, KtableInv, ResultInv, FilledInv
  <1>10. PICK p \in Places : PlaceInv(p)
    BY DEF IInv
  <1>11. PlaceInv(p)'
    BY <1>1, <1>5, <1>6, <1>10 DEF PlaceInv, Done
  <1> QED BY <1>7, <1>8, <1>9, <1>10, <1>11 DEF IInv

LEMMA DescendHolds ==
    ASSUME IInv, stack # << >>, pc = "walk", UNCHANGED <<ktable, call, made>>,
           ~Top.leaf, Top.idx < Fanout, Top.size > 0, Entry.addr # 0, ~Entry.large,
           stack' = Append(stack, Frame(Top.lv + 1, Entry.addr, Top.virt, Top.phys, Top.size)),
           UNCHANGED <<table, free, fresh, pc, ret>>
    PROVE  IInv'
  <1>1. PICK p \in Places : PlaceInv(p)
    BY DEF IInv
  <1> DEFINE t == Top.t
             k == Top.idx
             c == Entry.addr
             f == Frame(Top.lv + 1, c, Top.virt, Top.phys, Top.size)
  <1>2. /\ Used \in SUBSET Tabs /\ Root \in Used /\ table \in TableSet
        /\ made \in Seq(CallSet) /\ stack \in Seq(FrameSet)
        /\ Shape(p, Used, table, made, Top.virt) /\ Tree(p, Used)
        /\ StackInv(p, Used, table, call, stack) /\ call \in CallSet
    <2>1. Done = Top.virt
      BY <1>1, TopFacts
    <2> QED BY <1>1, <2>1, Facts
  <1>3. /\ Top \in FrameSet /\ FrameInv(p, Used, call, Top) /\ t \in Used /\ k \in Slots
        /\ Top.lv = p[t].lv /\ Top.virt \in Nat /\ Top.size \in Nat
        /\ call.virt <= Top.virt /\ Top.virt <= call.virt + call.size
        /\ call.virt \in Nat /\ call.size \in Nat /\ MappedTo(table, call, Top.virt)
        /\ Top.size = call.virt + call.size - Top.virt /\ call.op = "map"
        /\ Len(stack) \in 1 .. Len(stack) /\ stack[Len(stack)] = Top
    BY <1>1, TopFacts DEF Top
  <1>4. IsLink(p, Used, t, k, Entry)
    <2>1. Fits(p, Used, t, k, Entry, made, Top.virt)
      BY <1>2, <1>3 DEF Shape, Entry
    <2>2. p[t].lv # Last
      <3>1. p[t].lv < Last
        BY <1>3, Zenon DEF FrameInv
      <3> QED BY <3>1, VMemAssumption
    <2>3. Entry # Absent
      BY AbsentIs
    <2>4. ~IsLeaf(p, t, k, Entry, made, Top.virt)
      BY <2>2, EntryKinds
    <2> QED BY <2>1, <2>3, <2>4, Zenon DEF Fits
  <1>5. /\ c \in Used \ {Root} /\ Entry = Link(c) /\ p[c].base = Spot(p, t, k)
        /\ Spot(p, c, Fanout) = Spot(p, t, k + 1) /\ p[c].lv = Top.lv + 1
    <2>1. k \in Nat
      BY <1>3, RootTab DEF Slots
    <2>2. p[c].lv = p[t].lv + 1 /\ c \in Used \ {Root} /\ Entry = Link(c)
      BY <1>4 DEF IsLink
    <2>3. p[c].base = Spot(p, t, k) /\ Spot(p, c, Fanout) = Spot(p, t, k + 1)
      <3>1. Used \in SUBSET Tabs /\ t \in Used
        BY <1>2, <1>3
      <3> HIDE DEF t, k
      <3> QED BY <1>1, <1>4, <2>1, <3>1, LinkRange
    <2> QED BY <1>3, <2>2, <2>3
  <1> HIDE DEF c
  <1>6. f \in FrameSet /\ FrameInv(p, Used, call, f) /\ f.idx < Fanout
    <2>1. Translates(p, c, Top.virt)
      BY <1>3, <1>5 DEF FrameInv, Translates
    <2>2. Top.virt = call.virt \/ Top.virt = p[c].base
      BY <1>3, <1>5 DEF FrameInv
    <2>3. Top.virt < call.virt + call.size
      BY <1>3
    <2>4. PICK v \in Nat : v = Top.virt
      BY <1>3
    <2>5. /\ Translates(p, c, v) /\ call.virt <= v /\ v < call.virt + call.size
          /\ v = call.virt \/ v = p[c].base
      BY <1>3, <2>1, <2>2, <2>3, <2>4
    <2>6. c \in Used /\ call \in CallSet /\ Tree(p, Used) /\ Used \in SUBSET Tabs
      BY <1>2, <1>5
    <2>7. Starts(p, Used, call, Frame(p[c].lv, c, v, call.phys + (v - call.virt),
                                      call.virt + call.size - v))
      BY <1>1, <2>5, <2>6, FrameStarts
    <2>8. Top.phys = call.phys + (Top.virt - call.virt)
      BY <1>3, Zenon DEF FrameInv
    <2>9. f = Frame(p[c].lv, c, v, call.phys + (v - call.virt), call.virt + call.size - v)
      BY <1>3, <1>5, <2>4, <2>8
    <2> QED BY <2>7, <2>9, Zenon DEF Starts
  <1>7. f.t = c /\ f.lv = Top.lv + 1 /\ f.virt = Top.virt /\ f.size = Top.size
    BY DEF Frame
  <1>8. stack' = Append(stack, f)
    BY DEF c
  <1> HIDE DEF f
  <1>9. StackInv(p, Used, table, call, stack')
    <2>1. Calls(p, table, Top, f)
      BY <1>3, <1>5, <1>7 DEF Calls, Entry
    <2> QED BY <1>2, <1>3, <1>6, <1>8, <2>1, StackPush
  <1>10. Top' = f /\ stack' # << >> /\ Used' = Used
    BY <1>2, <1>6, <1>8 DEF Top, Used
  <1>11. TypeInv' /\ KtableInv'
    BY DEF IInv, TypeInv, KtableInv
  <1>12. PcInv'
    BY <1>3, <1>10 DEF IInv, PcInv
  <1>13. ResultInv'
    BY <1>3, <1>7, <1>10 DEF ResultInv
  <1>14. FilledInv'
    <2>1. ASSUME NEW u \in Used \ {Root} PROVE HasEntry(table, u) \/ Filling(table, f, u)
      <3>1. HasEntry(table, u) \/ Filling(table, Top, u)
        BY DEF IInv, FilledInv
      <3>2. CASE u = t
        <4>1. Entry.present
          BY <1>4, EntryKinds
        <4> QED BY <1>3, <3>2, <4>1 DEF HasEntry, Entry
      <3>3. CASE Entry = Link(u)
        <4>1. u = c
          BY <3>3, AbsentIs DEF c
        <4> QED BY <1>6, <1>7, <4>1 DEF Filling
      <3> QED BY <3>1, <3>2, <3>3 DEF Filling, Entry
    <2> QED BY <1>10, <2>1 DEF FilledInv
  <1>15. PlaceInv(p)'
    <2>1. Done' = Top.virt
      BY <1>7, <1>10 DEF Done
    <2> QED BY <1>2, <1>9, <1>10, <2>1 DEF PlaceInv
  <1> QED BY <1>1, <1>11, <1>12, <1>13, <1>14, <1>15 DEF IInv

LEMMA MapNodeHolds ==
    ASSUME IInv, pc = "walk", MapNode, UNCHANGED <<ktable, call, made>>
    PROVE  IInv'
  <1>1. PICK p \in Places : PlaceInv(p)
    BY DEF IInv
  <1>2. stack # << >>
    BY DEF IInv, PcInv
  <1>3. /\ Top.size \in Nat /\ Top.idx \in 0 .. Fanout /\ ~Top.leaf
        /\ Top.idx < Fanout => Top.idx \in Slots
        /\ FrameInv(p, Used, call, Top) /\ Top.lv = p[Top.t].lv
    BY <1>1, <1>2, TopFacts DEF MapNode
  <1>4. CASE Top.idx = Fanout /\ Continue
    <2>1. Top.size > 0
      BY <1>3, <1>4 DEF FrameInv
    <2> QED BY <1>2, <1>4, <2>1, ContinueHolds
  <1>5. CASE Top.idx < Fanout /\ Top.size = 0 /\ Finish("none")
    <2>1. \A t \in Used \ {Root} : HasEntry(table, t)
      BY <1>2, <1>5, AllFilled
    <2> QED BY <1>2, <1>5, <2>1, FinishHolds
  <1>6. CASE Top.idx < Fanout /\ Top.size > 0 /\ Entry.addr = 0 /\ AllocTable
    BY <1>2, <1>3, <1>6, AllocHolds
  <1>7. CASE /\ Top.idx < Fanout /\ Top.size > 0 /\ Entry.addr # 0 /\ Entry.large
             /\ Finish("alreadymapped")
    <2>1. Fits(p, Used, Top.t, Top.idx, Entry, made, Done)
      BY <1>1, <1>2, <1>3, <1>7, Facts, TopFacts DEF Shape, Entry
    <2>2. IsLeaf(p, Top.t, Top.idx, Entry, made, Done)
      BY <1>7, <2>1, AbsentIs, EntryKinds DEF Fits
    <2>3. Refused(table, call, made)
      BY <1>1, <1>2, <1>7, <2>2, PageRefuses
    <2>4. Entry.present /\ \A t : Entry # Link(t)
      BY <1>7, <2>2, AbsentIs, EntryKinds
    <2>5. \A t \in Used \ {Root} : HasEntry(table, t)
      BY <1>2, <1>3, <1>7, <2>4, AllFilled
    <2> QED BY <1>2, <1>7, <2>3, <2>5, FinishHolds
  <1>8. CASE /\ Top.idx < Fanout /\ Top.size > 0 /\ Entry.addr # 0 /\ ~Entry.large
             /\ stack' = Append(stack, Frame(Top.lv + 1, Entry.addr,
                                             Top.virt, Top.phys, Top.size))
             /\ UNCHANGED <<table, free, fresh, pc, ret>>
    BY <1>2, <1>3, <1>8, DescendHolds
  <1> QED BY <1>4, <1>5, <1>6, <1>7, <1>8 DEF MapNode

LEMMA WalkHolds == IInv /\ vmem_map_st => IInv'
  BY MapLeafHolds, MapNodeHolds DEF vmem_map_st

LEMMA ClearHolds == ASSUME IInv, ClearTable PROVE IInv'
  <1> DEFINE tb == [table EXCEPT ![fresh] = [k \in 0 .. Fanout - 1 |-> Absent]]
  <1>1. /\ pc = "clear" /\ ktable' = ktable /\ free' = free /\ stack' = stack
        /\ fresh' = fresh /\ call' = call /\ ret' = ret /\ made' = made
    BY DEF ClearTable
  <1>2. /\ stack # << >> /\ ~Top.leaf /\ Top.idx < Fanout /\ Top.size > 0
        /\ Entry.addr = 0 /\ fresh # Root /\ fresh \notin free
    BY <1>1 DEF IInv, PcInv
  <1>3. Used' = Used /\ Top' = Top
    BY <1>1 DEF Used, Top
  <1>4. PICK p \in Places : PlaceInv(p)
    BY DEF IInv
  <1>5. /\ Used \in SUBSET Tabs /\ Root \in Used /\ table \in TableSet
        /\ made \in Seq(CallSet) /\ Tree(p, Used)
        /\ Shape(p, Used, table, made, Done) /\ call \in CallSet
        /\ StackInv(p, Used, table, call, stack) /\ Top.t \in Used
        /\ MappedTo(table, call, Top.virt) /\ call.op = "map" /\ Top.idx \in Slots
    BY <1>1, <1>2, <1>4, Facts, TopFacts
  <1>6. CASE fresh \in Frames /\ table' = tb /\ pc' = "link"
    <2>1. tb \in TableSet /\ tb[fresh] = [k \in Slots |-> Absent]
          /\ \A t \in Tabs : t # fresh => tb[t] = table[t]
      BY <1>5, <1>6, AbsentIs DEF TableSet, Slots, Tabs
    <2>2. fresh \notin Used
      BY <1>2 DEF Used
    <2>3. \A t \in Used : tb[t] = table[t]
      BY <1>5, <2>1, <2>2
    <2> HIDE DEF tb
    <2>4. Entry' = Entry
      BY <1>3, <1>5, <1>6, <2>3 DEF Entry
    <2>5. TypeInv'
      BY <1>1, <1>6, <2>1 DEF IInv, TypeInv, TableSet
    <2>6. PcInv'
      BY <1>1, <1>2, <1>3, <1>6, <2>1, <2>4 DEF IInv, PcInv
    <2>7. KtableInv'
      BY <1>1, <1>5, <1>6, <2>3 DEF IInv, KtableInv
    <2>8. ResultInv'
      <3>1. MappedTo(tb, call, Top.virt)
        <4>1. PICK end : end = Top.virt
          OBVIOUS
        <4>2. MappedTo(tb, call, end)
          BY <1>5, <2>1, <2>3, <4>1, <1>4, UsedKeepMapped
        <4> QED BY <4>1, <4>2
      <3> QED BY <1>1, <1>3, <1>6, <3>1 DEF ResultInv
    <2>9. FilledInv'
      <3>1. ASSUME NEW t \in Used \ {Root} PROVE HasEntry(tb, t) \/ Filling(tb, Top, t)
        <4>1. HasEntry(table, t) \/ Filling(table, Top, t)
          BY DEF IInv, FilledInv
        <4> QED BY <1>5, <2>3, <4>1 DEF HasEntry, Filling
      <3> QED BY <1>1, <1>2, <1>3, <1>6, <3>1 DEF FilledInv
    <2>10. PlaceInv(p)'
      <3>1. Shape(p, Used, tb, made, Done)
        BY <1>5, <2>3, ShapeUsed
      <3>2. StackInv(p, Used, tb, call, stack)
        <4>1. KeepsLinks(Used, table, tb)
          BY <2>3 DEF KeepsLinks
        <4> QED BY <1>5, <4>1, StackTouch
      <3>3. Done' = Done
        BY <1>1, <1>3 DEF Done
      <3> QED BY <1>1, <1>3, <1>6, <3>1, <3>2, <3>3 DEF PlaceInv
    <2> QED BY <2>5, <2>6, <2>7, <2>8, <2>9, <2>10 DEF IInv
  <1>7. CASE fresh \notin Frames /\ pc' = "fault" /\ table' = table
    <2>1. TypeInv' /\ PcInv' /\ KtableInv'
      BY <1>1, <1>2, <1>3, <1>7 DEF IInv, TypeInv, PcInv, KtableInv
    <2>2. ResultInv' /\ FilledInv'
      BY <1>1, <1>2, <1>3, <1>7 DEF IInv, ResultInv, FilledInv
    <2>3. PlaceInv(p)'
      BY <1>1, <1>3, <1>4, <1>7 DEF PlaceInv, Done
    <2> QED BY <2>1, <2>2, <2>3, <1>4 DEF IInv
  <1> QED BY <1>6, <1>7 DEF ClearTable

LEMMA LinkHolds == ASSUME IInv, LinkTable PROVE IInv'
  <1>1. PICK p \in Places : PlaceInv(p)
    BY DEF IInv
  <1> DEFINE t == Top.t
             k == Top.idx
             c == fresh
             tb == Written(table, t, k, Link(c))
             p2 == Placed(p, t, k, c)
             V == Used \cup {c}
  <1>2. /\ pc = "link" /\ pc' = "walk" /\ fresh' = Root /\ ktable' = ktable /\ free' = free
        /\ stack' = stack /\ call' = call /\ ret' = ret /\ made' = made /\ table' = tb
    BY DEF LinkTable, SetEntry, Written
  <1>3. /\ stack # << >> /\ ~Top.leaf /\ Top.idx < Fanout /\ Top.size > 0
        /\ table[t][k].addr = 0 /\ c # Root /\ c \notin free /\ c \in Frames
        /\ table[c] = [j \in Slots |-> Absent]
    BY <1>2 DEF IInv, PcInv, Entry
  <1>4. /\ Used \in SUBSET Tabs /\ Root \in Used /\ table \in TableSet
        /\ made \in Seq(CallSet) /\ Tree(p, Used) /\ Top.virt \in Nat
        /\ Shape(p, Used, table, made, Top.virt) /\ call \in CallSet
        /\ StackInv(p, Used, table, call, stack) /\ t \in Used
        /\ MappedTo(table, call, Top.virt) /\ call.op = "map" /\ k \in Slots
        /\ FrameInv(p, Used, call, Top) /\ Top.lv = p[t].lv
        /\ call.virt \in Nat
    <2>1. Done = Top.virt
      BY <1>1, <1>3, TopFacts
    <2> QED BY <1>1, <1>2, <1>3, <2>1, Facts, TopFacts
  <1>5. c \in Tabs /\ c \notin Used /\ p[t].lv < Last
    BY <1>3, <1>4 DEF Used, Tabs, FrameInv
  <1>6. Used' = V
    BY <1>2, <1>3 DEF Used
  <1> HIDE DEF p2, c
  <1>7. NewPlace(p, Used, t, k, c, p2)
    BY <1>4, <1>5, PlacedIs DEF p2
  <1>8. p2 \in Places /\ \A u \in Used : p2[u] = p[u]
    BY <1>7 DEF NewPlace
  <1>9. Shape(p2, V, tb, made, Top.virt)
    <2>1. PICK done \in Nat : done = Top.virt
      BY <1>4
    <2>2. Shape(p2, V, tb, made, done)
      BY <1>3, <1>4, <1>5, <2>1, ShapeLink DEF p2
    <2> QED BY <2>1, <2>2
  <1>10. Link(c) \in Entries /\ Link(c).present
    BY <1>5, AbsentIs
  <1>11. /\ tb \in TableSet /\ tb[t][k] = Link(c)
         /\ \A u \in Tabs, j \in Slots : u # t \/ j # k => tb[u][j] = table[u][j]
    <2>1. t \in Tabs
      BY <1>4
    <2> QED BY <1>4, <1>10, <2>1, WrittenTypes
  <1>12. StackInv(p2, V, tb, call, stack)
    <2>1. KeepsLinks(Used, table, tb)
      BY <1>3, <1>4, KeepsAbsent
    <2>2. StackInv(p, Used, tb, call, stack)
      BY <1>4, <2>1, StackTouch
    <2> QED BY <1>4, <1>8, <2>2, StackLinked
  <1>13. MappedTo(tb, call, Top.virt)
    <2>1. Top.virt = Spot(p, t, k) \/ Top.virt = call.virt
      BY <1>3, <1>4 DEF FrameInv
    <2>2. CASE Top.virt = Spot(p, t, k)
      <3>1. PICK end \in Nat : end = Top.virt
        BY <1>4
      <3>2. MappedTo(tb, call, end)
        <4>1. end <= Spot(p, t, k)
          BY <2>2, <3>1
        <4> QED BY <1>4, <1>10, <3>1, <4>1, WriteKeepsMapped
      <3> QED BY <3>1, <3>2
    <2>3. CASE Top.virt = call.virt
      <3>1. ASSUME NEW v \in Pages, call.virt <= v, v < Top.virt PROVE FALSE
        BY <1>4, <2>3, <3>1, RootTranslates
      <3> QED BY <3>1 DEF MappedTo
    <2> QED BY <2>1, <2>2, <2>3
  <1> HIDE DEF tb
  <1>14. Top' = Top /\ Done' = Top.virt
    BY <1>2, <1>3 DEF Top, Done
  <1>15. TypeInv'
    BY <1>2, <1>11, RootTab DEF IInv, TypeInv, TableSet
  <1>16. PcInv'
    BY <1>2, <1>3, <1>14 DEF IInv, PcInv
  <1>17. KtableInv'
    <2>1. ASSUME NEW j \in Slots PROVE ktable[j] = Absent \/ ktable[j] = tb[Root][j]
      <3>1. ktable[j] = Absent \/ ktable[j] = table[Root][j]
        BY DEF IInv, KtableInv
      <3>2. CASE t = Root /\ j = k
        <4>1. Fits(p, Used, t, k, table[t][k], made, Top.virt)
          BY <1>4 DEF Shape
        <4>2. ~IsLink(p, Used, t, k, table[t][k])
          BY <1>3, EntryKinds
        <4>3. ~IsLeaf(p, t, k, table[t][k], made, Top.virt)
          <5>1. p[t].lv = 0
            BY <1>4, <3>2 DEF Tree
          <5>2. 0 \notin LargeAvail
            BY VMemAssumption
          <5> QED BY <5>1, <5>2 DEF IsLeaf
        <4> QED BY <3>1, <3>2, <4>1, <4>2, <4>3 DEF Fits
      <3>3. CASE t # Root \/ j # k
        BY <1>11, <3>1, <3>3, RootTab
      <3> QED BY <3>2, <3>3
    <2> QED BY <1>2, <2>1 DEF KtableInv
  <1>18. ResultInv'
    BY <1>2, <1>13, <1>14 DEF ResultInv
  <1>19. FilledInv'
    <2>1. ASSUME NEW u \in V \ {Root} PROVE HasEntry(tb, u) \/ Filling(tb, Top, u)
      <3>1. CASE u = c
        BY <1>3, <1>11, <3>1 DEF Filling
      <3>2. CASE u \in Used
        <4>1. HasEntry(table, u) \/ Filling(table, Top, u)
          BY <3>2, <2>1 DEF IInv, FilledInv
        <4>2. table[t][k] # Link(u)
          BY <1>3, <2>1, AbsentIs, RootTab
        <4>3. HasEntry(table, u) \/ u = t
          BY <4>1, <4>2 DEF Filling
        <4> QED BY <1>4, <1>10, <3>2, <4>3, WrittenHasEntry DEF tb
      <3> QED BY <3>1, <3>2
    <2> QED BY <1>2, <1>3, <1>6, <1>14, <2>1 DEF FilledInv
  <1>20. \E q \in Places : PlaceInv(q)'
    <2>1. PICK q \in Places : q = p2
      BY <1>8
    <2>2. PlaceInv(q)'
      BY <1>2, <1>6, <1>9, <1>12, <1>14, <2>1 DEF PlaceInv
    <2> QED BY <2>2
  <1> QED BY <1>15, <1>16, <1>17, <1>18, <1>19, <1>20 DEF IInv

LEMMA NextHolds == IInv /\ [Next]_vars => IInv'
  <1> SUFFICES ASSUME IInv, [Next]_vars PROVE IInv'
    OBVIOUS
  <1>1. CASE \E r \in Requests : vmem_map(r) \/ vmem_unmap(r)
    BY <1>1, MapHolds, UnmapHolds
  <1>2. CASE vmem_map_st
    BY <1>2, WalkHolds
  <1>3. CASE ClearTable
    BY <1>3, ClearHolds
  <1>4. CASE LinkTable
    BY <1>4, LinkHolds
  <1>5. CASE CopyToKtable
    BY <1>5, CopyHolds
  <1>6. CASE Return
    BY <1>6, ReturnHolds
  <1>7. CASE UNCHANGED vars
    BY <1>7, StutterHolds
  <1> QED BY <1>1, <1>2, <1>3, <1>4, <1>5, <1>6, <1>7 DEF Next

LEMMA AlwaysIInv == Spec => []IInv
  BY InitHolds, NextHolds, PTL DEF Spec

-----------------------------------------------------------------------------
(* What the walk of vmem_virttophys finds.                                 *)

LEMMA NeverWrongHolds == IInv => NeverWrong
  <1> SUFFICES ASSUME IInv, NEW virt \in Pages
               PROVE  vmem_virttophys(virt) \in {Unmapped} \cup Wanted(virt)
    BY DEF NeverWrong
  <1>1. PICK p \in Places : PlaceInv(p)
    BY DEF IInv
  <1>2. /\ Used \in SUBSET Tabs /\ Root \in Used /\ table \in TableSet /\ IsTop(table, ktable)
        /\ made \in Seq(CallSet) /\ Tree(p, Used) /\ Shape(p, Used, table, made, Done)
    BY <1>1, Facts
  <1>3. virt \in Nat /\ Translates(p, Root, virt) /\ p[Root].lv = 0
    BY <1>2, RootTranslates
  <1>4. \A t \in Used : Translates(p, t, virt) =>
            Walk(table, ktable, virt)[p[t].lv][t] \in {Unmapped} \cup WantedBy(made, virt)
    BY <1>2, <1>3, WalkIsSound
  <1>5. vmem_virttophys(virt) \in {Unmapped} \cup WantedBy(made, virt)
    BY <1>2, <1>3, <1>4 DEF vmem_virttophys
  <1> QED BY <1>5 DEF Wanted, WantedBy

(* vmem.c, vmem_map and vmem_virttophys: at no moment of a call, not even  *)
(* while a table is allocated, cleared and linked, does a kernel address   *)
(* translate to anything but what some call of vmem_map asked for, with    *)
(* the memory type it asked for.                                           *)
THEOREM NothingWrongIsMapped == Spec => []NeverWrong
  BY AlwaysIInv, NeverWrongHolds, PTL

LEMMA ReturnFound ==
    ASSUME IInv, pc = "return"
    PROVE  \A virt : vmem_virttophys(virt) = Found(table, virt)
  BY DEF IInv, KtableInv, vmem_virttophys, Found

LEMMA MapsHolds == IInv => MapsWhatWasAsked
  <1> SUFFICES ASSUME IInv, Returns("map", "none"), NEW virt \in Pages, InRange(call, virt)
               PROVE  vmem_virttophys(virt) = Asked(call, virt)
    BY DEF MapsWhatWasAsked
  <1>1. pc = "return" /\ call.op = "map" /\ ret = "none"
    BY DEF Returns
  <1>2. PICK p \in Places : PlaceInv(p)
    BY DEF IInv
  <1>3. call \in CallSet
    BY <1>1, <1>2, Facts
  <1>4. call.virt <= virt /\ virt < call.virt + call.size
    BY <1>3, CallTypes DEF InRange
  <1>5. MappedTo(table, call, call.virt + call.size)
    BY <1>1 DEF IInv, ResultInv
  <1>6. Found(table, virt) = Asked(call, virt)
    BY <1>4, <1>5 DEF MappedTo
  <1> QED BY <1>1, <1>6, ReturnFound

(* vmem.c, vmem_map_st: when vmem_map returns 0 the whole range is mapped  *)
(* as asked, however it is split between tables and large pages and        *)
(* wherever the recursion comes back in the middle of a parent's table.    *)
THEOREM WhatWasAskedIsMapped == Spec => []MapsWhatWasAsked
  BY AlwaysIInv, MapsHolds, PTL

LEMMA RefusalHolds == IInv => RefusalIsHonest
  <1> SUFFICES ASSUME IInv, Returns("map", "alreadymapped")
               PROVE  \E virt \in Pages, k \in 1 .. Len(made) - 1 :
                          /\ InRange(call, virt) /\ InRange(made[k], virt)
                          /\ made[k].op = "map"
                          /\ vmem_virttophys(virt) = Asked(made[k], virt)
    BY DEF RefusalIsHonest
  <1>1. pc = "return" /\ call.op = "map" /\ ret = "alreadymapped"
    BY DEF Returns
  <1>2. Refused(table, call, made)
    BY <1>1 DEF IInv, ResultInv
  <1> QED BY <1>1, <1>2, ReturnFound DEF Refused

(* vmem.c, vmem_map_st: vmem_err_alreadymapped is returned only if a page  *)
(* of the range is mapped, as an earlier call asked for; a table that      *)
(* exists is never a reason by itself, for no table is left empty.         *)
THEOREM RefusalsAreHonest == Spec => []RefusalIsHonest
  BY AlwaysIInv, RefusalHolds, PTL

(* The entry that a new table is linked in is absent or a large page.      *)
LEMMA LinkedEntry ==
    ASSUME IInv, pc = "link", ~Entry.large
    PROVE  Entry = Absent
  <1>1. PICK p \in Places : PlaceInv(p)
    BY DEF IInv
  <1>2. stack # << >> /\ ~Top.leaf /\ Top.idx < Fanout /\ Entry.addr = 0
    BY DEF IInv, PcInv
  <1>3. /\ Top.t \in Used /\ Top.idx \in Slots /\ p[Top.t].lv < Last
    BY <1>1, <1>2, TopFacts DEF FrameInv
  <1>4. Fits(p, Used, Top.t, Top.idx, Entry, made, Done)
    BY <1>1, <1>3, Facts DEF Shape, Entry
  <1>5. p[Top.t].lv # Last
    BY <1>1, <1>2, <1>3, TopFacts, VMemAssumption
  <1> QED BY <1>2, <1>4, <1>5, EntryKinds DEF Fits

LEMMA WrittenEntry ==
    ASSUME IInv, pc = "walk", Top.idx < Fanout, ~Entry.present
    PROVE  Entry = Absent
  <1>1. PICK p \in Places : PlaceInv(p)
    BY DEF IInv
  <1>2. stack # << >>
    BY DEF IInv, PcInv
  <1>3. Top.t \in Used /\ Top.idx \in Slots
    BY <1>1, <1>2, TopFacts
  <1>4. Fits(p, Used, Top.t, Top.idx, Entry, made, Done)
    BY <1>1, <1>3, Facts DEF Shape, Entry
  <1> QED BY <1>4, EntryKinds DEF Fits

LEMMA EntriesStay ==
    ASSUME IInv, [Next]_vars, ~ReplacesLargePage, NEW t \in Used, NEW k \in Slots,
           Seen(table, ktable, t, k) # Absent
    PROVE  Seen(table', ktable', t, k) = Seen(table, ktable, t, k)
  <1>1. t \in Tabs /\ table \in TableSet
    BY DEF IInv, TypeInv, TableSet, Used, Tabs
  <1>2. CASE table' = table /\ ktable' = ktable
    BY <1>2
  <1>3. ASSUME ktable' = ktable, NEW e, SetEntry(e), Entry = Absent
        PROVE  Seen(table', ktable', t, k) = Seen(table, ktable, t, k)
    <2>1. CASE t = Root
      BY <1>3, <2>1 DEF Seen
    <2>2. CASE t # Root
      <3>1. table[t][k] # Absent
        BY <2>2 DEF Seen
      <3>2. t # Top.t \/ k # Top.idx
        BY <1>3, <3>1 DEF Entry
      <3>3. table'[t][k] = table[t][k]
        BY <1>1, <1>3, <3>2 DEF SetEntry, TableSet
      <3> QED BY <2>2, <3>3 DEF Seen
    <2> QED BY <2>1, <2>2
  <1>4. CASE \E r \in Requests : vmem_map(r) \/ vmem_unmap(r)
    BY <1>2, <1>4 DEF vmem_map, vmem_unmap
  <1>5. CASE vmem_map_st
    <2>1. pc = "walk" /\ ktable' = ktable
      BY <1>5 DEF vmem_map_st
    <2>2. CASE MapLeaf
      <3>1. \/ table' = table
            \/ Top.idx < Fanout /\ ~Entry.present /\ SetEntry(Leaf(Top.lv, Top.phys))
        BY <2>2 DEF MapLeaf, Finish, Continue
      <3> QED BY <1>2, <1>3, <2>1, <3>1, WrittenEntry
    <2>3. CASE MapNode
      <3>1. table' = table
        BY <2>3 DEF MapNode, Finish, Continue, AllocTable
      <3> QED BY <1>2, <2>1, <3>1
    <2> QED BY <1>5, <2>2, <2>3 DEF vmem_map_st
  <1>6. CASE ClearTable
    <2>1. ktable' = ktable /\ t # fresh
      BY <1>6 DEF ClearTable, Used, IInv, PcInv
    <2>2. table'[t] = table[t]
      BY <1>1, <1>6, <2>1 DEF ClearTable, TableSet
    <2> QED BY <2>1, <2>2 DEF Seen
  <1>7. CASE LinkTable
    <2>1. pc = "link" /\ ktable' = ktable /\ SetEntry(Link(fresh)) /\ ~Entry.large
      BY <1>7 DEF LinkTable, ReplacesLargePage
    <2> QED BY <1>3, <2>1, LinkedEntry
  <1>8. CASE CopyToKtable
    <2>1. ktable' = table[Root] /\ table' = table
      BY <1>8 DEF CopyToKtable
    <2>2. ktable[k] = Absent \/ ktable[k] = table[Root][k]
      BY DEF IInv, KtableInv
    <2> QED BY <2>1, <2>2 DEF Seen
  <1>9. CASE Return
    BY <1>2, <1>9 DEF Return
  <1>10. CASE UNCHANGED vars
    BY <1>2, <1>10 DEF vars
  <1> QED BY <1>4, <1>5, <1>6, <1>7, <1>8, <1>9, <1>10 DEF Next

LEMMA TranslationsHold ==
    ASSUME IInv, [Next]_vars, ~ReplacesLargePage
    PROVE  TranslationsStay
  <1>1. PICK p \in Places : PlaceInv(p)
    BY DEF IInv
  <1>2. /\ Used \in SUBSET Tabs /\ Root \in Used /\ table \in TableSet /\ IsTop(table, ktable)
        /\ made \in Seq(CallSet) /\ Tree(p, Used) /\ Shape(p, Used, table, made, Done)
    BY <1>1, Facts
  <1>3. table' \in TableSet
    BY NextHolds DEF IInv, TypeInv, TableSet
  <1>4. ASSUME NEW virt \in Pages, Walk(table, ktable, virt)[0][Root] # Unmapped
        PROVE  Walk(table', ktable', virt)[0][Root] = Walk(table, ktable, virt)[0][Root]
    <2>1. virt \in Nat /\ Translates(p, Root, virt) /\ p[Root].lv = 0
      BY <1>2, RootTranslates
    <2>2. KeepsEntries(p, Used, virt, table, ktable, table', ktable')
      BY EntriesStay DEF KeepsEntries
    <2>3. KeepsWalk(p, Used, virt, Walk(table, ktable, virt), Walk(table', ktable', virt))
      BY <1>2, <1>3, <2>1, <2>2, WalkIsStable
    <2> QED BY <1>2, <1>4, <2>1, <2>3 DEF KeepsWalk
  <1> QED BY <1>4 DEF TranslationsStay, vmem_virttophys

(* vmem.c, vmem_map and vmem_unmap: no step of a call changes or removes a *)
(* translation, but for the table that replaces a large page at physical   *)
(* address 0.                                                              *)
THEOREM MappingsStay == Spec => OldMappingsStay
  <1>1. IInv /\ [Next]_vars => [~ReplacesLargePage => TranslationsStay]_vars
    BY TranslationsHold
  <1> QED BY <1>1, AlwaysIInv, PTL DEF Spec, OldMappingsStay

=============================================================================
