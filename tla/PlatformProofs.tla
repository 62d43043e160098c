--------------------------- MODULE PlatformProofs --------------------------
(***************************************************************************)
(* Proofs that a core finds its own data behind its pointers (CoreLocal),  *)
(* for every number of cores and every size of the structures, and that    *)
(* the pins of the I/O controllers are set as the firmware's tables and    *)
(* the calls say, for every table and however the accesses of the calls    *)
(* interleave (IoApic, on the cores of Platform).                          *)
(***************************************************************************)
EXTENDS Platform, FiniteSetTheorems, WellFoundedInduction, TLAPS

USE CoreLocalAssumption, CoreNameAssumption

Cell == (Cores \cup {NotSetUp}) \X (Data \cup {"other", Nothing})

TypeInv ==
    /\ pos \in Nat
    /\ ptr \in [Data -> Nat]
    /\ base \in [Cores -> Cores \cup {NoBlock, NotSetUp}]
    /\ tls \in [Cores \cup {NoBlock} -> [Offsets -> Cell]]
    /\ allocating \in [Cores -> Data \cup {Nothing}]
    /\ ready \in [Cores -> SUBSET Data]

(* Before it has a block a core has nothing; the others start last.        *)
StartInv ==
    \A c \in Cores :
        /\ base[c] \in {c, NoBlock, NotSetUp}
        /\ base[c] = NotSetUp => ready[c] = {} /\ allocating[c] = Nothing
        /\ c # BootCore => /\ base[c] # NotSetUp => ready[BootCore] = Data
                           /\ allocating[c] = Nothing

(* What the boot core allocates comes in order.                            *)
OrderInv ==
    /\ allocating[BootCore] # Nothing =>
          /\ allocating[BootCore] \notin ready[BootCore]
          /\ allocating[BootCore] # "lcl" => "lcl" \in ready[BootCore]
    /\ \A c \in Cores : ready[c] # {} => "lcl" \in ready[c]
    /\ "lcl" \in ready[BootCore] <=> pos > 0

(* The structures the boot core has are placed apart, below pos.           *)
Apart(x, y) == ptr[x] + Size[x] <= ptr[y] \/ ptr[y] + Size[y] <= ptr[x]

PlaceInv ==
    /\ \A x \in Data :
          /\ x \in ready[BootCore] =>
                /\ ptr[x] + Size[x] <= pos
                /\ x # "lcl" => ptr[x] > 0
          /\ x \notin ready[BootCore] => ptr[x] = 0
    /\ \A x, y \in ready[BootCore] : x # y => Apart(x, y)
    /\ pos > 0 => pos < TlsSize

CoreInv == TypeInv /\ StartInv /\ OrderInv /\ PlaceInv /\ OwnData

-----------------------------------------------------------------------------

LEMMA DataNames ==
    /\ Data = {"lcl", "gdt", "idt", "apic"}
    /\ Nothing \notin Data
  <1>1. Len(Order) = 4 /\ Order[1] = "lcl" /\ Order[2] = "gdt" /\ Order[3] = "idt"
            /\ Order[4] = "apic"
    BY DEF Order
  <1>2. 1 .. 4 = {1, 2, 3, 4}
    OBVIOUS
  <1>3. Data = {Order[i] : i \in {1, 2, 3, 4}}
    BY <1>1, <1>2 DEF Data
  <1>4. Data = {"lcl", "gdt", "idt", "apic"}
    BY <1>1, <1>3
  <1> QED BY <1>4 DEF Nothing

LEMMA LclIsFirst ==
    ASSUME NEW c \in Cores, NEW x \in Data, InOrder(c, x), x # "lcl"
    PROVE  "lcl" \in ready[c]
  <1>1. Len(Order) = 4 /\ Order[1] = "lcl"
    BY DEF Order
  <1>2. PICK j \in 1 .. Len(Order) : x = Order[j]
    BY DEF Data
  <1>3. 1 \in 1 .. Len(Order) /\ 1 < j
    BY <1>1, <1>2
  <1> QED BY <1>1, <1>2, <1>3 DEF InOrder

LEMMA InitCoreInv == CoreInit => CoreInv
  <1> SUFFICES ASSUME CoreInit PROVE CoreInv
    OBVIOUS
  <1> USE DEF CoreInit
  <1>1. TypeInv
    BY DEF TypeInv, Cell, NULL
  <1>2. StartInv
    BY DEF StartInv
  <1>3. OrderInv
    BY DEF OrderInv
  <1>4. PlaceInv
    BY DEF PlaceInv, NULL
  <1>5. OwnData
    BY DEF OwnData
  <1> QED BY <1>1, <1>2, <1>3, <1>4, <1>5 DEF CoreInv

(* A core writes into its own block or into the memory at 0.               *)
LEMMA WrittenCells ==
    ASSUME TypeInv, StartInv, NEW c \in Cores, base[c] # NotSetUp,
           NEW x \in Data \cup {"other"}, NEW p \in Nat, NEW n \in Nat,
           tls' = Written(c, x, p, n)
    PROVE  /\ tls' \in [Cores \cup {NoBlock} -> [Offsets -> Cell]]
           /\ \A d \in Cores, i \in Offsets :
                tls'[d][i] = IF d = c /\ base[c] = c /\ i \in p .. p + n - 1
                             THEN <<c, x>> ELSE tls[d][i]
  <1>1. base[c] \in Cores \cup {NoBlock} /\ base[c] \in {c, NoBlock} /\ NoBlock \notin Cores
    BY DEF StartInv
  <1> DEFINE block == [i \in Offsets |->
                         IF i \in p .. p + n - 1 THEN <<c, x>> ELSE tls[base[c]][i]]
  <1>2. tls' = [tls EXCEPT ![base[c]] = block]
    BY DEF Written
  <1>3. <<c, x>> \in Cell
    BY DEF Cell
  <1>4. block \in [Offsets -> Cell]
    BY <1>1, <1>3 DEF TypeInv
  <1> HIDE DEF block
  <1>5. tls' \in [Cores \cup {NoBlock} -> [Offsets -> Cell]]
    BY <1>1, <1>2, <1>4 DEF TypeInv
  <1>6. ASSUME NEW d \in Cores, NEW i \in Offsets
        PROVE  tls'[d][i] = IF d = c /\ base[c] = c /\ i \in p .. p + n - 1
                            THEN <<c, x>> ELSE tls[d][i]
    <2>1. CASE d = base[c]
      <3>1. tls'[d] = block
        BY <1>1, <1>2, <2>1 DEF TypeInv
      <3> QED BY <1>1, <2>1, <3>1 DEF block
    <2>2. CASE d # base[c]
      <3>1. tls'[d] = tls[d]
        BY <1>1, <1>2, <2>2 DEF TypeInv
      <3> QED BY <1>1, <2>2, <3>1
    <2> QED BY <2>1, <2>2
  <1> QED BY <1>5, <1>6

LEMMA SetUpStep ==
    ASSUME CoreInv, NEW c \in Cores, mp_tls_setup(c)
    PROVE  CoreInv'
  <1> USE DEF mp_tls_setup, CoreInv
  <1>1. PICK b \in {c, NoBlock} : base' = [base EXCEPT ![c] = b]
    OBVIOUS
  <1>2. TypeInv'
    BY <1>1 DEF TypeInv
  <1>3. \A d \in Cores : base'[d] = IF d = c THEN b ELSE base[d]
    BY <1>1 DEF TypeInv
  <1>4. b # NotSetUp
    BY DEF NoBlock, NotSetUp
  <1>5. StartInv'
    BY <1>3, <1>4 DEF StartInv, Started
  <1>6. OrderInv' /\ PlaceInv'
    BY DEF OrderInv, PlaceInv, Apart
  <1>7. ready[c] = {}
    BY DEF StartInv
  <1>8. OwnData'
    <2>1. SUFFICES ASSUME NEW d \in Cores, base'[d] = d, NEW y \in ready[d],
                          NEW i \in 0 .. Size[y] - 1
                   PROVE  tls[d][ptr[y] + i] = <<d, y>>
      BY DEF OwnData
    <2>2. d # c
      BY <1>7
    <2>3. base[d] = d
      BY <1>3, <2>1, <2>2
    <2> QED BY <2>3 DEF OwnData
  <1> QED BY <1>2, <1>5, <1>6, <1>8

(* Only the boot core allocates: for the others every pointer is set.      *)
LEMMA AllocateStep ==
    ASSUME CoreInv, NEW c \in Cores, NEW x \in Data,
           Idle(c), x \notin ready[c], InOrder(c, x), Allocates(c, x),
           allocating' = [allocating EXCEPT ![c] = x],
           UNCHANGED <<pos, ptr, base, tls, ready>>
    PROVE  CoreInv'
  <1> USE DEF CoreInv
  <1>1. c = BootCore
    <2>1. SUFFICES ASSUME c # BootCore PROVE FALSE
      OBVIOUS
    <2>2. ready[BootCore] = Data
      BY <2>1 DEF StartInv, Idle
    <2>3. x # "lcl" /\ ptr[x] = 0
      BY <2>1 DEF Allocates, NULL
    <2> QED BY <2>2, <2>3 DEF PlaceInv
  <1>2. TypeInv'
    BY DEF TypeInv
  <1>3. \A d \in Cores : allocating'[d] = IF d = c THEN x ELSE allocating[d]
    BY DEF TypeInv
  <1>4. StartInv'
    BY <1>1, <1>3 DEF StartInv, Idle
  <1>5. x # "lcl" => "lcl" \in ready[c]
    BY LclIsFirst
  <1>6. OrderInv'
    BY <1>1, <1>3, <1>5 DEF OrderInv
  <1>7. PlaceInv' /\ OwnData'
    BY DEF PlaceInv, Apart, OwnData
  <1> QED BY <1>2, <1>4, <1>6, <1>7

(* The pointer is set; the structure is that of the boot core's place.     *)
LEMMA FinishStep ==
    ASSUME CoreInv, NEW c \in Cores, NEW x \in Data,
           Idle(c), x \notin ready[c], InOrder(c, x), ~Allocates(c, x),
           Finish(c, x, ptr[x]),
           UNCHANGED <<pos, ptr, base, allocating>>
    PROVE  CoreInv'
  <1> USE DEF CoreInv
  <1>1. c # BootCore /\ ready[BootCore] = Data
    <2>1. c # BootCore
      <3>1. SUFFICES ASSUME c = BootCore PROVE FALSE
        OBVIOUS
      <3> QED BY <3>1 DEF Allocates, PlaceInv, NULL
    <2> QED BY <2>1 DEF StartInv, Idle
  <1>2. base[c] # NotSetUp /\ allocating[c] = Nothing
    BY DEF Idle
  <1>3. ptr[x] \in Nat /\ Size[x] \in Nat
    BY DEF TypeInv
  <1>4. /\ tls' \in [Cores \cup {NoBlock} -> [Offsets -> Cell]]
        /\ \A d \in Cores, i \in Offsets :
              tls'[d][i] = IF d = c /\ base[c] = c /\ i \in ptr[x] .. ptr[x] + Size[x] - 1
                           THEN <<c, x>> ELSE tls[d][i]
    <2>1. tls' = Written(c, x, ptr[x], Size[x])
      BY DEF Finish
    <2>2. x \in Data \cup {"other"}
      OBVIOUS
    <2>3. tls' \in [Cores \cup {NoBlock} -> [Offsets -> Cell]]
      BY <1>2, <1>3, <2>1, <2>2, WrittenCells
    <2>4. ASSUME NEW d \in Cores, NEW i \in Offsets
          PROVE  tls'[d][i] = IF d = c /\ base[c] = c /\ i \in ptr[x] .. ptr[x] + Size[x] - 1
                              THEN <<c, x>> ELSE tls[d][i]
      BY <1>2, <1>3, <2>1, <2>2, WrittenCells
    <2> QED BY <2>3, <2>4
  <1>5. \A d \in Cores : ready'[d] = IF d = c THEN ready[c] \cup {x} ELSE ready[d]
    BY DEF Finish, TypeInv
  <1>6. TypeInv'
    BY <1>4 DEF TypeInv, Finish
  <1>7. StartInv'
    BY <1>1, <1>2, <1>5 DEF StartInv
  <1>8. x # "lcl" => "lcl" \in ready[c]
    BY LclIsFirst
  <1>9. OrderInv'
    BY <1>1, <1>5, <1>8 DEF OrderInv
  <1>10. ready'[BootCore] = ready[BootCore]
    BY <1>1, <1>5
  <1>11. PlaceInv'
    BY <1>10 DEF PlaceInv, Apart
  <1>12. OwnData'
    <2>1. SUFFICES ASSUME NEW d \in Cores, base[d] = d, NEW y \in ready'[d],
                          NEW i \in 0 .. Size[y] - 1
                   PROVE  tls'[d][ptr[y] + i] = <<d, y>>
      BY DEF OwnData
    <2>2. y \in Data /\ y \in ready[BootCore]
      BY <1>1, <1>6 DEF TypeInv
    <2>3. ptr[y] \in Nat /\ Size[y] \in Nat /\ ptr[y] + Size[y] <= pos /\ pos \in Nat
      BY <2>2 DEF TypeInv, PlaceInv
    <2>4. pos < TlsSize
      BY <2>3 DEF PlaceInv
    <2>5. ptr[y] + i \in Offsets
      BY <2>3, <2>4 DEF Offsets
    <2>6. CASE y = x /\ d = c
      <3>1. ptr[y] + i \in ptr[x] .. ptr[x] + Size[x] - 1
        BY <2>3, <2>6
      <3> QED BY <1>4, <2>1, <2>5, <2>6, <3>1
    <2>7. CASE ~(y = x /\ d = c)
      <3>1. y \in ready[d]
        BY <1>5, <2>7
      <3>2. tls[d][ptr[y] + i] = <<d, y>>
        BY <2>1, <3>1 DEF OwnData
      <3>3. d = c => ptr[y] + i \notin ptr[x] .. ptr[x] + Size[x] - 1
        <4>1. SUFFICES ASSUME d = c PROVE ptr[y] + i \notin ptr[x] .. ptr[x] + Size[x] - 1
          OBVIOUS
        <4>2. Apart(x, y)
          BY <1>1, <2>2, <2>7, <4>1 DEF PlaceInv, Apart
        <4> QED BY <1>3, <2>3, <4>2 DEF Apart
      <3> QED BY <1>4, <2>5, <3>2, <3>3
    <2> QED BY <2>6, <2>7
  <1> QED BY <1>6, <1>7, <1>9, <1>11, <1>12

LEMMA InitialiseStep ==
    ASSUME CoreInv, NEW c \in Cores, NEW x \in Data, Initialise(c, x)
    PROVE  CoreInv'
  BY AllocateStep, FinishStep DEF Initialise

(* A grant lies behind everything that is placed.                          *)
LEMMA GrantKeepsOwn ==
    ASSUME CoreInv, NEW c \in Cores, base[c] # NotSetUp,
           NEW x \in Data \cup {"other"}, NEW n \in Nat,
           tls' = Written(c, x, pos, n),
           NEW d \in Cores, base[d] = d, NEW y \in ready[d],
           NEW i \in 0 .. Size[y] - 1
    PROVE  /\ ptr[y] + i \in Offsets
           /\ tls'[d][ptr[y] + i] = <<d, y>>
  <1> USE DEF CoreInv
  <1>1. y \in Data /\ y \in ready[BootCore]
    <2>1. y \in Data
      BY DEF TypeInv
    <2>2. base[d] # NotSetUp
      BY DEF NotSetUp
    <2> QED BY <2>1, <2>2 DEF StartInv
  <1>2. ptr[y] \in Nat /\ Size[y] \in Nat /\ ptr[y] + Size[y] <= pos /\ pos \in Nat
    BY <1>1 DEF TypeInv, PlaceInv
  <1>3. i \in Nat /\ i < Size[y]
    BY <1>2
  <1>4. pos < TlsSize
    BY <1>2, <1>3 DEF PlaceInv
  <1>5. ptr[y] + i \in Offsets /\ ptr[y] + i \notin pos .. pos + n - 1
    BY <1>2, <1>3, <1>4 DEF Offsets
  <1>6. tls[d][ptr[y] + i] = <<d, y>>
    BY DEF OwnData
  <1>7. pos \in Nat
    BY <1>2
  <1>8. tls'[d][ptr[y] + i] = IF d = c /\ base[c] = c /\ ptr[y] + i \in pos .. pos + n - 1
                             THEN <<c, x>> ELSE tls[d][ptr[y] + i]
    BY <1>5, <1>7, WrittenCells
  <1> QED BY <1>5, <1>6, <1>8

LEMMA OtherStep ==
    ASSUME CoreInv, NEW c \in Cores, NEW n \in Requests, OtherAlloc(c, n)
    PROVE  CoreInv'
  <1> USE DEF CoreInv
  <1>1. CASE TooLarge(n)
    <2>1. UNCHANGED <<pos, ptr, base, tls, allocating, ready>>
      BY <1>1 DEF OtherAlloc
    <2> QED BY <2>1 DEF TypeInv, StartInv, OrderInv, PlaceInv, Apart, OwnData
  <1>2. CASE ~TooLarge(n)
    <2>1. /\ pos' = pos + n /\ tls' = Written(c, "other", pos, n)
          /\ UNCHANGED <<ptr, base, allocating, ready>>
          /\ base[c] # NotSetUp /\ "lcl" \in ready[c]
      BY <1>2 DEF OtherAlloc, Idle
    <2>2. pos \in Nat /\ n \in Nat /\ n > 0 /\ pos + n < TlsSize
      BY <1>2 DEF TooLarge, TypeInv
    <2>3. tls' \in [Cores \cup {NoBlock} -> [Offsets -> Cell]]
      BY <2>1, <2>2, WrittenCells
    <2>4. TypeInv'
      BY <2>1, <2>2, <2>3 DEF TypeInv
    <2>5. StartInv'
      BY <2>1 DEF StartInv
    <2>6. "lcl" \in ready[BootCore]
      BY <2>1, DataNames DEF StartInv
    <2>7. OrderInv'
      BY <2>1, <2>2, <2>6 DEF OrderInv
    <2>8. PlaceInv'
      BY <2>1, <2>2 DEF PlaceInv, Apart, TypeInv
    <2>9. OwnData'
      <3>1. SUFFICES ASSUME NEW d \in Cores, base[d] = d, NEW y \in ready[d],
                            NEW i \in 0 .. Size[y] - 1
                     PROVE  tls'[d][ptr[y] + i] = <<d, y>>
        BY <2>1 DEF OwnData
      <3> QED BY <2>1, <2>2, <3>1, GrantKeepsOwn
    <2> QED BY <2>4, <2>5, <2>7, <2>8, <2>9
  <1> QED BY <1>1, <1>2

(* The new structure lies behind all others, below the end of the block.   *)
LEMMA AllocStep ==
    ASSUME CoreInv, NEW c \in Cores, mp_tls_alloc(c)
    PROVE  CoreInv'
  <1> USE DEF CoreInv
  <1> DEFINE x == allocating[c]
  <1>1. x \in Data /\ c = BootCore /\ base[c] # NotSetUp
    BY DEF mp_tls_alloc, StartInv, TypeInv
  <1>2. CASE TooLarge(Size[x])
    <2>1. UNCHANGED <<pos, ptr, base, tls, allocating, ready>>
      BY <1>2 DEF mp_tls_alloc
    <2> QED BY <2>1 DEF TypeInv, StartInv, OrderInv, PlaceInv, Apart, OwnData
  <1>3. CASE ~TooLarge(Size[x])
    <2>1. /\ pos' = pos + Size[x] /\ ptr' = [ptr EXCEPT ![x] = mp_tls_get(pos)]
          /\ Finish(c, x, pos)
          /\ allocating' = [allocating EXCEPT ![c] = Nothing]
          /\ base' = base
      BY <1>3 DEF mp_tls_alloc
    <2>2. pos \in Nat /\ Size[x] \in Nat /\ Size[x] > 0 /\ pos + Size[x] < TlsSize
      BY <1>1, <1>3 DEF TooLarge, TypeInv
    <2>3. mp_tls_get(pos) = pos
      BY <2>2 DEF mp_tls_get
    <2>4. \A y \in Data : ptr'[y] = IF y = x THEN pos ELSE ptr[y]
      BY <2>1, <2>3 DEF TypeInv
    <2>5. \A d \in Cores : ready'[d] = IF d = c THEN ready[c] \cup {x} ELSE ready[d]
      BY <2>1 DEF Finish, TypeInv
    <2>6. \A d \in Cores : allocating'[d] = IF d = c THEN Nothing ELSE allocating[d]
      BY <2>1 DEF TypeInv
    <2>7. tls' = Written(c, x, pos, Size[x])
      BY <2>1 DEF Finish
    <2>8. x \in Data \cup {"other"}
      BY <1>1
    <2>9. tls' \in [Cores \cup {NoBlock} -> [Offsets -> Cell]]
      BY <1>1, <2>2, <2>7, <2>8, WrittenCells
    <2>10. TypeInv'
      <3>1. ptr' \in [Data -> Nat]
        BY <2>1, <2>2, <2>3 DEF TypeInv
      <3>2. ready' \in [Cores -> SUBSET Data]
        BY <1>1, <2>1 DEF Finish, TypeInv
      <3>3. allocating' \in [Cores -> Data \cup {Nothing}]
        BY <2>1 DEF TypeInv
      <3> QED BY <2>1, <2>2, <2>9, <3>1, <3>2, <3>3 DEF TypeInv
    <2>11. StartInv'
      BY <1>1, <2>1, <2>5, <2>6 DEF StartInv
    <2>12. x \notin ready[c] /\ (x # "lcl" => "lcl" \in ready[c])
      <3>1. allocating[BootCore] # Nothing
        BY <1>1, DataNames
      <3> QED BY <1>1, <3>1 DEF OrderInv
    <2>13. OrderInv'
      BY <1>1, <2>1, <2>2, <2>5, <2>6, <2>12 DEF OrderInv
    <2>14. PlaceInv'
      <3>1. ASSUME NEW y \in Data
            PROVE  /\ y \in ready'[BootCore] =>
                         /\ ptr'[y] + Size[y] <= pos'
                         /\ y # "lcl" => ptr'[y] > 0
                   /\ y \notin ready'[BootCore] => ptr'[y] = 0
        <4>1. CASE y = x
          <5>1. ptr'[y] = pos /\ y \in ready'[BootCore]
            BY <1>1, <2>4, <2>5, <4>1
          <5>2. y # "lcl" => pos > 0
            BY <1>1, <2>12, <4>1 DEF OrderInv
          <5> QED BY <2>1, <2>2, <4>1, <5>1, <5>2
        <4>2. CASE y # x
          <5>1. ptr'[y] = ptr[y] /\ (y \in ready'[BootCore] <=> y \in ready[BootCore])
            BY <1>1, <2>4, <2>5, <4>2
          <5>2. ptr[y] \in Nat /\ Size[y] \in Nat
            BY DEF TypeInv
          <5> QED BY <2>1, <2>2, <5>1, <5>2 DEF PlaceInv
        <4> QED BY <4>1, <4>2
      <3>2. ASSUME NEW y \in ready'[BootCore], NEW z \in ready'[BootCore], y # z
            PROVE  Apart(y, z)'
        <4>1. y \in Data /\ z \in Data
          BY <2>10 DEF TypeInv
        <4>2. ptr[y] \in Nat /\ Size[y] \in Nat /\ ptr[z] \in Nat /\ Size[z] \in Nat
          BY <4>1 DEF TypeInv
        <4>3. CASE y = x
          <5>1. z \in ready[BootCore] /\ z # x
            BY <1>1, <2>5, <3>2, <4>3
          <5>2. ptr[z] + Size[z] <= pos /\ ptr'[z] = ptr[z] /\ ptr'[y] = pos
            BY <2>4, <4>1, <4>3, <5>1 DEF PlaceInv
          <5> QED BY <5>2 DEF Apart
        <4>4. CASE z = x
          <5>1. y \in ready[BootCore] /\ y # x
            BY <1>1, <2>5, <3>2, <4>4
          <5>2. ptr[y] + Size[y] <= pos /\ ptr'[y] = ptr[y] /\ ptr'[z] = pos
            BY <2>4, <4>1, <4>4, <5>1 DEF PlaceInv
          <5> QED BY <5>2 DEF Apart
        <4>5. CASE y # x /\ z # x
          <5>1. y \in ready[BootCore] /\ z \in ready[BootCore]
            BY <1>1, <2>5, <4>5
          <5>2. Apart(y, z)
            BY <3>2, <5>1 DEF PlaceInv
          <5>3. ptr'[y] = ptr[y] /\ ptr'[z] = ptr[z]
            BY <2>4, <4>1, <4>5
          <5> QED BY <5>2, <5>3 DEF Apart
        <4> QED BY <4>3, <4>4, <4>5
      <3>3. pos' < TlsSize
        BY <2>1, <2>2
      <3> QED BY <3>1, <3>2, <3>3 DEF PlaceInv
    <2>15. OwnData'
      <3>1. SUFFICES ASSUME NEW d \in Cores, base[d] = d, NEW y \in ready'[d],
                            NEW i \in 0 .. Size[y] - 1
                     PROVE  tls'[d][ptr'[y] + i] = <<d, y>>
        BY <2>1 DEF OwnData
      <3>2. y \in Data
        BY <2>10 DEF TypeInv
      <3>3. CASE y \in ready[d]
        <4>1. y \in ready[BootCore]
          <5>1. base[d] # NotSetUp
            BY <3>1
          <5> QED BY <3>2, <3>3, <5>1 DEF StartInv
        <4>2. ptr'[y] = ptr[y]
          BY <1>1, <2>4, <2>12, <3>2, <4>1
        <4>3. y \in ready[d] /\ base[d] = d
          BY <3>1, <3>3
        <4>4. tls'[d][ptr[y] + i] = <<d, y>>
          BY <1>1, <2>2, <2>7, <2>8, <4>3, GrantKeepsOwn
        <4> QED BY <4>2, <4>4
      <3>4. CASE y \notin ready[d]
        <4>1. y = x /\ d = c
          BY <2>5, <3>1, <3>4
        <4>2. ptr'[y] = pos
          BY <2>4, <3>2, <4>1
        <4>3. i \in Nat /\ i < Size[x]
          BY <2>2, <3>1, <4>1
        <4>4. pos + i \in Offsets /\ pos + i \in pos .. pos + Size[x] - 1
          BY <2>2, <4>3 DEF Offsets
        <4>5. tls'[d][pos + i] = IF d = c /\ base[c] = c /\ pos + i \in pos .. pos + Size[x] - 1
                                 THEN <<c, x>> ELSE tls[d][pos + i]
          BY <1>1, <2>2, <2>7, <2>8, <4>4, WrittenCells
        <4> QED BY <3>1, <4>1, <4>2, <4>4, <4>5
      <3> QED BY <3>3, <3>4
    <2> QED BY <2>10, <2>11, <2>13, <2>14, <2>15
  <1> QED BY <1>2, <1>3

LEMMA StepCoreInv == CoreInv /\ [CoreNext]_coreVars => CoreInv'
  <1> SUFFICES ASSUME CoreInv, [CoreNext]_coreVars PROVE CoreInv'
    OBVIOUS
  <1>1. CASE UNCHANGED coreVars
    BY <1>1 DEF coreVars, CoreInv, TypeInv, StartInv, OrderInv, PlaceInv, Apart, OwnData
  <1>2. ASSUME NEW c \in Cores, mp_tls_setup(c) PROVE CoreInv'
    BY <1>2, SetUpStep
  <1>3. ASSUME NEW c \in Cores, NEW x \in Data, Initialise(c, x) PROVE CoreInv'
    BY <1>3, InitialiseStep
  <1>4. ASSUME NEW c \in Cores, mp_tls_alloc(c) PROVE CoreInv'
    BY <1>4, AllocStep
  <1>5. ASSUME NEW c \in Cores, NEW n \in Requests, OtherAlloc(c, n) PROVE CoreInv'
    BY <1>5, OtherStep
  <1> QED BY <1>1, <1>2, <1>3, <1>4, <1>5 DEF CoreNext

(* However the starts of the cores interleave, with each core setting up   *)
(* its structures in the order of main.c, a core that has a block finds    *)
(* its own structures behind the pointers, where it has put them.          *)
THEOREM OwnDataStays == CoreSpec => []OwnData
  <1>1. CoreInv => OwnData
    BY DEF CoreInv
  <1> QED BY <1>1, InitCoreInv, StepCoreInv, PTL DEF CoreSpec

-----------------------------------------------------------------------------
(* The invariant of the I/O interrupt controllers.                         *)

Count(n) == Cardinality(Listed(n))

(* The overrides among the first n entries that are for a pin, and what a  *)
(* pin is to be after them, with the mask.                                 *)
Over(q, n) ==
    {i \in 1 .. n : /\ TheTable[i].type = "override"
                    /\ TheTable[i].line = Controllers[q[1]].base + q[2]
                    /\ q \in Meant(TheTable[i].line)}

After(q, n, mask) ==
    IF Over(q, n) = {} THEN Entry(Controllers[q[1]].base + q[2] + 32, 0, 0, mask, BootCore)
    ELSE Entry(TheTable[Max(Over(q, n))].src + 32, 0, 0, mask, BootCore)

(* The first loop is within the pins of a controller.                      *)
Begun == phase = "pins" /\ (pin > 0 \/ open # << >>)

(* How many controllers have joined, how many of the pins of the k-th are  *)
(* mapped, and how many entries the second loop has taken into account.    *)
Joined ==
    IF phase = "pins" THEN Count(IF Begun THEN off ELSE off - 1) ELSE Count(Len(TheTable))

Mapped(k) ==
    IF Begun /\ k = Joined THEN IF open = << >> THEN pin ELSE pin + 1
    ELSE Controllers[k].redirs

Seen == IF phase = "pins" THEN 0 ELSE IF open = << >> THEN off - 1 ELSE off

(* ioapic_init has set up the controllers.                                 *)
Ended == phase \in {"done", "wild"}

FoundInv ==
    /\ system \in Systems
    /\ phase \in {"start", "pins", "overrides", "done", "failed", "fault", "wild"}
    /\ phase = "failed" => TheTable = << >>
    /\ phase = "fault" => system.xsdt # Zero /\ ~system.xsdt.ok
    /\ phase \in {"pins", "overrides"} => madt = TheTable

LoopInv ==
    /\ off \in 1 .. Len(TheTable) + 1 /\ pin \in Nat
    /\ phase \notin {"pins", "overrides"} => open = << >> /\ off = 1
    /\ phase # "pins" => pin = 0
    /\ Begun => /\ off <= Len(TheTable) /\ TheTable[off].type = "ioapic"
                /\ pin < TheTable[off].redirs
    /\ phase = "pins" /\ open # << >> => open = <<Joined, pin>>
    /\ phase = "overrides" /\ open # << >> =>
          /\ off <= Len(TheTable) /\ TheTable[off].type = "override"
          /\ open \in Meant(TheTable[off].line)

ListInv ==
    /\ phase \in {"start", "failed", "fault"} => ioapics = << >>
    /\ phase \in {"pins", "overrides", "done", "wild"} =>
          /\ ioapics = [k \in 1 .. Joined |-> Controllers[k]]
          /\ \A k \in 1 .. Joined : /\ Controllers[k].base \in Nat
                                   /\ Controllers[k].redirs \in Nat \ {0}

MappedPins == UNION {{<<k, p>> : p \in 0 .. Mapped(k) - 1} : k \in 1 .. Joined}

(* Every mapped pin is as the entries so far say, but an open one.         *)
PinsInv ==
    /\ phase \in {"start", "failed", "fault"} => DOMAIN pins = {}
    /\ phase \in {"pins", "overrides", "done", "wild"} =>
          DOMAIN pins = MappedPins
    /\ phase \in {"pins", "overrides"} =>
          \A q \in DOMAIN pins :
             pins[q] = IF q = open THEN After(q, Seen, FALSE) ELSE After(q, Seen, TRUE)

(* What a pin is to be once the tables are read.                           *)
Want(q) == IF q \in DOMAIN asked THEN asked[q] ELSE After(q, Len(TheTable), TRUE)

IsEntry(e) ==
    e = [vector |-> e.vector, low |-> e.low, level |-> e.level, mask |-> e.mask, dest |-> e.dest]

IsCall(call) ==
    /\ call = [pin |-> call.pin, maps |-> call.maps, entry |-> call.entry, at |-> call.at,
               word |-> call.word, alone |-> call.alone]
    /\ call.at \in 1 .. 8
    /\ ~call.maps => call.at >= 5
    /\ IsEntry(call.entry) /\ IsEntry(call.word)

(* The pins that calls are at, or may have spoiled.                        *)
Busy == mixed \cup {calls[c].pin : c \in DOMAIN calls}

(* Between an access to the index register and that to the data register   *)
(* after it, a pin is selected that is not at rest; and that of the call,  *)
(* if the call has the registers to itself.                                *)
SelectedInv(c) ==
    calls[c].at \in {2, 4, 6, 8} =>
        /\ calls[c].pin[1] \in DOMAIN index /\ Selected(c).pin \in Busy
        /\ calls[c].alone => Selected(c) = [part |-> Part(calls[c].at), pin |-> calls[c].pin]

(* What a call that has the registers to itself has done to its pin.       *)
AloneInv(c) ==
    calls[c].alone =>
        /\ DOMAIN calls = {c}
        /\ calls[c].maps => /\ calls[c].entry.dest = c
                            /\ calls[c].at >= 5 => pins[calls[c].pin].dest = c
        /\ ~calls[c].maps /\ calls[c].pin \notin mixed =>
              /\ pins[calls[c].pin] = Want(calls[c].pin)
              /\ calls[c].at \in {7, 8} =>
                    calls[c].word = [Want(calls[c].pin) EXCEPT !.dest = 0]

OneCall(c) == IsCall(calls[c]) /\ SelectedInv(c) /\ AloneInv(c)

AskedInv ==
    /\ ~Ended => DOMAIN asked = {} /\ DOMAIN calls = {} /\ mixed = {}
    /\ Ended => /\ Busy \subseteq DOMAIN pins
                /\ \A q \in DOMAIN pins : IsEntry(pins[q]) /\ IsEntry(Want(q))
                /\ \A q \in DOMAIN pins \ Busy : pins[q] = Want(q)
    /\ \A c \in DOMAIN calls : OneCall(c)

IoInv == FoundInv /\ LoopInv /\ ListInv /\ PinsInv /\ AskedInv

LEMMA LeastOne ==
    ASSUME NEW S \in SUBSET Nat, S # {}
    PROVE  Min(S) \in S /\ \A y \in S : Min(S) <= y
  <1> DEFINE Below == {ss \in Nat \X Nat : ss[1] < ss[2]}
  <1>1. IsWellFoundedOn(Below, Nat)
    BY NatLessThanWellFounded, Zenon DEF OpToRel
  <1> HIDE DEF Below
  <1>2. PICK x \in S : \A y \in S : ~(<<y, x>> \in Below)
    BY <1>1, WFMin, Zenon
  <1>3. ASSUME NEW y \in S PROVE x <= y
    <2>1. <<y, x>> \in Nat \X Nat /\ <<y, x>>[1] = y /\ <<y, x>>[2] = x
      OBVIOUS
    <2>2. ~(y < x)
      BY <1>2, <2>1, Zenon DEF Below
    <2>3. x \in Nat /\ y \in Nat
      OBVIOUS
    <2> QED BY <2>2, <2>3
  <1> QED BY <1>3 DEF Min

Valid(root) ==
    {i \in 1 .. Len(root.entries) :
        root.entries[i] # Zero /\ root.entries[i].sig = "APIC" /\ root.entries[i].ok}

LEMMA FirstIsValid ==
    ASSUME NEW root, IsRoot(root)
    PROVE  /\ Valid(root) = {} => FirstMatch(root) = Zero
           /\ Valid(root) # {} =>
                 /\ FirstMatch(root) = root.entries[Min(Valid(root))]
                 /\ FirstMatch(root) \notin {Zero, Wild}
                 /\ IsMadt(FirstMatch(root).entries)
  <1>1. FirstMatch(root) = IF Valid(root) = {} THEN Zero ELSE root.entries[Min(Valid(root))]
    BY DEF FirstMatch, Valid, Matches
  <1>2. ASSUME Valid(root) # {}
        PROVE  /\ Min(Valid(root)) \in Valid(root)
               /\ Min(Valid(root)) \in DOMAIN root.entries
    <2>1. Valid(root) \in SUBSET Nat
      BY DEF Valid
    <2>2. Min(Valid(root)) \in Valid(root)
      BY <1>2, <2>1, LeastOne
    <2>3. DOMAIN root.entries = 1 .. Len(root.entries)
      BY DEF IsRoot, IsList
    <2> QED BY <2>2, <2>3 DEF Valid
  <1> QED BY <1>1, <1>2 DEF IsRoot, Valid

(* What acpi_find finds is the table the properties speak of.              *)
LEMMA FindIsRight ==
    ASSUME system \in Systems
    PROVE  /\ acpi_find = Zero => TheTable = << >>
           /\ acpi_find = Wild => system.xsdt # Zero /\ ~system.xsdt.ok
           /\ acpi_find \notin {Zero, Wild} => acpi_find.entries = TheTable
           /\ IsMadt(TheTable)
  <1>1. IsRoot(system.rsdt) /\ (system.xsdt # Zero => IsRoot(system.xsdt)) /\ Zero # Wild
    BY FirmwareAssumption
  <1> DEFINE root == IF system.revision = 0 \/ system.xsdt = Zero THEN system.rsdt ELSE system.xsdt
  <1>2. IsRoot(root)
    BY <1>1
  <1>3. TheTable = IF root.ok /\ Valid(root) # {} THEN root.entries[Min(Valid(root))].entries
                   ELSE << >>
    BY DEF TheTable, Valid
  <1>4. acpi_find = IF root.ok THEN FirstMatch(root)
                    ELSE IF root = system.xsdt /\ system.revision # 0 /\ system.xsdt # Zero
                         THEN Wild ELSE Zero
    BY DEF acpi_find
  <1>5. IsMadt(<< >>)
    BY DEF IsMadt, IsList
  <1> HIDE DEF root
  <1>6. IsMadt(TheTable)
    BY <1>2, <1>3, <1>5, FirstIsValid
  <1> QED BY <1>1, <1>2, <1>3, <1>4, <1>6, FirstIsValid

-----------------------------------------------------------------------------
(* The list of the controllers.                                            *)

LEMMA CountZero == Listed(0) = {} /\ Count(0) = 0
  <1>1. Listed(0) = {}
    BY DEF Listed
  <1> QED BY <1>1, FS_EmptySet DEF Count

LEMMA CountType ==
    ASSUME NEW n \in Nat
    PROVE  IsFiniteSet(Listed(n)) /\ Count(n) \in Nat
  <1>1. IsFiniteSet(1 .. n)
    BY FS_Interval
  <1>2. Listed(n) \subseteq 1 .. n
    BY DEF Listed
  <1> QED BY <1>1, <1>2, FS_Subset, FS_CardinalityType DEF Count

LEMMA CountStep ==
    ASSUME NEW n \in Nat \ {0}
    PROVE  Count(n) = IF TheTable[n].type = "ioapic" THEN Count(n - 1) + 1 ELSE Count(n - 1)
  <1>1. n - 1 \in Nat /\ 1 .. n = (1 .. n - 1) \cup {n} /\ n \notin 1 .. n - 1
    OBVIOUS
  <1>2. Listed(n) = IF TheTable[n].type = "ioapic" THEN Listed(n - 1) \cup {n} ELSE Listed(n - 1)
    BY <1>1 DEF Listed
  <1>3. n \notin Listed(n - 1)
    BY <1>1 DEF Listed
  <1>4. Cardinality(Listed(n - 1) \cup {n}) = Cardinality(Listed(n - 1)) + 1
    BY <1>1, <1>3, CountType, FS_AddElement
  <1> QED BY <1>2, <1>4 DEF Count

LEMMA CountGrows ==
    ASSUME NEW m \in Nat, NEW n \in Nat, m <= n
    PROVE  Count(m) <= Count(n)
  <1>1. Listed(m) \subseteq Listed(n)
    BY DEF Listed
  <1> QED BY <1>1, CountType, FS_Subset DEF Count

(* A controller's place in the list is that of its entry in the table.     *)
LEMMA ListedOnce ==
    ASSUME NEW n \in 1 .. Len(TheTable), Len(TheTable) \in Nat, TheTable[n].type = "ioapic"
    PROVE  /\ Count(n) \in 1 .. Count(Len(TheTable))
           /\ Controllers[Count(n)] = TheTable[n]
  <1> DEFINE len == Len(TheTable)
  <1>1. n \in Listed(len) /\ n \in Nat \ {0} /\ n - 1 \in Nat /\ n <= len
    BY DEF Listed
  <1>2. Count(n) = Count(n - 1) + 1 /\ Count(n - 1) \in Nat /\ Count(len) \in Nat
    BY <1>1, CountStep, CountType
  <1>3. Count(n) <= Count(len)
    BY <1>1, CountGrows
  <1>4. Count(n) \in 1 .. Count(len)
    BY <1>2, <1>3
  <1>5. ASSUME NEW i \in Listed(len), Count(i) = Count(n) PROVE i = n
    <2>1. i \in Nat \ {0} /\ i - 1 \in Nat /\ TheTable[i].type = "ioapic"
      BY DEF Listed
    <2>2. Count(i) = Count(i - 1) + 1 /\ Count(i - 1) \in Nat
      BY <2>1, CountStep, CountType
    <2>3. CASE i < n
      <3>1. i <= n - 1
        BY <1>1, <2>1, <2>3
      <3>2. Count(i) <= Count(n - 1)
        BY <1>1, <2>1, <3>1, CountGrows
      <3> QED BY <1>2, <1>5, <2>2, <3>2
    <2>4. CASE n < i
      <3>1. n <= i - 1
        BY <1>1, <2>1, <2>4
      <3>2. Count(n) <= Count(i - 1)
        BY <1>1, <2>1, <3>1, CountGrows
      <3> QED BY <1>2, <1>5, <2>2, <3>2
    <2> QED BY <1>1, <2>1, <2>3, <2>4
  <1> DEFINE numbers == 1 .. Count(len)
  <1>6. /\ DOMAIN Place = Listed(len)
        /\ \A i \in Listed(len) : Place[i] = Count(i)
    BY Zenon DEF Place, Count
  <1>7. Count(n) \in Range(Place)
    BY <1>1, <1>6 DEF Range
  <1>8. \A s \in DOMAIN Place :
           (Count(n) \in Range(Place) => Place[s] = Count(n)) <=> s = n
    BY <1>1, <1>5, <1>6, <1>7
  <1>9. n \in DOMAIN Place
    BY <1>1, <1>6
  <1>10. Inverse(Place, DOMAIN Place, numbers)[Count(n)] = n
    BY <1>4, <1>8, <1>9 DEF Inverse
  <1>11. Controllers = [k \in numbers |-> TheTable[Inverse(Place, DOMAIN Place, numbers)[k]]]
    BY Zenon DEF Controllers, Count
  <1>12. Controllers[Count(n)] = TheTable[n]
    BY <1>4, <1>10, <1>11
  <1> QED BY <1>4, <1>12

LEMMA ControllersWhole == Controllers = [k \in 1 .. Count(Len(TheTable)) |-> Controllers[k]]
  BY DEF Controllers, Count

LEMMA OneMore ==
    ASSUME NEW C, NEW n \in Nat, NEW s, s = [k \in 1 .. n |-> C[k]]
    PROVE  /\ Len(s) = n
           /\ Append(s, C[n + 1]) = [k \in 1 .. n + 1 |-> C[k]]
  <1>1. s \in Seq({C[k] : k \in 1 .. n})
    OBVIOUS
  <1>2. Len(s) = n
    OBVIOUS
  <1> QED BY <1>1, <1>2

-----------------------------------------------------------------------------
(* What a pin is to be.                                                    *)

LEMMA AfterIsEntry ==
    ASSUME NEW q, NEW n
    PROVE  \E v, low, level :
              \A mask : After(q, n, mask) = Entry(v, low, level, mask, BootCore)
  <1>1. CASE Over(q, n) = {}
    BY <1>1, Zenon DEF After
  <1>2. CASE Over(q, n) # {}
    BY <1>2, Zenon DEF After
  <1> QED BY <1>1, <1>2

LEMMA MaskOfEntry ==
    ASSUME NEW q, NEW n, NEW mask
    PROVE  After(q, n, mask).mask = mask
  <1>1. PICK v, low, level : \A m : After(q, n, m) = Entry(v, low, level, m, BootCore)
    BY AfterIsEntry
  <1> QED BY <1>1 DEF Entry

LEMMA AfterShape ==
    ASSUME NEW q, NEW n, NEW mask
    PROVE  IsEntry(After(q, n, mask))
  <1>1. PICK v, low, level : \A m : After(q, n, m) = Entry(v, low, level, m, BootCore)
    BY AfterIsEntry
  <1> QED BY <1>1 DEF Entry, IsEntry

LEMMA SetMask ==
    ASSUME NEW q \in DOMAIN pins, NEW mask, ioapic_setmask(q, mask),
           NEW n, NEW m, pins[q] = After(q, n, m)
    PROVE  pins'[q] = After(q, n, mask)
  <1>1. PICK v, low, level : \A k : After(q, n, k) = Entry(v, low, level, k, BootCore)
    BY AfterIsEntry
  <1>2. pins[q] = [vector |-> v % 256, low |-> low % 2, level |-> level % 2, mask |-> m,
                 dest |-> BootCore]
    BY <1>1 DEF Entry
  <1>3. pins'[q] = [pins[q] EXCEPT !.mask = mask]
    BY DEF ioapic_setmask
  <1>4. pins'[q] = Entry(v, low, level, mask, BootCore)
    BY <1>2, <1>3 DEF Entry
  <1> QED BY <1>1, <1>4

LEMMA AfterNone ==
    ASSUME NEW q, NEW mask
    PROVE  After(q, 0, mask)
              = Entry(Controllers[q[1]].base + q[2] + 32, 0, 0, mask, BootCore)
  <1>1. Over(q, 0) = {}
    BY DEF Over
  <1> QED BY <1>1, Zenon DEF After

LEMMA AfterOther ==
    ASSUME NEW q, NEW n \in Nat \ {0}, NEW mask,
           TheTable[n].type = "override" => q \notin Meant(TheTable[n].line)
    PROVE  After(q, n, mask) = After(q, n - 1, mask)
  <1>1. 1 .. n = (1 .. n - 1) \cup {n}
    OBVIOUS
  <1>2. Over(q, n) = Over(q, n - 1)
    BY <1>1 DEF Over
  <1> QED BY <1>2, Zenon DEF After

LEMMA AfterOverride ==
    ASSUME NEW q, NEW n \in Nat \ {0}, NEW mask, TheTable[n].type = "override",
           q \in Meant(TheTable[n].line), TheTable[n].line = Controllers[q[1]].base + q[2]
    PROVE  After(q, n, mask) = Entry(TheTable[n].src + 32, 0, 0, mask, BootCore)
  <1>1. n \in Over(q, n) /\ \A i \in Over(q, n) : i \in Nat /\ i <= n
    BY DEF Over
  <1>2. ASSUME NEW x \in Over(q, n), \A y \in Over(q, n) : x >= y PROVE x = n
    BY <1>1, <1>2
  <1>3. \A y \in Over(q, n) : n >= y
    BY <1>1
  <1>4. Max(Over(q, n)) = n
    BY <1>1, <1>2, <1>3 DEF Max
  <1> QED BY <1>1, <1>4, Zenon DEF After

(* The flags of an override have bits that the registers do not keep.      *)
LEMMA FlagsAreLost ==
    ASSUME NEW flags \in Nat
    PROVE  And(flags, 2) % 2 = 0 /\ And(flags, 8) % 2 = 0 /\ 0 % 2 = 0
  <1>1. PICK x, y : x = (flags \div 2) % 2 /\ y = (flags \div 8) % 2
    OBVIOUS
  <1>2. x \in 0 .. 1 /\ y \in 0 .. 1
    BY <1>1
  <1>3. (2 * x) % 2 = 0 /\ (8 * y) % 2 = 0 /\ 0 % 2 = 0
    BY <1>2
  <1> QED BY <1>1, <1>3, Zenon DEF And

(* The pin an override takes is the one its line means.                    *)
LEMMA MeantIsServed ==
    ASSUME ioapics = Controllers, NEW line \in Nat,
           \A k \in 1 .. Len(Controllers) :
              Controllers[k].base \in Nat /\ Controllers[k].redirs \in Nat \ {0}
    PROVE  LET k == Min(Serving(line))
           IN  /\ Serving(line) = {} => Meant(line) = {}
               /\ Serving(line) # {} =>
                     /\ k \in Serving(line) /\ k \in 1 .. Len(Controllers)
                     /\ Meant(line) = {<<k, line - ioapics[k].base>>}
                     /\ ioapics[k].base + (line - ioapics[k].base) = line
                     /\ line - ioapics[k].base \in 0 .. ioapics[k].redirs - 1
  <1> DEFINE having == {k \in 1 .. Len(Controllers) :
                          line - Controllers[k].base \in 0 .. Controllers[k].redirs - 1}
             k == Min(Serving(line))
  <1>1. ASSUME NEW j \in 1 .. Len(Controllers)
        PROVE  /\ line - Controllers[j].base \in 0 .. Controllers[j].redirs - 1
                    <=> Serves(ioapics[j], line)
               /\ ioapics[j].base + (line - ioapics[j].base) = line
    BY DEF Serves
  <1>2. Serving(line) = having
    BY <1>1 DEF Serving
  <1>3. Meant(line) = {<<j, line - Controllers[j].base>> : j \in {i \in having : i = Min(having)}}
    BY DEF Meant
  <1>4. having \in SUBSET Nat
    OBVIOUS
  <1> HIDE DEF having
  <1>5. CASE Serving(line) = {}
    BY <1>2, <1>3, <1>5
  <1>6. CASE Serving(line) # {}
    <2>1. k \in having
      BY <1>2, <1>4, <1>6, LeastOne
    <2>2. {i \in having : i = Min(having)} = {k}
      BY <1>2, <2>1
    <2>3. Meant(line) = {<<k, line - ioapics[k].base>>}
      BY <1>3, <2>2
    <2>4. k \in 1 .. Len(Controllers) /\ line - ioapics[k].base \in 0 .. ioapics[k].redirs - 1
      BY <2>1 DEF having
    <2> QED BY <1>1, <1>2, <1>6, <2>1, <2>3, <2>4
  <1> QED BY <1>5, <1>6

-----------------------------------------------------------------------------
(* The firmware does not change, and what is said of its tables does not.  *)

LEMMA Lasting ==
    ASSUME system' = system
    PROVE  /\ TheTable' = TheTable /\ Controllers' = Controllers /\ AllPins' = AllPins
           /\ \A n : Count(n)' = Count(n)
           /\ \A q, n, mask : After(q, n, mask)' = After(q, n, mask)
           /\ \A line : Meant(line)' = Meant(line)
  <1>1. TheTable' = TheTable
    BY Zenon DEF TheTable
  <1>2. ASSUME NEW n PROVE Listed(n)' = Listed(n)
    BY <1>1 DEF Listed
  <1>3. ASSUME NEW n PROVE Count(n)' = Count(n)
    BY <1>2, Zenon DEF Count
  <1>4. Controllers' = Controllers
    <2>1. Listed(Len(TheTable))' = Listed(Len(TheTable))
      BY <1>1 DEF Listed
    <2>2. Place' = Place
      BY <1>2, <2>1 DEF Place
    <2> QED BY <1>1, <2>1, <2>2, Zenon DEF Controllers
  <1>5. ASSUME NEW line PROVE Meant(line)' = Meant(line)
    BY <1>4, Zenon DEF Meant
  <1>6. ASSUME NEW q, NEW n, NEW mask PROVE After(q, n, mask)' = After(q, n, mask)
    <2>1. Over(q, n)' = Over(q, n)
      BY <1>1, <1>4, <1>5 DEF Over
    <2> QED BY <1>1, <1>4, <2>1, Zenon DEF After
  <1>7. AllPins' = AllPins
    BY <1>4 DEF AllPins
  <1> QED BY <1>1, <1>3, <1>4, <1>5, <1>6, <1>7

LEMMA LoopAfter ==
    ASSUME system' = system
    PROVE  /\ Begun' <=> phase' = "pins" /\ (pin' > 0 \/ open' # << >>)
           /\ Joined' = IF phase' = "pins" THEN Count(IF Begun' THEN off' ELSE off' - 1)
                        ELSE Count(Len(TheTable))
           /\ \A k : Mapped(k)' = IF Begun' /\ k = Joined'
                                  THEN IF open' = << >> THEN pin' ELSE pin' + 1
                                  ELSE Controllers[k].redirs
           /\ Seen' = IF phase' = "pins" THEN 0 ELSE IF open' = << >> THEN off' - 1 ELSE off'
  <1>1. TheTable' = TheTable /\ Controllers' = Controllers /\ \A n : Count(n)' = Count(n)
    BY Lasting
  <1>2. Begun' <=> phase' = "pins" /\ (pin' > 0 \/ open' # << >>)
    BY DEF Begun
  <1>3. Seen' = IF phase' = "pins" THEN 0 ELSE IF open' = << >> THEN off' - 1 ELSE off'
    BY DEF Seen
  <1>4. Joined' = IF phase' = "pins" THEN Count(IF Begun' THEN off' ELSE off' - 1)
                  ELSE Count(Len(TheTable))
    BY <1>1 DEF Joined
  <1>5. ASSUME NEW k
        PROVE  Mapped(k)' = IF Begun' /\ k = Joined'
                            THEN IF open' = << >> THEN pin' ELSE pin' + 1
                            ELSE Controllers[k].redirs
    BY <1>1 DEF Mapped
  <1> QED BY <1>2, <1>3, <1>4, <1>5

LEMMA TheTableIsMadt ==
    ASSUME FoundInv
    PROVE  /\ Len(TheTable) \in Nat /\ DOMAIN TheTable = 1 .. Len(TheTable)
           /\ \A i \in 1 .. Len(TheTable) :
                 /\ TheTable[i].type = "ioapic" =>
                       TheTable[i].base \in Nat /\ TheTable[i].redirs \in Nat \ {0}
                 /\ TheTable[i].type = "override" =>
                       TheTable[i].line \in Nat /\ TheTable[i].flags \in Nat
  <1>1. IsMadt(TheTable)
    BY FindIsRight DEF FoundInv
  <1> QED BY <1>1 DEF IsMadt, IsList

LEMMA IoStays == IoInv /\ UNCHANGED ioVars => IoInv'
  <1> SUFFICES ASSUME IoInv, UNCHANGED ioVars PROVE IoInv'
    OBVIOUS
  <1>1. /\ system' = system /\ phase' = phase /\ madt' = madt /\ off' = off /\ pin' = pin
        /\ open' = open /\ ioapics' = ioapics /\ pins' = pins
        /\ index' = index /\ calls' = calls /\ asked' = asked /\ mixed' = mixed
    BY DEF ioVars, initVars
  <1>2. /\ TheTable' = TheTable /\ Controllers' = Controllers
        /\ \A q, n, mask : After(q, n, mask)' = After(q, n, mask)
        /\ \A line : Meant(line)' = Meant(line)
    BY <1>1, Lasting
  <1>3. Begun' = Begun /\ Joined' = Joined /\ Seen' = Seen /\ \A k : Mapped(k)' = Mapped(k)
    BY <1>1, <1>2, LoopAfter DEF Begun, Joined, Seen, Mapped
  <1>4. FoundInv'
    BY <1>1, <1>2 DEF IoInv, FoundInv
  <1>5. LoopInv'
    BY <1>1, <1>2, <1>3 DEF IoInv, LoopInv
  <1>6. ListInv'
    BY <1>1, <1>2, <1>3 DEF IoInv, ListInv
  <1>7. PinsInv'
    <2>1. MappedPins' = MappedPins
      BY <1>3 DEF MappedPins
    <2>2. phase \in {"pins", "overrides"} =>
            \A q \in DOMAIN pins' :
               pins'[q] = IF q = open THEN After(q, Seen, FALSE) ELSE After(q, Seen, TRUE)
      BY <1>1 DEF IoInv, PinsInv
    <2>3. \A q : /\ After(q, Seen, FALSE)' = After(q, Seen, FALSE)
                 /\ After(q, Seen, TRUE)' = After(q, Seen, TRUE)
      BY <1>2, <1>3
    <2> QED BY <1>1, <2>1, <2>2, <2>3 DEF IoInv, PinsInv
  <1>8. AskedInv'
    <2>1. Ended' = Ended /\ Busy' = Busy /\ \A q : Want(q)' = Want(q)
      BY <1>1, <1>2 DEF Ended, Busy, Want
    <2>2. ASSUME NEW c \in DOMAIN calls PROVE OneCall(c)'
      <3>1. OneCall(c)
        BY DEF IoInv, AskedInv
      <3> QED BY <1>1, <2>1, <3>1 DEF OneCall, IsCall, SelectedInv, Selected, AloneInv
    <2> QED BY <1>1, <2>1, <2>2 DEF IoInv, AskedInv, IsEntry
  <1> QED BY <1>4, <1>5, <1>6, <1>7, <1>8 DEF IoInv

LEMMA InitIo == IoInit => IoInv
  <1> SUFFICES ASSUME IoInit PROVE IoInv
    OBVIOUS
  <1>1. FoundInv
    BY DEF IoInit, FoundInv
  <1>2. Len(TheTable) \in Nat
    BY <1>1, TheTableIsMadt
  <1>3. LoopInv
    BY <1>2 DEF IoInit, LoopInv, Begun
  <1>4. ListInv
    BY DEF IoInit, ListInv
  <1>5. DOMAIN << >> = {}
    OBVIOUS
  <1>6. PinsInv /\ AskedInv
    BY <1>5 DEF IoInit, PinsInv, AskedInv, Ended
  <1> QED BY <1>1, <1>3, <1>4, <1>6 DEF IoInv

-----------------------------------------------------------------------------
(* The steps of ioapic_init, on the boot core.                             *)

LEMMA PinsArePairs == << >> \notin MappedPins
  BY DEF MappedPins

LEMMA SamePins ==
    ASSUME Joined' = Joined,
           \A k \in 1 .. Joined : Mapped(k)' = Mapped(k)
    PROVE  MappedPins' = MappedPins
  BY DEF MappedPins

LEMMA FindTableStep ==
    ASSUME IoInv, FindTable, UNCHANGED <<system, index, calls, asked, mixed>>
    PROVE  IoInv'
  <1>1. /\ phase = "start" /\ off' = off /\ pin' = pin /\ open' = open
        /\ ioapics' = ioapics /\ pins' = pins
        /\ system' = system /\ index' = index /\ calls' = calls /\ asked' = asked /\ mixed' = mixed
    BY DEF FindTable
  <1>2. /\ phase' \in {"failed", "fault", "pins"}
        /\ phase' = "failed" => acpi_find = Zero
        /\ phase' = "fault" => acpi_find = Wild
        /\ phase' = "pins" => acpi_find \notin {Zero, Wild} /\ madt' = acpi_find.entries
    BY DEF FindTable
  <1>3. system \in Systems
    BY DEF IoInv, FoundInv
  <1>4. TheTable' = TheTable
    BY <1>1, Lasting
  <1>5. FoundInv'
    BY <1>1, <1>2, <1>3, <1>4, FindIsRight DEF FoundInv
  <1>6. /\ open = << >> /\ off = 1 /\ pin = 0 /\ ioapics = << >> /\ DOMAIN pins = {}
        /\ DOMAIN asked = {} /\ DOMAIN calls = {} /\ mixed = {}
        /\ off \in 1 .. Len(TheTable) + 1
    BY <1>1 DEF IoInv, LoopInv, ListInv, PinsInv, AskedInv, Ended
  <1>7. ~Begun' /\ (phase' = "pins" => Joined' = 0)
    BY <1>1, <1>6, LoopAfter, CountZero
  <1>8. LoopInv'
    BY <1>1, <1>2, <1>4, <1>6, <1>7 DEF LoopInv
  <1>9. ListInv'
    BY <1>1, <1>2, <1>6, <1>7 DEF ListInv
  <1>10. phase' = "pins" => MappedPins' = {}
    BY <1>7 DEF MappedPins
  <1>11. PinsInv'
    BY <1>1, <1>2, <1>6, <1>10 DEF PinsInv
  <1>12. AskedInv'
    BY <1>1, <1>2, <1>6 DEF AskedInv, Ended
  <1> QED BY <1>5, <1>8, <1>9, <1>11, <1>12 DEF IoInv

LEMMA SkipEntryStep ==
    ASSUME IoInv, SkipEntry, UNCHANGED <<system, index, calls, asked, mixed>>
    PROVE  IoInv'
  <1>1. /\ phase \in {"pins", "overrides"} /\ phase' = phase /\ madt' = madt
        /\ open = << >> /\ open' = open /\ off' = off + 1 /\ pin' = pin
        /\ ioapics' = ioapics /\ pins' = pins
        /\ system' = system /\ index' = index /\ calls' = calls /\ asked' = asked /\ mixed' = mixed
        /\ off <= Len(madt)
        /\ phase = "pins" => madt[off].type # "ioapic"
        /\ phase = "overrides" => madt[off].type # "override"
    BY DEF SkipEntry
  <1>2. /\ madt = TheTable /\ Len(TheTable) \in Nat
        /\ off \in Nat \ {0} /\ off <= Len(TheTable) /\ pin \in Nat
    BY <1>1, TheTableIsMadt DEF IoInv, FoundInv, LoopInv
  <1>3. TheTable' = TheTable /\ Controllers' = Controllers
    BY <1>1, Lasting
  <1>4. ~Begun /\ pin = 0
    BY <1>1, <1>2 DEF IoInv, LoopInv, Begun
  <1>5. ~Begun'
    BY <1>1, <1>4, LoopAfter
  <1>6. Joined' = Joined
    <2>1. CASE phase = "pins"
      <3>1. Joined' = Count(off) /\ Joined = Count(off - 1)
        BY <1>1, <1>2, <1>4, <1>5, <2>1, LoopAfter DEF Joined
      <3> QED BY <1>1, <1>2, <2>1, <3>1, CountStep
    <2>2. CASE phase # "pins"
      BY <1>1, <2>2, LoopAfter DEF Joined
    <2> QED BY <2>1, <2>2
  <1>7. \A k : Mapped(k)' = Mapped(k)
    BY <1>1, <1>4, <1>5, LoopAfter DEF Mapped
  <1>8. FoundInv'
    BY <1>1, <1>3 DEF IoInv, FoundInv
  <1>9. LoopInv'
    BY <1>1, <1>2, <1>3, <1>4, <1>5 DEF IoInv, LoopInv
  <1>10. ListInv'
    BY <1>1, <1>3, <1>6 DEF IoInv, ListInv
  <1>11. MappedPins' = MappedPins
    BY <1>1, <1>6, <1>7, SamePins
  <1>12. ASSUME NEW q PROVE After(q, Seen, TRUE)' = After(q, Seen, TRUE)
    <2>1. CASE phase = "pins"
      <3>1. Seen' = Seen
        BY <1>1, <2>1, LoopAfter DEF Seen
      <3> QED BY <1>1, <3>1, Lasting
    <2>2. CASE phase = "overrides"
      <3>1. Seen' = off /\ Seen = off - 1
        BY <1>1, <1>2, <2>2, LoopAfter DEF Seen
      <3>2. After(q, off, TRUE) = After(q, off - 1, TRUE)
        BY <1>1, <1>2, <2>2, AfterOther
      <3> QED BY <1>1, <3>1, <3>2, Lasting
    <2> QED BY <1>1, <2>1, <2>2
  <1>13. PinsInv'
    <2>1. DOMAIN pins = MappedPins /\ << >> \notin MappedPins
      BY <1>1, PinsArePairs DEF IoInv, PinsInv
    <2>2. \A q \in DOMAIN pins : q # open /\ pins[q] = After(q, Seen, TRUE)
      BY <1>1, <2>1 DEF IoInv, PinsInv
    <2> QED BY <1>1, <1>11, <1>12, <2>1, <2>2 DEF PinsInv
  <1>14. AskedInv'
    BY <1>1 DEF IoInv, AskedInv, Ended
  <1> QED BY <1>8, <1>9, <1>10, <1>13, <1>14 DEF IoInv

LEMMA EndLoopStep ==
    ASSUME IoInv, EndLoop, UNCHANGED <<system, index, calls, asked, mixed>>
    PROVE  IoInv'
  <1>1. /\ phase \in {"pins", "overrides"} /\ madt' = madt
        /\ phase' = IF phase = "pins" THEN "overrides" ELSE "done"
        /\ open = << >> /\ open' = open /\ off' = 1 /\ pin' = pin
        /\ ioapics' = ioapics /\ pins' = pins
        /\ system' = system /\ index' = index /\ calls' = calls /\ asked' = asked /\ mixed' = mixed
        /\ off > Len(madt)
    BY DEF EndLoop
  <1>2. madt = TheTable /\ Len(TheTable) \in Nat /\ off = Len(TheTable) + 1
    BY <1>1, TheTableIsMadt DEF IoInv, FoundInv, LoopInv
  <1>3. TheTable' = TheTable /\ Controllers' = Controllers
    BY <1>1, Lasting
  <1>4. ~Begun /\ pin = 0
    BY <1>1, <1>2 DEF IoInv, LoopInv, Begun
  <1>5. ~Begun'
    BY <1>1, LoopAfter
  <1>6. Joined' = Joined
    <2>1. Joined' = Count(Len(TheTable))
      BY <1>1, LoopAfter
    <2>2. off - 1 = Len(TheTable)
      BY <1>2
    <2> QED BY <1>4, <2>1, <2>2 DEF Joined
  <1>7. \A k : Mapped(k)' = Mapped(k)
    BY <1>1, <1>4, <1>5, LoopAfter DEF Mapped
  <1>8. FoundInv'
    BY <1>1, <1>3 DEF IoInv, FoundInv
  <1>9. LoopInv'
    BY <1>1, <1>2, <1>3, <1>4, <1>5 DEF IoInv, LoopInv
  <1>10. ListInv'
    BY <1>1, <1>3, <1>6 DEF IoInv, ListInv
  <1>11. MappedPins' = MappedPins
    BY <1>1, <1>6, <1>7, SamePins
  <1>12. DOMAIN pins = MappedPins /\ << >> \notin MappedPins
    BY <1>1, PinsArePairs DEF IoInv, PinsInv
  <1>13. \A q \in DOMAIN pins : q # open /\ pins[q] = After(q, Seen, TRUE)
    BY <1>1, <1>12 DEF IoInv, PinsInv
  <1>14. PinsInv'
    <2>1. CASE phase' = "done"
      BY <1>1, <1>11, <1>12, <2>1 DEF PinsInv
    <2>2. CASE phase' = "overrides"
      <3>1. phase = "pins" /\ Seen = 0 /\ Seen' = 0
        BY <1>1, <2>2, LoopAfter DEF Seen
      <3>2. \A q : After(q, Seen, TRUE)' = After(q, Seen, TRUE)
        BY <1>1, <3>1, Lasting
      <3> QED BY <1>1, <1>11, <1>12, <1>13, <2>2, <3>2 DEF PinsInv
    <2> QED BY <1>1, <2>1, <2>2
  <1>15. AskedInv'
    <2>1. DOMAIN asked = {} /\ DOMAIN calls = {} /\ mixed = {}
      BY <1>1 DEF IoInv, AskedInv, Ended
    <2>2. CASE phase' = "done"
      <3>1. Seen = Len(TheTable)
        BY <1>1, <1>2, <2>2 DEF Seen
      <3>2. \A q : Want(q)' = After(q, Len(TheTable), TRUE)
        BY <1>1, <1>3, <2>1, Lasting DEF Want
      <3>3. \A q \in DOMAIN pins : pins'[q] = Want(q)' /\ IsEntry(pins'[q])
        <4>1. ASSUME NEW q \in DOMAIN pins PROVE pins'[q] = Want(q)' /\ IsEntry(pins'[q])
          <5>1. pins'[q] = After(q, Len(TheTable), TRUE)
            BY <1>1, <1>13, <3>1
          <5>2. IsEntry(After(q, Len(TheTable), TRUE))
            BY AfterShape
          <5> QED BY <3>2, <5>1, <5>2
        <4> QED BY <4>1
      <3>4. Busy' = {}
        BY <1>1, <2>1 DEF Busy
      <3> QED BY <1>1, <2>1, <2>2, <3>3, <3>4 DEF AskedInv, Ended, IsEntry
    <2>3. CASE phase' # "done"
      BY <1>1, <2>1, <2>3 DEF AskedInv, Ended
    <2> QED BY <2>2, <2>3
  <1> QED BY <1>8, <1>9, <1>10, <1>14, <1>15 DEF IoInv

LEMMA MaskPinStep ==
    ASSUME IoInv, MaskPin, UNCHANGED <<system, index, calls, asked, mixed>>
    PROVE  IoInv'
  <1>1. /\ phase' = phase /\ madt' = madt /\ open # << >> /\ open' = << >>
        /\ ioapics' = ioapics /\ pins' = [pins EXCEPT ![open].mask = TRUE]
        /\ system' = system /\ index' = index /\ calls' = calls /\ asked' = asked /\ mixed' = mixed
        /\ IF phase = "pins" /\ pin + 1 < madt[off].redirs
           THEN pin' = pin + 1 /\ off' = off
           ELSE pin' = 0 /\ off' = off + 1
    BY DEF MaskPin, ioapic_setmask
  <1>2. phase \in {"pins", "overrides"}
    BY <1>1 DEF IoInv, LoopInv, FoundInv
  <1>3. /\ madt = TheTable /\ Len(TheTable) \in Nat /\ pin \in Nat
        /\ off \in Nat \ {0} /\ off <= Len(TheTable)
        /\ phase = "pins" => /\ TheTable[off].type = "ioapic"
                             /\ TheTable[off].redirs \in Nat \ {0} /\ pin < TheTable[off].redirs
                             /\ open = <<Joined, pin>> /\ Begun
        /\ phase = "overrides" => pin = 0
    BY <1>1, <1>2, TheTableIsMadt DEF IoInv, FoundInv, LoopInv, Begun
  <1>4. TheTable' = TheTable /\ Controllers' = Controllers
    BY <1>1, Lasting
  <1>5. /\ Begun' <=> phase = "pins" /\ pin + 1 < TheTable[off].redirs
        /\ Begun' => off' = off /\ pin' = pin + 1
        /\ ~Begun' => off' = off + 1 /\ pin' = 0
    BY <1>1, <1>3, LoopAfter
  <1>6. Joined' = Joined
    <2>1. CASE phase = "pins"
      <3>1. Joined = Count(off)
        BY <1>3, <2>1 DEF Joined
      <3>2. Joined' = Count(off)
        BY <1>1, <1>3, <1>5, <2>1, LoopAfter
      <3> QED BY <3>1, <3>2
    <2>2. CASE phase # "pins"
      BY <1>1, <2>2, LoopAfter DEF Joined
    <2> QED BY <2>1, <2>2
  <1>7. ASSUME NEW k \in 1 .. Joined PROVE Mapped(k)' = Mapped(k)
    <2>1. CASE phase = "pins"
      <3>1. Joined = Count(off)
        BY <1>3, <2>1 DEF Joined
      <3>2. Controllers[Joined] = TheTable[off]
        BY <1>3, <2>1, <3>1, ListedOnce
      <3>3. Mapped(k) = IF k = Joined THEN pin + 1 ELSE Controllers[k].redirs
        BY <1>1, <1>3, <2>1 DEF Mapped
      <3>4. Mapped(k)' = IF Begun' /\ k = Joined THEN pin' ELSE Controllers[k].redirs
        BY <1>1, <1>6, LoopAfter
      <3> QED BY <1>3, <1>5, <2>1, <3>2, <3>3, <3>4
    <2>2. CASE phase # "pins"
      BY <1>1, <1>5, <2>2, LoopAfter DEF Mapped, Begun
    <2> QED BY <2>1, <2>2
  <1>8. FoundInv'
    BY <1>1, <1>4 DEF IoInv, FoundInv
  <1>9. LoopInv'
    BY <1>1, <1>2, <1>3, <1>4, <1>5 DEF LoopInv
  <1>10. ListInv'
    BY <1>1, <1>4, <1>6 DEF IoInv, ListInv
  <1>11. MappedPins' = MappedPins
    BY <1>1, <1>6, <1>7, SamePins
  <1>12. Seen' = Seen
    BY <1>1, <1>2, <1>3, <1>5, LoopAfter DEF Seen
  <1>13. \A q : After(q, Seen, TRUE)' = After(q, Seen, TRUE)
    BY <1>1, <1>12, Lasting
  <1>14. PinsInv'
    <2>1. DOMAIN pins = MappedPins /\ << >> \notin MappedPins
      BY <1>2, PinsArePairs DEF IoInv, PinsInv
    <2>2. \A q \in DOMAIN pins :
             pins[q] = IF q = open THEN After(q, Seen, FALSE) ELSE After(q, Seen, TRUE)
      BY <1>2 DEF IoInv, PinsInv
    <2>3. DOMAIN pins' = DOMAIN pins
      BY <1>1
    <2>4. ASSUME NEW q \in DOMAIN pins' PROVE pins'[q] = After(q, Seen, TRUE)
      <3>1. CASE q = open
        <4>1. pins[q] = After(q, Seen, FALSE) /\ ioapic_setmask(q, TRUE)
          BY <1>1, <2>2, <2>3, <3>1 DEF ioapic_setmask
        <4> QED BY <2>3, <4>1, SetMask
      <3>2. CASE q # open
        BY <1>1, <2>2, <2>3, <3>2
      <3> QED BY <3>1, <3>2
    <2> QED BY <1>1, <1>2, <1>11, <1>13, <2>1, <2>3, <2>4 DEF PinsInv
  <1>15. AskedInv'
    BY <1>1, <1>2 DEF IoInv, AskedInv, Ended
  <1> QED BY <1>8, <1>9, <1>10, <1>14, <1>15 DEF IoInv

LEMMA MapPinStep ==
    ASSUME IoInv, MapPin(BootCore), UNCHANGED <<system, index, calls, asked, mixed>>
    PROVE  IoInv'
  <1> DEFINE entry == Entry(pin + madt[off].base + 32, 0, 0, FALSE, BootCore)
  <1>1. /\ phase = "pins" /\ phase' = phase /\ madt' = madt /\ off' = off /\ pin' = pin
        /\ open = << >> /\ off <= Len(madt) /\ madt[off].type = "ioapic"
        /\ ioapics' = IF pin = 0 THEN Append(ioapics, madt[off]) ELSE ioapics
        /\ open' = <<Len(ioapics'), pin>>
        /\ system' = system /\ index' = index /\ calls' = calls /\ asked' = asked /\ mixed' = mixed
    BY DEF MapPin, AtEntry
  <1>2. pins' = Updated(pins, {open'}, entry)
    BY DEF MapPin, ioapic_map
  <1>3. /\ madt = TheTable /\ Len(TheTable) \in Nat /\ pin \in Nat
        /\ off \in Nat \ {0} /\ off <= Len(TheTable) /\ off - 1 \in Nat
        /\ TheTable[off].base \in Nat /\ TheTable[off].redirs \in Nat \ {0}
        /\ pin < TheTable[off].redirs
    BY <1>1, TheTableIsMadt DEF IoInv, FoundInv, LoopInv, Begun
  <1>4. TheTable' = TheTable /\ Controllers' = Controllers
    BY <1>1, Lasting
  <1>5. /\ Controllers[Count(off)] = TheTable[off]
        /\ Count(off) = Count(off - 1) + 1 /\ Count(off - 1) \in Nat
    <2>1. off \in 1 .. Len(TheTable) /\ TheTable[off].type = "ioapic"
      BY <1>1, <1>3
    <2>2. Controllers[Count(off)] = TheTable[off]
      BY <1>3, <2>1, ListedOnce
    <2>3. Count(off) = Count(off - 1) + 1
      BY <1>3, <2>1, CountStep
    <2>4. Count(off - 1) \in Nat
      BY <1>3, CountType
    <2> QED BY <2>2, <2>3, <2>4
  <1>6. Joined = IF pin = 0 THEN Count(off - 1) ELSE Count(off)
    BY <1>1, <1>3 DEF Joined, Begun
  <1>7. ioapics = [k \in 1 .. Joined |-> Controllers[k]]
    BY <1>1 DEF IoInv, ListInv
  <1>8. Len(ioapics') = Count(off) /\ ioapics' = [k \in 1 .. Count(off) |-> Controllers[k]]
    <2>1. CASE pin = 0
      <3>1. ioapics = [k \in 1 .. Count(off - 1) |-> Controllers[k]]
        BY <1>6, <1>7, <2>1
      <3>2. Append(ioapics, Controllers[Count(off - 1) + 1])
               = [k \in 1 .. Count(off - 1) + 1 |-> Controllers[k]]
        BY <1>5, <3>1, OneMore
      <3>3. ioapics' = [k \in 1 .. Count(off) |-> Controllers[k]]
        BY <1>1, <1>3, <1>5, <2>1, <3>2
      <3> QED BY <1>5, <3>3, OneMore
    <2>2. CASE pin # 0
      <3>1. ioapics' = [k \in 1 .. Count(off) |-> Controllers[k]]
        BY <1>1, <1>6, <1>7, <2>2
      <3> QED BY <1>5, <3>1, OneMore
    <2> QED BY <2>1, <2>2
  <1>9. open' = <<Count(off), pin>> /\ open' # << >>
    BY <1>1, <1>8
  <1>10. Begun' /\ Joined' = Count(off)
    BY <1>1, <1>9, LoopAfter
  <1>11. \A k : Mapped(k)' = IF k = Count(off) THEN pin + 1 ELSE Controllers[k].redirs
    BY <1>1, <1>9, <1>10, LoopAfter
  <1>12. FoundInv'
    BY <1>1, <1>4 DEF IoInv, FoundInv
  <1>13. LoopInv'
    <2>1. off' \in 1 .. Len(TheTable) + 1
      BY <1>1, <1>3
    <2> QED BY <1>1, <1>3, <1>4, <1>9, <1>10, <2>1 DEF LoopInv
  <1>14. ListInv'
    <2>1. ASSUME NEW k \in 1 .. Count(off)
          PROVE  Controllers[k].base \in Nat /\ Controllers[k].redirs \in Nat \ {0}
      <3>1. CASE k = Count(off)
        BY <1>3, <1>5, <3>1
      <3>2. CASE k # Count(off)
        <4>1. k \in 1 .. Joined
          BY <1>5, <1>6, <3>2
        <4> QED BY <1>1, <4>1 DEF IoInv, ListInv
      <3> QED BY <3>1, <3>2
    <2> QED BY <1>1, <1>4, <1>8, <1>10, <2>1 DEF ListInv
  <1>15. DOMAIN pins = MappedPins /\ << >> \notin MappedPins
    BY <1>1, PinsArePairs DEF IoInv, PinsInv
  <1>16. ASSUME NEW k, NEW p
         PROVE  <<k, p>> \in MappedPins \cup {<<Count(off), pin>>} <=> <<k, p>> \in MappedPins'
    <2>1. <<k, p>> \in MappedPins <=> k \in 1 .. Joined /\ p \in 0 .. Mapped(k) - 1
      BY DEF MappedPins
    <2>2. <<k, p>> \in MappedPins' <=> k \in 1 .. Joined' /\ p \in 0 .. Mapped(k)' - 1
      BY DEF MappedPins
    <2>3. CASE k # Count(off)
      <3>1. k \in 1 .. Joined <=> k \in 1 .. Joined'
        BY <1>5, <1>6, <1>10, <2>3
      <3>2. ASSUME k \in 1 .. Joined PROVE Mapped(k) = Mapped(k)'
        <4>1. ~(Begun /\ k = Joined)
          BY <1>1, <1>6, <2>3 DEF Begun
        <4> QED BY <1>11, <2>3, <4>1 DEF Mapped
      <3> QED BY <2>1, <2>2, <2>3, <3>1, <3>2
    <2>4. CASE k = Count(off)
      <3>1. k \in 1 .. Joined' /\ Mapped(k)' = pin + 1
        BY <1>5, <1>10, <1>11, <2>4
      <3>2. CASE pin = 0
        <4>1. k \notin 1 .. Joined
          BY <1>5, <1>6, <2>4, <3>2
        <4> QED BY <2>1, <2>2, <2>4, <3>1, <3>2, <4>1
      <3>3. CASE pin # 0
        <4>1. k \in 1 .. Joined /\ Mapped(k) = pin
          BY <1>1, <1>3, <1>5, <1>6, <2>4, <3>3 DEF Mapped, Begun
        <4> QED BY <1>3, <2>1, <2>2, <2>4, <3>1, <4>1
      <3> QED BY <3>2, <3>3
    <2> QED BY <2>3, <2>4
  <1>17. MappedPins' = MappedPins \cup {open'}
    <2>1. \A q \in MappedPins' : \E k, p : q = <<k, p>>
      BY DEF MappedPins
    <2>2. \A q \in MappedPins : \E k, p : q = <<k, p>>
      BY DEF MappedPins
    <2> QED BY <1>9, <1>16, <2>1, <2>2
  <1>18. Seen = 0 /\ Seen' = 0
    BY <1>1, LoopAfter DEF Seen
  <1>19. \A q : /\ After(q, Seen, TRUE)' = After(q, Seen, TRUE)
                /\ After(q, Seen, FALSE)' = After(q, Seen, FALSE)
    BY <1>1, <1>18, Lasting
  <1>20. /\ DOMAIN pins' = MappedPins \cup {open'}
         /\ pins'[open'] = entry
         /\ \A q \in MappedPins \ {open'} : pins'[q] = pins[q]
    BY <1>2, <1>15 DEF Updated
  <1>21. entry = After(open', 0, FALSE)
    <2>1. Controllers[Count(off)].base + pin + 32 = pin + madt[off].base + 32
      BY <1>3, <1>5
    <2>2. PICK q : q = <<Count(off), pin>>
      OBVIOUS
    <2>3. After(q, 0, FALSE) = Entry(Controllers[q[1]].base + q[2] + 32, 0, 0, FALSE, BootCore)
      BY AfterNone, Zenon
    <2>4. q[1] = Count(off) /\ q[2] = pin /\ q = open'
      BY <1>9, <2>2
    <2> QED BY <2>1, <2>3, <2>4
  <1>22. \A q \in MappedPins : pins[q] = After(q, 0, TRUE)
    BY <1>1, <1>15, <1>18 DEF IoInv, PinsInv
  <1> HIDE DEF entry
  <1>23. PinsInv'
    <2>1. \A q \in DOMAIN pins' :
             pins'[q] = IF q = open' THEN After(q, 0, FALSE) ELSE After(q, 0, TRUE)
      BY <1>20, <1>21, <1>22
    <2> QED BY <1>1, <1>17, <1>18, <1>19, <1>20, <2>1 DEF PinsInv
  <1>24. AskedInv'
    BY <1>1 DEF IoInv, AskedInv, Ended
  <1> QED BY <1>12, <1>13, <1>14, <1>23, <1>24 DEF IoInv

LEMMA MapOverrideStep ==
    ASSUME IoInv, MapOverride(BootCore), UNCHANGED <<system, index, calls, asked, mixed>>
    PROVE  IoInv'
  <1> DEFINE o == madt[off]
             served == Serving(o.line)
             k == Min(served)
             entry == Entry(o.src + 32, And(o.flags, 2), And(o.flags, 8), FALSE, BootCore)
  <1>1. /\ phase = "overrides" /\ phase' = phase /\ madt' = madt /\ pin' = pin
        /\ open = << >> /\ off <= Len(madt) /\ o.type = "override"
        /\ ioapics' = ioapics
        /\ system' = system /\ index' = index /\ calls' = calls /\ asked' = asked /\ mixed' = mixed
    BY DEF MapOverride, AtEntry
  <1>2. /\ served = {} => off' = off + 1 /\ open' = open /\ pins' = pins
        /\ served # {} => /\ open' = <<k, o.line - ioapics[k].base>> /\ off' = off
                          /\ pins' = Updated(pins, {open'}, entry)
    BY DEF MapOverride, ioapic_map
  <1>3. /\ madt = TheTable /\ Len(TheTable) \in Nat /\ pin = 0
        /\ off \in Nat \ {0} /\ off <= Len(TheTable) /\ o.line \in Nat /\ o.flags \in Nat
    BY <1>1, TheTableIsMadt DEF IoInv, FoundInv, LoopInv
  <1>4. TheTable' = TheTable /\ Controllers' = Controllers
        /\ \A line : Meant(line)' = Meant(line)
    BY <1>1, Lasting
  <1>5. /\ Joined = Count(Len(TheTable)) /\ Joined' = Joined
        /\ ~Begun /\ ~Begun' /\ \A j : Mapped(j)' = Mapped(j)
        /\ \A j : Mapped(j) = Controllers[j].redirs
    BY <1>1, LoopAfter DEF Joined, Begun, Mapped
  <1>6. /\ ioapics = Controllers
        /\ \A j \in 1 .. Joined :
              Controllers[j].base \in Nat /\ Controllers[j].redirs \in Nat \ {0}
    BY <1>1, <1>5, ControllersWhole DEF IoInv, ListInv
  <1>7. Len(Controllers) = Joined
    BY <1>3, <1>5, CountType, ControllersWhole, OneMore
  <1>8. /\ served = {} => Meant(o.line) = {}
        /\ served # {} =>
              /\ k \in 1 .. Joined /\ Meant(o.line) = {open'}
              /\ Controllers[k].base + (o.line - Controllers[k].base) = o.line
              /\ o.line - Controllers[k].base \in 0 .. Controllers[k].redirs - 1
    BY <1>2, <1>3, <1>6, <1>7, MeantIsServed
  <1>8a. entry = Entry(o.src + 32, 0, 0, FALSE, BootCore)
    <2>1. o.flags \in Nat
      BY <1>3
    <2>2. PICK f \in Nat : f = o.flags
      BY <2>1
    <2>3. PICK irq : irq = o.src + 32
      OBVIOUS
    <2>4. And(f, 2) % 2 = 0 /\ And(f, 8) % 2 = 0 /\ 0 % 2 = 0
      BY FlagsAreLost
    <2> QED BY <2>2, <2>3, <2>4 DEF Entry
  <1> HIDE DEF k, served, o, entry
  <1>9. Seen = off - 1 /\ Seen' = off
    <2>1. /\ Seen = off - 1
          /\ Seen' = IF open' = << >> THEN off' - 1 ELSE off'
      BY <1>1, LoopAfter DEF Seen
    <2>2. (off + 1) - 1 = off
      BY <1>3
    <2>3. served = {} => open' = << >> /\ off' = off + 1
      BY <1>1, <1>2
    <2>4. served # {} => open' # << >> /\ off' = off
      <3>1. \A a, b : <<a, b>> # << >>
        OBVIOUS
      <3> QED BY <1>2, <3>1, Zenon
    <2> QED BY <2>1, <2>2, <2>3, <2>4
  <1>10. o = TheTable[off] /\ TheTable[off].type = "override"
    BY <1>1, <1>3 DEF o
  <1>11. FoundInv'
    BY <1>1, <1>4 DEF IoInv, FoundInv
  <1>12. LoopInv'
    <2>1. off' \in 1 .. Len(TheTable) + 1
      BY <1>2, <1>3
    <2>2. open' # << >> => off' = off /\ open' \in Meant(o.line)
      BY <1>1, <1>2, <1>8
    <2> QED BY <1>1, <1>3, <1>4, <1>5, <1>10, <2>1, <2>2 DEF LoopInv
  <1>13. ListInv'
    BY <1>1, <1>4, <1>5 DEF IoInv, ListInv
  <1>14. MappedPins' = MappedPins
    BY <1>5, SamePins
  <1>15. DOMAIN pins = MappedPins /\ << >> \notin MappedPins
    BY <1>1, PinsArePairs DEF IoInv, PinsInv
  <1>16. \A q \in MappedPins : pins[q] = After(q, off - 1, TRUE)
    BY <1>1, <1>9, <1>15 DEF IoInv, PinsInv
  <1>17. \A q \in MappedPins : q \notin Meant(o.line) => pins[q] = After(q, off, TRUE)
    <2>1. ASSUME NEW q \in MappedPins, q \notin Meant(o.line)
          PROVE  pins[q] = After(q, off, TRUE)
      <3>1. After(q, off, TRUE) = After(q, off - 1, TRUE)
        BY <1>3, <1>10, <2>1, AfterOther
      <3> QED BY <1>16, <3>1
    <2> QED BY <2>1
  <1>18. \A q : /\ After(q, Seen, TRUE)' = After(q, off, TRUE)
                /\ After(q, Seen, FALSE)' = After(q, off, FALSE)
    BY <1>1, <1>9, Lasting
  <1>19. ASSUME served = {} PROVE PinsInv'
    <2>1. \A q \in MappedPins : q # open' /\ pins'[q] = After(q, off, TRUE)
      BY <1>1, <1>2, <1>8, <1>15, <1>17, <1>19
    <2> QED BY <1>1, <1>2, <1>14, <1>15, <1>18, <1>19, <2>1 DEF PinsInv
  <1>20. ASSUME served # {} PROVE PinsInv'
    <2>1. open' \in MappedPins
      <3>1. o.line - Controllers[k].base \in 0 .. Mapped(k) - 1 /\ k \in 1 .. Joined
        BY <1>5, <1>8, <1>20
      <3>2. open' = <<k, o.line - Controllers[k].base>>
        BY <1>2, <1>6, <1>20
      <3> QED BY <3>1, <3>2 DEF MappedPins
    <2>2. /\ DOMAIN pins' = MappedPins
          /\ pins'[open'] = entry
          /\ \A q \in MappedPins \ {open'} : pins'[q] = pins[q]
      BY <1>2, <1>15, <1>20, <2>1 DEF Updated
    <2>3. entry = After(open', off, FALSE)
      <3>1. PICK q : q = open'
        OBVIOUS
      <3>2. q[1] = k /\ q[2] = o.line - Controllers[k].base
        BY <1>2, <1>6, <1>20, <3>1
      <3>3. TheTable[off].line = Controllers[q[1]].base + q[2]
        BY <1>8, <1>10, <1>20, <3>2
      <3>4. q \in Meant(TheTable[off].line)
        BY <1>8, <1>10, <1>20, <3>1
      <3>5. After(q, off, FALSE) = Entry(TheTable[off].src + 32, 0, 0, FALSE, BootCore)
        BY <1>3, <1>10, <3>3, <3>4, AfterOverride
      <3> QED BY <1>10, <1>8a, <3>1, <3>5
    <2>4. \A q \in MappedPins :
             pins'[q] = IF q = open' THEN After(q, off, FALSE) ELSE After(q, off, TRUE)
      BY <1>8, <1>17, <1>20, <2>2, <2>3
    <2> QED BY <1>1, <1>14, <1>18, <2>2, <2>4 DEF PinsInv
  <1>21. AskedInv'
    BY <1>1 DEF IoInv, AskedInv, Ended
  <1> QED BY <1>11, <1>12, <1>13, <1>19, <1>20, <1>21 DEF IoInv

LEMMA InitIoApicStep ==
    ASSUME IoInv, ioapic_init(BootCore)
    PROVE  IoInv'
  BY FindTableStep, SkipEntryStep, MapPinStep, MapOverrideStep, MaskPinStep, EndLoopStep
     DEF ioapic_init

-----------------------------------------------------------------------------
(* The calls.                                                              *)

LEMMA FromTableIsAfter ==
    ASSUME NEW q
    PROVE  Wanted(q, BootCore) = Want(q)
  <1>1. OverridesOf(q) = Over(q, Len(TheTable))
    BY DEF OverridesOf, Over
  <1>2. FromTable(q, BootCore) = After(q, Len(TheTable), TRUE)
    BY <1>1, Zenon DEF FromTable, After
  <1> QED BY <1>2, Zenon DEF Wanted, Want

LEMMA EntryIsEntry ==
    ASSUME NEW irq, NEW low, NEW level, NEW mask, NEW dest
    PROVE  /\ IsEntry(Entry(irq, low, level, mask, dest))
           /\ Entry(irq, low, level, mask, dest).dest = dest
  BY DEF Entry, IsEntry

LEMMA EntryKept ==
    ASSUME NEW e, IsEntry(e), NEW mask, NEW dest
    PROVE  /\ IsEntry([e EXCEPT !.dest = dest]) /\ [e EXCEPT !.dest = dest].dest = dest
           /\ IsEntry([e EXCEPT !.mask = mask])
  BY DEF IsEntry

LEMMA UpdatedAt ==
    ASSUME NEW f, NEW q, NEW e, NEW g, g = Updated(f, {q}, e)
    PROVE  /\ DOMAIN g = DOMAIN f \cup {q} /\ g[q] = e
           /\ \A r \in DOMAIN f \ {q} : g[r] = f[r]
  BY DEF Updated

(* What no step of a call disturbs.                                        *)
LEMMA CallStep ==
    ASSUME IoInv, phase = "done", phase' \in {"done", "wild"},
           UNCHANGED <<system, madt, off, pin, open, ioapics>>,
           DOMAIN pins' = DOMAIN pins
    PROVE  /\ FoundInv' /\ LoopInv' /\ ListInv' /\ PinsInv'
           /\ \A q : Want(q)' = IF q \in DOMAIN asked' THEN asked'[q]
                                ELSE After(q, Len(TheTable), TRUE)
           /\ asked' = asked => \A q : Want(q)' = Want(q)
  <1>1. /\ system' = system /\ madt' = madt /\ off' = off /\ pin' = pin
        /\ open' = open /\ ioapics' = ioapics
    OBVIOUS
  <1>2. /\ TheTable' = TheTable /\ Controllers' = Controllers
        /\ \A q : After(q, Len(TheTable), TRUE)' = After(q, Len(TheTable), TRUE)
    BY <1>1, Lasting
  <1>3. /\ ~Begun /\ ~Begun' /\ Joined' = Joined
        /\ \A k : Mapped(k)' = Mapped(k)
    BY <1>1, LoopAfter DEF Begun, Joined, Mapped
  <1>4. FoundInv'
    BY <1>1, <1>2 DEF IoInv, FoundInv
  <1>5. LoopInv'
    BY <1>1, <1>2, <1>3 DEF IoInv, LoopInv
  <1>6. ListInv'
    BY <1>1, <1>2, <1>3 DEF IoInv, ListInv
  <1>7. PinsInv'
    <2>1. MappedPins' = MappedPins
      BY <1>3, SamePins
    <2>2. DOMAIN pins = MappedPins
      BY DEF IoInv, PinsInv
    <2> QED BY <1>1, <2>1, <2>2 DEF PinsInv
  <1>8. \A q : Want(q)' = IF q \in DOMAIN asked' THEN asked'[q]
                          ELSE After(q, Len(TheTable), TRUE)
    BY <1>2 DEF Want
  <1>9. asked' = asked => \A q : Want(q)' = Want(q)
    BY <1>8 DEF Want
  <1> QED BY <1>4, <1>5, <1>6, <1>7, <1>8, <1>9

(* What is known while a call is in progress.                              *)
LEMMA InCall ==
    ASSUME IoInv, phase = "done"
    PROVE  /\ Ended /\ Busy \subseteq DOMAIN pins /\ mixed \subseteq Busy
           /\ \A q \in DOMAIN pins : IsEntry(pins[q]) /\ IsEntry(Want(q))
           /\ \A q \in DOMAIN pins \ Busy : pins[q] = Want(q)
           /\ \A c \in DOMAIN calls : /\ OneCall(c) /\ calls[c].pin \in Busy
                                      /\ calls[c].alone => DOMAIN calls = {c}
  BY DEF IoInv, AskedInv, Ended, Busy, OneCall, AloneInv

LEMMA BeginStep ==
    ASSUME IoInv, NEW c, NEW line, NEW maps \in BOOLEAN, NEW entry, IsEntry(entry),
           maps => entry.dest = c, Begin(c, line, maps, entry)
    PROVE  IoInv'
  <1>1. /\ phase = "done" /\ phase' \in {"done", "wild"} /\ c \notin DOMAIN calls
        /\ UNCHANGED <<system, madt, off, pin, open, ioapics, pins, index, asked, mixed>>
    BY DEF Begin
  <1>2. /\ FoundInv' /\ LoopInv' /\ ListInv' /\ PinsInv' /\ \A q : Want(q)' = Want(q)
    BY <1>1, CallStep
  <1>3. Ended'
    BY <1>1 DEF Ended
  <1>4. CASE calls' = calls
    <2>1. Busy' = Busy
      BY <1>1, <1>4 DEF Busy
    <2>2. ASSUME NEW d \in DOMAIN calls PROVE OneCall(d)'
      <3>1. OneCall(d)
        BY <1>1, InCall
      <3> QED BY <1>1, <1>2, <1>4, <2>1, <3>1 DEF OneCall, IsCall, SelectedInv, Selected, AloneInv
    <2>3. AskedInv'
      BY <1>1, <1>2, <1>3, <1>4, <2>1, <2>2, InCall DEF AskedInv, IsEntry
    <2> QED BY <1>2, <2>3 DEF IoInv
  <1>5. CASE calls' # calls
    <2> DEFINE call == [pin |-> Taken(line), maps |-> maps, entry |-> entry,
                        at |-> IF maps THEN 1 ELSE 5, word |-> entry,
                        alone |-> DOMAIN calls = {}]
    <2>1. /\ Taken(line) \in DOMAIN pins
          /\ calls' = [d \in DOMAIN calls \cup {c} |->
                          IF d = c THEN call ELSE [calls[d] EXCEPT !.alone = FALSE]]
      BY <1>5 DEF Begin
    <2>2. /\ DOMAIN calls' = DOMAIN calls \cup {c} /\ calls'[c] = call
          /\ \A d \in DOMAIN calls : calls'[d] = [calls[d] EXCEPT !.alone = FALSE]
      BY <1>1, <2>1
    <2>3. /\ call.pin = Taken(line) /\ call.maps = maps /\ call.entry = entry
          /\ call.at = (IF maps THEN 1 ELSE 5) /\ call.word = entry
          /\ call.alone => DOMAIN calls = {}
      OBVIOUS
    <2>4. IsCall(call)
      BY <2>3 DEF IsCall
    <2> HIDE DEF call
    <2>5. ASSUME NEW d \in DOMAIN calls
          PROVE  /\ IsCall(calls'[d]) /\ ~calls'[d].alone
                 /\ calls'[d].pin = calls[d].pin /\ calls'[d].at = calls[d].at
      <3>1. IsCall(calls[d])
        BY <1>1, InCall DEF OneCall
      <3> QED BY <2>2, <3>1 DEF IsCall
    <2>6. Busy' = Busy \cup {Taken(line)}
      BY <1>1, <2>2, <2>3, <2>5 DEF Busy
    <2>7. ASSUME NEW d \in DOMAIN calls PROVE OneCall(d)'
      <3>1. SelectedInv(d)
        BY <1>1, InCall DEF OneCall
      <3>2. SelectedInv(d)'
        BY <1>1, <2>5, <2>6, <3>1 DEF SelectedInv, Selected
      <3> QED BY <2>5, <3>2 DEF OneCall, AloneInv
    <2>8. OneCall(c)'
      <3>1. SelectedInv(c)'
        BY <2>2, <2>3 DEF SelectedInv
      <3>2. DOMAIN calls = {} => Busy = mixed
        BY DEF Busy
      <3>3. ASSUME DOMAIN calls = {}, Taken(line) \notin mixed
            PROVE  pins[Taken(line)] = Want(Taken(line))
        BY <1>1, <2>1, <3>2, <3>3, InCall
      <3>4. AloneInv(c)'
        BY <1>1, <1>2, <2>2, <2>3, <3>3 DEF AloneInv
      <3> QED BY <2>2, <2>4, <3>1, <3>4 DEF OneCall
    <2>9. AskedInv'
      BY <1>1, <1>2, <1>3, <2>1, <2>2, <2>6, <2>7, <2>8, InCall DEF AskedInv, IsEntry
    <2> QED BY <1>2, <2>9 DEF IoInv
  <1> QED BY <1>4, <1>5

(* The call c has made its next access, and holds word.                    *)
GoneOn(c, word) ==
    /\ DOMAIN calls' = DOMAIN calls
    /\ \A d \in DOMAIN calls \ {c} : calls'[d] = calls[d]
    /\ calls'[c] = [pin |-> calls[c].pin, maps |-> calls[c].maps, entry |-> calls[c].entry,
                    at |-> calls[c].at + 1, word |-> word, alone |-> calls[c].alone]

LEMMA GoesOn ==
    ASSUME NEW c \in DOMAIN calls, IsCall(calls[c]), NEW word,
           \/ calls' = [calls EXCEPT ![c].at = @ + 1, ![c].word = word]
           \/ calls' = [calls EXCEPT ![c].at = @ + 1] /\ word = calls[c].word
    PROVE  GoneOn(c, word)
  <1>1. PICK call : call = calls[c]
    OBVIOUS
  <1>2. PICK next : next = [pin |-> call.pin, maps |-> call.maps, entry |-> call.entry,
                            at |-> call.at + 1, word |-> word, alone |-> call.alone]
    OBVIOUS
  <1>3. CASE calls' = [calls EXCEPT ![c].at = @ + 1, ![c].word = word]
    <2>1. PICK first : first = [call EXCEPT !.at = @ + 1]
      OBVIOUS
    <2>2. /\ DOMAIN calls' = DOMAIN calls /\ calls'[c] = [first EXCEPT !.word = word]
          /\ \A d \in DOMAIN calls \ {c} : calls'[d] = calls[d]
      BY <1>1, <1>3, <2>1
    <2>3. first = [pin |-> call.pin, maps |-> call.maps, entry |-> call.entry,
                   at |-> call.at + 1, word |-> call.word, alone |-> call.alone]
      BY <1>1, <2>1 DEF IsCall
    <2>4. [first EXCEPT !.word = word] = next
      BY <1>2, <2>3
    <2> QED BY <1>1, <1>2, <2>2, <2>4 DEF GoneOn
  <1>4. CASE calls' = [calls EXCEPT ![c].at = @ + 1] /\ word = calls[c].word
    <2>1. PICK later : later = [call EXCEPT !.at = @ + 1]
      OBVIOUS
    <2>2. /\ DOMAIN calls' = DOMAIN calls /\ calls'[c] = later
          /\ \A d \in DOMAIN calls \ {c} : calls'[d] = calls[d]
      BY <1>1, <1>4, <2>1
    <2>3. later = next
      BY <1>1, <1>2, <1>4, <2>1 DEF IsCall
    <2> QED BY <1>1, <1>2, <2>2, <2>3 DEF GoneOn
  <1> QED BY <1>3, <1>4

(* An access of the call c, that writes to no pin at rest.                 *)
LEMMA AccessStep ==
    ASSUME IoInv, phase = "done", NEW c \in DOMAIN calls, calls[c].at \in 1 .. 7,
           UNCHANGED <<initVars, asked, mixed>>,
           NEW word, IsEntry(word), GoneOn(c, word),
           DOMAIN pins' = DOMAIN pins,
           \A q \in DOMAIN pins : IsEntry(pins'[q]) /\ (q \notin Busy => pins'[q] = pins[q]),
           \A d \in DOMAIN calls :
              calls'[d].at \in {2, 4, 6, 8} =>
                 calls[d].pin[1] \in DOMAIN index' /\ index'[calls[d].pin[1]].pin \in Busy,
           calls[c].alone => (SelectedInv(c) => SelectedInv(c)') /\ AloneInv(c)'
    PROVE  IoInv'
  <1>1. /\ phase' = phase /\ mixed' = mixed /\ asked' = asked
        /\ UNCHANGED <<system, madt, off, pin, open, ioapics>>
    BY DEF initVars
  <1>2. FoundInv' /\ LoopInv' /\ ListInv' /\ PinsInv' /\ \A q : Want(q)' = Want(q)
    BY <1>1, CallStep
  <1>3. IsCall(calls[c]) /\ SelectedInv(c)
    BY InCall DEF OneCall
  <1>4. /\ DOMAIN calls' = DOMAIN calls
        /\ IsCall(calls'[c]) /\ calls'[c].alone = calls[c].alone
        /\ \A d \in DOMAIN calls : calls'[d].pin = calls[d].pin
        /\ \A d \in DOMAIN calls \ {c} : calls'[d] = calls[d]
    <2>1. calls[c].at + 1 \in 1 .. 8 /\ (calls[c].at >= 5 => calls[c].at + 1 >= 5)
      OBVIOUS
    <2>2. IsCall(calls'[c])
      BY <1>3, <2>1 DEF GoneOn, IsCall
    <2> QED BY <2>2 DEF GoneOn
  <1>5. Busy' = Busy
    BY <1>1, <1>4 DEF Busy
  <1>6. ASSUME NEW d \in DOMAIN calls \ {c} PROVE OneCall(d)'
    <2>1. IsCall(calls[d]) /\ ~calls[d].alone
      BY InCall DEF OneCall
    <2> QED BY <1>4, <1>5, <2>1 DEF OneCall, SelectedInv, Selected, AloneInv
  <1>7. OneCall(c)'
    <2>1. CASE calls[c].alone
      BY <1>3, <1>4, <2>1 DEF OneCall
    <2>2. CASE ~calls[c].alone
      BY <1>4, <1>5, <2>2 DEF OneCall, SelectedInv, Selected, AloneInv
    <2> QED BY <2>1, <2>2
  <1>8. AskedInv'
    BY <1>1, <1>2, <1>4, <1>5, <1>6, <1>7, InCall DEF AskedInv, Ended
  <1> QED BY <1>2, <1>8 DEF IoInv

LEMMA SelectStep ==
    ASSUME IoInv, NEW c, SelectRegister(c)
    PROVE  IoInv'
  <1>1. PICK q, reg : q = calls[c].pin /\ reg = [part |-> Part(calls[c].at), pin |-> q]
    OBVIOUS
  <1>2. /\ phase = "done" /\ c \in DOMAIN calls /\ calls[c].at \in {1, 3, 5, 7}
        /\ index' = Updated(index, {q[1]}, reg)
        /\ calls' = [calls EXCEPT ![c].at = @ + 1]
        /\ UNCHANGED <<initVars, asked, mixed>> /\ pins' = pins
    BY <1>1, Zenon DEF SelectRegister, Stepping
  <1>3. /\ OneCall(c) /\ IsCall(calls[c]) /\ IsEntry(calls[c].word)
        /\ q \in Busy
    BY <1>1, <1>2, InCall DEF OneCall, IsCall
  <1>4. GoneOn(c, calls[c].word)
    BY <1>2, <1>3, GoesOn
  <1>5. /\ DOMAIN index' = DOMAIN index \cup {q[1]} /\ index'[q[1]] = reg
        /\ \A k \in DOMAIN index \ {q[1]} : index'[k] = index[k]
    <2>1. PICK k : k = q[1]
      OBVIOUS
    <2>2. index' = Updated(index, {k}, reg)
      BY <1>2, <2>1
    <2> QED BY <2>1, <2>2 DEF Updated
  <1>6. ASSUME NEW d \in DOMAIN calls, calls'[d].at \in {2, 4, 6, 8}
        PROVE  calls[d].pin[1] \in DOMAIN index' /\ index'[calls[d].pin[1]].pin \in Busy
    <2>1. CASE calls[d].pin[1] = q[1]
      BY <1>1, <1>3, <1>5, <2>1
    <2>2. CASE calls[d].pin[1] # q[1]
      <3>1. d # c /\ calls'[d] = calls[d]
        BY <1>1, <1>4, <2>2 DEF GoneOn
      <3>2. SelectedInv(d)
        BY <1>2, InCall DEF OneCall
      <3> QED BY <1>5, <1>6, <2>2, <3>1, <3>2 DEF SelectedInv, Selected
    <2> QED BY <2>1, <2>2
  <1>7. ASSUME calls[c].alone PROVE SelectedInv(c)' /\ AloneInv(c)'
    <2>1. phase' = phase /\ mixed' = mixed /\ asked' = asked
          /\ UNCHANGED <<system, madt, off, pin, open, ioapics>>
      BY <1>2 DEF initVars
    <2>2. \A r : Want(r)' = Want(r)
      BY <1>2, <2>1, CallStep
    <2>3. Part(calls[c].at) = Part(calls[c].at + 1)
      BY <1>2 DEF Part
    <2>4. SelectedInv(c)'
      <3>1. q \in Busy'
        BY <1>1, <1>2, <1>4 DEF Busy, GoneOn
      <3> QED BY <1>1, <1>4, <1>5, <2>3, <3>1 DEF SelectedInv, Selected, GoneOn
    <2>5. AloneInv(c)
      BY <1>3 DEF OneCall
    <2>6. /\ calls[c].at + 1 >= 5 => calls[c].at >= 5
          /\ calls[c].at + 1 \in {7, 8} => calls[c].at \in {7, 8}
      BY <1>2
    <2>7. AloneInv(c)'
      BY <1>2, <1>4, <1>7, <2>1, <2>2, <2>5, <2>6 DEF AloneInv, GoneOn
    <2> QED BY <2>4, <2>7
  <1>8. /\ DOMAIN pins' = DOMAIN pins /\ calls[c].at \in 1 .. 7
        /\ \A r \in DOMAIN pins : IsEntry(pins'[r]) /\ (r \notin Busy => pins'[r] = pins[r])
    BY <1>2, InCall
  <1>9. PICK word : word = calls[c].word
    OBVIOUS
  <1>10. IsEntry(word) /\ GoneOn(c, word)
    BY <1>3, <1>4, <1>9
  <1> QED BY <1>2, <1>6, <1>7, <1>8, <1>10, AccessStep

LEMMA ReadStep ==
    ASSUME IoInv, NEW c, ReadData(c)
    PROVE  IoInv'
  <1>1. PICK q, reg, word : q = calls[c].pin /\ reg = Selected(c) /\ word = ioapic_read(reg)
    OBVIOUS
  <1>2. /\ phase = "done" /\ c \in DOMAIN calls /\ calls[c].at \in {2, 6}
        /\ calls' = [calls EXCEPT ![c].at = @ + 1, ![c].word = word]
        /\ UNCHANGED <<initVars, asked, mixed>> /\ pins' = pins /\ index' = index
    BY <1>1, Zenon DEF ReadData, Stepping
  <1>3. /\ IsCall(calls[c]) /\ AloneInv(c)
        /\ reg.pin \in Busy /\ reg.pin \in DOMAIN pins /\ IsEntry(pins[reg.pin])
        /\ calls[c].alone => reg = [part |-> Part(calls[c].at), pin |-> q]
    BY <1>1, <1>2, InCall DEF OneCall, SelectedInv
  <1>4. GoneOn(c, word)
    BY <1>2, <1>3, GoesOn
  <1>5. IsEntry(word)
    <2>1. PICK e : e = pins[reg.pin]
      OBVIOUS
    <2>2. IsEntry(e)
      BY <1>3, <2>1
    <2>3. CASE reg.part = "low"
      BY <1>1, <2>1, <2>2, <2>3, EntryKept DEF ioapic_read
    <2>4. CASE reg.part # "low"
      BY <1>1, <2>1, <2>4, EntryIsEntry DEF ioapic_read
    <2> QED BY <2>3, <2>4
  <1>6. ASSUME NEW d \in DOMAIN calls, calls'[d].at \in {2, 4, 6, 8}
        PROVE  calls[d].pin[1] \in DOMAIN index' /\ index'[calls[d].pin[1]].pin \in Busy
    <2>1. calls'[c].at = calls[c].at + 1
      BY <1>4 DEF GoneOn
    <2>2. d # c /\ calls'[d] = calls[d]
      BY <1>2, <1>4, <1>6, <2>1 DEF GoneOn
    <2>3. SelectedInv(d)
      BY <1>2, InCall DEF OneCall
    <2> QED BY <1>2, <1>6, <2>2, <2>3 DEF SelectedInv, Selected
  <1>7. ASSUME calls[c].alone PROVE SelectedInv(c)' /\ AloneInv(c)'
    <2>1. phase' = phase /\ mixed' = mixed /\ asked' = asked
          /\ UNCHANGED <<system, madt, off, pin, open, ioapics>>
      BY <1>2 DEF initVars
    <2>2. \A r : Want(r)' = Want(r)
      BY <1>2, <2>1, CallStep
    <2>3. calls'[c].at \in {3, 7} /\ (calls'[c].at = 7 => calls[c].at = 6)
      <3>1. calls'[c].at = calls[c].at + 1
        BY <1>4 DEF GoneOn
      <3> QED BY <1>2, <3>1
    <2>4. SelectedInv(c)'
      BY <2>3 DEF SelectedInv
    <2>5. ASSUME ~calls[c].maps, q \notin mixed
          PROVE  word = [Want(q) EXCEPT !.dest = 0]
      <3>1. calls[c].at = 6
        BY <1>2, <1>3, <2>5 DEF IsCall
      <3>2. reg.part = "low" /\ reg.pin = q
        BY <1>3, <1>7, <3>1 DEF Part
      <3>3. pins[q] = Want(q)
        BY <1>1, <1>3, <1>7, <2>5 DEF AloneInv
      <3> QED BY <1>1, <3>2, <3>3 DEF ioapic_read
    <2>6. calls[c].maps /\ calls'[c].at >= 5 => calls[c].at >= 5
      BY <1>2, <2>3
    <2>7. /\ calls'[c].pin = q /\ calls'[c].maps = calls[c].maps /\ calls'[c].word = word
          /\ calls'[c].entry = calls[c].entry /\ DOMAIN calls' = DOMAIN calls
      BY <1>1, <1>4 DEF GoneOn
    <2>8. /\ DOMAIN calls = {c}
          /\ calls[c].maps => /\ calls[c].entry.dest = c
                              /\ calls[c].at >= 5 => pins[q].dest = c
          /\ ~calls[c].maps /\ q \notin mixed => pins[q] = Want(q)
      BY <1>1, <1>3, <1>7 DEF AloneInv
    <2>9. AloneInv(c)'
      BY <1>2, <2>1, <2>2, <2>5, <2>6, <2>7, <2>8 DEF AloneInv
    <2> QED BY <2>4, <2>9
  <1>8. /\ DOMAIN pins' = DOMAIN pins /\ calls[c].at \in 1 .. 7
        /\ \A r \in DOMAIN pins : IsEntry(pins'[r]) /\ (r \notin Busy => pins'[r] = pins[r])
    BY <1>2, InCall
  <1> QED BY <1>2, <1>4, <1>5, <1>6, <1>7, <1>8, AccessStep

LEMMA WriteHighStep ==
    ASSUME IoInv, NEW c, WriteHigh(c, c)
    PROVE  IoInv'
  <1>1. PICK q, reg, word, old :
           /\ q = calls[c].pin /\ reg = Selected(c)
           /\ word = [calls[c].word EXCEPT !.dest = c] /\ old = pins[reg.pin]
    OBVIOUS
  <1>2. /\ phase = "done" /\ c \in DOMAIN calls /\ calls[c].at = 4
        /\ calls' = [calls EXCEPT ![c].at = @ + 1]
        /\ UNCHANGED <<initVars, asked, mixed>> /\ index' = index
        /\ ioapic_write(reg, word)
    BY <1>1, Zenon DEF WriteHigh, Stepping
  <1>3. /\ IsCall(calls[c]) /\ AloneInv(c)
        /\ reg.pin \in Busy /\ reg.pin \in DOMAIN pins /\ IsEntry(old)
        /\ calls[c].alone => reg = [part |-> Part(calls[c].at), pin |-> q]
    BY <1>1, <1>2, InCall DEF OneCall, SelectedInv
  <1>4. GoneOn(c, calls[c].word)
    BY <1>2, <1>3, GoesOn
  <1>5. IsEntry(word) /\ word.dest = c
    BY <1>1, <1>3, EntryKept DEF IsCall
  <1>6. PICK new : new = IF reg.part = "low" THEN [word EXCEPT !.dest = old.dest]
                         ELSE [old EXCEPT !.dest = c]
    OBVIOUS
  <1>7. /\ DOMAIN pins' = DOMAIN pins /\ pins'[reg.pin] = new
        /\ \A r \in DOMAIN pins : r # reg.pin => pins'[r] = pins[r]
    BY <1>1, <1>2, <1>3, <1>5, <1>6 DEF ioapic_write
  <1>8. IsEntry(new) /\ (reg.part # "low" => new.dest = c)
    BY <1>3, <1>5, <1>6, EntryKept
  <1>9. \A r \in DOMAIN pins : IsEntry(pins'[r]) /\ (r \notin Busy => pins'[r] = pins[r])
    BY <1>2, <1>3, <1>7, <1>8, InCall
  <1>10. ASSUME NEW d \in DOMAIN calls, calls'[d].at \in {2, 4, 6, 8}
         PROVE  calls[d].pin[1] \in DOMAIN index' /\ index'[calls[d].pin[1]].pin \in Busy
    <2>1. calls'[c].at = 5
      BY <1>2, <1>4 DEF GoneOn
    <2>2. d # c /\ calls'[d] = calls[d]
      BY <1>4, <1>10, <2>1 DEF GoneOn
    <2>3. SelectedInv(d)
      BY <1>2, InCall DEF OneCall
    <2> QED BY <1>2, <1>10, <2>2, <2>3 DEF SelectedInv, Selected
  <1>11. ASSUME calls[c].alone PROVE SelectedInv(c)' /\ AloneInv(c)'
    <2>1. calls'[c].at = 5 /\ calls'[c].maps = calls[c].maps /\ calls[c].maps
          /\ calls'[c].entry = calls[c].entry /\ calls'[c].pin = q
      BY <1>1, <1>2, <1>3, <1>4 DEF GoneOn, IsCall
    <2>2. SelectedInv(c)'
      BY <2>1 DEF SelectedInv
    <2>3. reg.part = "high" /\ reg.pin = q
      BY <1>2, <1>3, <1>11 DEF Part
    <2>4. pins'[q].dest = c
      BY <1>7, <1>8, <2>3
    <2>5. DOMAIN calls' = {c} /\ calls[c].entry.dest = c
      BY <1>3, <1>4, <1>11, <2>1 DEF AloneInv, GoneOn
    <2>6. AloneInv(c)'
      BY <2>1, <2>4, <2>5 DEF AloneInv
    <2> QED BY <2>2, <2>6
  <1>12. PICK held : held = calls[c].word
    OBVIOUS
  <1>13. IsEntry(held) /\ GoneOn(c, held) /\ calls[c].at \in 1 .. 7
    BY <1>2, <1>3, <1>4, <1>12 DEF IsCall
  <1> QED BY <1>2, <1>7, <1>9, <1>10, <1>11, <1>13, AccessStep

(* The last access of a call, which is taken into account.                 *)
LEMMA WriteLowStep ==
    ASSUME IoInv, NEW c, WriteLow(c, BootCore)
    PROVE  IoInv'
  <1>1. PICK call, q, reg, word, old :
           /\ call = calls[c] /\ q = call.pin /\ reg = Selected(c)
           /\ word = NewLow(call) /\ old = pins[reg.pin]
    OBVIOUS
  <1>2. /\ phase = "done" /\ c \in DOMAIN calls /\ call.at = 8
        /\ ioapic_write(reg, word)
        /\ Account(call, BootCore)
        /\ calls' = Restrict(calls, DOMAIN calls \ {c})
        /\ UNCHANGED initVars /\ index' = index
    BY <1>1, Zenon DEF WriteLow, Stepping
  <1>3. /\ IsCall(call) /\ AloneInv(c) /\ q \in Busy /\ q \in DOMAIN pins
        /\ reg.pin \in Busy /\ reg.pin \in DOMAIN pins /\ IsEntry(old)
        /\ call.alone => reg = [part |-> "low", pin |-> q]
    <2>1. Part(8) = "low"
      BY DEF Part
    <2> QED BY <1>1, <1>2, <2>1, InCall DEF OneCall, SelectedInv
  <1>4. IsEntry(call.entry) /\ IsEntry(call.word)
    BY <1>3 DEF IsCall
  <1>5. IsEntry(word)
    BY <1>1, <1>4, EntryKept DEF NewLow
  <1>6. PICK new : new = IF reg.part = "low" THEN [word EXCEPT !.dest = old.dest]
                         ELSE [old EXCEPT !.dest = word.dest]
    OBVIOUS
  <1>7. /\ DOMAIN pins' = DOMAIN pins /\ pins'[reg.pin] = new
        /\ \A r \in DOMAIN pins : r # reg.pin => pins'[r] = pins[r]
    BY <1>1, <1>2, <1>3, <1>6 DEF ioapic_write
  <1>8. IsEntry(new)
    BY <1>3, <1>5, <1>6, EntryKept
  <1>9. \A r \in DOMAIN pins : IsEntry(pins'[r]) /\ (r \notin Busy => pins'[r] = pins[r])
    BY <1>2, <1>3, <1>7, <1>8, InCall
  <1>10. /\ phase' = phase /\ UNCHANGED <<system, madt, off, pin, open, ioapics>>
    BY <1>2 DEF initVars
  <1>11. /\ FoundInv' /\ LoopInv' /\ ListInv' /\ PinsInv' /\ Ended'
         /\ \A r : Want(r)' = IF r \in DOMAIN asked' THEN asked'[r]
                              ELSE After(r, Len(TheTable), TRUE)
         /\ asked' = asked => \A r : Want(r)' = Want(r)
    BY <1>2, <1>7, <1>10, CallStep DEF Ended
  <1>12. /\ DOMAIN calls' = DOMAIN calls \ {c}
         /\ \A d \in DOMAIN calls' : calls'[d] = calls[d]
    BY <1>2 DEF Restrict
  <1>13. CASE ~call.alone
    <2>1. mixed' = mixed \cup {q} /\ asked' = asked
      BY <1>1, <1>2, <1>13 DEF Account
    <2>2. Busy' = Busy
      <3>1. \A d \in DOMAIN calls : d # c => d \in DOMAIN calls' /\ calls'[d] = calls[d]
        BY <1>12
      <3>2. ASSUME NEW x \in Busy PROVE x \in Busy'
        <4>1. CASE x \in mixed
          BY <2>1, <4>1 DEF Busy
        <4>2. CASE x \notin mixed
          <5>1. PICK d \in DOMAIN calls : x = calls[d].pin
            BY <3>2, <4>2 DEF Busy
          <5> QED BY <1>1, <2>1, <3>1, <5>1 DEF Busy
        <4> QED BY <4>1, <4>2
      <3>3. ASSUME NEW x \in Busy' PROVE x \in Busy
        <4>1. CASE x \in mixed'
          BY <1>3, <2>1, <4>1 DEF Busy
        <4>2. CASE x \notin mixed'
          <5>1. PICK d \in DOMAIN calls' : x = calls'[d].pin
            BY <3>3, <4>2 DEF Busy
          <5> QED BY <1>12, <5>1 DEF Busy
        <4> QED BY <4>1, <4>2
      <3> QED BY <3>2, <3>3
    <2>3. ASSUME NEW d \in DOMAIN calls' PROVE OneCall(d)'
      <3>1. d \in DOMAIN calls /\ d # c /\ calls'[d] = calls[d]
        BY <1>12
      <3>2. OneCall(d) /\ (calls[d].alone => DOMAIN calls = {d})
        BY <1>2, <3>1, InCall
      <3>3. ~calls[d].alone
        BY <1>2, <3>1, <3>2
      <3> QED BY <1>2, <2>2, <3>1, <3>2, <3>3 DEF OneCall, SelectedInv, Selected, AloneInv
    <2>4. AskedInv'
      <3>1. \A r \in DOMAIN pins : IsEntry(Want(r)') /\ (r \notin Busy => pins'[r] = Want(r)')
        BY <1>2, <1>9, <1>11, <2>1, InCall
      <3>2. Busy \subseteq DOMAIN pins
        BY <1>2, InCall
      <3> QED BY <1>7, <1>9, <1>11, <2>2, <2>3, <3>1, <3>2 DEF AskedInv, IsEntry
    <2> QED BY <1>11, <2>4 DEF IoInv
  <1>14. CASE call.alone
    <2>1. /\ DOMAIN calls = {c} /\ DOMAIN calls' = {} /\ reg.part = "low" /\ reg.pin = q
      BY <1>1, <1>3, <1>12, <1>14 DEF AloneInv
    <2>2. PICK asks : asks = IF call.maps THEN call.entry
                             ELSE [Want(q) EXCEPT !.mask = call.entry.mask]
      OBVIOUS
    <2>3. /\ asked' = Updated(asked, {q}, asks)
          /\ mixed' = IF call.maps THEN mixed \ {q} ELSE mixed
      BY <1>1, <1>2, <1>14, <2>2, FromTableIsAfter, Zenon DEF Account
    <2>4. IsEntry(asks)
      BY <1>2, <1>3, <1>4, <2>2, InCall, EntryKept
    <2>5. /\ DOMAIN asked' = DOMAIN asked \cup {q} /\ asked'[q] = asks
          /\ \A r \in DOMAIN asked \ {q} : asked'[r] = asked[r]
      BY <2>3 DEF Updated
    <2>6. Want(q)' = asks /\ \A r : r # q => Want(r)' = Want(r)
      BY <1>11, <2>5 DEF Want
    <2>7. Busy = mixed \cup {q} /\ Busy' = mixed'
      BY <1>1, <2>1 DEF Busy
    <2>8. new = [word EXCEPT !.dest = old.dest] /\ old = pins[q] /\ pins'[q] = new
      BY <1>1, <1>6, <1>7, <2>1
    <2>9. ASSUME call.maps PROVE new = asks
      <3>1. old.dest = c /\ call.entry.dest = c
        BY <1>1, <1>2, <1>3, <1>14, <2>8, <2>9 DEF AloneInv
      <3>2. word = [call.entry EXCEPT !.dest = call.word.dest] /\ asks = call.entry
        BY <1>1, <2>2, <2>9 DEF NewLow
      <3> QED BY <1>4, <2>8, <3>1, <3>2 DEF IsEntry
    <2>10. ASSUME ~call.maps, q \notin mixed PROVE new = asks
      <3>1. old = Want(q) /\ call.word = [Want(q) EXCEPT !.dest = 0]
        BY <1>1, <1>2, <1>3, <1>14, <2>8, <2>10 DEF AloneInv
      <3>2. word = [call.word EXCEPT !.mask = call.entry.mask]
        BY <1>1, <2>10 DEF NewLow
      <3>3. asks = [old EXCEPT !.mask = call.entry.mask]
        BY <2>2, <2>10, <3>1
      <3> QED BY <1>3, <2>8, <3>1, <3>2, <3>3 DEF IsEntry
    <2>11. ASSUME NEW r \in DOMAIN pins \ mixed' PROVE pins'[r] = Want(r)'
      <3>1. CASE r = q
        BY <2>3, <2>6, <2>8, <2>9, <2>10, <2>11, <3>1
      <3>2. CASE r # q
        <4>1. r \notin Busy
          BY <2>3, <2>7, <2>11, <3>2
        <4> QED BY <1>2, <1>9, <2>6, <3>2, <4>1, InCall
      <3> QED BY <3>1, <3>2
    <2>12. ASSUME NEW r \in DOMAIN pins PROVE IsEntry(Want(r)')
      BY <1>2, <2>4, <2>6, InCall
    <2>13. Busy' \subseteq DOMAIN pins
      BY <1>2, <2>3, <2>7, InCall
    <2>14. AskedInv'
      BY <1>7, <1>9, <1>11, <2>1, <2>7, <2>11, <2>12, <2>13 DEF AskedInv, IsEntry
    <2> QED BY <1>11, <2>14 DEF IoInv
  <1> QED BY <1>13, <1>14

LEMMA StepsOfCalls ==
    ASSUME IoInv, NEW c, Step(c, c, BootCore)
    PROVE  IoInv'
  BY SelectStep, ReadStep, WriteHighStep, WriteLowStep DEF Step

-----------------------------------------------------------------------------
(* The whole start.                                                        *)

PlatformInv == CoreInv /\ IoInv

LEMMA NumberOfCore ==
    ASSUME CoreInv, NEW c \in Cores, Usable(c)
    PROVE  interrupt_get_cpuidx(c) = c
  <1>1. base[c] = c /\ "apic" \in ready[c] /\ "apic" \in Data
    BY DataNames DEF Usable
  <1>2. ptr["apic"] \in Nat /\ Size["apic"] \in Nat \ {0}
    BY <1>1 DEF CoreInv, TypeInv
  <1>3. 0 \in 0 .. Size["apic"] - 1
    BY <1>2
  <1>4. tls[c][ptr["apic"] + 0] = <<c, "apic">>
    BY <1>1, <1>3 DEF CoreInv, OwnData
  <1>5. ptr["apic"] + 0 = ptr["apic"]
    BY <1>2
  <1> QED BY <1>1, <1>4, <1>5 DEF interrupt_get_cpuidx

LEMMA InitPlatform == Init => PlatformInv
  BY InitCoreInv, InitIo DEF Init, PlatformInv

LEMMA StepPlatform == PlatformInv /\ [Next]_vars => PlatformInv'
  <1> SUFFICES ASSUME PlatformInv, [Next]_vars PROVE PlatformInv'
    OBVIOUS
  <1>1. CASE UNCHANGED vars
    BY <1>1, StepCoreInv, IoStays DEF vars, PlatformInv
  <1>2. CASE CoreNext /\ UNCHANGED <<ioVars, left>>
    BY <1>2, StepCoreInv, IoStays DEF PlatformInv
  <1>3. CASE InitIoApic
    <2>1. interrupt_get_cpuidx(BootCore) = BootCore
      BY <1>3, NumberOfCore DEF InitIoApic, PlatformInv
    <2>2. ioapic_init(BootCore) /\ UNCHANGED coreVars
      BY <1>3, <2>1 DEF InitIoApic
    <2> QED BY <2>2, StepCoreInv, InitIoApicStep DEF PlatformInv
  <1>4. ASSUME NEW c \in Cores, Call(c) PROVE PlatformInv'
    <2>1. CoreInv'
      BY <1>4, StepCoreInv DEF Call, PlatformInv
    <2>2. PICK line \in Lines :
            \/ \E irq \in Irqs, flag \in Flags : interrupt_mapinterrupt(c, line, irq, flag, flag)
            \/ \E mask \in BOOLEAN : interrupt_setmask(c, line, mask)
      BY <1>4 DEF Call
    <2>3. ASSUME NEW irq \in Irqs, NEW flag \in Flags,
                 interrupt_mapinterrupt(c, line, irq, flag, flag)
          PROVE  IoInv'
      <3>1. PICK entry : entry = Entry(irq, flag, flag, FALSE, c)
        OBVIOUS
      <3>2. IsEntry(entry) /\ entry.dest = c
        BY <3>1 DEF Entry, IsEntry
      <3>3. Begin(c, line, TRUE, entry)
        BY <2>3, <3>1, Zenon DEF interrupt_mapinterrupt
      <3> QED BY <3>2, <3>3, BeginStep DEF PlatformInv
    <2>4. ASSUME NEW mask \in BOOLEAN, interrupt_setmask(c, line, mask) PROVE IoInv'
      <3>1. PICK entry : entry = Entry(0, 0, 0, mask, c)
        OBVIOUS
      <3>2. IsEntry(entry) /\ entry.dest = c
        BY <3>1 DEF Entry, IsEntry
      <3>3. Begin(c, line, FALSE, entry)
        BY <2>4, <3>1, Zenon DEF interrupt_setmask
      <3> QED BY <3>2, <3>3, BeginStep DEF PlatformInv
    <2> QED BY <2>1, <2>2, <2>3, <2>4 DEF PlatformInv
  <1>5. ASSUME NEW c \in Cores, Access(c) PROVE PlatformInv'
    <2>1. Step(c, c, BootCore) /\ UNCHANGED coreVars
      BY <1>5, NumberOfCore DEF Access, PlatformInv
    <2> QED BY <2>1, StepCoreInv, StepsOfCalls DEF PlatformInv
  <1> QED BY <1>1, <1>2, <1>3, <1>4, <1>5 DEF Next

LEMMA RestIsNotBusy == \A q : AtRest(q) <=> q \notin Busy
  BY DEF AtRest, Busy

LEMMA PinsAreRight == IoInv => PinsFollowTables
  <1> SUFFICES ASSUME IoInv, phase = "done"
               PROVE  /\ ioapics = Controllers
                      /\ DOMAIN pins = AllPins
                      /\ \A q \in DOMAIN pins : AtRest(q) => pins[q] = Wanted(q, BootCore)
    BY DEF PinsFollowTables
  <1>1. Joined = Count(Len(TheTable)) /\ \A k : Mapped(k) = Controllers[k].redirs
    BY DEF Joined, Mapped, Begun
  <1>2. ioapics = Controllers
    BY <1>1, ControllersWhole DEF IoInv, ListInv
  <1>3. DOMAIN Controllers = 1 .. Joined
    BY <1>1, ControllersWhole
  <1>4. MappedPins = AllPins
    BY <1>1, <1>3 DEF MappedPins, AllPins
  <1>5. DOMAIN pins = AllPins
    BY <1>4 DEF IoInv, PinsInv
  <1>6. \A q \in DOMAIN pins : AtRest(q) => pins[q] = Wanted(q, BootCore)
    BY FromTableIsAfter, RestIsNotBusy, InCall
  <1> QED BY <1>2, <1>5, <1>6

LEMMA PinsAreMasked == IoInv => MaskedUntilAsked
  <1> SUFFICES ASSUME IoInv PROVE MaskedUntilAsked
    OBVIOUS
  <1>1. /\ phase = "failed" => TheTable = << >>
        /\ phase = "fault" => system.xsdt # Zero /\ ~system.xsdt.ok
        /\ phase \in {"start", "pins", "overrides", "done", "failed", "fault", "wild"}
    BY DEF IoInv, FoundInv
  <1>2. ASSUME NEW q \in DOMAIN pins, q # open, q \notin Busy
        PROVE  pins[q].mask \/ (q \in DOMAIN asked /\ pins[q] = asked[q])
    <2>1. CASE Ended
      <3>1. pins[q] = Want(q)
        BY <1>2, <2>1 DEF IoInv, AskedInv
      <3>2. After(q, Len(TheTable), TRUE).mask = TRUE
        BY MaskOfEntry, Zenon
      <3> QED BY <3>1, <3>2 DEF Want
    <2>2. CASE ~Ended
      <3>1. PICK n : pins[q] = After(q, n, TRUE)
        BY <1>1, <1>2, <2>2 DEF IoInv, PinsInv, Ended
      <3>2. After(q, n, TRUE).mask = TRUE
        BY MaskOfEntry, Zenon
      <3> QED BY <3>1, <3>2
    <2> QED BY <2>1, <2>2
  <1> QED BY <1>1, <1>2, RestIsNotBusy DEF MaskedUntilAsked

(* Of any firmware, whatever cores start meanwhile and however the         *)
(* accesses of their calls interleave: once the controllers are            *)
(* initialised every pin of every controller is as the tables say, but for *)
(* the polarity and the trigger mode, with the boot core as its target;    *)
(* from a call on that overlapped with no other it is as that call asked,  *)
(* with the calling core.  Calls that overlap change no other pin than the *)
(* pins they take, and a mapping that overlaps with none repairs a pin.    *)
THEOREM PinsAsTheTablesSay == Spec => []PinsFollowTables
  <1>1. PlatformInv => PinsFollowTables
    BY PinsAreRight DEF PlatformInv
  <1> QED BY <1>1, InitPlatform, StepPlatform, PTL DEF Spec

(* However the accesses of calls interleave, no pin is open that nobody    *)
(* asked for, but for the one ioapic_init is at and the pins that          *)
(* overlapping calls have taken; and ioapic_init ends early only if there  *)
(* is no table, or by the result of acpi_find for a damaged XSDT.          *)
THEOREM OpenedOnRequest == Spec => []MaskedUntilAsked
  <1>1. PlatformInv => MaskedUntilAsked
    BY PinsAreMasked DEF PlatformInv
  <1> QED BY <1>1, InitPlatform, StepPlatform, PTL DEF Spec

(* The same holds of the cores' own data while the controllers are set up. *)
THEOREM OwnDataOnThePlatform == Spec => []OwnData
  <1>1. PlatformInv => OwnData
    BY DEF PlatformInv, CoreInv
  <1> QED BY <1>1, InitPlatform, StepPlatform, PTL DEF Spec

=============================================================================
