----------------------------- MODULE TrapProofs -----------------------------
(***************************************************************************)
(* Proofs about an interrupt, from the frame it pushes to the message it   *)
(* may leave on the console.  The frame holds the interrupted thread,      *)
(* threads resume with their registers and GS follows the mode, for every  *)
(* number of threads of either level and all vectors.  The functions the   *)
(* console is built from (CLibrary) do what they promise, for every size   *)
(* of memory, every string and every number of a width, and the screen and *)
(* the command line keep what the runs check of them.                      *)
(***************************************************************************)
EXTENDS TrapFrame, Console, FiniteSetTheorems, SequenceTheorems, WellFoundedInduction, TLAPS

-----------------------------------------------------------------------------
(* The layout: the lists of idt_defaulthandler and the fields of regs_t.   *)

FrameSize == 23

LEMMA Lists ==
    /\ Len(regs_t) = FrameSize /\ Len(Pushed) = 15 /\ Len(Popped) = 16
    /\ \A i \in 2 .. 16 : regs_t[i] = Pushed[17 - i] /\ Popped[i] = regs_t[i]
    /\ regs_t[17] = "int_no" /\ regs_t[19] = "rip" /\ regs_t[20] = "cs"
    /\ regs_t[21] = "rflags" /\ regs_t[22] = "useresp" /\ regs_t[23] = "ss"
    /\ regs_t[1] = "rsp" /\ Popped[1] = "rsp"
  BY DEF regs_t, Pushed, Popped, FrameSize

LEMMA NamesDiffer ==
    ASSUME NEW i \in 1 .. FrameSize, NEW j \in 1 .. FrameSize, regs_t[i] = regs_t[j]
    PROVE  i = j
  BY DEF regs_t, FrameSize

LEMMA PositionFound ==
    ASSUME NEW list, NEW name, NEW i \in 1 .. Len(list), list[i] = name
    PROVE  Position(name, list) \in 1 .. Len(list) /\ list[Position(name, list)] = name
  BY DEF Position

LEMMA FieldAt ==
    ASSUME NEW i \in 1 .. FrameSize
    PROVE  Position(regs_t[i], regs_t) = i
  <1>1. /\ Position(regs_t[i], regs_t) \in 1 .. FrameSize
        /\ regs_t[Position(regs_t[i], regs_t)] = regs_t[i]
    <2>1. i \in 1 .. Len(regs_t)
      BY Lists
    <2>2. /\ Position(regs_t[i], regs_t) \in 1 .. Len(regs_t)
          /\ regs_t[Position(regs_t[i], regs_t)] = regs_t[i]
      BY <2>1, PositionFound
    <2> QED BY <2>2, Lists
  <1> QED BY <1>1, NamesDiffer

LEMMA PopAt ==
    ASSUME NEW i \in 1 .. 16
    PROVE  Position(regs_t[i], Popped) = i
  <1>1. \A j \in 1 .. 16 : Popped[j] = regs_t[j]
    <2>1. \A j \in 1 .. 16 : j = 1 \/ j \in 2 .. 16
      OBVIOUS
    <2> QED BY <2>1, Lists
  <1>2. /\ Position(regs_t[i], Popped) \in 1 .. 16
        /\ Popped[Position(regs_t[i], Popped)] = regs_t[i]
    <2>1. Popped[i] = regs_t[i] /\ i \in 1 .. Len(Popped)
      BY <1>1, Lists
    <2>2. /\ Position(regs_t[i], Popped) \in 1 .. Len(Popped)
          /\ Popped[Position(regs_t[i], Popped)] = regs_t[i]
      BY <2>1, PositionFound
    <2> QED BY <2>2, Lists
  <1>3. regs_t[Position(regs_t[i], Popped)] = regs_t[i]
    BY <1>1, <1>2
  <1>4. \A j \in 1 .. 16 : j \in 1 .. FrameSize
    BY DEF FrameSize
  <1> QED BY <1>2, <1>3, <1>4, NamesDiffer

(* The registers that the stub saves, and where.                           *)
LEMMA GeneralField ==
    ASSUME NEW r \in General
    PROVE  \E i \in 2 .. 16 : r = regs_t[i] /\ FieldOf(r) = i /\ Position(r, Popped) = i
  <1>1. PICK j \in 1 .. 15 : r = Pushed[j]
    BY Lists DEF General
  <1>2. 17 - j \in 2 .. 16 /\ 17 - (17 - j) = j
    OBVIOUS
  <1>3. r = regs_t[17 - j]
    BY <1>1, <1>2, Lists
  <1>4. r # "rsp"
    <2>1. regs_t[17 - j] # regs_t[1]
      BY <1>2, NamesDiffer DEF FrameSize
    <2> QED BY <1>3, <2>1, Lists
  <1>5. Position(r, regs_t) = 17 - j /\ Position(r, Popped) = 17 - j
    BY <1>2, <1>3, FieldAt, PopAt DEF FrameSize
  <1> QED BY <1>2, <1>3, <1>4, <1>5 DEF FieldOf

LEMMA OtherFields ==
    /\ FieldOf("rip") = 19 /\ FieldOf("cs") = 20 /\ FieldOf("rflags") = 21
    /\ FieldOf("rsp") = 22 /\ FieldOf("ss") = 23
    /\ Position("int_no", regs_t) = 17 /\ Position("cs", regs_t) = 20
  <1>1. /\ Position("rip", regs_t) = 19 /\ Position("cs", regs_t) = 20
        /\ Position("rflags", regs_t) = 21 /\ Position("useresp", regs_t) = 22
        /\ Position("ss", regs_t) = 23 /\ Position("int_no", regs_t) = 17
    BY FieldAt, Lists DEF FrameSize
  <1> QED BY <1>1 DEF FieldOf

LEMMA RegisterCases ==
    /\ \A r \in Registers : r \in General \/ r \in {"rip", "cs", "rflags", "rsp", "ss"}
    /\ \A r \in General : r \notin {"rip", "cs", "rflags", "rsp", "ss"}
    /\ {"rip", "cs", "rflags", "rsp", "ss"} \subseteq Registers
  <1>1. ASSUME NEW r \in General
        PROVE  r \notin {"rip", "cs", "rflags", "rsp", "ss"}
    <2>1. PICK i \in 2 .. 16 : r = regs_t[i]
      BY <1>1, GeneralField
    <2>2. \A j \in {1, 19, 20, 21, 23} : regs_t[j] # r
      BY <2>1, NamesDiffer DEF FrameSize
    <2> QED BY <2>2, Lists
  <1> QED BY <1>1 DEF Registers

(* No field holds two registers.                                           *)
LEMMA FieldsDiffer ==
    /\ \A r \in Registers : FieldOf(r) \in (2 .. 16) \cup (19 .. 23)
    /\ \A r, s \in Registers : FieldOf(r) = FieldOf(s) => r = s
  <1>1. ASSUME NEW r \in Registers
        PROVE  /\ r \in General => FieldOf(r) \in 2 .. 16 /\ r = regs_t[FieldOf(r)]
               /\ r \notin General => FieldOf(r) \in 19 .. 23
    BY GeneralField, OtherFields, RegisterCases
  <1>2. ASSUME NEW r \in Registers, NEW s \in Registers, FieldOf(r) = FieldOf(s)
        PROVE  r = s
    <2>1. CASE r \in General
      <3>1. s \in General
        BY <1>1, <1>2, <2>1
      <3> QED BY <1>1, <1>2, <2>1, <3>1
    <2>2. CASE r \notin General
      <3>1. s \notin General
        BY <1>1, <1>2, <2>2
      <3> QED BY <1>2, <2>2, <3>1, OtherFields, RegisterCases
    <2> QED BY <2>1, <2>2
  <1> QED BY <1>1, <1>2

-----------------------------------------------------------------------------
(* The inductive invariant.                                                *)

TypeInv ==
    /\ cpu \in [Registers -> Int]
    /\ context \in [Threads -> [Registers -> Int]]
    /\ states \in [Threads -> [Registers -> Int]]
    /\ stack \in Seq(Int) /\ (stack = << >> \/ Len(stack) = FrameSize)
    /\ running \in Threads
    /\ gs \in {"tls", "user"} /\ saved \in BOOLEAN /\ vector \in 0 .. 255

(* No thread changes its level: the ss of its frame is its own already.    *)
LevelsKept ==
    \A t \in Threads :
        /\ context[t]["cs"] = IF t \in UserThreads THEN 43 ELSE 8
        /\ context[t]["ss"] = IF t \in UserThreads THEN 35 ELSE 16

(* A handler that may give the frame to another thread has the state of    *)
(* the one it takes it from.                                               *)
MetIsSaved == stack # << >> /\ saved => states[running] = context[running]

IInv ==
    /\ TypeInv /\ LevelsKept /\ MetIsSaved
    /\ FrameHoldsThread /\ ThreadsResume /\ GsFollowsMode

LEMMA WordIsInt ==
    ASSUME NEW t \in Int, NEW r \in Registers, NEW n \in Int
    PROVE  WordOf(t, r, n) \in Int
  <1>1. Position(r, regs_t) \in Int
    <2>1. CASE r = "rsp"
      <3>1. Position(regs_t[1], regs_t) = 1
        BY FieldAt DEF FrameSize
      <3> QED BY <2>1, <3>1, Lists
    <2>2. CASE r # "rsp"
      <3>1. Position(r, regs_t) = FieldOf(r)
        BY <2>2 DEF FieldOf
      <3> QED BY <3>1, FieldsDiffer
    <2> QED BY <2>1, <2>2
  <1> QED BY <1>1 DEF WordOf

LEMMA DefaultState ==
    ASSUME NEW t \in Threads
    PROVE  /\ mp_platform_getdefaultstate(t) \in [Registers -> Int]
           /\ mp_platform_getdefaultstate(t)["cs"] = IF t \in UserThreads THEN 43 ELSE 8
           /\ mp_platform_getdefaultstate(t)["ss"] = IF t \in UserThreads THEN 35 ELSE 16
  <1>1. t \in Int
    BY DEF Threads
  <1>2. "rsp" \in Registers /\ "cs" \in Registers /\ "ss" \in Registers
    BY RegisterCases
  <1>3. \A r \in Registers : WordOf(t, r, 0) \in Int
    BY <1>1, WordIsInt
  <1> QED BY <1>2, <1>3 DEF mp_platform_getdefaultstate

LEMMA Levels == ~User(8) /\ User(43)
  BY DEF User

(* The initial states.                                                     *)
LEMMA InitIInv == Init => IInv
  <1> SUFFICES ASSUME Init PROVE IInv
    OBVIOUS
  <1>1. context \in [Threads -> [Registers -> Int]]
    BY DefaultState DEF Init
  <1>2. TypeInv
    <2>1. << >> \in Seq(Int)
      BY EmptySeq
    <2>2. running \in Threads /\ vector \in 0 .. 255 /\ gs \in {"tls", "user"}
      BY DEF Init
    <2>3. cpu \in [Registers -> Int] /\ states \in [Threads -> [Registers -> Int]]
      BY <1>1, <2>2 DEF Init
    <2>4. stack = << >> /\ saved \in BOOLEAN
      BY DEF Init
    <2> QED BY <1>1, <2>1, <2>2, <2>3, <2>4 DEF TypeInv
  <1>3. LevelsKept
    BY DefaultState DEF Init, LevelsKept
  <1>4. MetIsSaved /\ FrameHoldsThread /\ ThreadsResume
    BY DEF Init, MetIsSaved, FrameHoldsThread, ThreadsResume
  <1>5. GsFollowsMode
    <2>1. cpu["cs"] = 8
      BY <1>3 DEF Init, LevelsKept
    <2> QED BY <2>1, Levels DEF Init, GsFollowsMode
  <1> QED BY <1>2, <1>3, <1>4, <1>5 DEF IInv

-----------------------------------------------------------------------------
(* The thread computes.                                                    *)

LEMMA ComputeIInv == IInv /\ Compute => IInv'
  <1> SUFFICES ASSUME IInv, Compute PROVE IInv'
    OBVIOUS
  <1> USE DEF IInv
  <1>1. running \in Threads /\ running \in Int
    BY DEF TypeInv, Threads
  <1>2. PICK n \in {1, 2} :
          cpu' = [r \in Registers |->
                    IF r \in {"cs", "ss"} THEN cpu[r] ELSE WordOf(running, r, n)]
    BY DEF Compute
  <1>3. /\ cpu' \in [Registers -> Int]
        /\ cpu'["cs"] = cpu["cs"] /\ cpu'["ss"] = cpu["ss"]
    <2>1. \A r \in Registers : WordOf(running, r, n) \in Int
      BY <1>1, WordIsInt
    <2>2. "cs" \in Registers /\ "ss" \in Registers
      BY RegisterCases
    <2> QED BY <1>2, <2>1, <2>2 DEF TypeInv
  <1>4. /\ context' \in [Threads -> [Registers -> Int]] /\ context'[running] = cpu'
        /\ \A t \in Threads \ {running} : context'[t] = context[t]
    BY <1>1, <1>3 DEF Compute, TypeInv
  <1>5. stack = << >> /\ UNCHANGED <<gs, stack, running, saved, states, vector>>
    BY DEF Compute
  <1>6. TypeInv'
    BY <1>3, <1>4, <1>5 DEF TypeInv
  <1>7. LevelsKept'
    <2>1. cpu = context[running]
      BY <1>5 DEF ThreadsResume
    <2> QED BY <1>1, <1>3, <1>4, <2>1 DEF LevelsKept
  <1>8. ThreadsResume'
    BY <1>4, <1>5 DEF ThreadsResume
  <1> QED BY <1>3, <1>5, <1>6, <1>7, <1>8 DEF MetIsSaved, FrameHoldsThread, GsFollowsMode

-----------------------------------------------------------------------------
(* Entry.                                                                  *)

LEMMA Joined ==
    ASSUME NEW a \in Seq(Int), NEW b \in Seq(Int)
    PROVE  /\ a \o b \in Seq(Int) /\ Len(a \o b) = Len(a) + Len(b)
           /\ \A i \in 1 .. Len(a) : (a \o b)[i] = a[i]
           /\ \A i \in 1 .. Len(b) : (a \o b)[Len(a) + i] = b[i]
  <1>1. a \o b \in Seq(Int) /\ Len(a \o b) = Len(a) + Len(b)
    BY ConcatProperties
  <1>2. \A i \in 1 .. Len(a) : (a \o b)[i] = a[i]
    BY ConcatProperties
  <1>3. \A i \in 1 .. Len(b) : (a \o b)[Len(a) + i] = b[i]
    BY ConcatProperties
  <1> QED BY <1>1, <1>2, <1>3, Zenon

LEMMA JoinedPair ==
    ASSUME NEW x \in Int, NEW y \in Int
    PROVE  <<x>> \o <<y>> = <<x, y>>
  <1> DEFINE a == <<x>>
             b == <<y>>
             c == <<x, y>>
             s == a \o b
  <1>1. /\ a \in Seq(Int) /\ b \in Seq(Int) /\ c \in Seq(Int)
        /\ Len(a) = 1 /\ Len(b) = 1 /\ Len(c) = 2
        /\ a[1] = x /\ b[1] = y /\ c[1] = x /\ c[2] = y
    OBVIOUS
  <1> HIDE DEF a, b, c
  <1>2. /\ s \in Seq(Int) /\ Len(s) = Len(a) + Len(b)
        /\ \A i \in 1 .. Len(a) : s[i] = a[i]
        /\ \A i \in 1 .. Len(b) : s[Len(a) + i] = b[i]
    BY <1>1, Joined, Zenon
  <1> HIDE DEF s
  <1>3. Len(s) = 2 /\ s[1] = x /\ s[2] = y
    BY <1>1, <1>2
  <1>4. \A i \in 1 .. Len(s) : s[i] = c[i]
    BY <1>1, <1>3
  <1>5. s = c
    BY <1>1, <1>2, <1>3, <1>4, SeqEqual
  <1> QED BY <1>5 DEF s, a, b, c

LEMMA Offsets ==
    ASSUME NEW f, NEW a, NEW b, NEW c, NEW m, NEW k, NEW n, m = 16, k = 2, n = 5,
           \A i \in 1 .. m : f[i] = a[i],
           \A i \in 1 .. k : f[m + i] = b[i],
           \A i \in 1 .. n : f[m + k + i] = c[i]
    PROVE  /\ m + k + n = 23 /\ f[17] = b[1]
           /\ \A i \in 1 .. 16 : f[i] = a[i]
           /\ \A i \in 1 .. 5 : f[18 + i] = c[i]
  OBVIOUS

(* The three parts of a frame, one upon the other.                         *)
Parts(a, b, c) ==
    /\ a \in Seq(Int) /\ b \in Seq(Int) /\ c \in Seq(Int)
    /\ Len(a) = 16 /\ Len(b) = 2 /\ Len(c) = 5

Stacked(f, a, b, c) ==
    /\ f \in Seq(Int) /\ Len(f) = FrameSize /\ f[17] = b[1]
    /\ \A i \in 1 .. 16 : f[i] = a[i]
    /\ \A i \in 1 .. 5 : f[18 + i] = c[i]

LEMMA ThreeParts ==
    ASSUME NEW a, NEW b, NEW c, Parts(a, b, c)
    PROVE  Stacked(a \o b \o c, a, b, c)
  <1> DEFINE s == a \o b
             f == s \o c
             m == Len(a)
             k == Len(b)
             n == Len(c)
  <1> USE DEF Parts
  <1>1. /\ s \in Seq(Int) /\ Len(s) = Len(a) + Len(b)
        /\ \A i \in 1 .. Len(a) : s[i] = a[i]
        /\ \A i \in 1 .. Len(b) : s[Len(a) + i] = b[i]
    BY Joined, Zenon
  <1> HIDE DEF s
  <1>2. /\ f \in Seq(Int) /\ Len(f) = Len(s) + Len(c)
        /\ \A i \in 1 .. Len(s) : f[i] = s[i]
        /\ \A i \in 1 .. Len(c) : f[Len(s) + i] = c[i]
    BY <1>1, Joined, Zenon
  <1> HIDE DEF f
  <1>3. /\ \A i \in 1 .. Len(a) : i \in 1 .. Len(a) + Len(b)
        /\ \A i \in 1 .. Len(b) : Len(a) + i \in 1 .. Len(a) + Len(b)
    <2>1. Len(a) \in Nat /\ Len(b) \in Nat
      BY LenProperties
    <2> QED BY <2>1
  <1>4. /\ \A i \in 1 .. m : f[i] = a[i]
        /\ \A i \in 1 .. k : f[m + i] = b[i]
        /\ \A i \in 1 .. n : f[m + k + i] = c[i]
        /\ Len(f) = m + k + n
    BY <1>1, <1>2, <1>3, Zenon
  <1>5. m = 16 /\ k = 2 /\ n = 5
    OBVIOUS
  <1> HIDE DEF m, k, n
  <1>6. /\ Len(f) = 23 /\ f[17] = b[1]
        /\ \A i \in 1 .. 16 : f[i] = a[i]
        /\ \A i \in 1 .. 5 : f[18 + i] = c[i]
    BY <1>4, <1>5, Offsets
  <1> QED BY <1>2, <1>6, Zenon DEF Stacked, FrameSize, f, s

(* Masking concerns the word of the vector only.                           *)
LEMMA Masked ==
    ASSUME NEW f \in Seq(Int), Len(f) = FrameSize
    PROVE  /\ MaskVector(f) \in Seq(Int) /\ Len(MaskVector(f)) = FrameSize
           /\ MaskVector(f)[17] = f[17] % 256
           /\ \A i \in 1 .. FrameSize : i # 17 => MaskVector(f)[i] = f[i]
  <1>1. 17 \in 1 .. Len(f)
    BY DEF FrameSize
  <1>2. MaskVector(f) = [f EXCEPT ![17] = f[17] % 256]
    BY OtherFields DEF MaskVector
  <1>3. f[17] \in Int
    BY <1>1, ElementOfSeq
  <1>4. f[17] % 256 \in Int
    BY <1>3
  <1>5. /\ [f EXCEPT ![17] = f[17] % 256] \in Seq(Int)
        /\ Len([f EXCEPT ![17] = f[17] % 256]) = Len(f)
        /\ \A j \in 1 .. Len(f) :
             [f EXCEPT ![17] = f[17] % 256][j] = IF j = 17 THEN f[17] % 256 ELSE f[j]
    BY <1>1, <1>4, ExceptSeq
  <1> QED BY <1>1, <1>2, <1>5

LEMMA GeneralPart ==
    ASSUME TypeInv
    PROVE  /\ GeneralWords \in Seq(Int) /\ Len(GeneralWords) = 16
           /\ \A i \in 2 .. 16 : GeneralWords[i] = cpu[regs_t[i]]
  <1> DEFINE tail == [i \in 1 .. 15 |-> cpu[Pushed[16 - i]]]
  <1>1. GeneralWords = <<0>> \o tail
    <2>1. Len(Pushed) = 15 /\ \A i \in 1 .. 15 : 15 + 1 - i = 16 - i
      BY Lists
    <2>2. [i \in 1 .. Len(Pushed) |-> cpu[Pushed[Len(Pushed) + 1 - i]]] = tail
      BY <2>1
    <2> QED BY <2>2 DEF GeneralWords
  <1>2. \A i \in 1 .. 15 : cpu[Pushed[16 - i]] \in Int
    <2>1. \A i \in 1 .. 15 : 16 - i \in 1 .. 15
      OBVIOUS
    <2>2. \A i \in 1 .. 15 : Pushed[16 - i] \in Registers
      BY <2>1, Lists DEF General, Registers
    <2> QED BY <2>2 DEF TypeInv
  <1>3. tail \in Seq(Int) /\ Len(tail) = 15
    BY <1>2
  <1>4. \A i \in 1 .. 15 : tail[i] = cpu[Pushed[16 - i]]
    OBVIOUS
  <1> DEFINE top == <<0>>
  <1>5. top \in Seq(Int) /\ Len(top) = 1
    OBVIOUS
  <1> HIDE DEF tail, top
  <1> DEFINE s == top \o tail
  <1>6. /\ s \in Seq(Int) /\ Len(s) = Len(top) + Len(tail)
        /\ \A i \in 1 .. Len(tail) : s[Len(top) + i] = tail[i]
    BY <1>3, <1>5, Joined, Zenon
  <1> HIDE DEF s
  <1>7. Len(s) = 16 /\ \A i \in 1 .. 15 : s[1 + i] = tail[i]
    BY <1>3, <1>5, <1>6
  <1>8. ASSUME NEW i \in 2 .. 16 PROVE s[i] = cpu[regs_t[i]]
    <2>1. i - 1 \in 1 .. 15 /\ 16 - (i - 1) = 17 - i /\ 1 + (i - 1) = i
      OBVIOUS
    <2>2. tail[i - 1] = cpu[Pushed[17 - i]]
      BY <2>1, <1>4
    <2>3. s[i] = tail[i - 1]
      BY <2>1, <1>7
    <2> QED BY <2>2, <2>3, Lists
  <1> QED BY <1>1, <1>6, <1>7, <1>8 DEF s, top

LEMMA StubPart ==
    ASSUME NEW v \in Vectors
    PROVE  /\ StubWords(v) \in Seq(Int) /\ Len(StubWords(v)) = 2
           /\ StubWords(v)[1] % 256 = v
  <1>1. v \in 0 .. 255 /\ v \notin {17, 21, 29, 30}
    BY TrapFrameAssumption
  <1> DEFINE w == IF v < 128 THEN v ELSE v - 256
  <1>2. w \in Int /\ w % 256 = v
    BY <1>1
  <1> HIDE DEF w
  <1>3. StubWords(v) = <<w, 1>> \/ StubWords(v) = <<w, 4>>
    <2>1. CASE v = 8 \/ v \in 10 .. 14
      <3>1. ~StubPushes(v) /\ HasErrorCode(v)
        BY <2>1 DEF StubPushes, HasErrorCode
      <3>2. StubWords(v) = (<<w>> \o << >>) \o <<4>>
        BY <3>1 DEF StubWords, w
      <3>3. <<w>> \o << >> = <<w>>
        BY <1>2, ConcatEmptySeq
      <3>4. <<w>> \o <<4>> = <<w, 4>>
        BY <1>2, JoinedPair
      <3> QED BY <3>2, <3>3, <3>4
    <2>2. CASE ~(v = 8 \/ v \in 10 .. 14)
      <3>1. StubPushes(v) /\ ~HasErrorCode(v)
        BY <1>1, <2>2 DEF StubPushes, HasErrorCode
      <3>2. StubWords(v) = (<<w>> \o <<1>>) \o << >>
        BY <3>1 DEF StubWords, w
      <3>3. <<w>> \o <<1>> = <<w, 1>>
        BY <1>2, JoinedPair
      <3>4. <<w, 1>> \o << >> = <<w, 1>>
        BY <1>2, ConcatEmptySeq
      <3> QED BY <3>2, <3>3, <3>4
    <2> QED BY <2>1, <2>2
  <1>4. /\ <<w, 1>> \in Seq(Int) /\ Len(<<w, 1>>) = 2 /\ <<w, 1>>[1] = w
        /\ <<w, 4>> \in Seq(Int) /\ Len(<<w, 4>>) = 2 /\ <<w, 4>>[1] = w
    BY <1>2
  <1>5. CASE StubWords(v) = <<w, 1>>
    BY <1>2, <1>4, <1>5, Zenon
  <1>6. CASE StubWords(v) = <<w, 4>>
    BY <1>2, <1>4, <1>6, Zenon
  <1> QED BY <1>3, <1>5, <1>6, Zenon

LEMMA ProcessorPart ==
    ASSUME TypeInv
    PROVE  /\ ProcessorWords \in Seq(Int) /\ Len(ProcessorWords) = 5
           /\ ProcessorWords[1] = cpu["rip"] /\ ProcessorWords[2] = cpu["cs"]
           /\ ProcessorWords[3] = cpu["rflags"] /\ ProcessorWords[4] = cpu["rsp"]
           /\ ProcessorWords[5] = cpu["ss"]
  <1>1. /\ cpu["rip"] \in Int /\ cpu["cs"] \in Int /\ cpu["rflags"] \in Int
        /\ cpu["rsp"] \in Int /\ cpu["ss"] \in Int
    BY RegisterCases DEF TypeInv
  <1> QED BY <1>1 DEF ProcessorWords

Frame(v) == MaskVector(GeneralWords \o StubWords(v) \o ProcessorWords)

(* Every register of the thread is in its field, and the vector in its own. *)
LEMMA FrameWords ==
    ASSUME TypeInv, NEW v \in Vectors
    PROVE  /\ Frame(v) \in Seq(Int) /\ Len(Frame(v)) = FrameSize
           /\ Frame(v)[17] = v
           /\ \A r \in Registers : Frame(v)[FieldOf(r)] = cpu[r]
           /\ (GeneralWords \o StubWords(v) \o ProcessorWords)[20] = cpu["cs"]
  <1> DEFINE f == GeneralWords \o StubWords(v) \o ProcessorWords
  <1>1. /\ f \in Seq(Int) /\ Len(f) = FrameSize
        /\ f[17] = StubWords(v)[1]
        /\ \A i \in 1 .. 16 : f[i] = GeneralWords[i]
        /\ \A i \in 1 .. 5 : f[18 + i] = ProcessorWords[i]
    <2>1. Parts(GeneralWords, StubWords(v), ProcessorWords)
      BY GeneralPart, StubPart, ProcessorPart, Zenon DEF Parts
    <2>2. Stacked(f, GeneralWords, StubWords(v), ProcessorWords)
      BY <2>1, ThreeParts, Zenon
    <2> QED BY <2>2, Zenon DEF Stacked
  <1> HIDE DEF f
  <1>2. /\ Frame(v) \in Seq(Int) /\ Len(Frame(v)) = FrameSize
        /\ Frame(v)[17] = f[17] % 256
        /\ \A i \in 1 .. FrameSize : i # 17 => Frame(v)[i] = f[i]
    BY <1>1, Masked DEF Frame, f
  <1>3. f[17] % 256 = v
    BY <1>1, StubPart
  <1>4. ASSUME NEW i \in 1 .. 5 PROVE Frame(v)[18 + i] = ProcessorWords[i]
    <2> DEFINE k == 18 + i
    <2>1. k \in 1 .. FrameSize /\ k # 17
      BY DEF FrameSize
    <2>2. f[k] = ProcessorWords[i]
      BY <1>1
    <2> HIDE DEF k
    <2>3. Frame(v)[k] = f[k]
      BY <1>2, <2>1
    <2> QED BY <2>2, <2>3, Zenon DEF k
  <1>5. ASSUME NEW r \in Registers PROVE Frame(v)[FieldOf(r)] = cpu[r]
    <2>1. CASE r \in General
      <3>1. PICK i \in 2 .. 16 : r = regs_t[i] /\ FieldOf(r) = i
        BY <2>1, GeneralField
      <3>2. i \in 1 .. 16 /\ i \in 1 .. FrameSize /\ i # 17
        BY DEF FrameSize
      <3>3. Frame(v)[i] = GeneralWords[i]
        BY <1>1, <1>2, <3>2
      <3> QED BY <3>1, <3>3, GeneralPart
    <2>2. CASE r \notin General
      <3>1. /\ Frame(v)[19] = cpu["rip"] /\ Frame(v)[20] = cpu["cs"]
            /\ Frame(v)[21] = cpu["rflags"] /\ Frame(v)[22] = cpu["rsp"]
            /\ Frame(v)[23] = cpu["ss"]
        <4> DEFINE g == Frame(v)
        <4>1. \A i \in 1 .. 5 : g[18 + i] = ProcessorWords[i]
          BY <1>4
        <4> HIDE DEF g
        <4>2. /\ g[19] = ProcessorWords[1] /\ g[20] = ProcessorWords[2]
              /\ g[21] = ProcessorWords[3] /\ g[22] = ProcessorWords[4]
              /\ g[23] = ProcessorWords[5]
          BY <4>1
        <4> QED BY <4>2, ProcessorPart, Zenon DEF g
      <3>2. r \in {"rip", "cs", "rflags", "rsp", "ss"}
        BY <2>2, RegisterCases
      <3> QED BY <3>1, <3>2, OtherFields
    <2> QED BY <2>1, <2>2
  <1>6. f[20] = cpu["cs"]
    <2>1. f[18 + 2] = ProcessorWords[2]
      BY <1>1
    <2> QED BY <2>1, ProcessorPart
  <1> QED BY <1>2, <1>3, <1>5, <1>6 DEF f

LEMMA EnterIInv ==
    ASSUME NEW v \in Vectors
    PROVE  IInv /\ Enter(v) => IInv'
  <1> SUFFICES ASSUME IInv, Enter(v) PROVE IInv'
    OBVIOUS
  <1> USE DEF IInv
  <1>1. stack = << >> /\ stack' = Frame(v) /\ gs' = SwapGs(gs, cpu["cs"])
    BY FrameWords, OtherFields DEF Enter, Frame
  <1>2. vector' = v /\ saved' = FALSE /\ UNCHANGED <<cpu, running, states, context>>
    BY DEF Enter
  <1>3. /\ stack' \in Seq(Int) /\ Len(stack') = FrameSize /\ stack'[17] = v
        /\ \A r \in Registers : stack'[FieldOf(r)] = cpu[r]
    BY <1>1, FrameWords
  <1>4. stack' # << >>
    <2>1. Len(stack') # Len(<< >>)
      BY <1>3, EmptySeq DEF FrameSize
    <2> QED BY <2>1, Zenon
  <1>5. TypeInv'
    <2>1. v \in 0 .. 255
      BY TrapFrameAssumption
    <2>2. gs' \in {"tls", "user"}
      BY <1>1 DEF SwapGs, TypeInv
    <2> QED BY <1>2, <1>3, <2>1, <2>2 DEF TypeInv
  <1>6. cpu = context[running] /\ cpu \in [Registers -> Int]
    BY <1>1 DEF ThreadsResume, TypeInv
  <1>7. FrameHoldsThread'
    <2>1. FrameState' = cpu
      BY <1>3, <1>6 DEF FrameState
    <2> QED BY <1>2, <1>3, <1>6, <2>1, OtherFields DEF FrameHoldsThread
  <1>8. gs' = "tls"
    BY <1>1 DEF SwapGs, GsFollowsMode, TypeInv
  <1> QED BY <1>2, <1>4, <1>5, <1>7, <1>8
          DEF LevelsKept, MetIsSaved, ThreadsResume, GsFollowsMode

-----------------------------------------------------------------------------
(* The handler saves the thread of the frame.                              *)

LEMMA GetRegisterStateIInv == IInv /\ interrupt_getregisterstate => IInv'
  <1> SUFFICES ASSUME IInv, interrupt_getregisterstate PROVE IInv'
    OBVIOUS
  <1> USE DEF IInv
  <1>1. /\ stack # << >> /\ states' = [states EXCEPT ![running] = FrameState]
        /\ saved' = TRUE /\ UNCHANGED <<cpu, gs, stack, running, vector, context>>
    BY DEF interrupt_getregisterstate
  <1>2. FrameState = context[running] /\ running \in Threads
    BY <1>1 DEF FrameHoldsThread, TypeInv
  <1>3. TypeInv'
    BY <1>1, <1>2 DEF TypeInv
  <1>4. MetIsSaved'
    BY <1>1, <1>2 DEF MetIsSaved, TypeInv
  <1>5. ThreadsResume'
    BY <1>1, <1>2 DEF ThreadsResume, TypeInv
  <1> QED BY <1>1, <1>3, <1>4, <1>5
          DEF LevelsKept, FrameHoldsThread, FrameState, GsFollowsMode

-----------------------------------------------------------------------------
(* The handler puts a thread into the frame.                               *)

LEMMA FrameOfThread ==
    ASSUME TypeInv, NEW t \in Threads, stack # << >>, interrupt_setregisterstate(t)
    PROVE  /\ stack' \in Seq(Int) /\ Len(stack') = FrameSize
           /\ stack'[17] = stack[17]
           /\ \A r \in Registers : stack'[FieldOf(r)] = states[t][r]
  <1> DEFINE word(i) == IF \E r \in Registers : FieldOf(r) = i
                        THEN states[t][CHOOSE r \in Registers : FieldOf(r) = i]
                        ELSE stack[i]
  <1>1. stack' = [i \in 1 .. 23 |-> word(i)]
    BY DEF interrupt_setregisterstate, TypeInv, FrameSize
  <1>2. ASSUME NEW i \in 1 .. 23 PROVE word(i) \in Int
    <2>1. stack[i] \in Int
      BY ElementOfSeq DEF TypeInv, FrameSize
    <2> QED BY <2>1 DEF TypeInv
  <1>3. stack' \in Seq(Int) /\ Len(stack') = FrameSize
    BY <1>1, <1>2 DEF FrameSize
  <1>4. word(17) = stack[17]
    BY FieldsDiffer
  <1>5. ASSUME NEW r \in Registers PROVE word(FieldOf(r)) = states[t][r]
    <2>1. (CHOOSE s \in Registers : FieldOf(s) = FieldOf(r)) = r
      BY FieldsDiffer
    <2> QED BY <2>1
  <1>6. \A r \in Registers : FieldOf(r) \in 1 .. 23
    BY FieldsDiffer
  <1> HIDE DEF word
  <1>7. \A i \in 1 .. 23 : stack'[i] = word(i)
    BY <1>1
  <1>8. stack'[17] = stack[17]
    BY <1>4, <1>7
  <1>9. \A r \in Registers : stack'[FieldOf(r)] = states[t][r]
    BY <1>5, <1>6, <1>7, Zenon
  <1> QED BY <1>3, <1>8, <1>9

LEMMA SetRegisterStateIInv ==
    ASSUME NEW t \in Threads
    PROVE  IInv /\ interrupt_setregisterstate(t) => IInv'
  <1> SUFFICES ASSUME IInv, interrupt_setregisterstate(t) PROVE IInv'
    OBVIOUS
  <1> USE DEF IInv
  <1>1. /\ stack # << >> /\ saved /\ running' = t
        /\ UNCHANGED <<cpu, gs, saved, states, vector, context>>
    BY DEF interrupt_setregisterstate
  <1>2. \A u \in Threads : states[u] = context[u]
    BY <1>1 DEF MetIsSaved, ThreadsResume
  <1>3. /\ stack' \in Seq(Int) /\ Len(stack') = FrameSize
        /\ stack'[17] = stack[17]
        /\ \A r \in Registers : stack'[FieldOf(r)] = states[t][r]
    BY <1>1, FrameOfThread
  <1>4. stack' # << >>
    <2>1. Len(stack') # Len(<< >>)
      BY <1>3, EmptySeq DEF FrameSize
    <2> QED BY <2>1, Zenon
  <1>5. TypeInv'
    BY <1>1, <1>3 DEF TypeInv
  <1>6. FrameHoldsThread'
    <2>1. context[t] \in [Registers -> Int]
      BY DEF TypeInv
    <2>2. FrameState' = context[t]
      BY <1>2, <1>3, <2>1 DEF FrameState
    <2> QED BY <1>1, <1>3, <2>2, OtherFields DEF FrameHoldsThread
  <1>7. MetIsSaved' /\ ThreadsResume'
    BY <1>1, <1>2, <1>4 DEF MetIsSaved, ThreadsResume
  <1> QED BY <1>1, <1>4, <1>5, <1>6, <1>7 DEF LevelsKept, GsFollowsMode

-----------------------------------------------------------------------------
(* The way back.                                                           *)

LEMMA IretWords ==
    ASSUME TypeInv, stack # << >>
    PROVE  \A k \in 1 .. 5 :
             SubSeq(stack, Len(Popped) + 3, Len(Popped) + 7)[k] = stack[18 + k]
  <1>1. \A i \in 19 .. 23 : stack[i] \in Int
    <2>1. stack \in Seq(Int) /\ Len(stack) = 23
      BY DEF TypeInv, FrameSize
    <2>2. \A i \in 19 .. 23 : i \in 1 .. Len(stack)
      BY <2>1
    <2> QED BY <2>1, <2>2, ElementOfSeq, Zenon
  <1>2. \A i \in 1 .. 23 - 19 + 1 : SubSeq(stack, 19, 23)[i] = stack[19 + i - 1]
    BY <1>1, SubSeqProperties
  <1>3. \A k \in 1 .. 5 : k \in 1 .. 23 - 19 + 1 /\ 19 + k - 1 = 18 + k
    OBVIOUS
  <1>4. Len(Popped) + 3 = 19 /\ Len(Popped) + 7 = 23
    BY Lists
  <1> QED BY <1>2, <1>3, <1>4

(* What is popped and returned to is the thread of the frame.              *)
LEMMA ReturnedRegisters == IInv /\ Leave => cpu' = context[running]
  <1> SUFFICES ASSUME IInv, Leave PROVE cpu' = context[running]
    OBVIOUS
  <1> USE DEF IInv
  <1> DEFINE iret == SubSeq(stack, Len(Popped) + 3, Len(Popped) + 7)
             back(r) == CASE r = "rip" -> iret[1] [] r = "cs" -> iret[2]
                          [] r = "rflags" -> iret[3] [] r = "rsp" -> iret[4]
                          [] r = "ss" -> ReturnSs(stack[20], iret[5])
                          [] OTHER -> stack[Position(r, Popped)]
  <1>1. stack # << >> /\ cpu' = [r \in Registers |-> back(r)]
    BY OtherFields DEF Leave
  <1>2. \A r \in Registers : stack[FieldOf(r)] = context[running][r]
    BY <1>1 DEF FrameHoldsThread, FrameState
  <1>3. running \in Threads /\ context[running] \in [Registers -> Int]
    BY DEF TypeInv
  <1>4. /\ iret[1] = stack[19] /\ iret[2] = stack[20] /\ iret[3] = stack[21]
        /\ iret[4] = stack[22] /\ iret[5] = stack[23]
    <2>1. \A k \in 1 .. 5 : iret[k] = stack[18 + k]
      BY <1>1, IretWords
    <2> HIDE DEF iret
    <2> QED BY <2>1
  <1> HIDE DEF iret
  <1>5. /\ stack[19] = context[running]["rip"] /\ stack[20] = context[running]["cs"]
        /\ stack[21] = context[running]["rflags"] /\ stack[22] = context[running]["rsp"]
        /\ stack[23] = context[running]["ss"]
    BY <1>2, OtherFields, RegisterCases
  <1>6. ReturnSs(stack[20], stack[23]) = stack[23]
    <2>1. \/ stack[20] = 43 /\ stack[23] = 35
          \/ stack[20] = 8 /\ stack[23] = 16
      BY <1>3, <1>5 DEF LevelsKept
    <2> QED BY <2>1, Levels DEF ReturnSs
  <1>7. ASSUME NEW r \in Registers PROVE back(r) = context[running][r]
    <2>1. CASE r \in General
      <3>1. PICK i \in 2 .. 16 : FieldOf(r) = i /\ Position(r, Popped) = i
        BY <2>1, GeneralField
      <3>2. r \notin {"rip", "cs", "rflags", "rsp", "ss"}
        BY <2>1, RegisterCases
      <3> QED BY <1>2, <3>1, <3>2
    <2>2. CASE r \notin General
      <3>1. r \in {"rip", "cs", "rflags", "rsp", "ss"}
        BY <2>2, RegisterCases
      <3> QED BY <1>4, <1>5, <1>6, <3>1
    <2> QED BY <2>1, <2>2
  <1> HIDE DEF back
  <1> QED BY <1>1, <1>3, <1>7

LEMMA LeaveIInv == IInv /\ Leave => IInv'
  <1> SUFFICES ASSUME IInv, Leave PROVE IInv'
    OBVIOUS
  <1> USE DEF IInv
  <1>1. /\ stack # << >> /\ stack' = << >> /\ gs' = SwapGs(gs, stack[20])
        /\ UNCHANGED <<running, saved, states, vector, context>>
    BY OtherFields DEF Leave
  <1>2. cpu' = context[running]
    BY ReturnedRegisters
  <1>3. gs = "tls"
    BY <1>1 DEF GsFollowsMode
  <1>4. stack[20] = cpu'["cs"]
    <2>1. "cs" \in Registers
      BY RegisterCases
    <2>2. stack[FieldOf("cs")] = context[running]["cs"]
      BY <1>1, <2>1 DEF FrameHoldsThread, FrameState
    <2> QED BY <1>2, <2>2, OtherFields
  <1>5. TypeInv'
    <2>1. stack' \in Seq(Int)
      BY <1>1, EmptySeq
    <2>2. gs' \in {"tls", "user"}
      BY <1>1 DEF SwapGs, TypeInv
    <2> QED BY <1>1, <1>2, <2>1, <2>2 DEF TypeInv
  <1>6. GsFollowsMode'
    BY <1>1, <1>3, <1>4 DEF GsFollowsMode, SwapGs
  <1> QED BY <1>1, <1>2, <1>5, <1>6
          DEF LevelsKept, MetIsSaved, FrameHoldsThread, ThreadsResume

-----------------------------------------------------------------------------
(* The theorems.                                                           *)

LEMMA Invariance == IInv /\ [Next]_vars => IInv'
  <1> SUFFICES ASSUME IInv, [Next]_vars PROVE IInv'
    OBVIOUS
  <1>1. CASE Compute
    BY <1>1, ComputeIInv
  <1>2. ASSUME NEW v \in Vectors, Enter(v) PROVE IInv'
    BY <1>2, EnterIInv
  <1>3. CASE interrupt_getregisterstate
    BY <1>3, GetRegisterStateIInv
  <1>4. ASSUME NEW t \in Threads, interrupt_setregisterstate(t) PROVE IInv'
    BY <1>4, SetRegisterStateIInv
  <1>5. CASE Leave
    BY <1>5, LeaveIInv
  <1>6. CASE UNCHANGED vars
    BY <1>6 DEF vars, IInv, TypeInv, LevelsKept, MetIsSaved, FrameHoldsThread,
                FrameState, ThreadsResume, GsFollowsMode
  <1> QED BY <1>1, <1>2, <1>3, <1>4, <1>5, <1>6 DEF Next

THEOREM Inductive == Spec => []IInv
  BY InitIInv, Invariance, PTL DEF Spec

(* A handler of any vector finds its vector and the registers of the       *)
(* thread in regs_t, and what it puts there is what the frame then holds.  *)
THEOREM FrameIsRegs == Spec => []FrameHoldsThread
  <1>1. IInv => FrameHoldsThread
    BY DEF IInv
  <1> QED BY <1>1, Inductive, PTL

(* However many threads there are and in whatever order they are given the *)
(* processor, each goes on with the registers it was interrupted with.     *)
THEOREM ResumeUnchanged == Spec => []ThreadsResume
  <1>1. IInv => ThreadsResume
    BY DEF IInv
  <1> QED BY <1>1, Inductive, PTL

(* GS is the TLS block's in every handler and in no user thread, whichever *)
(* of the two an interrupt meets and whichever it returns to.              *)
THEOREM GsIsExchanged == Spec => []GsFollowsMode
  <1>1. IInv => GsFollowsMode
    BY DEF IInv
  <1> QED BY <1>1, Inductive, PTL

-----------------------------------------------------------------------------
(* Induction and recursion.                                                *)

LEMMA LeastOne ==
    ASSUME NEW S \in SUBSET Nat, S # {}
    PROVE  \E x \in S : \A y \in S : x <= y
  <1> DEFINE Smaller == {ss \in Nat \X Nat : ss[1] < ss[2]}
  <1>1. IsWellFoundedOn(Smaller, Nat)
    BY NatLessThanWellFounded, Zenon DEF OpToRel
  <1> HIDE DEF Smaller
  <1>2. PICK x \in S : \A y \in S : ~(<<y, x>> \in Smaller)
    BY <1>1, WFMin, Zenon
  <1>3. ASSUME NEW y \in S PROVE x <= y
    <2>1. <<y, x>> \in Nat \X Nat /\ <<y, x>>[1] = y /\ <<y, x>>[2] = x
      OBVIOUS
    <2>2. ~(y < x)
      BY <1>2, <2>1, Zenon DEF Smaller
    <2>3. x \in Nat /\ y \in Nat
      OBVIOUS
    <2> QED BY <2>2, <2>3
  <1> QED BY <1>3

LEMMA MinOf ==
    ASSUME NEW S \in SUBSET Nat, S # {}
    PROVE  Min(S) \in S /\ \A y \in S : Min(S) <= y
  <1>1. \E x \in S : \A y \in S : x <= y
    BY LeastOne
  <1> QED BY <1>1 DEF Min

(* A set that has 0, and each number with the one before it, has them all. *)
LEMMA UpInduction ==
    ASSUME NEW N \in Nat, NEW S, 0 \in S, \A k \in 1 .. N : k - 1 \in S => k \in S
    PROVE  0 .. N \subseteq S
  <1> DEFINE Bad == {n \in Nat : n <= N /\ n \notin S}
  <1>1. SUFFICES ASSUME Bad # {} PROVE FALSE
    OBVIOUS
  <1>2. PICK n \in Bad : \A y \in Bad : n <= y
    BY <1>1, LeastOne
  <1>3. n \in 1 .. N /\ n - 1 \in Nat /\ n - 1 \notin Bad
    BY <1>2
  <1>4. n - 1 \in S
    BY <1>3
  <1> QED BY <1>2, <1>3, <1>4

(* f is defined by recursion: its value at k by that at Of[k], which is    *)
(* less than k.                                                            *)
Solves(f, N, X, first, Of, G) ==
    /\ f \in [0 .. N -> X]
    /\ f[0] = first
    /\ \A k \in 1 .. N : f[k] = G[k][f[Of[k]]]

LEMMA Recursion ==
    ASSUME NEW N \in Nat, NEW X, NEW first \in X, NEW Of \in [1 .. N -> 0 .. N],
           \A k \in 1 .. N : Of[k] < k, NEW G \in [1 .. N -> [X -> X]]
    PROVE  \E f : Solves(f, N, X, first, Of, G)
  <1> DEFINE Good(n, f) == f[0] = first /\ \A k \in 1 .. n : f[k] = G[k][f[Of[k]]]
             S == {n \in 0 .. N : \E f \in [0 .. N -> X] : Good(n, f)}
  <1>1. 0 \in S
    <2>1. [k \in 0 .. N |-> first] \in [0 .. N -> X]
      OBVIOUS
    <2>2. Good(0, [k \in 0 .. N |-> first])
      OBVIOUS
    <2> HIDE DEF Good
    <2> QED BY <2>1, <2>2
  <1>2. ASSUME NEW n \in 1 .. N, n - 1 \in S PROVE n \in S
    <2>1. PICK f \in [0 .. N -> X] : Good(n - 1, f)
      BY <1>2
    <2> DEFINE g == [f EXCEPT ![n] = G[n][f[Of[n]]]]
    <2>2. n \in 0 .. N /\ n # 0 /\ f[Of[n]] \in X
      OBVIOUS
    <2>3. g \in [0 .. N -> X] /\ g[0] = first
      BY <2>1, <2>2
    <2>4. ASSUME NEW k \in 1 .. n PROVE g[k] = G[k][g[Of[k]]]
      <3>1. k \in 1 .. N /\ Of[k] \in 0 .. N /\ Of[k] # n
        OBVIOUS
      <3>2. g[Of[k]] = f[Of[k]]
        BY <3>1
      <3>3. CASE k = n
        BY <2>2, <3>2, <3>3
      <3>4. CASE k # n
        <4>1. k \in 1 .. n - 1 /\ g[k] = f[k]
          BY <3>1, <3>4
        <4> QED BY <2>1, <3>2, <4>1
      <3> QED BY <3>3, <3>4
    <2>5. Good(n, g)
      BY <2>3, <2>4
    <2> HIDE DEF g, Good
    <2> QED BY <2>2, <2>3, <2>5
  <1>3. N \in S
    <2> HIDE DEF S
    <2>1. 0 .. N \subseteq S
      BY <1>1, <1>2, UpInduction
    <2> QED BY <2>1
  <1> QED BY <1>3 DEF Solves

-----------------------------------------------------------------------------
(* Blocks of memory.                                                       *)

(* Rounding up a multiple of n to a multiple of n.                         *)
LEMMA WholeWords ==
    ASSUME NEW x \in Nat, NEW n \in Nat \ {0}, x % n = 0
    PROVE  n * ((x + n - 1) \div n) = x
  <1>1. PICK q \in Nat : x = n * q
    <2>1. x = n * (x \div n) + (x % n) /\ x \div n \in Nat
      OBVIOUS
    <2> QED BY <2>1
  <1>2. PICK d \in Nat, r \in 0 .. n - 1 : x + n - 1 = n * d + r /\ d = (x + n - 1) \div n
    <2>1. PICK y \in Nat : y = x + n - 1
      OBVIOUS
    <2>2. y = n * (y \div n) + (y % n) /\ y \div n \in Nat /\ y % n \in 0 .. n - 1
      OBVIOUS
    <2> QED BY <2>1, <2>2
  <1>3. n * q + n - 1 = n * d + r
    BY <1>1, <1>2
  <1>4. d <= q
    <2>1. SUFFICES ASSUME d >= q + 1 PROVE FALSE
      OBVIOUS
    <2>2. n * d >= n * (q + 1) /\ n * (q + 1) = n * q + n
      BY <2>1
    <2> QED BY <1>3, <2>2
  <1>5. d >= q
    <2>1. SUFFICES ASSUME d + 1 <= q PROVE FALSE
      OBVIOUS
    <2>2. n * q >= n * (d + 1) /\ n * (d + 1) = n * d + n
      BY <2>1
    <2> QED BY <1>3, <2>2
  <1> QED BY <1>1, <1>2, <1>4, <1>5

(* memset changes its block and nothing else, though it writes words.      *)
LEMMA MemsetFills ==
    ASSUME NEW m, NEW s \in Nat, NEW c, NEW n \in Nat
    PROVE  memset(m, s, c, n) = Fill(m, s .. s + n - 1, c)
  <1> DEFINE K == {k \in 0 .. n : k = n \/ ((s + k) % Word = 0 /\ (n - k) % Word = 0)}
  <1>1. PICK k \in 0 .. n : k = Head8(s, n) /\ (k = n \/ (n - k) % Word = 0)
    <2>1. K \in SUBSET Nat /\ n \in K
      OBVIOUS
    <2>2. Min(K) \in K
      BY <2>1, MinOf
    <2> QED BY <2>2 DEF Head8
  <1>2. (n - k) % Word = 0 /\ n - k \in Nat /\ Word \in Nat \ {0}
    BY <1>1, CLibraryAssumption
  <1>3. Word * ((n - k + Word - 1) \div Word) = n - k
    BY <1>2, WholeWords
  <1>4. memset(m, s, c, n) = Fill(Fill(m, s .. s + k - 1, c), s + k .. s + k + (n - k) - 1, c)
    BY <1>1, <1>3 DEF memset
  <1>5. s + k + (n - k) - 1 = s + n - 1
    BY <1>1
  <1>6. (s .. s + k - 1) \cup (s + k .. s + n - 1) = s .. s + n - 1
    BY <1>1
  <1> DEFINE A == s .. s + k - 1
             B == s + k .. s + n - 1
  <1>7. Fill(Fill(m, A, c), B, c) = Fill(m, A \cup B, c)
    BY Zenon DEF Fill
  <1> QED BY <1>4, <1>5, <1>6, <1>7

(* c holds the memories after 0, 1, 2, ... bytes.                          *)
Copies(c, m, d, s, offsets) ==
    c = [k \in 0 .. Len(offsets) |->
            IF k = 0 THEN m
            ELSE [c[k - 1] EXCEPT ![d + offsets[k]] = c[k - 1][s + offsets[k]]]]

LEMMA CopyBytesIs ==
    ASSUME NEW m, NEW d, NEW s, NEW offsets \in Seq(Nat), NEW c, Copies(c, m, d, s, offsets)
    PROVE  CopyBytes(m, d, s, offsets) = c[Len(offsets)]
  <1> DEFINE f == CHOOSE g : Copies(g, m, d, s, offsets)
             N == Len(offsets)
             S == {k \in 0 .. N : f[k] = c[k]}
  <1>1. CopyBytes(m, d, s, offsets) = f[N]
    BY DEF CopyBytes, Copies
  <1>2. Copies(f, m, d, s, offsets)
    OBVIOUS
  <1> HIDE DEF f
  <1>3. N \in Nat
    OBVIOUS
  <1>4. 0 \in S
    BY <1>2, <1>3 DEF Copies
  <1>5. ASSUME NEW k \in 1 .. N, k - 1 \in S PROVE k \in S
    <2>1. k \in 0 .. N /\ k # 0 /\ f[k - 1] = c[k - 1]
      BY <1>3, <1>5
    <2>2. f[k] = [f[k - 1] EXCEPT ![d + offsets[k]] = f[k - 1][s + offsets[k]]]
      BY <1>2, <2>1 DEF Copies
    <2>3. c[k] = [c[k - 1] EXCEPT ![d + offsets[k]] = c[k - 1][s + offsets[k]]]
      BY <2>1 DEF Copies
    <2> QED BY <2>1, <2>2, <2>3
  <1> HIDE DEF S
  <1>6. 0 .. N \subseteq S
    BY <1>3, <1>4, <1>5, UpInduction
  <1> QED BY <1>1, <1>3, <1>6 DEF S

(* The memory after offsets from .. to of the block were copied.           *)
Moved(m, d, s, from, to) ==
    [a \in DOMAIN m |-> IF a \in d + from .. d + to THEN m[s + (a - d)] ELSE m[a]]

(* Both blocks of n bytes lie in m.                                        *)
TwoBlocks(m, d, s, n) ==
    /\ m \in Memories /\ d \in Nat /\ s \in Nat /\ n \in Nat
    /\ d + n <= Cells + 1 /\ s + n <= Cells + 1

(* The next byte up, which is copied, is one that was not written yet.     *)
OneMoreUp(m, d, s, n, k) ==
    Moved(m, d, s, 0, k - 1) =
        [Moved(m, d, s, 0, k - 2) EXCEPT ![d + (k - 1)] = Moved(m, d, s, 0, k - 2)[s + (k - 1)]]

OneMoreDown(m, d, s, n, k) ==
    Moved(m, d, s, n - k, n - 1) =
        [Moved(m, d, s, n - k + 1, n - 1) EXCEPT
             ![d + (n - k)] = Moved(m, d, s, n - k + 1, n - 1)[s + (n - k)]]

LEMMA MovedUp ==
    ASSUME NEW m, NEW d, NEW s, NEW n, TwoBlocks(m, d, s, n), d <= s \/ d >= s + n,
           NEW k \in 1 .. n
    PROVE  OneMoreUp(m, d, s, n, k)
  <1> DEFINE M == Moved(m, d, s, 0, k - 1)
             L == Moved(m, d, s, 0, k - 2)
  <1> USE CLibraryAssumption
  <1>1. DOMAIN m = 0 .. Cells /\ d \in Nat /\ s \in Nat /\ n \in Nat /\ Cells \in Nat
    BY DEF TwoBlocks, Memories
  <1>2. d + (k - 1) \in DOMAIN m /\ s + (k - 1) \in DOMAIN m
    BY <1>1 DEF TwoBlocks
  <1>3. s + (k - 1) \notin d + 0 .. d + (k - 2)
    BY <1>1
  <1>4. L[s + (k - 1)] = m[s + (k - 1)]
    BY <1>2, <1>3 DEF Moved
  <1>5. M[d + (k - 1)] = m[s + (k - 1)]
    <2>1. d + (k - 1) \in d + 0 .. d + (k - 1) /\ (d + (k - 1)) - d = k - 1
      BY <1>1
    <2> QED BY <1>2, <2>1 DEF Moved
  <1>6. ASSUME NEW a \in DOMAIN m, a # d + (k - 1) PROVE M[a] = L[a]
    <2>1. a \in d + 0 .. d + (k - 1) <=> a \in d + 0 .. d + (k - 2)
      BY <1>1, <1>6
    <2> QED BY <2>1 DEF Moved
  <1>7. DOMAIN M = DOMAIN m /\ DOMAIN L = DOMAIN m
    BY DEF Moved
  <1>8. M = [a \in DOMAIN m |-> M[a]] /\ L = [a \in DOMAIN m |-> L[a]]
    BY DEF Moved
  <1> HIDE DEF M, L
  <1>9. M = [L EXCEPT ![d + (k - 1)] = L[s + (k - 1)]]
    BY <1>2, <1>4, <1>5, <1>6, <1>7, <1>8
  <1> QED BY <1>9 DEF M, L, OneMoreUp

LEMMA MovedDown ==
    ASSUME NEW m, NEW d, NEW s, NEW n, TwoBlocks(m, d, s, n), s < d, NEW k \in 1 .. n
    PROVE  OneMoreDown(m, d, s, n, k)
  <1> DEFINE M == Moved(m, d, s, n - k, n - 1)
             L == Moved(m, d, s, n - k + 1, n - 1)
  <1> USE CLibraryAssumption
  <1>1. DOMAIN m = 0 .. Cells /\ d \in Nat /\ s \in Nat /\ n \in Nat /\ Cells \in Nat
    BY DEF TwoBlocks, Memories
  <1>2. d + (n - k) \in DOMAIN m /\ s + (n - k) \in DOMAIN m
    BY <1>1 DEF TwoBlocks
  <1>3. s + (n - k) \notin d + (n - k + 1) .. d + (n - 1)
    BY <1>1
  <1>4. L[s + (n - k)] = m[s + (n - k)]
    BY <1>2, <1>3 DEF Moved
  <1>5. M[d + (n - k)] = m[s + (n - k)]
    <2>1. d + (n - k) \in d + (n - k) .. d + (n - 1) /\ (d + (n - k)) - d = n - k
      BY <1>1
    <2> QED BY <1>2, <2>1 DEF Moved
  <1>6. ASSUME NEW a \in DOMAIN m, a # d + (n - k) PROVE M[a] = L[a]
    <2>1. a \in d + (n - k) .. d + (n - 1) <=> a \in d + (n - k + 1) .. d + (n - 1)
      BY <1>1, <1>6
    <2> QED BY <2>1 DEF Moved
  <1>7. DOMAIN M = DOMAIN m /\ DOMAIN L = DOMAIN m
    BY DEF Moved
  <1>8. M = [a \in DOMAIN m |-> M[a]] /\ L = [a \in DOMAIN m |-> L[a]]
    BY DEF Moved
  <1> HIDE DEF M, L
  <1>9. M = [L EXCEPT ![d + (n - k)] = L[s + (n - k)]]
    BY <1>2, <1>4, <1>5, <1>6, <1>7, <1>8
  <1> QED BY <1>9 DEF M, L, OneMoreDown

LEMMA NoneMoved ==
    ASSUME NEW m, NEW d, NEW s, NEW n, TwoBlocks(m, d, s, n), NEW from \in Int
    PROVE  Moved(m, d, s, from, from - 1) = m
  <1>1. m = [a \in DOMAIN m |-> m[a]]
    BY DEF TwoBlocks, Memories
  <1>2. d + from .. d + (from - 1) = {}
    BY DEF TwoBlocks
  <1> QED BY <1>1, <1>2, Zenon DEF Moved

LEMMA CopiesUp ==
    ASSUME NEW m, NEW d, NEW s, NEW n, TwoBlocks(m, d, s, n), d <= s \/ d >= s + n
    PROVE  CopyBytes(m, d, s, Upwards(n)) = Moved(m, d, s, 0, n - 1)
  <1> DEFINE offsets == Upwards(n)
             c == [k \in 0 .. n |-> Moved(m, d, s, 0, k - 1)]
  <1>1. n \in Nat /\ d \in Nat /\ s \in Nat
    BY DEF TwoBlocks
  <1>2. offsets \in Seq(Nat) /\ Len(offsets) = n /\ \A k \in 1 .. n : offsets[k] = k - 1
    BY <1>1 DEF Upwards
  <1>3. c[0] = m
    BY <1>1, NoneMoved, 0 - 1 = -1
  <1>4. ASSUME NEW k \in 1 .. n
        PROVE  c[k] = [c[k - 1] EXCEPT ![d + offsets[k]] = c[k - 1][s + offsets[k]]]
    <2>1. k \in 0 .. n /\ k - 1 \in 0 .. n /\ (k - 1) - 1 = k - 2
      BY <1>1
    <2>2. c[k] = Moved(m, d, s, 0, k - 1) /\ c[k - 1] = Moved(m, d, s, 0, k - 2)
      BY <2>1
    <2>3. OneMoreUp(m, d, s, n, k)
      BY MovedUp
    <2>4. offsets[k] = k - 1
      BY <1>2
    <2> HIDE DEF c, offsets
    <2> QED BY <2>2, <2>3, <2>4, Zenon DEF OneMoreUp
  <1>5. Copies(c, m, d, s, offsets)
    <2>1. c = [k \in 0 .. Len(offsets) |-> c[k]]
      BY <1>2
    <2>2. ASSUME NEW k \in 0 .. Len(offsets)
          PROVE  c[k] = IF k = 0 THEN m
                        ELSE [c[k - 1] EXCEPT ![d + offsets[k]] = c[k - 1][s + offsets[k]]]
      <3>1. k = 0 \/ k \in 1 .. n
        BY <1>1, <1>2
      <3> HIDE DEF c, offsets
      <3> QED BY <1>3, <1>4, <3>1
    <2> HIDE DEF c, offsets
    <2> QED BY <2>1, <2>2 DEF Copies
  <1>6. c[Len(offsets)] = Moved(m, d, s, 0, n - 1)
    BY <1>1, <1>2
  <1> HIDE DEF c
  <1>7. CopyBytes(m, d, s, offsets) = c[Len(offsets)]
    <2> HIDE DEF offsets
    <2> QED BY <1>2, <1>5, CopyBytesIs
  <1> QED BY <1>6, <1>7

LEMMA CopiesDown ==
    ASSUME NEW m, NEW d, NEW s, NEW n, TwoBlocks(m, d, s, n), s < d
    PROVE  CopyBytes(m, d, s, Reverse(Upwards(n))) = Moved(m, d, s, 0, n - 1)
  <1> DEFINE offsets == Reverse(Upwards(n))
             c == [k \in 0 .. n |-> Moved(m, d, s, n - k, n - 1)]
  <1>1. n \in Nat /\ d \in Nat /\ s \in Nat
    BY DEF TwoBlocks
  <1>2. offsets \in Seq(Nat) /\ Len(offsets) = n /\ \A k \in 1 .. n : offsets[k] = n - k
    <2> DEFINE up == Upwards(n)
    <2>1. up \in Seq(Nat) /\ Len(up) = n /\ \A k \in 1 .. n : up[k] = k - 1
      BY <1>1 DEF Upwards
    <2>2. offsets = [k \in 1 .. n |-> up[(n - k) + 1]]
      BY <2>1 DEF Reverse
    <2>3. \A k \in 1 .. n : (n - k) + 1 \in 1 .. n /\ ((n - k) + 1) - 1 = n - k /\ n - k \in Nat
      BY <1>1
    <2>4. \A k \in 1 .. n : offsets[k] = n - k
      <3> HIDE DEF up
      <3> QED BY <2>1, <2>2, <2>3
    <2>5. offsets = [k \in 1 .. n |-> n - k]
      BY <2>2, <2>4
    <2> QED BY <1>1, <2>3, <2>5
  <1>3. c[0] = m
    <2>1. c[0] = Moved(m, d, s, n - 0, n - 1)
      BY <1>1
    <2>2. n - 0 = n /\ n \in Int
      BY <1>1
    <2> QED BY <2>1, <2>2, NoneMoved
  <1>4. ASSUME NEW k \in 1 .. n
        PROVE  c[k] = [c[k - 1] EXCEPT ![d + offsets[k]] = c[k - 1][s + offsets[k]]]
    <2>1. k \in 0 .. n /\ k - 1 \in 0 .. n /\ n - (k - 1) = n - k + 1
      BY <1>1
    <2>2. c[k] = Moved(m, d, s, n - k, n - 1) /\ c[k - 1] = Moved(m, d, s, n - k + 1, n - 1)
      BY <2>1
    <2>3. OneMoreDown(m, d, s, n, k)
      BY MovedDown
    <2>4. offsets[k] = n - k
      BY <1>2
    <2> HIDE DEF c, offsets
    <2> QED BY <2>2, <2>3, <2>4, Zenon DEF OneMoreDown
  <1>5. Copies(c, m, d, s, offsets)
    <2>1. c = [k \in 0 .. Len(offsets) |-> c[k]]
      BY <1>2
    <2>2. ASSUME NEW k \in 0 .. Len(offsets)
          PROVE  c[k] = IF k = 0 THEN m
                        ELSE [c[k - 1] EXCEPT ![d + offsets[k]] = c[k - 1][s + offsets[k]]]
      <3>1. k = 0 \/ k \in 1 .. n
        BY <1>1, <1>2
      <3> HIDE DEF c, offsets
      <3> QED BY <1>3, <1>4, <3>1
    <2> HIDE DEF c, offsets
    <2> QED BY <2>1, <2>2 DEF Copies
  <1>6. c[Len(offsets)] = Moved(m, d, s, 0, n - 1)
    <2>1. n \in 0 .. n /\ n - n = 0
      BY <1>1
    <2> QED BY <1>2, <2>1
  <1> HIDE DEF c
  <1>7. CopyBytes(m, d, s, offsets) = c[Len(offsets)]
    <2> HIDE DEF offsets
    <2> QED BY <1>2, <1>5, CopyBytesIs
  <1> QED BY <1>6, <1>7

(* What is left of a comparison is 0 only if no byte differs.              *)
Compares(m, a, b, offsets) ==
    Difference(m, a, b, offsets) = 0 <=> \A k \in offsets : m[a + k] = m[b + k]

LEMMA DifferenceIs ==
    ASSUME NEW m, NEW a, NEW b, NEW offsets \in SUBSET Nat,
           \A k \in offsets : m[a + k] \in Int /\ m[b + k] \in Int
    PROVE  Compares(m, a, b, offsets)
  <1> DEFINE D == {k \in offsets : m[a + k] # m[b + k]}
  <1>1. CASE D = {}
    BY <1>1 DEF Difference, Compares
  <1>2. CASE D # {}
    <2>1. D \in SUBSET Nat
      OBVIOUS
    <2>2. Min(D) \in D
      BY <1>2, <2>1, MinOf
    <2>3. PICK x : x = Min(D)
      OBVIOUS
    <2>4. Difference(m, a, b, offsets) = m[a + x] - m[b + x]
      BY <1>2, <2>3, Zenon DEF Difference
    <2>5. x \in offsets /\ m[a + x] # m[b + x]
      BY <2>2, <2>3
    <2>6. m[a + x] \in Int /\ m[b + x] \in Int
      BY <2>5
    <2>7. m[a + x] - m[b + x] # 0
      BY <2>5, <2>6
    <2> HIDE DEF D
    <2> QED BY <2>4, <2>5, <2>7 DEF Compares
  <1> QED BY <1>1, <1>2

LEMMA BlockFunctionsDoAgree == BlockFunctionsAgree
  <1> USE CLibraryAssumption
  <1>1. SUFFICES ASSUME NEW m \in Memories, NEW b \in Blocks
                 PROVE  LET s == b[1]  n == b[2] IN
                        /\ \A c \in Bytes : memset(m, s, c, n) = Fill(m, s .. s + n - 1, c)
                        /\ \A d \in {x \in Addresses : <<x, n>> \in Blocks} :
                              LET moved == [a \in DOMAIN m |-> IF a \in d .. d + n - 1
                                                               THEN m[s + a - d] ELSE m[a]]
                              IN  /\ memmove(m, d, s, n) = moved
                                  /\ d <= s \/ d >= s + n => memcpy(m, d, s, n) = moved
                                  /\ memcmp(m, d, s, n) = 0 <=>
                                        \A i \in 0 .. n - 1 : m[d + i] = m[s + i]
    BY Zenon DEF BlockFunctionsAgree
  <1>2. PICK s : s = b[1]
    OBVIOUS
  <1>3. PICK n : n = b[2]
    OBVIOUS
  <1>4. s \in Nat /\ n \in Nat \ {0} /\ s + n <= Cells + 1 /\ Cells \in Nat
    BY <1>2, <1>3 DEF Blocks, Addresses
  <1>5. ASSUME NEW c \in Bytes PROVE memset(m, s, c, n) = Fill(m, s .. s + n - 1, c)
    BY <1>4, MemsetFills
  <1>6. ASSUME NEW d \in Addresses, <<d, n>> \in Blocks
        PROVE  LET moved == [a \in DOMAIN m |-> IF a \in d .. d + n - 1
                                                THEN m[s + a - d] ELSE m[a]]
               IN  /\ memmove(m, d, s, n) = moved
                   /\ d <= s \/ d >= s + n => memcpy(m, d, s, n) = moved
                   /\ memcmp(m, d, s, n) = 0 <=> \A i \in 0 .. n - 1 : m[d + i] = m[s + i]
    <2> DEFINE moved == [a \in DOMAIN m |-> IF a \in d .. d + n - 1
                                            THEN m[s + a - d] ELSE m[a]]
    <2>1. d \in Nat /\ d + n <= Cells + 1
      BY <1>6 DEF Addresses, Blocks
    <2>2. TwoBlocks(m, d, s, n)
      BY <1>4, <2>1 DEF TwoBlocks
    <2>3. Moved(m, d, s, 0, n - 1) = moved
      <3>1. DOMAIN m = 0 .. Cells
        BY DEF Memories
      <3>2. \A a \in DOMAIN m : s + (a - d) = s + a - d
        BY <1>4, <2>1, <3>1
      <3>3. d + 0 = d /\ d + (n - 1) = d + n - 1
        BY <1>4, <2>1
      <3> QED BY <3>2, <3>3 DEF Moved
    <2>4. memmove(m, d, s, n) = moved
      <3>1. CASE s < d
        BY <2>2, <2>3, <3>1, CopiesDown DEF memmove
      <3>2. CASE ~(s < d)
        <4>1. d <= s
          BY <1>4, <2>1, <3>2
        <4>2. memmove(m, d, s, n) = CopyBytes(m, d, s, Upwards(n))
          BY <3>2 DEF memmove
        <4> QED BY <2>2, <2>3, <4>1, <4>2, CopiesUp
      <3> QED BY <3>1, <3>2
    <2>5. d <= s \/ d >= s + n => memcpy(m, d, s, n) = moved
      BY <2>2, <2>3, CopiesUp DEF memcpy
    <2>6. memcmp(m, d, s, n) = 0 <=> \A k \in 0 .. n - 1 : m[d + k] = m[s + k]
      <3>1. memcmp(m, d, s, n) = Difference(m, d, s, 0 .. n - 1)
        BY <1>4 DEF memcmp
      <3>2. \A k \in 0 .. n - 1 : d + k \in 0 .. Cells /\ s + k \in 0 .. Cells /\ k \in Nat
        BY <1>4, <2>1
      <3>3. \A k \in 0 .. n - 1 : m[d + k] \in Int /\ m[s + k] \in Int
        <4>1. m \in [0 .. Cells -> Bytes] /\ Bytes \subseteq Int
          BY DEF Memories
        <4> QED BY <3>2, <4>1
      <3>4. 0 .. n - 1 \in SUBSET Nat
        BY <1>4
      <3>5. Compares(m, d, s, 0 .. n - 1)
        BY <1>4, <2>1, <3>3, <3>4, DifferenceIs
      <3> QED BY <3>1, <3>5 DEF Compares
    <2> QED BY <2>4, <2>5, <2>6
  <1> QED BY <1>2, <1>3, <1>5, <1>6

-----------------------------------------------------------------------------
(* Strings.                                                                *)

(* The string at s ends at e.                                              *)
EndsAt(m, s, e) ==
    /\ DOMAIN m \subseteq Int /\ s \in Int /\ e \in DOMAIN m /\ s <= e
    /\ s .. e \subseteq DOMAIN m
    /\ m[e] = 0 /\ \A a \in s .. e - 1 : m[a] # 0

Between(m, s, e) == [k \in 1 .. e - s |-> m[s + k - 1]]

LEMMA TextIs ==
    ASSUME NEW m, NEW s, NEW e, EndsAt(m, s, e)
    PROVE  Text(m, s) = Between(m, s, e)
  <1> DEFINE End(x) == x >= s /\ m[x] = 0 /\ \A a \in s .. x - 1 : m[a] # 0
             x == CHOOSE y \in DOMAIN m : End(y)
  <1>1. e \in DOMAIN m /\ End(e)
    BY DEF EndsAt
  <1>2. x \in DOMAIN m /\ End(x)
    BY <1>1
  <1>3. Text(m, s) = [k \in 1 .. x - s |-> m[s + k - 1]]
    BY Zenon DEF Text
  <1> HIDE DEF x
  <1>4. s \in Int /\ e \in Int /\ x \in Int
    BY <1>2 DEF EndsAt
  <1>5. ~(x < e)
    <2>1. SUFFICES ASSUME x < e PROVE FALSE
      OBVIOUS
    <2>2. x \in s .. e - 1
      BY <1>2, <1>4, <2>1
    <2> QED BY <1>1, <1>2, <2>2
  <1>6. ~(e < x)
    <2>1. SUFFICES ASSUME e < x PROVE FALSE
      OBVIOUS
    <2>2. e \in s .. x - 1
      BY <1>1, <1>4, <2>1
    <2> QED BY <1>1, <1>2, <2>2
  <1>7. x = e
    BY <1>4, <1>5, <1>6
  <1> QED BY <1>3, <1>7 DEF Between

(* The text t is the string at s, which ends at e.                         *)
Holds(m, s, e, t) ==
    /\ EndsAt(m, s, e)
    /\ t = Text(m, s) /\ t \in Seq(Nat \ {0}) /\ Len(t) = e - s /\ e - s \in Nat
    /\ \A k \in 1 .. e - s : t[k] = m[s + k - 1]
    /\ \A a \in s .. e - 1 : a - s + 1 \in 1 .. e - s /\ t[a - s + 1] = m[a]

LEMMA HoldsText ==
    ASSUME NEW m, NEW s, NEW e, EndsAt(m, s, e), \A a \in DOMAIN m : m[a] \in Nat
    PROVE  Holds(m, s, e, Text(m, s))
  <1> DEFINE t == Text(m, s)
  <1>1. t = [k \in 1 .. e - s |-> m[s + k - 1]]
    BY TextIs DEF Between
  <1>2. s \in Int /\ e \in Int /\ s <= e /\ e - s \in Nat
    BY DEF EndsAt
  <1>3. \A k \in 1 .. e - s : s + k - 1 \in s .. e - 1
    BY <1>2
  <1>4. \A a \in s .. e - 1 : a \in DOMAIN m
    <2>1. \A a \in s .. e - 1 : a \in s .. e
      BY <1>2
    <2> QED BY <2>1 DEF EndsAt
  <1>5. \A k \in 1 .. e - s : t[k] = m[s + k - 1] /\ t[k] \in Nat \ {0}
    BY <1>1, <1>3, <1>4 DEF EndsAt
  <1>6. t \in Seq(Nat \ {0}) /\ Len(t) = e - s
    <2>1. t = [k \in 1 .. e - s |-> t[k]]
      BY <1>1
    <2> HIDE DEF t
    <2> QED BY <1>2, <1>5, <2>1
  <1>7. \A a \in s .. e - 1 : a - s + 1 \in 1 .. e - s /\ s + (a - s + 1) - 1 = a
    BY <1>2
  <1> HIDE DEF t
  <1>8. \A a \in s .. e - 1 : t[a - s + 1] = m[a]
    BY <1>5, <1>7
  <1> QED BY <1>2, <1>5, <1>6, <1>7, <1>8 DEF Holds, t

(* The first place from s on that is in S.                                 *)
LEMMA FirstExists ==
    ASSUME NEW S, NEW s \in Int, NEW z \in Int, s <= z, z \in S
    PROVE  \E p \in s .. z : p \in S /\ \A q \in s .. p - 1 : q \notin S
  <1> DEFINE K == {k \in 0 .. z - s : s + k \in S}
  <1>1. z - s \in K
    <2>1. z - s \in 0 .. z - s /\ s + (z - s) = z
      OBVIOUS
    <2> QED BY <2>1
  <1>2. K \in SUBSET Nat
    OBVIOUS
  <1>3. PICK k \in K : \A y \in K : k <= y
    BY <1>1, <1>2, LeastOne
  <1>4. k \in 0 .. z - s /\ s + k \in s .. z /\ s + k \in S
    OBVIOUS
  <1>5. ASSUME NEW q \in s .. (s + k) - 1 PROVE q \notin S
    <2>1. q - s \in 0 .. z - s /\ s + (q - s) = q /\ ~(k <= q - s)
      BY <1>4
    <2> QED BY <1>3, <2>1
  <1> QED BY <1>4, <1>5

LEMMA EndExists ==
    ASSUME NEW m, DOMAIN m \subseteq Int, NEW s \in Int, NEW z \in DOMAIN m, s <= z,
           s .. z \subseteq DOMAIN m, m[z] = 0
    PROVE  \E e \in s .. z : EndsAt(m, s, e)
  <1> DEFINE S == {q \in DOMAIN m : m[q] = 0}
  <1>1. z \in Int /\ z \in S
    OBVIOUS
  <1>2. PICK e \in s .. z : e \in S /\ \A q \in s .. e - 1 : q \notin S
    <2> HIDE DEF S
    <2> QED BY <1>1, FirstExists
  <1>3. \A q \in s .. e : q \in DOMAIN m
    <2>1. \A q \in s .. e : q \in s .. z
      BY <1>1
    <2> QED BY <2>1
  <1>4. \A q \in s .. e - 1 : q \in DOMAIN m
    <2>1. \A q \in s .. e - 1 : q \in s .. e
      BY <1>1
    <2> QED BY <1>3, <2>1
  <1>5. \A q \in s .. e - 1 : m[q] # 0
    BY <1>2, <1>4
  <1>6. s <= e /\ m[e] = 0 /\ e \in DOMAIN m
    BY <1>1, <1>2
  <1>7. EndsAt(m, s, e)
    BY <1>3, <1>5, <1>6 DEF EndsAt
  <1> QED BY <1>7

LEMMA StringHolds ==
    ASSUME NEW m \in Memories, NEW s \in Addresses
    PROVE  /\ s \in Nat /\ Cells \in Nat /\ DOMAIN m = 0 .. Cells
           /\ \A a \in 0 .. Cells : m[a] \in Bytes /\ m[a] \in Nat
           /\ \E e \in s .. Cells : Holds(m, s, e, Text(m, s))
  <1> USE CLibraryAssumption
  <1>1. s \in Nat /\ s <= Cells /\ Cells \in Nat
    BY DEF Addresses
  <1>2. m \in [0 .. Cells -> Bytes] /\ m[Cells] = 0 /\ Bytes \subseteq Nat
    BY DEF Memories
  <1>3. DOMAIN m \subseteq Int /\ Cells \in DOMAIN m /\ s .. Cells \subseteq DOMAIN m
    BY <1>1, <1>2
  <1>4. \A a \in DOMAIN m : m[a] \in Nat
    <2>1. \A a \in DOMAIN m : m[a] \in Bytes
      BY <1>2
    <2> QED BY <1>2, <2>1, Zenon
  <1>5. PICK e \in s .. Cells : EndsAt(m, s, e)
    <2>1. s \in Int /\ s <= Cells /\ m[Cells] = 0
      BY <1>1, <1>2
    <2> QED BY <1>3, <2>1, EndExists, Zenon
  <1>6. Holds(m, s, e, Text(m, s))
    BY <1>4, <1>5, HoldsText
  <1> QED BY <1>1, <1>2, <1>4, <1>6

LEMMA MinIs ==
    ASSUME NEW S \in SUBSET Int, NEW x \in S, \A y \in S : x <= y
    PROVE  Min(S) = x
  <1>1. Min(S) \in S /\ \A y \in S : Min(S) <= y
    BY DEF Min
  <1>2. Min(S) \in Int /\ Min(S) <= x /\ x <= Min(S)
    BY <1>1
  <1>3. ASSUME NEW y \in Int, y <= x, x <= y PROVE y = x
    BY <1>3
  <1> QED BY <1>2, <1>3

LEMMA MaxIs ==
    ASSUME NEW S \in SUBSET Int, NEW x \in S, \A y \in S : y <= x
    PROVE  Max(S) = x
  <1>1. Max(S) \in S /\ \A y \in S : Max(S) >= y
    BY DEF Max
  <1>2. Max(S) \in Int /\ Max(S) >= x /\ x >= Max(S)
    BY <1>1
  <1>3. ASSUME NEW y \in Int, y >= x, x >= y PROVE y = x
    BY <1>3
  <1> QED BY <1>2, <1>3

LEMMA MinOfTwo ==
    ASSUME NEW x \in Int, NEW y \in Int
    PROVE  Min({x, y}) = IF x <= y THEN x ELSE y
  <1>1. CASE x <= y
    <2>1. Min({x, y}) = x
      BY <1>1, MinIs
    <2> QED BY <1>1, <2>1
  <1>2. CASE ~(x <= y)
    <2>1. Min({x, y}) = y
      BY <1>2, MinIs
    <2> QED BY <1>2, <2>1
  <1> QED BY <1>1, <1>2

LEMMA MaxOfTwo ==
    ASSUME NEW x \in Int, NEW y \in Int
    PROVE  Max({x, y}) = IF x <= y THEN y ELSE x
  <1>1. CASE x <= y
    <2>1. Max({x, y}) = y
      BY <1>1, MaxIs
    <2> QED BY <1>1, <2>1
  <1>2. CASE ~(x <= y)
    <2>1. Max({x, y}) = x
      BY <1>2, MaxIs
    <2> QED BY <1>2, <2>1
  <1> QED BY <1>1, <1>2

LEMMA LargestOne ==
    ASSUME NEW z \in Nat, NEW S \in SUBSET (0 .. z), S # {}
    PROVE  \E x \in S : \A y \in S : y <= x
  <1> DEFINE K == {k \in 0 .. z : z - k \in S}
  <1>1. K \in SUBSET Nat
    OBVIOUS
  <1>2. \A x \in S : z - x \in K /\ z - (z - x) = x
    OBVIOUS
  <1>3. K # {}
    BY <1>2
  <1>4. PICK k \in K : \A y \in K : k <= y
    BY <1>1, <1>3, LeastOne
  <1>5. z - k \in S /\ k \in 0 .. z
    OBVIOUS
  <1>6. \A y \in S : k <= z - y
    BY <1>2, <1>4
  <1>7. \A y \in S : y <= z - k
    BY <1>5, <1>6
  <1> QED BY <1>5, <1>7

-----------------------------------------------------------------------------
(* The functions on one string.                                            *)

LEMMA StrlenIs ==
    ASSUME NEW m, NEW s, NEW e, EndsAt(m, s, e)
    PROVE  strlen(m, s) = e - s
  <1> DEFINE x == Stop(m, s, LAMBDA a : m[a] = 0)
  <1>1. e \in {q \in DOMAIN m : q >= s} /\ m[e] = 0 /\ \A q \in s .. e - 1 : ~(m[q] = 0)
    BY DEF EndsAt
  <1>2. x \in {q \in DOMAIN m : q >= s} /\ m[x] = 0 /\ \A q \in s .. x - 1 : ~(m[q] = 0)
    BY <1>1 DEF Stop
  <1>3. strlen(m, s) = x - s
    BY DEF strlen
  <1> HIDE DEF x
  <1>4. x \in Int /\ s \in Int /\ e \in Int /\ s <= x /\ s <= e
    BY <1>2 DEF EndsAt
  <1>5. ~(x < e)
    <2>1. x < e => x \in s .. e - 1
      BY <1>4
    <2> QED BY <1>1, <1>2, <2>1
  <1>6. ~(e < x)
    <2>1. e < x => e \in s .. x - 1
      BY <1>4
    <2> QED BY <1>1, <1>2, <2>1
  <1> QED BY <1>3, <1>4, <1>5, <1>6

LEMMA StrnlenIs ==
    ASSUME NEW m, NEW s, NEW e, EndsAt(m, s, e), NEW n \in Nat, s + n \in DOMAIN m
    PROVE  strnlen(m, s, n) = Min({n, e - s})
  <1> DEFINE x == Stop(m, s, LAMBDA a : m[a] = 0 \/ a - s >= n)
             P(q) == m[q] = 0 \/ q - s >= n
  <1>1. s \in Int /\ e \in Int /\ s <= e /\ e \in DOMAIN m
    BY DEF EndsAt
  <1>2. PICK p : p = s + (IF n <= e - s THEN n ELSE e - s)
    OBVIOUS
  <1>3. p \in Int /\ s <= p /\ p <= e /\ p <= s + n /\ p \in DOMAIN m
    BY <1>1, <1>2
  <1>4. P(p)
    BY <1>1, <1>2 DEF EndsAt
  <1>5. ASSUME NEW q \in s .. p - 1 PROVE ~P(q)
    <2>1. q \in s .. e - 1 /\ ~(q - s >= n)
      BY <1>1, <1>3
    <2> QED BY <2>1 DEF EndsAt
  <1>6. p \in {q \in DOMAIN m : q >= s} /\ P(p) /\ \A q \in s .. p - 1 : ~P(q)
    BY <1>3, <1>4, <1>5
  <1>7. x \in {q \in DOMAIN m : q >= s} /\ P(x) /\ \A q \in s .. x - 1 : ~P(q)
    BY <1>6 DEF Stop
  <1>8. strnlen(m, s, n) = x - s
    BY DEF strnlen
  <1> HIDE DEF x, P
  <1>9. x \in Int /\ s <= x
    BY <1>1, <1>7 DEF EndsAt
  <1>10. ~(x < p)
    <2>1. x < p => x \in s .. p - 1
      BY <1>1, <1>3, <1>9
    <2> QED BY <1>6, <1>7, <2>1
  <1>11. ~(p < x)
    <2>1. p < x => p \in s .. x - 1
      BY <1>1, <1>3, <1>9
    <2> QED BY <1>6, <1>7, <2>1
  <1>12. x = p
    BY <1>3, <1>9, <1>10, <1>11
  <1>13. strnlen(m, s, n) = IF n <= e - s THEN n ELSE e - s
    BY <1>1, <1>2, <1>8, <1>12
  <1> QED BY <1>1, <1>13, MinOfTwo

(* r is the first of the places where c is in the string, or NULL.         *)
FirstOf(m, s, e, c, r) ==
    \/ r = NULL /\ \A a \in s .. e - 1 : m[a] # c
    \/ r \in s .. e - 1 /\ m[r] = c /\ \A a \in s .. r - 1 : m[a] # c

LEMMA StrchrIs ==
    ASSUME NEW m, NEW s, NEW e, EndsAt(m, s, e), NEW c, c # 0
    PROVE  FirstOf(m, s, e, c, strchr(m, s, c))
  <1> DEFINE S == {q \in DOMAIN m : m[q] = c \/ m[q] = 0}
             x == Stop(m, s, LAMBDA a : m[a] = c \/ m[a] = 0)
             P(q) == m[q] = c \/ m[q] = 0
  <1>1. s \in Int /\ e \in Int /\ s <= e /\ e \in S
    BY DEF EndsAt
  <1>2. PICK p \in s .. e : p \in S /\ \A q \in s .. p - 1 : q \notin S
    <2> HIDE DEF S
    <2> QED BY <1>1, FirstExists
  <1>3. \A q \in s .. p - 1 : q \in s .. e /\ q \in DOMAIN m
    <2>1. \A q \in s .. p - 1 : q \in s .. e
      BY <1>1
    <2> QED BY <2>1 DEF EndsAt
  <1>4. p \in {q \in DOMAIN m : q >= s} /\ P(p) /\ \A q \in s .. p - 1 : ~P(q)
    BY <1>1, <1>2, <1>3
  <1>5. x \in {q \in DOMAIN m : q >= s} /\ P(x) /\ \A q \in s .. x - 1 : ~P(q)
    BY <1>4 DEF Stop
  <1>6. strchr(m, s, c) = IF m[x] = c THEN x ELSE NULL
    BY Zenon DEF strchr
  <1> HIDE DEF x, S
  <1>7. x \in Int /\ s <= x
    BY <1>1, <1>5 DEF EndsAt
  <1>8. x <= e
    <2>1. e < x => e \in s .. x - 1
      BY <1>1, <1>7
    <2>2. P(e)
      BY DEF EndsAt
    <2> QED BY <1>1, <1>5, <1>7, <2>1, <2>2
  <1>9. CASE m[x] = c
    <2>1. x # e
      BY <1>9 DEF EndsAt
    <2>2. x \in s .. e - 1
      BY <1>1, <1>7, <1>8, <2>1
    <2> QED BY <1>5, <1>6, <1>9, <2>2 DEF FirstOf
  <1>10. CASE m[x] # c
    <2>1. m[x] = 0
      BY <1>5, <1>10
    <2>2. x = e
      <3>1. x < e => x \in s .. e - 1
        BY <1>1, <1>7
      <3> QED BY <1>1, <1>7, <1>8, <2>1, <3>1 DEF EndsAt
    <2> QED BY <1>5, <1>6, <1>10, <2>2 DEF FirstOf
  <1> QED BY <1>9, <1>10

Places(t, c) == {k \in 1 .. Len(t) : t[k] = c}

LEMMA PlacesAre ==
    ASSUME NEW m, NEW s, NEW e, NEW t, Holds(m, s, e, t), NEW c
    PROVE  /\ Places(t, c) \in SUBSET (1 .. e - s)
           /\ \A k \in 1 .. e - s : k \in Places(t, c) <=> m[s + k - 1] = c
           /\ \A a \in s .. e - 1 : a - s + 1 \in Places(t, c) <=> m[a] = c
  <1>1. Len(t) = e - s
    BY DEF Holds
  <1>2. \A k \in 1 .. e - s : t[k] = m[s + k - 1]
    BY DEF Holds
  <1>3. \A a \in s .. e - 1 : a - s + 1 \in 1 .. e - s /\ t[a - s + 1] = m[a]
    BY DEF Holds
  <1> QED BY <1>1, <1>2, <1>3 DEF Places

LEMMA StrchrAgrees ==
    ASSUME NEW m, NEW s, NEW e, NEW t, Holds(m, s, e, t), NEW c, c # 0
    PROVE  strchr(m, s, c) = IF Places(t, c) = {} THEN NULL ELSE s + Min(Places(t, c)) - 1
  <1> DEFINE at == Places(t, c)
  <1>1. EndsAt(m, s, e) /\ s \in Int /\ e \in Int /\ s <= e
    BY DEF Holds, EndsAt
  <1>2. at \in SUBSET (1 .. e - s)
    BY PlacesAre
  <1>3. \A k \in 1 .. e - s : k \in at <=> m[s + k - 1] = c
    BY PlacesAre
  <1>4. \A a \in s .. e - 1 : a - s + 1 \in at <=> m[a] = c
    BY PlacesAre
  <1> HIDE DEF at
  <1>5. PICK r : r = strchr(m, s, c)
    OBVIOUS
  <1>6. FirstOf(m, s, e, c, r)
    BY <1>1, <1>5, StrchrIs
  <1>7. CASE r = NULL /\ \A a \in s .. e - 1 : m[a] # c
    <2>1. \A k \in 1 .. e - s : s + k - 1 \in s .. e - 1
      BY <1>1
    <2>2. at = {}
      BY <1>2, <1>3, <1>7, <2>1
    <2> QED BY <1>5, <1>7, <2>2 DEF at
  <1>8. CASE r \in s .. e - 1 /\ m[r] = c /\ \A a \in s .. r - 1 : m[a] # c
    <2>1. r - s + 1 \in at /\ r \in Int
      BY <1>1, <1>4, <1>8
    <2>2. \A k \in at : r - s + 1 <= k
      <3>1. SUFFICES ASSUME NEW k \in at, k < r - s + 1 PROVE FALSE
        BY <1>1, <1>2, <2>1
      <3>2. k \in 1 .. e - s /\ s + k - 1 \in s .. r - 1
        BY <1>1, <1>2, <2>1, <3>1
      <3> QED BY <1>3, <1>8, <3>2
    <2>3. Min(at) = r - s + 1
      <3>1. at \in SUBSET Int
        BY <1>2
      <3> QED BY <2>1, <2>2, <3>1, MinIs
    <2>4. r = s + Min(at) - 1
      BY <1>1, <2>1, <2>3
    <2> QED BY <1>5, <2>1, <2>4 DEF at
  <1> QED BY <1>6, <1>7, <1>8 DEF FirstOf

LEMMA EndOfTail ==
    ASSUME NEW m, NEW s, NEW e, EndsAt(m, s, e), NEW k \in 0 .. e - s
    PROVE  EndsAt(m, s + k, e)
  <1>1. s \in Int /\ e \in Int /\ s <= e /\ s + k <= e
    BY DEF EndsAt
  <1>2. s + k .. e \subseteq s .. e /\ s + k .. e - 1 \subseteq s .. e - 1
    BY <1>1
  <1> QED BY <1>1, <1>2 DEF EndsAt

LEMMA StrrchrAgrees ==
    ASSUME NEW m, NEW s, NEW e, NEW t, Holds(m, s, e, t), NEW c, c # 0, t # << >>
    PROVE  strrchr(m, s, c) = IF Places(t, c) \ {1} = {} THEN NULL
                              ELSE s + Max(Places(t, c) \ {1}) - 1
  <1> DEFINE at == Places(t, c) \ {1}
             found == {a \in s + 1 .. s + 1 + strlen(m, s + 1) : m[a] = c /\ m[a] # 0}
  <1>1. EndsAt(m, s, e) /\ s \in Int /\ e \in Int /\ s < e
    <2>1. t \in Seq(Nat \ {0}) /\ Len(t) = e - s /\ EndsAt(m, s, e)
      BY DEF Holds
    <2>2. s \in Int /\ e \in Int /\ s <= e
      BY <2>1 DEF EndsAt
    <2>3. Len(t) # 0
      BY <2>1
    <2> QED BY <2>1, <2>2, <2>3
  <1>2. strlen(m, s + 1) = e - (s + 1)
    <2>1. EndsAt(m, s + 1, e)
      BY <1>1, 1 \in 0 .. e - s, EndOfTail
    <2> QED BY <2>1, StrlenIs
  <1>3. \A a : a \in found <=> a \in s + 1 .. e - 1 /\ m[a] = c
    <2>1. s + 1 + (e - (s + 1)) = e
      BY <1>1
    <2>2. \A a \in s + 1 .. e : a = e \/ a \in s + 1 .. e - 1
      BY <1>1
    <2>3. \A a \in s + 1 .. e - 1 : a \in s + 1 .. e
      BY <1>1
    <2>4. m[e] = 0
      BY <1>1 DEF EndsAt
    <2> QED BY <1>2, <2>1, <2>2, <2>3, <2>4
  <1>4. at \in SUBSET (2 .. e - s)
    <2>1. Places(t, c) \in SUBSET (1 .. e - s)
      BY PlacesAre
    <2> QED BY <1>1, <2>1
  <1>5. \A k \in 2 .. e - s : k \in at <=> m[s + k - 1] = c
    <2>1. \A k \in 1 .. e - s : k \in Places(t, c) <=> m[s + k - 1] = c
      BY PlacesAre
    <2> QED BY <1>1, <2>1
  <1>6. strrchr(m, s, c) = IF found = {} THEN NULL ELSE Max(found)
    BY Zenon DEF strrchr
  <1> HIDE DEF at, found
  <1>7. \A k \in at : s + k - 1 \in found
    <2>1. \A k \in 2 .. e - s : s + k - 1 \in s + 1 .. e - 1
      BY <1>1
    <2> QED BY <1>3, <1>4, <1>5, <2>1
  <1>8. \A a \in found : a - s + 1 \in at /\ a \in Int
    <2>1. \A a \in s + 1 .. e - 1 : a - s + 1 \in 2 .. e - s /\ s + (a - s + 1) - 1 = a
      BY <1>1
    <2> QED BY <1>3, <1>5, <2>1
  <1>9. CASE at = {}
    <2>1. found = {}
      BY <1>8, <1>9
    <2> QED BY <1>6, <1>9, <2>1 DEF at
  <1>10. CASE at # {}
    <2>1. PICK k \in at : \A y \in at : y <= k
      <3>1. at \in SUBSET (0 .. e - s) /\ e - s \in Nat
        BY <1>1, <1>4
      <3> QED BY <1>10, <3>1, LargestOne
    <2>2. k \in Int /\ at \in SUBSET Int /\ found \in SUBSET Int
      BY <1>4, <1>8
    <2>3. Max(at) = k
      BY <2>1, <2>2, MaxIs
    <2>4. \A a \in found : a <= s + k - 1
      <3>1. \A a \in found : a - s + 1 <= k
        BY <1>8, <2>1
      <3> QED BY <1>1, <1>8, <2>2, <3>1
    <2>5. Max(found) = s + k - 1
      BY <1>7, <2>1, <2>2, <2>4, MaxIs
    <2>6. found # {}
      BY <1>7, <2>1
    <2> QED BY <1>6, <1>10, <2>3, <2>5, <2>6 DEF at
  <1> QED BY <1>9, <1>10

(* The part of t that begins behind k characters.                          *)
LEMMA Tails ==
    ASSUME NEW S, NEW t \in Seq(S), NEW n \in 0 .. Len(t)
    PROVE  /\ SubSeq(t, n + 1, Len(t)) \in Seq(S)
           /\ Len(SubSeq(t, n + 1, Len(t))) = Len(t) - n
           /\ \A k \in 1 .. Len(t) - n : SubSeq(t, n + 1, Len(t))[k] = t[n + k]
  <1>1. Len(t) \in Nat /\ n + 1 \in Int
    OBVIOUS
  <1>2. \A k \in n + 1 .. Len(t) : t[k] \in S
    BY <1>1
  <1>3. /\ SubSeq(t, n + 1, Len(t)) \in Seq(S)
        /\ Len(SubSeq(t, n + 1, Len(t))) = IF n + 1 <= Len(t) THEN Len(t) - (n + 1) + 1 ELSE 0
        /\ \A k \in 1 .. Len(t) - (n + 1) + 1 : SubSeq(t, n + 1, Len(t))[k] = t[n + 1 + k - 1]
    BY <1>1, <1>2, SubSeqProperties
  <1>4. (IF n + 1 <= Len(t) THEN Len(t) - (n + 1) + 1 ELSE 0) = Len(t) - n
    BY <1>1
  <1>5. Len(t) - (n + 1) + 1 = Len(t) - n /\ \A k \in 1 .. Len(t) - n : n + 1 + k - 1 = n + k
    BY <1>1
  <1> QED BY <1>3, <1>4, <1>5

(* The first n characters of t.                                            *)
LEMMA Heads ==
    ASSUME NEW S, NEW t \in Seq(S), NEW n \in 0 .. Len(t)
    PROVE  /\ SubSeq(t, 1, n) \in Seq(S)
           /\ Len(SubSeq(t, 1, n)) = n
           /\ \A k \in 1 .. n : SubSeq(t, 1, n)[k] = t[k]
  <1>1. Len(t) \in Nat
    OBVIOUS
  <1>2. \A k \in 1 .. n : t[k] \in S
    BY <1>1
  <1>3. /\ SubSeq(t, 1, n) \in Seq(S)
        /\ Len(SubSeq(t, 1, n)) = IF 1 <= n THEN n - 1 + 1 ELSE 0
        /\ \A k \in 1 .. n - 1 + 1 : SubSeq(t, 1, n)[k] = t[1 + k - 1]
    BY <1>2, SubSeqProperties
  <1>4. (IF 1 <= n THEN n - 1 + 1 ELSE 0) = n /\ n - 1 + 1 = n
    BY <1>1
  <1>5. \A k \in 1 .. n : 1 + k - 1 = k
    BY <1>1
  <1> QED BY <1>3, <1>4, <1>5

Begins(u, w) == Len(u) <= Len(w) /\ \A k \in 1 .. Len(u) : u[k] = w[k]

LEMMA PrefixIs ==
    ASSUME NEW S, NEW u \in Seq(S), NEW w \in Seq(S)
    PROVE  IsPrefix(u, w) <=> Begins(u, w)
  <1> DEFINE n == Len(u)
             p == SubSeq(w, 1, n)
  <1>1. n \in Nat /\ Len(w) \in Nat /\ SubSeq(u, 1, n) = u
    BY SubSeqFull
  <1>2. CASE n <= Len(w)
    <2>1. n \in 0 .. Len(w)
      BY <1>1, <1>2
    <2>2. p \in Seq(S) /\ Len(p) = n /\ \A k \in 1 .. n : p[k] = w[k]
      <3> HIDE DEF n
      <3> QED BY <2>1, Heads
    <2>3. IsPrefix(u, w) <=> u = p
      BY <1>1, <1>2 DEF IsPrefix
    <2> HIDE DEF p
    <2>4. u = p <=> \A k \in 1 .. n : u[k] = p[k]
      BY <2>2, SeqEqual
    <2> QED BY <1>2, <2>2, <2>3, <2>4 DEF Begins
  <1>3. CASE ~(n <= Len(w))
    BY <1>3 DEF IsPrefix, Begins
  <1> QED BY <1>2, <1>3

Matches(m, a, b, n) == \A k \in 0 .. n - 1 : m[a + k] = m[b + k]

(* The string that is b .. f occurs in the string s .. e behind n bytes.   *)
Occurs(m, s, e, b, f, n) == f - b <= e - (s + n) /\ Matches(m, s + n, b, f - b)

LEMMA OccursIs ==
    ASSUME NEW m, NEW s, NEW e, NEW t, Holds(m, s, e, t),
           NEW b, NEW f, NEW u, Holds(m, b, f, u), NEW n \in 0 .. Len(t)
    PROVE  IsPrefix(u, SubSeq(t, n + 1, Len(t))) <=> Occurs(m, s, e, b, f, n)
  <1> DEFINE w == SubSeq(t, n + 1, Len(t))
             l == f - b
  <1>1. /\ s \in Int /\ e \in Int /\ s <= e /\ b \in Int /\ f \in Int /\ l \in Nat
        /\ t \in Seq(Nat \ {0}) /\ Len(t) = e - s /\ u \in Seq(Nat \ {0}) /\ Len(u) = l
    BY DEF Holds, EndsAt
  <1>2. w \in Seq(Nat \ {0}) /\ Len(w) = Len(t) - n /\ \A k \in 1 .. Len(t) - n : w[k] = t[n + k]
    BY <1>1, Tails
  <1>3. \A k \in 1 .. l : u[k] = m[b + k - 1]
    BY DEF Holds
  <1>4. \A k \in 1 .. e - s : t[k] = m[s + k - 1]
    BY DEF Holds
  <1> HIDE DEF w, l
  <1>5. IsPrefix(u, w) <=> l <= Len(w) /\ \A k \in 1 .. l : u[k] = w[k]
    <2>1. IsPrefix(u, w) <=> Begins(u, w)
      <3>1. u \in Seq(Nat \ {0}) /\ w \in Seq(Nat \ {0})
        BY <1>1, <1>2
      <3> QED BY <3>1, PrefixIs
    <2> QED BY <1>1, <2>1 DEF Begins
  <1>6. l <= Len(w) <=> l <= e - (s + n)
    BY <1>1, <1>2
  <1>7. ASSUME l <= Len(w)
        PROVE  (\A k \in 1 .. l : u[k] = w[k]) <=> Matches(m, s + n, b, l)
    <2>1. ASSUME NEW k \in 1 .. l PROVE u[k] = m[b + (k - 1)] /\ w[k] = m[(s + n) + (k - 1)]
      <3>1. k \in 1 .. Len(t) - n /\ n + k \in 1 .. e - s
        <4>1. PICK x \in Nat : x = Len(t) /\ x = e - s /\ l <= x - n /\ n \in Nat
          BY <1>1, <1>2, <1>7
        <4>2. k \in 1 .. x - n /\ n + k \in 1 .. x
          BY <1>1, <4>1
        <4> QED BY <4>1, <4>2
      <3>2. b + k - 1 = b + (k - 1) /\ s + (n + k) - 1 = (s + n) + (k - 1)
        BY <1>1
      <3> QED BY <1>2, <1>3, <1>4, <3>1, <3>2
    <2>2. \A k \in 1 .. l : k - 1 \in 0 .. l - 1
      BY <1>1
    <2>3. \A k \in 0 .. l - 1 : k + 1 \in 1 .. l /\ (k + 1) - 1 = k
      BY <1>1
    <2> QED BY <2>1, <2>2, <2>3 DEF Matches
  <1> QED BY <1>5, <1>6, <1>7 DEF Occurs, w, l

FirstOccurrence(m, s, e, b, f, r) ==
    \/ r = NULL /\ \A n \in 0 .. e - s : ~Occurs(m, s, e, b, f, n)
    \/ \E n \in 0 .. e - s : /\ r = s + n /\ Occurs(m, s, e, b, f, n)
                             /\ \A k \in 0 .. n - 1 : ~Occurs(m, s, e, b, f, k)

LEMMA SearchIs ==
    ASSUME NEW m, \A a \in DOMAIN m : m[a] \in Nat, NEW s, NEW e, EndsAt(m, s, e),
           NEW b, NEW f, EndsAt(m, b, f), b < f
    PROVE  FirstOccurrence(m, s, e, b, f, Search(m, s, e - s, b, f - b))
  <1> DEFINE l == f - b
             short(a) == (e - s) - (a - s) < l
             P(a) == m[a] = 0 \/ (m[a] = m[b] /\ (short(a) \/ strncmp(m, a, b, l) = 0))
             p == Stop(m, s, LAMBDA a : \/ m[a] = 0
                                        \/ /\ m[a] = m[b]
                                           /\ (e - s) - (a - s) < l \/ strncmp(m, a, b, l) = 0)
             S == {q \in DOMAIN m : P(q)}
             Found(n) == Occurs(m, s, e, b, f, n)
  <1>1. /\ s \in Int /\ e \in Int /\ s <= e /\ s .. e \subseteq DOMAIN m /\ DOMAIN m \subseteq Int
        /\ b \in Int /\ f \in Int /\ b .. f \subseteq DOMAIN m /\ l \in Nat /\ l >= 1
        /\ e \in DOMAIN m /\ m[e] = 0 /\ \A a \in s .. e - 1 : m[a] # 0
    BY DEF EndsAt
  <1>2. Search(m, s, e - s, b, l) = IF m[p] = 0 \/ short(p) THEN NULL ELSE p
    BY Zenon DEF Search
  <1>3. /\ p \in DOMAIN m /\ p >= s /\ P(p)
        /\ \A q \in s .. p - 1 : ~P(q)
    <2>1. e \in S
      BY <1>1
    <2>2. PICK z \in s .. e : z \in S /\ \A q \in s .. z - 1 : q \notin S
      <3> HIDE DEF S
      <3> QED BY <1>1, <2>1, FirstExists
    <2>3. \A q \in s .. z - 1 : q \in DOMAIN m
      <3>1. \A q \in s .. z - 1 : q \in s .. e
        BY <1>1
      <3> QED BY <1>1, <3>1
    <2>4. z \in {q \in DOMAIN m : q >= s} /\ P(z) /\ \A q \in s .. z - 1 : ~P(q)
      <3>1. z \in S /\ z >= s
        BY <1>1, <2>2
      <3> HIDE DEF P
      <3> QED BY <2>2, <2>3, <3>1
    <2>5. p = CHOOSE x \in {q \in DOMAIN m : q >= s} : P(x) /\ \A q \in s .. x - 1 : ~P(q)
      BY Zenon DEF Stop
    <2> HIDE DEF p, P
    <2> QED BY <2>4, <2>5
  <1> HIDE DEF p
  <1>4. p \in Int /\ s <= p /\ p <= e
    <2>1. e < p => e \in s .. p - 1
      BY <1>1, <1>3
    <2>2. P(e)
      BY <1>1
    <2> HIDE DEF P
    <2> QED BY <1>1, <1>3, <2>1, <2>2
  <1>5. ASSUME NEW a \in s .. e, ~short(a)
        PROVE  strncmp(m, a, b, l) = 0 <=> Matches(m, a, b, l)
    <2>1. \A k \in 0 .. l - 1 : a + k \in s .. e /\ b + k \in b .. f
      BY <1>1, <1>5
    <2>2. \A k \in 0 .. l - 1 : m[a + k] \in Int /\ m[b + k] \in Int
      <3>1. \A k \in 0 .. l - 1 : a + k \in DOMAIN m /\ b + k \in DOMAIN m
        BY <1>1, <2>1
      <3> HIDE DEF l
      <3> QED BY <3>1
    <2>3. 0 .. l - 1 \in SUBSET Nat
      BY <1>1
    <2> HIDE DEF l
    <2>4. Compares(m, a, b, 0 .. l - 1)
      BY <2>2, <2>3, DifferenceIs
    <2> QED BY <2>4 DEF Compares, Matches, strncmp
  <1>6. ASSUME NEW n \in 0 .. e - s
        PROVE  /\ s + n \in s .. e
               /\ Found(n) <=> ~short(s + n) /\ Matches(m, s + n, b, l)
    <2>1. s + n \in s .. e /\ (l <= e - (s + n) <=> ~short(s + n))
      BY <1>1
    <2> QED BY <2>1 DEF Occurs
  <1>7. ASSUME NEW n \in 0 .. e - s, Found(n)
        PROVE  ~short(s + n) /\ strncmp(m, s + n, b, l) = 0 /\ m[s + n] = m[b] /\ s + n < e
    <2>1. ~short(s + n) /\ Matches(m, s + n, b, l) /\ s + n \in s .. e
      BY <1>6, <1>7
    <2>2. strncmp(m, s + n, b, l) = 0
      <3> HIDE DEF short, l
      <3> QED BY <1>5, <2>1
    <2>3. 0 \in 0 .. l - 1 /\ (s + n) + 0 = s + n /\ b + 0 = b
      BY <1>1
    <2>4. m[s + n] = m[b]
      BY <2>1, <2>3 DEF Matches
    <2>5. s + n < e
      BY <1>1, <2>1
    <2> QED BY <2>1, <2>2, <2>4, <2>5
  <1>8. ASSUME NEW n \in 0 .. e - s, Found(n) PROVE p <= s + n
    <2>1. P(s + n)
      BY <1>7, <1>8
    <2>2. s + n < p => s + n \in s .. p - 1
      BY <1>1, <1>4
    <2> HIDE DEF P
    <2> QED BY <1>1, <1>3, <1>4, <2>1, <2>2
  <1>9. CASE m[p] = 0 \/ short(p)
    <2>1. ASSUME NEW n \in 0 .. e - s, Found(n) PROVE FALSE
      <3>1. p <= s + n /\ s + n < e /\ ~short(s + n)
        BY <1>7, <1>8, <2>1
      <3>2. ~short(p)
        BY <1>1, <1>4, <3>1
      <3>3. p \in s .. e - 1
        BY <1>1, <1>4, <3>1
      <3> QED BY <1>1, <1>9, <3>2, <3>3
    <2>2. Search(m, s, e - s, b, l) = NULL
      BY <1>2, <1>9
    <2> QED BY <2>1, <2>2 DEF FirstOccurrence
  <1>10. CASE ~(m[p] = 0 \/ short(p))
    <2>1. PICK n \in 0 .. e - s : p = s + n
      <3>1. p - s \in 0 .. e - s /\ p = s + (p - s)
        BY <1>1, <1>4
      <3> QED BY <3>1
    <2>2. p \in s .. e
      BY <1>1, <1>4
    <2>3. strncmp(m, p, b, l) = 0
      BY <1>3, <1>10
    <2>4. Found(n)
      <3>1. Matches(m, p, b, l)
        <4> HIDE DEF l
        <4> QED BY <1>5, <1>10, <2>2, <2>3
      <3> HIDE DEF Found, short, l
      <3> QED BY <1>6, <1>10, <2>1, <3>1
    <2>5. ASSUME NEW k \in 0 .. n - 1, Found(k) PROVE FALSE
      <3>1. k \in 0 .. e - s /\ s + k < p
        BY <1>1, <2>1
      <3>2. p <= s + k
        BY <1>8, <2>5, <3>1
      <3> QED BY <1>1, <1>4, <3>1, <3>2
    <2>6. Search(m, s, e - s, b, l) = s + n
      BY <1>2, <1>10, <2>1
    <2> QED BY <2>4, <2>5, <2>6 DEF FirstOccurrence
  <1> QED BY <1>9, <1>10

(* The places of t at which the string u begins.                           *)
Sites(t, u) == {n \in 0 .. Len(t) : IsPrefix(u, SubSeq(t, n + 1, Len(t)))}

StrstrFinds(m, s, t, b, u) ==
    strstr(m, s, b) = IF Sites(t, u) = {} THEN NULL ELSE s + Min(Sites(t, u))

LEMMA StrstrAgrees ==
    ASSUME NEW m, \A a \in DOMAIN m : m[a] \in Nat, NEW s, NEW e, NEW t, Holds(m, s, e, t),
           NEW b, NEW f, NEW u, Holds(m, b, f, u)
    PROVE  StrstrFinds(m, s, t, b, u)
  <1> DEFINE at == Sites(t, u)
             r == strstr(m, s, b)
  <1>1. /\ EndsAt(m, s, e) /\ EndsAt(m, b, f) /\ s \in Int /\ e \in Int /\ s <= e
        /\ b \in Int /\ f \in Int /\ b <= f /\ Len(t) = e - s
    BY DEF Holds, EndsAt
  <1>2. \A n : n \in at <=> n \in 0 .. e - s /\ Occurs(m, s, e, b, f, n)
    <2>1. \A n \in 0 .. Len(t) : IsPrefix(u, SubSeq(t, n + 1, Len(t)))
                                    <=> Occurs(m, s, e, b, f, n)
      BY OccursIs
    <2> QED BY <1>1, <2>1 DEF Sites
  <1>3. at \in SUBSET Int
    BY <1>2
  <1> HIDE DEF at
  <1>4. CASE b = f
    <2>1. m[b] = 0 /\ r = s
      BY <1>1, <1>4 DEF EndsAt, strstr
    <2>2. 0 \in at
      <3>1. 0 \in 0 .. e - s /\ f - b = 0 /\ f - b <= e - (s + 0) /\ 0 .. (f - b) - 1 = {}
        BY <1>1, <1>4
      <3> QED BY <1>2, <3>1 DEF Occurs, Matches
    <2>3. Min(at) = 0
      <3>1. \A n \in at : 0 <= n
        BY <1>2
      <3> QED BY <1>3, <2>2, <3>1, MinIs
    <2> QED BY <1>1, <2>1, <2>2, <2>3 DEF at, StrstrFinds
  <1>5. CASE b # f
    <2>1. b < f /\ m[b] # 0
      <3>1. b < f /\ b \in b .. f - 1
        BY <1>1, <1>5
      <3> QED BY <1>1, <3>1 DEF EndsAt
    <2>2. strlen(m, s) = e - s /\ strlen(m, b) = f - b
      BY <1>1, StrlenIs
    <2>3. r = Search(m, s, e - s, b, f - b)
      BY <2>1, <2>2 DEF strstr
    <2>4. FirstOccurrence(m, s, e, b, f, r)
      BY <1>1, <2>1, <2>3, SearchIs
    <2> HIDE DEF r
    <2>5. CASE r = NULL /\ \A n \in 0 .. e - s : ~Occurs(m, s, e, b, f, n)
      <3>1. at = {}
        BY <1>2, <2>5
      <3> QED BY <2>5, <3>1 DEF at, r, StrstrFinds
    <2>6. ASSUME NEW n \in 0 .. e - s, r = s + n, Occurs(m, s, e, b, f, n),
                 \A k \in 0 .. n - 1 : ~Occurs(m, s, e, b, f, k)
          PROVE  at # {} /\ r = s + Min(at)
      <3>1. n \in at
        BY <1>2, <2>6
      <3>2. \A k \in at : n <= k
        <4>1. SUFFICES ASSUME NEW k \in at, k < n PROVE FALSE
          BY <1>3, <1>1
        <4>2. k \in 0 .. n - 1
          BY <1>2, <4>1
        <4> QED BY <1>2, <2>6, <4>2
      <3>3. Min(at) = n
        BY <1>3, <3>1, <3>2, MinIs
      <3> QED BY <2>6, <3>1, <3>3
    <2> QED BY <2>4, <2>5, <2>6 DEF FirstOccurrence, at, r, StrstrFinds
  <1> QED BY <1>4, <1>5

(* What SearchesAgree says of the string t at s.                           *)
FindsIn(m, s, t) ==
    /\ strlen(m, s) = Len(t)
    /\ \A n \in 0 .. Cells - s : strnlen(m, s, n) = Min({n, Len(t)})
    /\ \A c \in Bytes \ {0} :
          LET at == {k \in 1 .. Len(t) : t[k] = c} IN
          /\ strchr(m, s, c) = IF at = {} THEN NULL ELSE s + Min(at) - 1
          /\ t # << >> => strrchr(m, s, c) =
                 IF at \ {1} = {} THEN NULL ELSE s + Max(at \ {1}) - 1
    /\ \A b \in Addresses :
          LET needle == Text(m, b)
              at == {k \in 0 .. Len(t) : IsPrefix(needle, SubSeq(t, k + 1, Len(t)))}
          IN  strstr(m, s, b) = IF at = {} THEN NULL ELSE s + Min(at)

LEMMA SearchesDoAgree == SearchesAgree
  <1>1. SUFFICES ASSUME NEW m \in Memories, NEW s \in Addresses
                 PROVE  FindsIn(m, s, Text(m, s))
    BY Zenon DEF SearchesAgree, FindsIn
  <1>2. PICK t : t = Text(m, s)
    OBVIOUS
  <1>3. s \in Nat /\ Cells \in Nat /\ DOMAIN m = 0 .. Cells
        /\ \A a \in 0 .. Cells : m[a] \in Nat
    BY StringHolds
  <1>4. PICK e \in s .. Cells : Holds(m, s, e, t)
    BY <1>2, StringHolds
  <1>5. EndsAt(m, s, e) /\ Len(t) = e - s
    BY <1>4 DEF Holds
  <1>6. strlen(m, s) = Len(t)
    BY <1>5, StrlenIs
  <1>7. ASSUME NEW n \in 0 .. Cells - s PROVE strnlen(m, s, n) = Min({n, Len(t)})
    <2>1. n \in Nat /\ s + n \in DOMAIN m
      BY <1>3
    <2> QED BY <1>5, <2>1, StrnlenIs
  <1>8. ASSUME NEW c \in Bytes \ {0}
        PROVE  LET at == {k \in 1 .. Len(t) : t[k] = c} IN
               /\ strchr(m, s, c) = IF at = {} THEN NULL ELSE s + Min(at) - 1
               /\ t # << >> => strrchr(m, s, c) =
                      IF at \ {1} = {} THEN NULL ELSE s + Max(at \ {1}) - 1
    <2>1. c # 0
      OBVIOUS
    <2>2. strchr(m, s, c) = IF Places(t, c) = {} THEN NULL ELSE s + Min(Places(t, c)) - 1
      BY <1>4, <2>1, StrchrAgrees
    <2>3. t # << >> => strrchr(m, s, c) = IF Places(t, c) \ {1} = {} THEN NULL
                                          ELSE s + Max(Places(t, c) \ {1}) - 1
      BY <1>4, <2>1, StrrchrAgrees
    <2> QED BY <2>2, <2>3, Zenon DEF Places
  <1>9. ASSUME NEW b \in Addresses
        PROVE  LET needle == Text(m, b)
                   at == {k \in 0 .. Len(t) : IsPrefix(needle, SubSeq(t, k + 1, Len(t)))}
               IN  strstr(m, s, b) = IF at = {} THEN NULL ELSE s + Min(at)
    <2>1. PICK u : u = Text(m, b)
      OBVIOUS
    <2>2. PICK f : Holds(m, b, f, u)
      BY <2>1, StringHolds
    <2>3. \A a \in DOMAIN m : m[a] \in Nat
      BY <1>3
    <2>4. StrstrFinds(m, s, t, b, u)
      BY <1>4, <2>2, <2>3, StrstrAgrees
    <2> QED BY <2>1, <2>4, Zenon DEF Sites, StrstrFinds
  <1>10. FindsIn(m, s, t)
    BY <1>6, <1>7, <1>8, <1>9, Zenon DEF FindsIn
  <1> QED BY <1>2, <1>10

-----------------------------------------------------------------------------
(* The functions that compare strings.                                     *)

Char(w, k) == IF k <= Len(w) THEN w[k] ELSE 0

Longer(t, u) == Max({Len(t), Len(u)})

LEMMA OrderIs ==
    ASSUME NEW t, NEW u
    PROVE  /\ (\A k \in 1 .. Longer(t, u) : Char(t, k) = Char(u, k)) => Order(t, u) = 0
           /\ \A k \in 1 .. Longer(t, u) :
                  Char(t, k) # Char(u, k) /\ (\A l \in 1 .. k - 1 : Char(t, l) = Char(u, l)) =>
                      Order(t, u) = Char(t, k) - Char(u, k)
  <1> DEFINE D == {k \in 1 .. Longer(t, u) : Char(t, k) # Char(u, k)}
  <1>1. Order(t, u) = IF D = {} THEN 0 ELSE Char(t, Min(D)) - Char(u, Min(D))
    BY Zenon DEF Order, Char, Longer
  <1>2. D \in SUBSET Int
    OBVIOUS
  <1>3. (\A k \in 1 .. Longer(t, u) : Char(t, k) = Char(u, k)) => D = {}
    BY Zenon
  <1>4. ASSUME NEW k \in 1 .. Longer(t, u), Char(t, k) # Char(u, k),
               \A l \in 1 .. k - 1 : Char(t, l) = Char(u, l)
        PROVE  D # {} /\ Min(D) = k
    <2>1. k \in D
      BY <1>4
    <2>2. \A l \in D : k <= l
      <3>1. SUFFICES ASSUME NEW l \in D, l < k PROVE FALSE
        BY <1>2
      <3>2. l \in 1 .. k - 1 /\ Char(t, l) # Char(u, l)
        BY <3>1
      <3> QED BY <1>4, <3>2
    <2> HIDE DEF D
    <2> QED BY <1>2, <2>1, <2>2, MinIs
  <1> HIDE DEF D
  <1>5. (\A k \in 1 .. Longer(t, u) : Char(t, k) = Char(u, k)) => Order(t, u) = 0
    BY <1>1, <1>3
  <1>6. ASSUME NEW k \in 1 .. Longer(t, u), Char(t, k) # Char(u, k),
               \A l \in 1 .. k - 1 : Char(t, l) = Char(u, l)
        PROVE  Order(t, u) = Char(t, k) - Char(u, k)
    <2>1. D # {} /\ Min(D) = k
      BY <1>4, <1>6
    <2> QED BY <1>1, <2>1
  <1> QED BY <1>5, <1>6

LEMMA LongerIs ==
    ASSUME NEW t, NEW u, Len(t) \in Nat, Len(u) \in Nat
    PROVE  Longer(t, u) = IF Len(t) <= Len(u) THEN Len(u) ELSE Len(t)
  <1>1. PICK x \in Int : x = Len(t)
    OBVIOUS
  <1>2. PICK y \in Int : y = Len(u)
    OBVIOUS
  <1>3. Max({x, y}) = IF x <= y THEN y ELSE x
    BY MaxOfTwo
  <1> QED BY <1>1, <1>2, <1>3, Zenon DEF Longer

(* The comparison stops behind k equal characters.                         *)
StopsBehind(m, a, e, b, f, k) ==
    /\ k \in Nat /\ k <= e - a /\ k <= f - b
    /\ m[a + k] # m[b + k] \/ m[a + k] = 0
    /\ \A l \in 0 .. k - 1 : m[a + l] = m[b + l] /\ m[a + l] # 0
    /\ strcmp(m, a, b) = Signed8(m[a + k]) - Signed8(m[b + k])

LEMMA StrcmpStops ==
    ASSUME NEW m, NEW a, NEW e, EndsAt(m, a, e), NEW b, NEW f, EndsAt(m, b, f)
    PROVE  \E k : StopsBehind(m, a, e, b, f, k)
  <1> DEFINE P(q) == m[q] # m[b + (q - a)] \/ m[q] = 0
             S == {q \in DOMAIN m : P(q)}
             p == Stop(m, a, LAMBDA q : m[q] # m[b + (q - a)] \/ m[q] = 0)
  <1>1. /\ a \in Int /\ e \in Int /\ a <= e /\ a .. e \subseteq DOMAIN m /\ DOMAIN m \subseteq Int
        /\ b \in Int /\ f \in Int /\ b <= f /\ e \in DOMAIN m /\ m[e] = 0 /\ m[f] = 0
        /\ \A q \in a .. e - 1 : m[q] # 0
    BY DEF EndsAt
  <1>2. strcmp(m, a, b) = Signed8(m[p]) - Signed8(m[b + (p - a)])
    BY Zenon DEF strcmp
  <1>3. /\ p \in DOMAIN m /\ p >= a /\ P(p)
        /\ \A q \in a .. p - 1 : ~P(q)
    <2>1. e \in S
      BY <1>1
    <2>2. PICK z \in a .. e : z \in S /\ \A q \in a .. z - 1 : q \notin S
      <3> HIDE DEF S
      <3> QED BY <1>1, <2>1, FirstExists
    <2>3. \A q \in a .. z - 1 : q \in DOMAIN m
      <3>1. \A q \in a .. z - 1 : q \in a .. e
        BY <1>1
      <3> QED BY <1>1, <3>1
    <2>4. z \in {q \in DOMAIN m : q >= a} /\ P(z) /\ \A q \in a .. z - 1 : ~P(q)
      <3>1. z \in S /\ z >= a
        BY <1>1, <2>2
      <3> HIDE DEF P
      <3> QED BY <2>2, <2>3, <3>1
    <2>5. p = CHOOSE x \in {q \in DOMAIN m : q >= a} : P(x) /\ \A q \in a .. x - 1 : ~P(q)
      BY Zenon DEF Stop
    <2> HIDE DEF p, P
    <2> QED BY <2>4, <2>5
  <1> HIDE DEF p
  <1>4. p \in Int /\ a <= p /\ p <= e
    <2>1. e < p => e \in a .. p - 1
      BY <1>1, <1>3
    <2>2. P(e)
      BY <1>1
    <2> HIDE DEF P
    <2> QED BY <1>1, <1>3, <2>1, <2>2
  <1>5. PICK k \in Nat : k = p - a
    BY <1>1, <1>4
  <1>6. p = a + k /\ k <= e - a
    BY <1>1, <1>4, <1>5
  <1>7. \A l \in 0 .. k - 1 : m[a + l] = m[b + l] /\ m[a + l] # 0
    <2>1. \A l \in 0 .. k - 1 : a + l \in a .. p - 1 /\ (a + l) - a = l
      BY <1>1, <1>6
    <2> QED BY <1>3, <2>1
  <1>8. k <= f - b
    <2>1. SUFFICES ASSUME f - b < k PROVE FALSE
      BY <1>1
    <2>2. f - b \in 0 .. k - 1 /\ b + (f - b) = f
      BY <1>1, <2>1
    <2> QED BY <1>1, <1>7, <2>2
  <1>9. m[a + k] # m[b + k] \/ m[a + k] = 0
    BY <1>3, <1>5, <1>6
  <1>10. strcmp(m, a, b) = Signed8(m[a + k]) - Signed8(m[b + k])
    BY <1>2, <1>5, <1>6
  <1> QED BY <1>6, <1>7, <1>8, <1>9, <1>10 DEF StopsBehind

LEMMA CharsOf ==
    ASSUME NEW m, NEW s, NEW e, NEW t, Holds(m, s, e, t), NEW k \in 0 .. e - s
    PROVE  Char(t, k + 1) = m[s + k] /\ (m[s + k] = 0 <=> k = e - s)
  <1>1. s \in Int /\ e \in Int /\ Len(t) = e - s /\ m[e] = 0 /\ e - s \in Nat
    BY DEF Holds, EndsAt
  <1>2. CASE k = e - s
    <2>1. s + k = e /\ ~(k + 1 <= Len(t))
      BY <1>1, <1>2
    <2> QED BY <1>1, <1>2, <2>1 DEF Char
  <1>3. CASE k # e - s
    <2>1. k + 1 \in 1 .. e - s /\ s + (k + 1) - 1 = s + k /\ s + k \in s .. e - 1
      BY <1>1, <1>3
    <2>2. t[k + 1] = m[s + k]
      BY <2>1 DEF Holds
    <2>3. m[s + k] # 0
      BY <2>1 DEF Holds, EndsAt
    <2> QED BY <1>1, <1>3, <2>1, <2>2, <2>3 DEF Char
  <1> QED BY <1>2, <1>3

LEMMA StrcmpAgrees ==
    ASSUME NEW m, \A x \in DOMAIN m : m[x] \in Nat,
           NEW a, NEW e, NEW t, Holds(m, a, e, t), NEW b, NEW f, NEW u, Holds(m, b, f, u),
           \A c \in ToSet(t) \cup ToSet(u) : c < 128
    PROVE  strcmp(m, a, b) = Order(t, u)
  <1>1. /\ EndsAt(m, a, e) /\ EndsAt(m, b, f) /\ t \in Seq(Nat) /\ u \in Seq(Nat)
        /\ Len(t) = e - a /\ Len(u) = f - b /\ e - a \in Nat /\ f - b \in Nat
    BY DEF Holds
  <1>2. PICK k : StopsBehind(m, a, e, b, f, k)
    BY <1>1, StrcmpStops
  <1>3. k \in 0 .. e - a /\ k \in 0 .. f - b /\ k \in Nat
    BY <1>1, <1>2 DEF StopsBehind
  <1>4. \A l \in 0 .. e - a : Char(t, l + 1) = m[a + l] /\ (m[a + l] = 0 <=> l = e - a)
    BY CharsOf
  <1>5. \A l \in 0 .. f - b : Char(u, l + 1) = m[b + l] /\ (m[b + l] = 0 <=> l = f - b)
    BY CharsOf
  <1>6. \A l \in 1 .. k : Char(t, l) = Char(u, l)
    <2>1. ASSUME NEW l \in 1 .. k PROVE Char(t, l) = Char(u, l)
      <3>1. l - 1 \in 0 .. k - 1 /\ (l - 1) + 1 = l
        BY <1>3
      <3>2. l - 1 \in 0 .. e - a /\ l - 1 \in 0 .. f - b
        BY <1>1, <1>3
      <3>3. m[a + (l - 1)] = m[b + (l - 1)]
        BY <1>2, <3>1 DEF StopsBehind
      <3> QED BY <1>4, <1>5, <3>1, <3>2, <3>3
    <2> QED BY <2>1
  <1>7. Longer(t, u) = IF e - a <= f - b THEN f - b ELSE e - a
    BY <1>1, LongerIs
  <1>8. m[a + k] \in Nat /\ m[a + k] < 128 /\ m[b + k] \in Nat /\ m[b + k] < 128
    <2>1. a + k \in DOMAIN m /\ b + k \in DOMAIN m
      <3>1. a + k \in a .. e /\ b + k \in b .. f
        BY <1>1, <1>3 DEF EndsAt
      <3> QED BY <1>1, <3>1 DEF EndsAt
    <2>4. (k = e - a => m[a + k] = 0) /\ (k = f - b => m[b + k] = 0)
      BY <1>3, <1>4, <1>5
    <2>5. m[a + k] < 128
      <3>1. CASE k = e - a
        BY <2>4, <3>1
      <3>2. CASE k # e - a
        <4>1. k + 1 \in DOMAIN t /\ Char(t, k + 1) = t[k + 1]
          BY <1>1, <1>3, <3>2 DEF Char
        <4> QED BY <1>3, <1>4, <4>1 DEF ToSet
      <3> QED BY <3>1, <3>2
    <2>6. m[b + k] < 128
      <3>1. CASE k = f - b
        BY <2>4, <3>1
      <3>2. CASE k # f - b
        <4>1. k + 1 \in DOMAIN u /\ Char(u, k + 1) = u[k + 1]
          BY <1>1, <1>3, <3>2 DEF Char
        <4> QED BY <1>3, <1>5, <4>1 DEF ToSet
      <3> QED BY <3>1, <3>2
    <2> QED BY <2>1, <2>5, <2>6
  <1>9. strcmp(m, a, b) = m[a + k] - m[b + k]
    BY <1>2, <1>8 DEF StopsBehind, Signed8
  <1>10. CASE m[a + k] # m[b + k]
    <2>1. Char(t, k + 1) = m[a + k] /\ Char(u, k + 1) = m[b + k]
      BY <1>3, <1>4, <1>5
    <2>2. k # e - a \/ k # f - b
      BY <1>3, <1>4, <1>5, <1>10
    <2>3. k + 1 \in 1 .. Longer(t, u) /\ (k + 1) - 1 = k
      BY <1>1, <1>3, <1>7, <2>2
    <2>4. Order(t, u) = Char(t, k + 1) - Char(u, k + 1)
      BY <1>6, <1>10, <2>1, <2>3, OrderIs
    <2> QED BY <1>9, <2>1, <2>4
  <1>11. CASE m[a + k] = m[b + k]
    <2>1. m[a + k] = 0 /\ m[b + k] = 0
      BY <1>2, <1>11 DEF StopsBehind
    <2>2. k = e - a /\ k = f - b
      BY <1>3, <1>4, <1>5, <2>1
    <2>3. Longer(t, u) = k
      BY <1>1, <1>7, <2>2
    <2>4. Order(t, u) = 0
      BY <1>6, <2>3, OrderIs
    <2> QED BY <1>9, <2>1, <2>4
  <1> QED BY <1>10, <1>11

(* The first n characters of t, or all of them.                            *)
Start(t, n) == SubSeq(t, 1, Min({n, Len(t)}))

LEMMA StartIs ==
    ASSUME NEW t \in Seq(Nat \ {0}), NEW n \in Nat
    PROVE  /\ Start(t, n) \in Seq(Nat \ {0})
           /\ Len(Start(t, n)) = IF n <= Len(t) THEN n ELSE Len(t)
           /\ \A k \in 1 .. n : Char(Start(t, n), k) = Char(t, k)
           /\ Len(t) <= n => Start(t, n) = t
  <1>1. PICK l \in Nat : l = Len(t)
    OBVIOUS
  <1>2. PICK x : x = IF n <= l THEN n ELSE l
    OBVIOUS
  <1>3. x \in 0 .. l
    BY <1>1, <1>2
  <1>4. Start(t, n) = SubSeq(t, 1, x)
    <2>1. Min({n, l}) = x
      BY <1>1, <1>2, MinOfTwo
    <2> QED BY <1>1, <2>1 DEF Start
  <1>5. SubSeq(t, 1, x) \in Seq(Nat \ {0}) /\ Len(SubSeq(t, 1, x)) = x
        /\ \A k \in 1 .. x : SubSeq(t, 1, x)[k] = t[k]
    BY <1>1, <1>3, Heads
  <1>6. ASSUME NEW k \in 1 .. n PROVE Char(Start(t, n), k) = Char(t, k)
    <2>1. CASE k <= x
      <3>1. k \in 1 .. x /\ k <= l
        BY <1>1, <1>2, <2>1
      <3> QED BY <1>1, <1>4, <1>5, <3>1 DEF Char
    <2>2. CASE ~(k <= x)
      <3>1. ~(k <= l)
        BY <1>1, <1>2, <2>2
      <3> QED BY <1>1, <1>4, <1>5, <2>2, <3>1 DEF Char
    <2> QED BY <2>1, <2>2
  <1>7. ASSUME l <= n PROVE Start(t, n) = t
    <2>1. x = l
      BY <1>1, <1>2, <1>7
    <2>2. SubSeq(t, 1, Len(t)) = t
      BY SubSeqFull
    <2> QED BY <1>1, <1>4, <2>1, <2>2
  <1> QED BY <1>1, <1>2, <1>4, <1>5, <1>6, <1>7

LEMMA SameStrings ==
    ASSUME NEW m, NEW a, NEW e, NEW t, Holds(m, a, e, t), NEW b, NEW f, NEW u, Holds(m, b, f, u),
           \A l \in 0 .. e - a : m[a + l] = m[b + l]
    PROVE  e - a = f - b /\ t = u
  <1>1. /\ e - a \in Nat /\ f - b \in Nat /\ t \in Seq(Nat \ {0}) /\ u \in Seq(Nat \ {0})
        /\ Len(t) = e - a /\ Len(u) = f - b
    BY DEF Holds
  <1>2. \A l \in 0 .. e - a : Char(t, l + 1) = m[a + l] /\ (m[a + l] = 0 <=> l = e - a)
    BY CharsOf
  <1>3. \A l \in 0 .. f - b : Char(u, l + 1) = m[b + l] /\ (m[b + l] = 0 <=> l = f - b)
    BY CharsOf
  <1>4. PICK x \in Nat : x = e - a
    BY <1>1
  <1>5. PICK y \in Nat : y = f - b
    BY <1>1
  <1>6. x = y
    <2>1. CASE x < y
      <3>1. x \in 0 .. x /\ x \in 0 .. y
        BY <2>1
      <3> QED BY <1>2, <1>3, <1>4, <1>5, <2>1, <3>1
    <2>2. CASE y < x
      <3>1. y \in 0 .. x /\ y \in 0 .. y
        BY <2>2
      <3> QED BY <1>2, <1>3, <1>4, <1>5, <2>2, <3>1
    <2> QED BY <2>1, <2>2
  <1>7. ASSUME NEW k \in 1 .. x PROVE t[k] = u[k]
    <2>1. k - 1 \in 0 .. x /\ (k - 1) + 1 = k /\ k <= x
      OBVIOUS
    <2>2. Char(t, k) = Char(u, k)
      BY <1>2, <1>3, <1>4, <1>5, <1>6, <2>1
    <2> QED BY <1>1, <1>4, <1>5, <1>6, <2>1, <2>2 DEF Char
  <1>8. t = u
    BY <1>1, <1>4, <1>5, <1>6, <1>7, SeqEqual
  <1> QED BY <1>4, <1>5, <1>6, <1>8

(* strncmp answers as the order of the strings' first n bytes.             *)
Tells(m, a, b, n, t, u) == strncmp(m, a, b, n) = Order(Start(t, n), Start(u, n))

LEMMA StrncmpAgrees ==
    ASSUME NEW m, \A x \in DOMAIN m : m[x] \in Nat,
           NEW a, NEW e, NEW t, Holds(m, a, e, t), NEW b, NEW f, NEW u, Holds(m, b, f, u),
           NEW n \in Nat, \A l \in 0 .. n - 1 : a + l \in DOMAIN m /\ b + l \in DOMAIN m,
           Start(t, n) # Start(u, n) \/ Len(t) >= n
    PROVE  Tells(m, a, b, n, t, u)
  <1> DEFINE tn == Start(t, n)
             un == Start(u, n)
             D == {k \in 0 .. n - 1 : m[a + k] # m[b + k]}
  <1>1. PICK x \in Nat : x = e - a
    BY DEF Holds
  <1>2. PICK y \in Nat : y = f - b
    BY DEF Holds
  <1>3. t \in Seq(Nat \ {0}) /\ u \in Seq(Nat \ {0}) /\ Len(t) = x /\ Len(u) = y
    BY <1>1, <1>2 DEF Holds
  <1>4. \A l \in 0 .. x : Char(t, l + 1) = m[a + l] /\ (m[a + l] = 0 <=> l = x)
    BY <1>1, CharsOf
  <1>5. \A l \in 0 .. y : Char(u, l + 1) = m[b + l] /\ (m[b + l] = 0 <=> l = y)
    BY <1>2, CharsOf
  <1>6. /\ tn \in Seq(Nat \ {0}) /\ Len(tn) = IF n <= x THEN n ELSE x
        /\ \A k \in 1 .. n : Char(tn, k) = Char(t, k)
        /\ x <= n => tn = t
    BY <1>3, StartIs
  <1>7. /\ un \in Seq(Nat \ {0}) /\ Len(un) = IF n <= y THEN n ELSE y
        /\ \A k \in 1 .. n : Char(un, k) = Char(u, k)
        /\ y <= n => un = u
    BY <1>3, StartIs
  <1>8. tn # un \/ x >= n
    BY <1>3
  <1> HIDE DEF tn, un
  <1>9. Longer(tn, un) = IF Len(tn) <= Len(un) THEN Len(un) ELSE Len(tn)
    BY <1>6, <1>7, LongerIs
  <1>10. strncmp(m, a, b, n) = IF D = {} THEN 0 ELSE m[a + Min(D)] - m[b + Min(D)]
    BY Zenon DEF strncmp, Difference
  <1>11. D \in SUBSET Nat
    OBVIOUS
  <1>12. ASSUME NEW k \in 0 .. n - 1, \A l \in 0 .. k : m[a + l] = m[b + l]
         PROVE  (k < x <=> k < y) /\ Char(tn, k + 1) = Char(un, k + 1)
    <2>1. k + 1 \in 1 .. n
      OBVIOUS
    <2>2. CASE k < x
      <3>1. k < y
        <4>1. SUFFICES ASSUME y <= k PROVE FALSE
          OBVIOUS
        <4>2. y \in 0 .. x /\ y \in 0 .. y /\ y \in 0 .. k /\ y # x
          BY <2>2, <4>1
        <4> QED BY <1>4, <1>5, <1>12, <4>2
      <3>2. k \in 0 .. x /\ k \in 0 .. y /\ k \in 0 .. k
        BY <2>2, <3>1
      <3> QED BY <1>4, <1>5, <1>6, <1>7, <1>12, <2>1, <2>2, <3>1, <3>2
    <2>3. CASE ~(k < x)
      <3>1. x \in 0 .. k /\ x \in 0 .. x
        BY <2>3
      <3>2. m[b + x] = 0
        BY <1>4, <1>12, <3>1
      <3>3. y <= x
        <4>1. SUFFICES ASSUME x < y PROVE FALSE
          OBVIOUS
        <4>2. x \in 0 .. y /\ x # y
          BY <4>1
        <4> QED BY <1>5, <3>2, <4>2
      <3>4. ~(k < y) /\ ~(k + 1 <= Len(tn)) /\ ~(k + 1 <= Len(un))
        BY <1>6, <1>7, <2>3, <3>3
      <3> QED BY <2>3, <3>4 DEF Char
    <2> QED BY <2>2, <2>3
  <1>13. CASE D = {}
    <2>1. ASSUME NEW k \in 1 .. Longer(tn, un) PROVE Char(tn, k) = Char(un, k)
      <3>1. k - 1 \in 0 .. n - 1 /\ (k - 1) + 1 = k
        BY <1>6, <1>7, <1>9
      <3>2. \A l \in 0 .. k - 1 : l \in 0 .. n - 1
        BY <3>1
      <3>3. \A l \in 0 .. k - 1 : m[a + l] = m[b + l]
        BY <1>13, <3>2
      <3> QED BY <1>12, <3>1, <3>3
    <2>2. Order(tn, un) = 0
      BY <2>1, OrderIs
    <2> QED BY <1>10, <1>13, <2>2 DEF tn, un, Tells
  <1>14. CASE D # {}
    <2>1. PICK k \in D : k = Min(D) /\ \A l \in D : k <= l
      <3> HIDE DEF D
      <3> QED BY <1>11, <1>14, MinOf
    <2>2. k \in 0 .. n - 1 /\ m[a + k] # m[b + k]
      OBVIOUS
    <2>3. \A l \in 0 .. k - 1 : m[a + l] = m[b + l]
      <3>1. \A l \in 0 .. k - 1 : l \in 0 .. n - 1 /\ ~(k <= l)
        BY <2>2
      <3> QED BY <2>1, <3>1
    <2>4. strncmp(m, a, b, n) = m[a + k] - m[b + k]
      BY <1>10, <1>14, <2>1
    <2> HIDE DEF D
    <2>5. k <= x
      <3>1. SUFFICES ASSUME x < k PROVE FALSE
        BY <2>2
      <3>2. \A l \in 0 .. e - a : m[a + l] = m[b + l]
        <4>1. \A l \in 0 .. x : l \in 0 .. k - 1
          BY <2>2, <3>1
        <4> QED BY <1>1, <2>3, <4>1
      <3>3. x = y /\ t = u
        BY <1>1, <1>2, <3>2, SameStrings
      <3>4. x < n
        BY <2>2, <3>1
      <3> QED BY <1>6, <1>7, <1>8, <3>3, <3>4
    <2>6. k <= y
      <3>1. SUFFICES ASSUME y < k PROVE FALSE
        BY <2>2
      <3>2. \A l \in 0 .. f - b : m[b + l] = m[a + l]
        <4>1. \A l \in 0 .. y : l \in 0 .. k - 1
          BY <2>2, <3>1
        <4> QED BY <1>2, <2>3, <4>1
      <3>3. x = y /\ t = u
        BY <1>1, <1>2, <3>2, SameStrings
      <3>4. x < n
        BY <2>2, <3>1, <3>3
      <3> QED BY <1>6, <1>7, <1>8, <3>3, <3>4
    <2>7. k \in 0 .. x /\ k \in 0 .. y /\ k + 1 \in 1 .. n
      BY <2>2, <2>5, <2>6
    <2>8. Char(tn, k + 1) = m[a + k] /\ Char(un, k + 1) = m[b + k]
      BY <1>4, <1>5, <1>6, <1>7, <2>7
    <2>9. k + 1 \in 1 .. Longer(tn, un) /\ (k + 1) - 1 = k
      <3>1. k < x \/ k < y
        BY <1>4, <1>5, <2>2, <2>7
      <3> QED BY <1>6, <1>7, <1>9, <2>7, <3>1
    <2>10. \A l \in 1 .. k : Char(tn, l) = Char(un, l)
      <3>1. ASSUME NEW l \in 1 .. k PROVE Char(tn, l) = Char(un, l)
        <4>1. l - 1 \in 0 .. n - 1 /\ (l - 1) + 1 = l
          BY <2>2
        <4>2. \A c \in 0 .. l - 1 : c \in 0 .. k - 1
          BY <2>2
        <4>3. \A c \in 0 .. l - 1 : m[a + c] = m[b + c]
          BY <2>3, <4>2
        <4> QED BY <1>12, <4>1, <4>3
      <3> QED BY <3>1
    <2>11. Order(tn, un) = Char(tn, k + 1) - Char(un, k + 1)
      BY <2>2, <2>8, <2>9, <2>10, OrderIs
    <2> QED BY <2>4, <2>8, <2>11 DEF tn, un, Tells
  <1> QED BY <1>13, <1>14

LEMMA ComparisonsDoAgree == ComparisonsAgree
  <1>1. SUFFICES ASSUME NEW m \in Memories, NEW a \in Addresses, NEW b \in Addresses
                 PROVE  LET t == Text(m, a)  u == Text(m, b) IN
                        /\ (\A c \in ToSet(t) \cup ToSet(u) : c < 128) =>
                               SameSign(strcmp(m, a, b), Order(t, u))
                        /\ \A n \in 0 .. Cells - Max({a, b}) :
                               LET tn == SubSeq(t, 1, Min({n, Len(t)}))
                                   un == SubSeq(u, 1, Min({n, Len(u)}))
                               IN  tn # un \/ Len(t) >= n =>
                                       SameSign(strncmp(m, a, b, n), Order(tn, un))
    BY Zenon DEF ComparisonsAgree
  <1>2. PICK t : t = Text(m, a)
    OBVIOUS
  <1>3. PICK u : u = Text(m, b)
    OBVIOUS
  <1>4. a \in Nat /\ b \in Nat /\ Cells \in Nat /\ DOMAIN m = 0 .. Cells
        /\ \A x \in DOMAIN m : m[x] \in Nat
    BY StringHolds
  <1>5. PICK e : Holds(m, a, e, t)
    BY <1>2, StringHolds
  <1>6. PICK f : Holds(m, b, f, u)
    BY <1>3, StringHolds
  <1>7. ASSUME \A c \in ToSet(t) \cup ToSet(u) : c < 128
        PROVE  SameSign(strcmp(m, a, b), Order(t, u))
    <2>1. strcmp(m, a, b) = Order(t, u)
      BY <1>4, <1>5, <1>6, <1>7, StrcmpAgrees
    <2> QED BY <2>1 DEF SameSign
  <1>8. ASSUME NEW n \in 0 .. Cells - Max({a, b}), Start(t, n) # Start(u, n) \/ Len(t) >= n
        PROVE  SameSign(strncmp(m, a, b, n), Order(Start(t, n), Start(u, n)))
    <2>1. Max({a, b}) = IF a <= b THEN b ELSE a
      BY <1>4, MaxOfTwo
    <2>2. n \in Nat /\ a + n <= Cells /\ b + n <= Cells
      BY <1>4, <2>1
    <2>3. \A l \in 0 .. n - 1 : a + l \in DOMAIN m /\ b + l \in DOMAIN m
      BY <1>4, <2>2
    <2>4. Tells(m, a, b, n, t, u)
      BY <1>4, <1>5, <1>6, <1>8, <2>2, <2>3, StrncmpAgrees
    <2> QED BY <2>4 DEF SameSign, Tells
  <1> QED BY <1>2, <1>3, <1>7, <1>8, Zenon DEF Start

-----------------------------------------------------------------------------
(* The functions that join strings.                                        *)

HeadOf(text, n, l, head) ==
    /\ l \in Nat /\ Min({n, Len(text)}) = l
    /\ head \in Seq(Nat \ {0}) /\ Len(head) = l
    /\ \A k \in 1 .. l : head[k] = text[k]

LEMMA HeadOfText ==
    ASSUME NEW text \in Seq(Nat \ {0}), NEW n \in Nat
    PROVE  \E l : HeadOf(text, n, l, Start(text, n))
  <1>1. PICK x \in Nat : x = Len(text)
    OBVIOUS
  <1>2. PICK l : l = IF n <= x THEN n ELSE x
    OBVIOUS
  <1>3. l \in 0 .. x
    BY <1>2
  <1>4. Min({n, Len(text)}) = l
    BY <1>1, <1>2, MinOfTwo
  <1>5. /\ SubSeq(text, 1, l) \in Seq(Nat \ {0}) /\ Len(SubSeq(text, 1, l)) = l
        /\ \A k \in 1 .. l : SubSeq(text, 1, l)[k] = text[k]
    BY <1>1, <1>3, Heads
  <1>6. l \in Nat /\ Start(text, n) = SubSeq(text, 1, l)
    <2>1. Start(text, n) = SubSeq(text, 1, l)
      BY <1>4, Zenon DEF Start
    <2> QED BY <1>1, <1>3, <2>1
  <1>7. HeadOf(text, n, l, SubSeq(text, 1, l))
    BY <1>4, <1>5, <1>6, Zenon DEF HeadOf
  <1> QED BY <1>6, <1>7

(* Where strncpy writes l characters, and what it leaves.                  *)
Written(m, d, text, l, r) ==
    /\ DOMAIN r = DOMAIN m
    /\ \A k \in 1 .. l : d + k - 1 \in DOMAIN m => r[d + k - 1] = text[k]
    /\ \A a \in DOMAIN m : a < d \/ a >= d + l => r[a] = m[a]

LEMMA StrncpyIs ==
    ASSUME NEW m, DOMAIN m \subseteq Int, NEW d \in Int, NEW text \in Seq(Nat \ {0}), NEW n \in Nat,
           NEW l \in Nat, Min({n, Len(text)}) = l
    PROVE  Written(m, d, text, l, strncpy(m, d, text, n))
  <1> DEFINE r == strncpy(m, d, text, n)
  <1>1. r = [a \in DOMAIN m |-> IF a \in d .. d + l - 1 THEN text[a - d + 1] ELSE m[a]]
    BY DEF strncpy
  <1>2. ASSUME NEW k \in 1 .. l, d + k - 1 \in DOMAIN m PROVE r[d + k - 1] = text[k]
    <2>1. d + k - 1 \in d .. d + l - 1 /\ (d + k - 1) - d + 1 = k
      OBVIOUS
    <2> QED BY <1>1, <1>2, <2>1
  <1>3. ASSUME NEW a \in DOMAIN m, a < d \/ a >= d + l PROVE r[a] = m[a]
    <2>1. a \notin d .. d + l - 1
      BY <1>3
    <2> QED BY <1>1, <2>1
  <1> QED BY <1>1, <1>2, <1>3 DEF Written

(* A string whose characters are those of w.                               *)
LEMMA TextIsThat ==
    ASSUME NEW m, DOMAIN m \subseteq Int, NEW s \in Int, NEW w \in Seq(Nat \ {0}),
           s .. s + Len(w) \subseteq DOMAIN m,
           m[s + Len(w)] = 0, \A k \in 1 .. Len(w) : m[s + k - 1] = w[k]
    PROVE  EndsAt(m, s, s + Len(w)) /\ Text(m, s) = w
  <1>1. PICK l \in Nat : l = Len(w)
    OBVIOUS
  <1>2. \A a \in s .. (s + l) - 1 : m[a] # 0
    <2>1. SUFFICES ASSUME NEW a \in s .. (s + l) - 1 PROVE m[a] # 0
      OBVIOUS
    <2>2. PICK k \in 1 .. l : s + k - 1 = a
      <3>1. a - s + 1 \in 1 .. l /\ s + (a - s + 1) - 1 = a
        OBVIOUS
      <3> QED BY <3>1
    <2>3. w[k] # 0
      BY <1>1
    <2> QED BY <1>1, <2>2, <2>3
  <1>3. s + l \in DOMAIN m
    <2>1. s + l \in s .. s + l
      OBVIOUS
    <2> QED BY <1>1, <2>1
  <1>4. EndsAt(m, s, s + l)
    BY <1>1, <1>2, <1>3 DEF EndsAt
  <1>5. Text(m, s) = [k \in 1 .. l |-> m[s + k - 1]]
    <2>1. (s + l) - s = l
      OBVIOUS
    <2>2. Text(m, s) = Between(m, s, s + l)
      BY <1>4, TextIs
    <2> QED BY <2>1, <2>2 DEF Between
  <1>6. [k \in 1 .. l |-> m[s + k - 1]] = w
    <2>1. w = [k \in 1 .. l |-> w[k]]
      BY <1>1
    <2> QED BY <1>1, <2>1, Zenon
  <1> QED BY <1>1, <1>4, <1>5, <1>6

(* w is x followed by y.                                                   *)
FollowedBy(S, x, y, w) ==
    /\ w \in Seq(S) /\ Len(w) = Len(x) + Len(y)
    /\ \A k \in 1 .. Len(x) + Len(y) : w[k] = IF k <= Len(x) THEN x[k] ELSE y[k - Len(x)]

LEMMA ConcatIs ==
    ASSUME NEW S, NEW x \in Seq(S), NEW y \in Seq(S)
    PROVE  FollowedBy(S, x, y, x \o y)
  BY ConcatProperties, Zenon DEF FollowedBy

(* What JoinsAgree says of strncat and of strncpy.                         *)
Appends(m, d, t, text, n, head) ==
    /\ Text(strncat(m, d, text, n), d) = t \o head
    /\ \A a \in Addresses \ (d .. d + Len(t \o head)) : strncat(m, d, text, n)[a] = m[a]

Overwrites(m, d, t, text, n, head) ==
    /\ Len(head) <= Len(t) =>
           Text(strncpy(m, d, text, n), d) = head \o SubSeq(t, Len(head) + 1, Len(t))
    /\ \A a \in Addresses \ (d .. d + Len(head) - 1) : strncpy(m, d, text, n)[a] = m[a]

LEMMA CatIs ==
    ASSUME NEW m \in Memories, NEW d \in Addresses, NEW t, NEW e, Holds(m, d, e, t),
           NEW text \in Seq(Nat \ {0}), NEW n \in Nat, NEW head, head = Start(text, n),
           e + Len(head) <= Cells
    PROVE  Appends(m, d, t, text, n, head)
  <1>1. d \in Nat /\ Cells \in Nat /\ DOMAIN m = 0 .. Cells
    BY StringHolds
  <1>2. PICK l \in Nat : /\ Min({n, Len(text)}) = l
                         /\ head \in Seq(Nat \ {0}) /\ Len(head) = l
                         /\ \A k \in 1 .. l : head[k] = text[k]
    BY HeadOfText DEF HeadOf
  <1>3. PICK x \in Nat : x = e - d
    BY DEF Holds
  <1>4. EndsAt(m, d, e) /\ e = d + x /\ t \in Seq(Nat \ {0}) /\ Len(t) = x
        /\ \A k \in 1 .. x : t[k] = m[d + k - 1]
    <2>1. EndsAt(m, d, e) /\ e \in Int
      BY DEF Holds, EndsAt
    <2> QED BY <1>1, <1>3, <2>1 DEF Holds
  <1>5. strlen(m, d) = x
    BY <1>3, <1>4, StrlenIs
  <1> DEFINE cpy == strncpy(m, e, text, n)
             cat == strncat(m, d, text, n)
             w == t \o head
  <1>6. cat = [cpy EXCEPT ![e + l] = 0]
    BY <1>2, <1>4, <1>5 DEF strncat
  <1>7. /\ DOMAIN cpy = DOMAIN m
        /\ \A k \in 1 .. l : e + k - 1 \in DOMAIN m => cpy[e + k - 1] = text[k]
        /\ \A a \in DOMAIN m : a < e \/ a >= e + l => cpy[a] = m[a]
    <2>1. DOMAIN m \subseteq Int /\ e \in Int
      BY <1>1, <1>4
    <2>2. Written(m, e, text, l, cpy)
      BY <1>2, <2>1, StrncpyIs
    <2> QED BY <2>2, Zenon DEF Written
  <1>8. w \in Seq(Nat \ {0}) /\ Len(w) = x + l
        /\ \A k \in 1 .. x + l : w[k] = IF k <= x THEN t[k] ELSE head[k - x]
    <2>1. FollowedBy(Nat \ {0}, t, head, w)
      BY <1>2, <1>4, ConcatIs
    <2> HIDE DEF w
    <2> QED BY <1>2, <1>4, <2>1 DEF FollowedBy
  <1> HIDE DEF cpy, cat, w
  <1>9. DOMAIN cat = 0 .. Cells
    BY <1>1, <1>6, <1>7
  <1>10. e + l \in 0 .. Cells /\ d + (x + l) = e + l /\ d .. d + (x + l) \subseteq 0 .. Cells
    BY <1>1, <1>2, <1>4
  <1>11. cat[e + l] = 0
    BY <1>1, <1>6, <1>7, <1>10
  <1>12. ASSUME NEW k \in 1 .. x + l PROVE cat[d + k - 1] = w[k]
    <2>1. d + k - 1 \in 0 .. Cells /\ d + k - 1 # e + l
      <3>1. PICK z \in Nat : z = x + l /\ d + z = e + l /\ d + z <= Cells
        BY <1>1, <1>2, <1>4, <1>10
      <3>2. d \in Nat /\ k \in 1 .. z
        BY <1>1, <3>1
      <3>3. d + k - 1 >= 0 /\ d + k - 1 < d + z
        BY <3>1, <3>2
      <3> QED BY <1>1, <3>1, <3>2, <3>3
    <2>2. cat[d + k - 1] = cpy[d + k - 1]
      BY <1>1, <1>6, <1>7, <2>1
    <2>3. CASE k <= x
      <3>1. d + k - 1 < e /\ k \in 1 .. x
        BY <1>1, <1>4, <2>3
      <3>2. cpy[d + k - 1] = m[d + k - 1]
        BY <1>1, <1>7, <2>1, <3>1
      <3> QED BY <1>4, <1>8, <2>2, <2>3, <3>1, <3>2
    <2>4. CASE ~(k <= x)
      <3>1. k - x \in 1 .. l /\ e + (k - x) - 1 = d + k - 1
        <4>1. e = d + x /\ d \in Nat
          BY <1>1, <1>4
        <4> QED BY <2>4, <4>1
      <3>2. cpy[e + (k - x) - 1] = text[k - x]
        BY <1>1, <1>7, <2>1, <3>1
      <3> QED BY <1>2, <1>8, <2>2, <2>4, <3>1, <3>2
    <2> QED BY <2>3, <2>4
  <1>13. Text(cat, d) = w
    <2>1. DOMAIN cat \subseteq Int /\ d \in Int /\ d .. d + Len(w) \subseteq DOMAIN cat
          /\ cat[d + Len(w)] = 0
      BY <1>1, <1>8, <1>9, <1>10, <1>11
    <2>2. \A k \in 1 .. Len(w) : cat[d + k - 1] = w[k]
      BY <1>8, <1>12
    <2> QED BY <1>8, <2>1, <2>2, TextIsThat
  <1>14. ASSUME NEW a \in Addresses \ (d .. d + Len(w)) PROVE cat[a] = m[a]
    <2>1. a \in 0 .. Cells /\ (a < d \/ a > e + l)
      BY <1>1, <1>4, <1>8, <1>10 DEF Addresses
    <2>2. a # e + l /\ (a < e \/ a >= e + l)
      <3>1. e = d + x /\ d \in Nat /\ a \in Int
        BY <1>1, <1>4, <2>1
      <3> QED BY <2>1, <3>1
    <2>3. cat[a] = cpy[a]
      BY <1>6, <1>7, <1>1, <2>1, <2>2
    <2> QED BY <1>1, <1>7, <2>1, <2>2, <2>3
  <1> QED BY <1>13, <1>14 DEF cat, w, Appends

LEMMA CpyIs ==
    ASSUME NEW m \in Memories, NEW d \in Addresses, NEW t, NEW e, Holds(m, d, e, t),
           NEW text \in Seq(Nat \ {0}), NEW n \in Nat, NEW head, head = Start(text, n),
           e + Len(head) <= Cells
    PROVE  Overwrites(m, d, t, text, n, head)
  <1>1. d \in Nat /\ Cells \in Nat /\ DOMAIN m = 0 .. Cells
    BY StringHolds
  <1>2. PICK l \in Nat : /\ Min({n, Len(text)}) = l
                         /\ head \in Seq(Nat \ {0}) /\ Len(head) = l
                         /\ \A k \in 1 .. l : head[k] = text[k]
    BY HeadOfText DEF HeadOf
  <1>3. PICK x \in Nat : x = e - d
    BY DEF Holds
  <1>4. EndsAt(m, d, e) /\ e = d + x /\ t \in Seq(Nat \ {0}) /\ Len(t) = x
        /\ \A k \in 1 .. x : t[k] = m[d + k - 1]
    <2>1. EndsAt(m, d, e) /\ e \in Int
      BY DEF Holds, EndsAt
    <2> QED BY <1>1, <1>3, <2>1 DEF Holds
  <1> DEFINE cpy == strncpy(m, d, text, n)
             rest == SubSeq(t, l + 1, x)
             w == head \o rest
  <1>5. /\ DOMAIN cpy = DOMAIN m
        /\ \A k \in 1 .. l : d + k - 1 \in DOMAIN m => cpy[d + k - 1] = text[k]
        /\ \A a \in DOMAIN m : a < d \/ a >= d + l => cpy[a] = m[a]
    <2>1. DOMAIN m \subseteq Int /\ d \in Int
      BY <1>1
    <2>2. Written(m, d, text, l, cpy)
      BY <1>2, <2>1, StrncpyIs
    <2> QED BY <2>2, Zenon DEF Written
  <1> HIDE DEF cpy
  <1>6. ASSUME l <= x PROVE Text(cpy, d) = w
    <2>1. rest \in Seq(Nat \ {0}) /\ Len(rest) = x - l /\ \A k \in 1 .. x - l : rest[k] = t[l + k]
      <3>1. l \in 0 .. Len(t)
        BY <1>4, <1>6
      <3> QED BY <1>4, <3>1, Tails
    <2> HIDE DEF rest
    <2>2. w \in Seq(Nat \ {0}) /\ Len(w) = x
          /\ \A k \in 1 .. x : w[k] = IF k <= l THEN head[k] ELSE rest[k - l]
      <3>1. FollowedBy(Nat \ {0}, head, rest, w)
        BY <1>2, <2>1, ConcatIs
      <3>2. Len(head) + Len(rest) = x
        BY <1>2, <2>1
      <3> HIDE DEF w
      <3> QED BY <1>2, <3>1, <3>2 DEF FollowedBy
    <2> HIDE DEF w
    <2>3. d .. d + x \subseteq 0 .. Cells /\ d + x = e
      BY <1>1, <1>2, <1>4
    <2>4. cpy[e] = 0
      <3>1. e \in DOMAIN m /\ e >= d + l /\ m[e] = 0
        BY <1>1, <1>4, <1>6 DEF EndsAt
      <3> QED BY <1>5, <3>1
    <2>5. ASSUME NEW k \in 1 .. x PROVE cpy[d + k - 1] = w[k]
      <3>1. d + k - 1 \in DOMAIN m
        <4>1. d + k - 1 \in d .. d + x
          BY <1>1
        <4> QED BY <1>1, <2>3, <4>1
      <3>2. CASE k <= l
        <4>1. k \in 1 .. l
          BY <3>2
        <4> QED BY <1>2, <1>5, <2>2, <3>1, <3>2, <4>1
      <3>3. CASE ~(k <= l)
        <4>1. k - l \in 1 .. x - l /\ l + (k - l) = k /\ d + k - 1 >= d + l
          BY <1>1, <3>3
        <4>2. w[k] = t[k]
          BY <2>1, <2>2, <3>3, <4>1
        <4> QED BY <1>4, <1>5, <3>1, <4>1, <4>2
      <3> QED BY <3>2, <3>3
    <2>6. DOMAIN cpy \subseteq Int /\ d \in Int /\ d .. d + Len(w) \subseteq DOMAIN cpy
          /\ cpy[d + Len(w)] = 0
      BY <1>1, <1>5, <2>2, <2>3, <2>4
    <2>7. \A k \in 1 .. Len(w) : cpy[d + k - 1] = w[k]
      BY <2>2, <2>5
    <2> QED BY <2>2, <2>6, <2>7, TextIsThat
  <1>7. ASSUME NEW a \in Addresses \ (d .. d + l - 1) PROVE cpy[a] = m[a]
    <2>1. a \in DOMAIN m /\ (a < d \/ a >= d + l)
      BY <1>1 DEF Addresses
    <2> QED BY <1>5, <2>1
  <1> QED BY <1>2, <1>4, <1>6, <1>7 DEF cpy, Overwrites

LEMMA JoinsDoAgree == JoinsAgree
  <1> USE CLibraryAssumption
  <1>1. SUFFICES ASSUME NEW m \in Memories, NEW d \in Addresses,
                        NEW text \in SeqOf(Bytes \ {0}, 2), NEW n \in 0 .. 2
                 PROVE  LET head == SubSeq(text, 1, Min({n, Len(text)}))
                            t == Text(m, d)
                            cat == strncat(m, d, text, n)
                            cpy == strncpy(m, d, text, n)
                        IN  d + Len(t \o head) <= Cells =>
                              /\ Text(cat, d) = t \o head
                              /\ \A a \in Addresses \ (d .. d + Len(t \o head)) : cat[a] = m[a]
                              /\ Len(head) <= Len(t) =>
                                    Text(cpy, d) = head \o SubSeq(t, Len(head) + 1, Len(t))
                              /\ \A a \in Addresses \ (d .. d + Len(head) - 1) : cpy[a] = m[a]
    BY Zenon DEF JoinsAgree
  <1>2. PICK head : head = Start(text, n)
    OBVIOUS
  <1>3. PICK t : t = Text(m, d)
    OBVIOUS
  <1>4. PICK e : Holds(m, d, e, t)
    BY <1>3, StringHolds
  <1>5. text \in Seq(Nat \ {0}) /\ n \in Nat
    <2>1. PICK l \in 0 .. 2 : text \in [1 .. l -> Bytes \ {0}]
      BY DEF SeqOf
    <2>2. Bytes \ {0} \subseteq Nat \ {0} /\ n \in Nat
      OBVIOUS
    <2>3. text \in Seq(Bytes \ {0})
      BY <2>1
    <2> QED BY <2>2, <2>3, SeqMonotonic
  <1>6. ASSUME d + Len(t \o head) <= Cells PROVE e + Len(head) <= Cells
    <2>1. PICK l \in Nat : head \in Seq(Nat \ {0}) /\ Len(head) = l
      BY <1>2, <1>5, HeadOfText DEF HeadOf
    <2>2. t \in Seq(Nat \ {0}) /\ Len(t) = e - d /\ e \in Int /\ d \in Int
      BY <1>4 DEF Holds, EndsAt
    <2>3. Len(t \o head) = Len(t) + Len(head)
      BY <2>1, <2>2, ConcatProperties
    <2> QED BY <1>6, <2>1, <2>2, <2>3
  <1>7. ASSUME d + Len(t \o head) <= Cells
        PROVE  Appends(m, d, t, text, n, head)
    BY <1>2, <1>4, <1>5, <1>6, <1>7, CatIs
  <1>8. ASSUME d + Len(t \o head) <= Cells
        PROVE  Overwrites(m, d, t, text, n, head)
    BY <1>2, <1>4, <1>5, <1>6, <1>8, CpyIs
  <1> QED BY <1>2, <1>3, <1>7, <1>8, Zenon DEF Start, Appends, Overwrites

-----------------------------------------------------------------------------
(* Numbers.                                                                *)

(* f holds the values of text after 0, 1, 2, ... digits.                   *)
Sums(f, text, base) ==
    f = [k \in 0 .. Len(text) |-> IF k = 0 THEN 0 ELSE f[k - 1] * base + text[k]]

LEMMA ValueIs ==
    ASSUME NEW text, Len(text) \in Nat, NEW base, NEW f, Sums(f, text, base)
    PROVE  Value(text, base) = f[Len(text)]
  <1> DEFINE n == Len(text)
             g == CHOOSE x : Sums(x, text, base)
             S == {k \in 0 .. n : g[k] = f[k]}
  <1>1. Value(text, base) = g[n]
    BY Zenon DEF Value, Sums
  <1>2. Sums(g, text, base)
    OBVIOUS
  <1> HIDE DEF g
  <1>3. 0 \in S
    BY <1>2 DEF Sums
  <1>4. ASSUME NEW k \in 1 .. n, k - 1 \in S PROVE k \in S
    <2>1. k \in 0 .. n /\ k # 0 /\ g[k - 1] = f[k - 1]
      BY <1>4
    <2>2. g[k] = g[k - 1] * base + text[k]
      BY <1>2, <2>1, Zenon DEF Sums
    <2>3. f[k] = f[k - 1] * base + text[k]
      BY <2>1, Zenon DEF Sums
    <2> QED BY <2>1, <2>2, <2>3
  <1> HIDE DEF S, n
  <1>5. 0 .. n \subseteq S
    BY <1>3, <1>4, UpInduction DEF n
  <1>6. g[n] = f[n]
    BY <1>5 DEF S, n
  <1> QED BY <1>1, <1>6 DEF n

LEMMA SumsExist ==
    ASSUME NEW text \in Seq(Nat), NEW base \in Nat
    PROVE  \E f : f \in [0 .. Len(text) -> Nat] /\ Sums(f, text, base)
  <1> DEFINE n == Len(text)
             Of == [k \in 1 .. n |-> k - 1]
             G == [k \in 1 .. n |-> [x \in Nat |-> x * base + text[k]]]
  <1>1. Of \in [1 .. n -> 0 .. n] /\ \A k \in 1 .. n : Of[k] < k
    OBVIOUS
  <1>2. G \in [1 .. n -> [Nat -> Nat]]
    <2>1. ASSUME NEW k \in 1 .. n, NEW x \in Nat PROVE x * base + text[k] \in Nat
      <3>1. PICK y \in Nat : y = text[k]
        OBVIOUS
      <3> QED BY <3>1
    <2> QED BY <2>1
  <1>0. n \in Nat /\ 0 \in Nat
    OBVIOUS
  <1> HIDE DEF Of, G, n
  <1>3. PICK f : Solves(f, n, Nat, 0, Of, G)
    BY <1>0, <1>1, <1>2, Recursion
  <1>4. f \in [0 .. n -> Nat] /\ f[0] = 0 /\ \A k \in 1 .. n : f[k] = G[k][f[Of[k]]]
    BY <1>3 DEF Solves
  <1>5. ASSUME NEW k \in 0 .. n, k # 0 PROVE f[k] = f[k - 1] * base + text[k]
    <2>1. k \in 1 .. n /\ k - 1 \in 0 .. n
      BY <1>5 DEF n
    <2>2. Of[k] = k - 1 /\ f[k - 1] \in Nat
      BY <1>4, <2>1 DEF Of
    <2> QED BY <1>4, <2>1, <2>2 DEF G
  <1>6. f = [k \in 0 .. n |-> f[k]]
    BY <1>4
  <1>7. Sums(f, text, base)
    BY <1>4, <1>5, <1>6, Zenon DEF Sums, n
  <1> QED BY <1>4, <1>7 DEF n

LEMMA ValueAppend ==
    ASSUME NEW text \in Seq(Nat), NEW base \in Nat, NEW d \in Nat
    PROVE  /\ Value(text, base) \in Nat
           /\ Value(Append(text, d), base) = Value(text, base) * base + d
  <1> DEFINE n == Len(text)
             longer == Append(text, d)
  <1>1. PICK f : f \in [0 .. n -> Nat] /\ Sums(f, text, base)
    BY SumsExist
  <1>2. n \in Nat /\ Value(text, base) = f[n] /\ f[n] \in Nat
    <2>1. n \in Nat /\ n \in 0 .. n
      OBVIOUS
    <2>2. Value(text, base) = f[n]
      BY <1>1, <2>1, ValueIs
    <2> QED BY <1>1, <2>1, <2>2
  <1>3. longer \in Seq(Nat) /\ Len(longer) = n + 1 /\ longer[n + 1] = d
        /\ \A k \in 1 .. n : longer[k] = text[k]
    BY AppendProperties
  <1> DEFINE g == [k \in 0 .. n + 1 |-> IF k = n + 1 THEN f[n] * base + d ELSE f[k]]
  <1> HIDE DEF longer
  <1>4. ASSUME NEW k \in 0 .. n + 1
        PROVE  g[k] = IF k = 0 THEN 0 ELSE g[k - 1] * base + longer[k]
    <2>1. CASE k = 0
      BY <1>1, <1>2, <2>1 DEF Sums
    <2>2. CASE k = n + 1
      <3>1. k # 0 /\ k - 1 = n /\ n \in 0 .. n + 1 /\ n # n + 1
        BY <1>2, <2>2
      <3>2. g[k] = f[n] * base + d /\ g[k - 1] = f[n]
        BY <2>2, <3>1
      <3> HIDE DEF g
      <3> QED BY <1>3, <2>2, <3>1, <3>2
    <2>3. CASE k # 0 /\ k # n + 1
      <3>1. k \in 0 .. n /\ k \in 1 .. n /\ k - 1 \in 0 .. n + 1 /\ k - 1 # n + 1
        BY <1>2, <2>3
      <3>2. f[k] = f[k - 1] * base + text[k]
        BY <1>1, <2>3, <3>1, Zenon DEF Sums
      <3>3. g[k] = f[k] /\ g[k - 1] = f[k - 1]
        BY <2>3, <3>1
      <3> HIDE DEF g
      <3> QED BY <1>3, <2>3, <3>1, <3>2, <3>3
    <2> QED BY <2>1, <2>2, <2>3
  <1>5. g = [k \in 0 .. n + 1 |-> g[k]] /\ g[n + 1] = f[n] * base + d
    BY <1>2
  <1> HIDE DEF g
  <1>6. Sums(g, longer, base)
    BY <1>3, <1>4, <1>5, Zenon DEF Sums
  <1>7. Value(longer, base) = g[n + 1]
    <2>1. Len(longer) \in Nat
      BY <1>2, <1>3
    <2>2. Value(longer, base) = g[Len(longer)]
      BY <1>6, <2>1, ValueIs
    <2> QED BY <1>3, <2>2
  <1> QED BY <1>2, <1>5, <1>7 DEF longer

LEMMA ValueOfNone == ASSUME NEW base \in Nat PROVE Value(<< >>, base) = 0
  <1>1. << >> \in Seq(Nat) /\ Len(<< >>) = 0
    OBVIOUS
  <1>2. PICK f : f \in [0 .. 0 -> Nat] /\ Sums(f, << >>, base)
    BY <1>1, SumsExist
  <1>3. f[0] = 0
    BY <1>1, <1>2 DEF Sums
  <1> QED BY <1>1, <1>2, <1>3, ValueIs

-----------------------------------------------------------------------------
(* Powers.                                                                 *)

PowersOf(f, b, n) == f = [k \in 0 .. n |-> IF k = 0 THEN 1 ELSE b * f[k - 1]]

LEMMA PowerIs ==
    ASSUME NEW b, NEW n \in Nat, NEW f, PowersOf(f, b, n)
    PROVE  Power(b, n) = f[n]
  <1> DEFINE g == CHOOSE x : PowersOf(x, b, n)
             S == {k \in 0 .. n : g[k] = f[k]}
  <1>1. Power(b, n) = g[n]
    BY Zenon DEF Power, PowersOf
  <1>2. PowersOf(g, b, n)
    OBVIOUS
  <1> HIDE DEF g
  <1>3. 0 \in S
    BY <1>2 DEF PowersOf
  <1>4. ASSUME NEW k \in 1 .. n, k - 1 \in S PROVE k \in S
    <2>1. k \in 0 .. n /\ k # 0 /\ g[k - 1] = f[k - 1]
      BY <1>4
    <2>2. g[k] = b * g[k - 1]
      BY <1>2, <2>1, Zenon DEF PowersOf
    <2>3. f[k] = b * f[k - 1]
      BY <2>1, Zenon DEF PowersOf
    <2> QED BY <2>1, <2>2, <2>3
  <1> HIDE DEF S
  <1>5. 0 .. n \subseteq S
    BY <1>3, <1>4, UpInduction
  <1>6. g[n] = f[n]
    BY <1>5 DEF S
  <1> QED BY <1>1, <1>6

LEMMA PowersExist ==
    ASSUME NEW b \in Nat \ {0}, NEW n \in Nat
    PROVE  \E f : f \in [0 .. n -> Nat \ {0}] /\ PowersOf(f, b, n)
  <1> DEFINE P == Nat \ {0}
             Of == [k \in 1 .. n |-> k - 1]
             G == [k \in 1 .. n |-> [x \in P |-> b * x]]
  <1>1. Of \in [1 .. n -> 0 .. n] /\ \A k \in 1 .. n : Of[k] < k
    OBVIOUS
  <1>2. G \in [1 .. n -> [P -> P]] /\ 1 \in P
    <2>1. ASSUME NEW x \in P PROVE b * x \in P
      OBVIOUS
    <2> QED BY <2>1
  <1> HIDE DEF Of, G
  <1>3. PICK f : Solves(f, n, P, 1, Of, G)
    BY <1>1, <1>2, Recursion
  <1>4. f \in [0 .. n -> P] /\ f[0] = 1 /\ \A k \in 1 .. n : f[k] = G[k][f[Of[k]]]
    BY <1>3 DEF Solves
  <1>5. ASSUME NEW k \in 0 .. n, k # 0 PROVE f[k] = b * f[k - 1]
    <2>1. k \in 1 .. n /\ k - 1 \in 0 .. n
      BY <1>5
    <2>2. Of[k] = k - 1 /\ f[k - 1] \in P
      BY <1>4, <2>1 DEF Of
    <2> QED BY <1>4, <2>1, <2>2 DEF G
  <1>6. f = [k \in 0 .. n |-> f[k]]
    BY <1>4
  <1>7. PowersOf(f, b, n)
    BY <1>4, <1>5, <1>6, Zenon DEF PowersOf
  <1> QED BY <1>4, <1>7

LEMMA PowerStep ==
    ASSUME NEW b \in Nat \ {0}, NEW n \in Nat
    PROVE  /\ Power(b, 0) = 1 /\ Power(b, n) \in Nat \ {0}
           /\ Power(b, n + 1) = b * Power(b, n)
  <1>1. PICK f : f \in [0 .. n + 1 -> Nat \ {0}] /\ PowersOf(f, b, n + 1)
    <2>1. PICK l \in Nat : l = n + 1
      OBVIOUS
    <2>2. \E f : f \in [0 .. l -> Nat \ {0}] /\ PowersOf(f, b, l)
      BY PowersExist
    <2> QED BY <2>1, <2>2
  <1>2. Power(b, n + 1) = f[n + 1]
    BY <1>1, PowerIs
  <1>3. f[n + 1] = b * f[n]
    <2>1. n + 1 \in 0 .. n + 1 /\ n + 1 # 0 /\ (n + 1) - 1 = n
      OBVIOUS
    <2> QED BY <1>1, <2>1 DEF PowersOf
  <1> DEFINE g == [k \in 0 .. n |-> f[k]]
  <1>4. PowersOf(g, b, n)
    <2>1. ASSUME NEW k \in 0 .. n PROVE f[k] = IF k = 0 THEN 1 ELSE b * f[k - 1]
      <3>1. k \in 0 .. n + 1
        OBVIOUS
      <3> QED BY <1>1, <3>1, Zenon DEF PowersOf
    <2>2. \A k \in 0 .. n : k # 0 => k - 1 \in 0 .. n
      OBVIOUS
    <2>3. ASSUME NEW k \in 0 .. n PROVE g[k] = IF k = 0 THEN 1 ELSE b * g[k - 1]
      BY <2>1, <2>2
    <2>4. g = [k \in 0 .. n |-> g[k]]
      OBVIOUS
    <2> HIDE DEF g
    <2> QED BY <2>3, <2>4, Zenon DEF PowersOf
  <1>5. Power(b, n) = f[n] /\ f[n] \in Nat \ {0}
    <2>1. n \in 0 .. n /\ n \in 0 .. n + 1
      OBVIOUS
    <2>2. Power(b, n) = g[n]
      <3> HIDE DEF g
      <3> QED BY <1>4, PowerIs
    <2> QED BY <1>1, <2>1, <2>2
  <1>6. Power(b, 0) = 1
    <2>1. PICK h : h \in [0 .. 0 -> Nat \ {0}] /\ PowersOf(h, b, 0)
      BY PowersExist
    <2>2. Power(b, 0) = h[0]
      BY <2>1, PowerIs
    <2>3. h[0] = 1
      BY <2>1 DEF PowersOf
    <2> QED BY <2>2, <2>3
  <1> QED BY <1>2, <1>3, <1>5, <1>6

-----------------------------------------------------------------------------
(* Digits.                                                                 *)

Turned(S, w, r) ==
    r \in Seq(S) /\ Len(r) = Len(w) /\ \A k \in 1 .. Len(w) : r[k] = w[(Len(w) - k) + 1]

LEMMA ReverseIs ==
    ASSUME NEW S, NEW w \in Seq(S)
    PROVE  Turned(S, w, Reverse(w))
  <1>1. Reverse(w) = [k \in 1 .. Len(w) |-> w[(Len(w) - k) + 1]] /\ Len(w) \in Nat
    BY DEF Reverse
  <1>2. \A k \in 1 .. Len(w) : (Len(w) - k) + 1 \in 1 .. Len(w)
    BY <1>1
  <1>3. \A k \in 1 .. Len(w) : w[(Len(w) - k) + 1] \in S
    BY <1>2, ElementOfSeq
  <1> QED BY <1>1, <1>3 DEF Turned

LEMMA ReverseConcat ==
    ASSUME NEW S, NEW w \in Seq(S), NEW x \in Seq(S)
    PROVE  Reverse(w \o x) = Reverse(x) \o Reverse(w)
  <1> DEFINE y == w \o x
             l == Reverse(y)
             a == Reverse(x)
             b == Reverse(w)
             r == a \o b
  <1>1. PICK m \in Nat : m = Len(w)
    OBVIOUS
  <1>2. PICK n \in Nat : n = Len(x)
    OBVIOUS
  <1>3. y \in Seq(S) /\ Len(y) = m + n
        /\ \A k \in 1 .. m + n : y[k] = IF k <= m THEN w[k] ELSE x[k - m]
    <2>1. y \in Seq(S) /\ Len(y) = Len(w) + Len(x)
          /\ \A k \in 1 .. Len(w) + Len(x) : y[k] = IF k <= Len(w) THEN w[k] ELSE x[k - Len(w)]
      BY ConcatProperties
    <2> HIDE DEF y
    <2> QED BY <1>1, <1>2, <2>1
  <1> HIDE DEF y
  <1>4. l \in Seq(S) /\ Len(l) = m + n /\ \A k \in 1 .. m + n : l[k] = y[(m + n - k) + 1]
    <2>1. Turned(S, y, l)
      BY <1>3, ReverseIs
    <2> HIDE DEF l
    <2> QED BY <1>3, <2>1 DEF Turned
  <1>5. a \in Seq(S) /\ Len(a) = n /\ \A k \in 1 .. n : a[k] = x[(n - k) + 1]
    BY <1>2, ReverseIs DEF Turned
  <1>6. b \in Seq(S) /\ Len(b) = m /\ \A k \in 1 .. m : b[k] = w[(m - k) + 1]
    BY <1>1, ReverseIs DEF Turned
  <1> HIDE DEF l, a, b
  <1>7. r \in Seq(S) /\ Len(r) = n + m
        /\ \A k \in 1 .. n + m : r[k] = IF k <= n THEN a[k] ELSE b[k - n]
    <2>1. FollowedBy(S, a, b, r)
      BY <1>5, <1>6, ConcatIs
    <2> HIDE DEF r
    <2> QED BY <1>5, <1>6, <2>1 DEF FollowedBy
  <1> HIDE DEF r
  <1>8. ASSUME NEW k \in 1 .. m + n PROVE l[k] = r[k]
    <2>1. CASE k <= n
      <3>1. k \in 1 .. n /\ (m + n - k) + 1 \in 1 .. m + n /\ ~((m + n - k) + 1 <= m)
            /\ ((m + n - k) + 1) - m = (n - k) + 1
        BY <2>1
      <3>2. l[k] = x[(n - k) + 1]
        BY <1>3, <1>4, <3>1
      <3>3. r[k] = x[(n - k) + 1]
        BY <1>5, <1>7, <2>1, <3>1
      <3> QED BY <3>2, <3>3
    <2>2. CASE ~(k <= n)
      <3>1. k - n \in 1 .. m /\ (m + n - k) + 1 \in 1 .. m + n /\ (m + n - k) + 1 <= m
            /\ (m - (k - n)) + 1 = (m + n - k) + 1
        BY <2>2
      <3>2. l[k] = w[(m + n - k) + 1]
        BY <1>3, <1>4, <3>1
      <3>3. r[k] = w[(m - (k - n)) + 1]
        <4>1. PICK j \in 1 .. m : j = k - n
          BY <3>1
        <4>2. r[k] = b[j]
          <5>1. k \in 1 .. n + m
            OBVIOUS
          <5> QED BY <1>7, <2>2, <4>1, <5>1
        <4>3. b[j] = w[(m - j) + 1]
          BY <1>6
        <4> QED BY <4>1, <4>2, <4>3
      <3> QED BY <3>1, <3>2, <3>3
    <2> QED BY <2>1, <2>2
  <1>9. Len(l) = Len(r) /\ \A k \in 1 .. Len(l) : l[k] = r[k]
    BY <1>4, <1>7, <1>8
  <1>10. l = r
    BY <1>4, <1>7, <1>9, SeqEqual
  <1> QED BY <1>10 DEF l, r, a, b, y

LEMMA ReverseOne == ASSUME NEW d PROVE Reverse(<<d>>) = <<d>>
  <1>1. Len(<<d>>) = 1 /\ <<d>>[1] = d
    OBVIOUS
  <1>2. Reverse(<<d>>) = [k \in 1 .. 1 |-> <<d>>[(1 - k) + 1]]
    BY <1>1, Zenon DEF Reverse
  <1>3. \A k \in 1 .. 1 : (1 - k) + 1 = 1 /\ k = 1
    OBVIOUS
  <1>4. <<d>> = [k \in 1 .. 1 |-> d]
    OBVIOUS
  <1>5. [k \in 1 .. 1 |-> <<d>>[(1 - k) + 1]] = [k \in 1 .. 1 |-> d]
    BY <1>1, <1>3
  <1> QED BY <1>2, <1>4, <1>5

(* w holds the digits of v, the least one first, without leading zeros.    *)
DigitsOf(w, v, base) ==
    /\ w \in Seq(0 .. base - 1)
    /\ Value(Reverse(w), base) = v
    /\ v = 0 => w = << >>
    /\ v > 0 => w # << >> /\ w[Len(w)] # 0

LEMMA OneMoreDigit ==
    ASSUME NEW base \in Nat, base >= 2, NEW v \in Nat, v > 0,
           NEW w, DigitsOf(w, v \div base, base)
    PROVE  DigitsOf(<<v % base>> \o w, v, base)
  <1> DEFINE D == 0 .. base - 1
             x == <<v % base>> \o w
  <1>1. PICK d \in D, q \in Nat : d = v % base /\ q = v \div base /\ v = q * base + d
    <2>1. v % base \in D /\ v \div base \in Nat /\ v = base * (v \div base) + (v % base)
      OBVIOUS
    <2>2. base * (v \div base) = (v \div base) * base
      BY <2>1
    <2> QED BY <2>1, <2>2
  <1>2. /\ w \in Seq(D) /\ Value(Reverse(w), base) = q
        /\ (q = 0 => w = << >>) /\ (q > 0 => w # << >> /\ w[Len(w)] # 0)
    BY <1>1 DEF DigitsOf
  <1>3. Reverse(x) = Append(Reverse(w), d)
    <2>1. <<d>> \in Seq(D)
      OBVIOUS
    <2>2. Reverse(<<d>> \o w) = Reverse(w) \o <<d>>
      BY <1>2, <2>1, ReverseConcat, ReverseOne
    <2>3. Reverse(w) \in Seq(D)
      BY <1>2, ReverseIs DEF Turned
    <2>4. Append(Reverse(w), d) = Reverse(w) \o <<d>>
      BY <2>3, AppendIsConcat
    <2> QED BY <1>1, <2>2, <2>4
  <1>4. Value(Reverse(x), base) = v
    <2>1. Reverse(w) \in Seq(Nat)
      <3>1. Reverse(w) \in Seq(D) /\ D \subseteq Nat
        BY <1>2, ReverseIs DEF Turned
      <3> QED BY <3>1, SeqMonotonic
    <2>2. Value(Append(Reverse(w), d), base) = Value(Reverse(w), base) * base + d
      BY <2>1, ValueAppend
    <2> QED BY <1>1, <1>2, <1>3, <2>2
  <1>5. x \in Seq(D) /\ Len(x) = Len(w) + 1
        /\ \A k \in 1 .. Len(w) + 1 : x[k] = IF k = 1 THEN d ELSE w[k - 1]
    <2>1. <<d>> \in Seq(D) /\ Len(<<d>>) = 1 /\ <<d>>[1] = d
      OBVIOUS
    <2>2. PICK y : y = <<d>> \o w
      OBVIOUS
    <2>3. y \in Seq(D) /\ Len(y) = 1 + Len(w)
          /\ \A k \in 1 .. 1 + Len(w) : y[k] = IF k <= 1 THEN <<d>>[k] ELSE w[k - 1]
      BY <1>2, <2>1, <2>2, ConcatProperties
    <2>4. Len(w) \in Nat
      BY <1>2
    <2>5. y \in Seq(D) /\ Len(y) = Len(w) + 1
          /\ \A k \in 1 .. Len(w) + 1 : y[k] = IF k = 1 THEN d ELSE w[k - 1]
      BY <2>1, <2>3, <2>4
    <2> QED BY <1>1, <2>2, <2>5
  <1> HIDE DEF x
  <1>6. x # << >> /\ x[Len(x)] # 0
    <2>1. CASE w = << >>
      <3>1. Len(w) = 0 /\ ~(q > 0)
        BY <1>2, <2>1
      <3>2. d # 0
        BY <1>1, <3>1
      <3>3. x[Len(x)] = d /\ Len(x) = 1
        BY <1>5, <3>1
      <3> QED BY <3>2, <3>3
    <2>2. CASE w # << >>
      <3>1. PICK n \in Nat \ {0} : n = Len(w)
        BY <1>2, <2>2
      <3>2. x[n + 1] = w[n] /\ Len(x) = n + 1
        <4>1. n + 1 \in 1 .. n + 1 /\ n + 1 # 1 /\ (n + 1) - 1 = n
          BY <3>1
        <4> QED BY <1>5, <3>1, <4>1
      <3>3. q > 0
        BY <1>1, <1>2, <2>2
      <3> QED BY <1>2, <3>1, <3>2, <3>3
    <2> QED BY <2>1, <2>2
  <1> QED BY <1>4, <1>5, <1>6 DEF DigitsOf, x

(* From is defined by recursion on the numbers up to u.                    *)
AreDigits(From, u, base) ==
    From = [v \in 0 .. u |-> IF v = 0 THEN << >> ELSE <<v % base>> \o From[v \div base]]

LEMMA Shorter ==
    ASSUME NEW base \in Nat, base >= 2, NEW v \in Nat, v > 0
    PROVE  v \div base \in 0 .. v - 1 /\ v % base \in 0 .. base - 1
  <1>1. PICK q : q = v \div base
    OBVIOUS
  <1>2. PICK d \in 0 .. base - 1 : d = v % base
    OBVIOUS
  <1>3. q \in Nat /\ v = base * q + d
    BY <1>1, <1>2
  <1>4. q < v
    <2>1. SUFFICES ASSUME v <= q PROVE FALSE
      BY <1>3
    <2>2. q > 0
      BY <2>1, <1>3
    <2>3. PICK c \in Nat : base = 2 + c
      <3>1. base - 2 \in Nat /\ base = 2 + (base - 2)
        OBVIOUS
      <3> QED BY <3>1
    <2>4. v = 2 * q + c * q + d /\ c * q >= 0
      BY <1>3, <2>3
    <2> QED BY <1>3, <2>1, <2>2, <2>4
  <1> QED BY <1>1, <1>2, <1>3, <1>4

LEMMA DigitsExist ==
    ASSUME NEW u \in Nat, NEW base \in Nat, base >= 2
    PROVE  \E f : AreDigits(f, u, base)
  <1> DEFINE X == Seq(0 .. base - 1)
             Of == [v \in 1 .. u |-> v \div base]
             G == [v \in 1 .. u |-> [x \in X |-> <<v % base>> \o x]]
  <1>1. Of \in [1 .. u -> 0 .. u] /\ \A v \in 1 .. u : Of[v] < v
    <2>1. ASSUME NEW v \in 1 .. u PROVE v \div base \in 0 .. u /\ v \div base < v
      <3>1. v \in Nat /\ v > 0
        OBVIOUS
      <3>2. v \div base \in 0 .. v - 1
        BY <3>1, Shorter
      <3> QED BY <3>1, <3>2
    <2> QED BY <2>1
  <1>2. G \in [1 .. u -> [X -> X]]
    <2>1. ASSUME NEW v \in 1 .. u, NEW x \in X PROVE <<v % base>> \o x \in X
      <3>1. v % base \in 0 .. base - 1
        OBVIOUS
      <3>2. <<v % base>> \in X
        BY <3>1
      <3> QED BY <3>2, ConcatProperties
    <2> QED BY <2>1
  <1>3. << >> \in X
    OBVIOUS
  <1> HIDE DEF X, Of, G
  <1>4. PICK f : Solves(f, u, X, << >>, Of, G)
    BY <1>1, <1>2, <1>3, Recursion
  <1>5. f \in [0 .. u -> X] /\ f[0] = << >> /\ \A v \in 1 .. u : f[v] = G[v][f[Of[v]]]
    BY <1>4 DEF Solves
  <1>6. ASSUME NEW v \in 0 .. u, v # 0 PROVE f[v] = <<v % base>> \o f[v \div base]
    <2>1. v \in 1 .. u
      BY <1>6
    <2>2. Of[v] = v \div base /\ f[Of[v]] \in X
      BY <1>1, <1>5, <2>1 DEF Of
    <2>3. G[v][f[Of[v]]] = <<v % base>> \o f[Of[v]]
      BY <2>1, <2>2 DEF G
    <2> QED BY <1>5, <2>1, <2>2, <2>3
  <1>7. f = [v \in 0 .. u |-> f[v]]
    BY <1>5
  <1>8. AreDigits(f, u, base)
    BY <1>5, <1>6, <1>7, Zenon DEF AreDigits
  <1> QED BY <1>8

LEMMA DigitsAre ==
    ASSUME NEW u \in Nat, NEW base \in Nat, base >= 2
    PROVE  DigitsOf(Digits(u, base), u, base)
  <1> DEFINE f == CHOOSE g : AreDigits(g, u, base)
             S == {v \in 0 .. u : \A x \in 0 .. v : DigitsOf(f[x], x, base)}
  <1>1. Digits(u, base) = f[u]
    BY Zenon DEF Digits, AreDigits
  <1>2. AreDigits(f, u, base)
    BY DigitsExist
  <1> HIDE DEF f
  <1>3. DigitsOf(<< >>, 0, base)
    <2>1. Reverse(<< >>) = << >> /\ << >> \in Seq(0 .. base - 1)
      BY DEF Reverse
    <2> QED BY <2>1, ValueOfNone DEF DigitsOf
  <1>4. 0 \in S
    <2>1. f[0] = << >>
      BY <1>2 DEF AreDigits
    <2>2. \A x \in 0 .. 0 : x = 0
      OBVIOUS
    <2> QED BY <1>3, <2>1, <2>2
  <1>5. ASSUME NEW v \in 1 .. u, v - 1 \in S PROVE v \in S
    <2>1. v \in 0 .. u /\ v # 0 /\ v \in Nat /\ v > 0
      OBVIOUS
    <2>2. f[v] = <<v % base>> \o f[v \div base]
      BY <1>2, <2>1, Zenon DEF AreDigits
    <2>3. v \div base \in 0 .. v - 1
      BY <2>1, Shorter
    <2>4. DigitsOf(f[v \div base], v \div base, base)
      BY <1>5, <2>3
    <2>5. DigitsOf(f[v], v, base)
      BY <2>1, <2>2, <2>4, OneMoreDigit
    <2>6. \A x \in 0 .. v : x = v \/ x \in 0 .. v - 1
      OBVIOUS
    <2> QED BY <1>5, <2>1, <2>5, <2>6
  <1> HIDE DEF S
  <1>6. 0 .. u \subseteq S
    BY <1>4, <1>5, UpInduction
  <1>7. u \in S /\ u \in 0 .. u
    BY <1>6
  <1> QED BY <1>1, <1>7 DEF S

-----------------------------------------------------------------------------
(* The conversions.                                                        *)

LEMMA DivisionIs ==
    ASSUME NEW n \in Nat \ {0}, NEW q \in Int, NEW r \in 0 .. n - 1
    PROVE  (n * q + r) \div n = q /\ (n * q + r) % n = r
  <1>1. PICK x \in Int : x = n * q + r
    OBVIOUS
  <1>2. PICK d \in Int : d = x \div n
    OBVIOUS
  <1>3. PICK m \in 0 .. n - 1 : m = x % n
    OBVIOUS
  <1>4. x = n * d + m
    BY <1>2, <1>3
  <1>5. ~(d < q)
    <2>1. SUFFICES ASSUME d + 1 <= q PROVE FALSE
      OBVIOUS
    <2>2. n * (d + 1) <= n * q /\ n * (d + 1) = n * d + n
      BY <2>1
    <2> QED BY <1>1, <1>4, <2>2
  <1>6. ~(q < d)
    <2>1. SUFFICES ASSUME q + 1 <= d PROVE FALSE
      OBVIOUS
    <2>2. n * (q + 1) <= n * d /\ n * (q + 1) = n * q + n
      BY <2>1
    <2> QED BY <1>1, <1>4, <2>2
  <1>7. q = d
    BY <1>5, <1>6
  <1>8. m = r
    BY <1>1, <1>4, <1>7
  <1> QED BY <1>1, <1>2, <1>3, <1>7, <1>8

(* A division by b * a is one by a, then one by b.                         *)
Twice(u, a, b) ==
    /\ u \div (b * a) = (u \div a) \div b
    /\ u \div a = (u \div (b * a)) * b + ((u \div a) % b)
    /\ u \div a \in Nat /\ (u \div a) % b \in 0 .. b - 1

LEMMA DivisionTwice ==
    ASSUME NEW u \in Nat, NEW a \in Nat \ {0}, NEW b \in Nat \ {0}
    PROVE  Twice(u, a, b)
  <1>1. PICK x \in Nat, r \in 0 .. a - 1 : x = u \div a /\ u = a * x + r
    <2>1. u \div a \in Nat /\ u % a \in 0 .. a - 1 /\ u = a * (u \div a) + (u % a)
      OBVIOUS
    <2> QED BY <2>1
  <1>2. PICK y \in Nat, s \in 0 .. b - 1 : y = x \div b /\ s = x % b /\ x = b * y + s
    <2>1. x \div b \in Nat /\ x % b \in 0 .. b - 1 /\ x = b * (x \div b) + (x % b)
      OBVIOUS
    <2> QED BY <2>1
  <1>3. PICK n \in Nat \ {0} : n = b * a
    OBVIOUS
  <1>4. a * s + r \in 0 .. n - 1
    <2>1. a * s \in Nat /\ a * s <= a * (b - 1) /\ a * (b - 1) = n - a
      <3>1. PICK c \in Nat : b - 1 = s + c
        <4>1. b - 1 - s \in Nat /\ b - 1 = s + (b - 1 - s)
          OBVIOUS
        <4> QED BY <4>1
      <3>2. a * (b - 1) = a * s + a * c /\ a * c >= 0 /\ a * s \in Nat
        BY <3>1
      <3>3. a * (b - 1) = a * b - a /\ a * b = b * a
        OBVIOUS
      <3> QED BY <1>3, <3>2, <3>3
    <2> QED BY <2>1
  <1>5. u = n * y + (a * s + r)
    <2>1. a * x = a * (b * y) + a * s
      BY <1>2
    <2>2. a * (b * y) = (b * a) * y
      OBVIOUS
    <2> QED BY <1>1, <1>3, <2>1, <2>2
  <1>6. u \div n = y
    <2>1. PICK z \in 0 .. n - 1 : z = a * s + r
      BY <1>4
    <2>2. (n * y + z) \div n = y
      BY DivisionIs
    <2> QED BY <1>5, <2>1, <2>2
  <1>7. x = y * b + s
    BY <1>2
  <1> QED BY <1>1, <1>2, <1>3, <1>6, <1>7 DEF Twice

LEMMA PowerSixteen ==
    ASSUME NEW n \in Nat
    PROVE  Power(16, n) = Power(2, 4 * n)
  <1> DEFINE S == {k \in 0 .. n : Power(16, k) = Power(2, 4 * k)}
  <1>1. 0 \in S
    BY PowerStep
  <1>2. ASSUME NEW k \in 1 .. n, k - 1 \in S PROVE k \in S
    <2>1. PICK l \in Nat : l = k - 1 /\ k = l + 1
      <3>1. k - 1 \in Nat /\ k = (k - 1) + 1
        OBVIOUS
      <3> QED BY <3>1
    <2>2. Power(16, l + 1) = 16 * Power(16, l) /\ Power(16, l) \in Nat
      BY PowerStep
    <2>3. PICK x \in Nat : x = 4 * l
      OBVIOUS
    <2>4. Power(2, x + 1) = 2 * Power(2, x) /\ Power(2, x) \in Nat
      BY PowerStep
    <2>5. Power(2, (x + 1) + 1) = 2 * Power(2, x + 1)
      BY PowerStep
    <2>6. Power(2, (x + 2) + 1) = 2 * Power(2, x + 2)
      BY PowerStep
    <2>7. Power(2, (x + 3) + 1) = 2 * Power(2, x + 3)
      BY PowerStep
    <2>8. (x + 1) + 1 = x + 2 /\ (x + 2) + 1 = x + 3 /\ (x + 3) + 1 = 4 * k
      BY <2>1, <2>3
    <2>9. Power(2, 4 * k) = 16 * Power(2, x)
      BY <2>4, <2>5, <2>6, <2>7, <2>8
    <2>10. Power(16, l) = Power(2, x)
      BY <1>2, <2>1, <2>3
    <2> QED BY <2>1, <2>2, <2>9, <2>10
  <1> HIDE DEF S
  <1>3. 0 .. n \subseteq S
    BY <1>1, <1>2, UpInduction
  <1>4. n \in S
    BY <1>3
  <1> QED BY <1>4 DEF S

(* M is 2^Width, and H its half.                                           *)
Widths(M, H, D) ==
    /\ D \in Nat \ {0} /\ Width \div 4 = D /\ M \in Nat \ {0} /\ H \in Nat \ {0}
    /\ M = Power(2, Width) /\ H = Power(2, Width - 1) /\ M = 2 * H
    /\ M = Power(16, D) /\ M >= 256

LEMMA WidthsAre == \E M, H, D : Widths(M, H, D)
  <1>1. Width \in Nat /\ Width >= 8 /\ Width % 4 = 0
    BY CLibraryAssumption
  <1>2. PICK D \in Nat : D = Width \div 4 /\ Width = 4 * D /\ D >= 2
    <2>1. Width \div 4 \in Nat /\ Width = 4 * (Width \div 4) + (Width % 4)
      BY <1>1
    <2> QED BY <1>1, <2>1
  <1>3. PICK w \in Nat : w = Width - 1 /\ Width = w + 1
    <2>1. Width - 1 \in Nat /\ Width = (Width - 1) + 1
      BY <1>1
    <2> QED BY <2>1
  <1>4. Power(2, w) \in Nat \ {0} /\ Power(2, w + 1) = 2 * Power(2, w)
    BY PowerStep
  <1>5. Power(16, D) = Power(2, Width)
    BY <1>2, PowerSixteen
  <1>6. Power(16, D) >= 256
    <2>1. PICK d \in Nat : D = (d + 1) + 1
      <3>1. D - 2 \in Nat /\ D = ((D - 2) + 1) + 1
        BY <1>2
      <3> QED BY <3>1
    <2>2. Power(16, d) \in Nat \ {0} /\ Power(16, d + 1) = 16 * Power(16, d)
      BY PowerStep
    <2>3. Power(16, (d + 1) + 1) = 16 * Power(16, d + 1)
      BY PowerStep
    <2> QED BY <2>1, <2>2, <2>3
  <1>7. Widths(Power(2, Width), Power(2, w), D)
    BY <1>2, <1>3, <1>4, <1>5, <1>6 DEF Widths
  <1> QED BY <1>7

LEMMA UnsignedIs ==
    ASSUME NEW M, NEW H, NEW D, Widths(M, H, D), NEW v \in -H .. M - 1
    PROVE  Unsigned(v) = (IF v >= 0 THEN v ELSE v + M) /\ Unsigned(v) \in 0 .. M - 1
  <1>1. M \in Nat \ {0} /\ H \in Nat \ {0} /\ M = 2 * H /\ Unsigned(v) = v % M
    BY DEF Widths, Unsigned
  <1>2. CASE v >= 0
    <2>1. PICK r \in 0 .. M - 1 : r = v
      BY <1>1, <1>2
    <2>2. M * 0 + r = v /\ 0 \in Int
      BY <1>1, <2>1
    <2>3. v % M = r
      BY <1>1, <2>2, DivisionIs
    <2> QED BY <1>1, <1>2, <2>1, <2>3
  <1>3. CASE ~(v >= 0)
    <2>1. PICK r \in 0 .. M - 1 : r = v + M
      BY <1>1, <1>3
    <2>2. M * (-1) + r = v /\ -1 \in Int
      BY <1>1, <2>1
    <2>3. v % M = r
      BY <1>1, <2>2, DivisionIs
    <2> QED BY <1>1, <1>3, <2>1, <2>3
  <1> QED BY <1>2, <1>3

LEMMA BitcntAgrees ==
    ASSUME NEW M, NEW H, NEW D, Widths(M, H, D), NEW v \in -H .. M - 1
    PROVE  Value(PRINT_BITCNT(v), 16) = Unsigned(v)
  <1>1. PICK u \in 0 .. M - 1 : u = Unsigned(v)
    BY UnsignedIs
  <1>2. D \in Nat \ {0} /\ Width \div 4 = D /\ M \in Nat \ {0} /\ M = Power(16, D) /\ u \in Nat
    BY DEF Widths
  <1> DEFINE text == [k \in 1 .. D |-> (u \div Power(16, D - k)) % 16]
             f == [k \in 0 .. D |-> u \div Power(16, D - k)]
  <1>3. PRINT_BITCNT(v) = text
    BY <1>1, <1>2, Zenon DEF PRINT_BITCNT
  <1>4. Len(text) = D
    BY <1>2
  <1>5. f[0] = 0
    <2>1. D - 0 = D /\ 0 \in 0 .. D
      BY <1>2
    <2>2. M * 0 + u = u
      BY <1>2
    <2>3. u \div M = 0
      BY <1>2, <2>2, DivisionIs
    <2> QED BY <1>2, <2>1, <2>3
  <1>6. ASSUME NEW k \in 1 .. D PROVE f[k] = f[k - 1] * 16 + text[k]
    <2>1. PICK n \in Nat : D - k = n /\ D - (k - 1) = n + 1
      <3>1. D - k \in Nat /\ D - (k - 1) = (D - k) + 1
        BY <1>2
      <3> QED BY <3>1
    <2>2. PICK a \in Nat \ {0} : a = Power(16, n) /\ Power(16, n + 1) = 16 * a
      <3>1. 16 \in Nat \ {0}
        OBVIOUS
      <3>2. Power(16, n) \in Nat \ {0} /\ Power(16, n + 1) = 16 * Power(16, n)
        BY <3>1, PowerStep
      <3> QED BY <3>2
    <2>3. u \div a = (u \div (16 * a)) * 16 + ((u \div a) % 16)
      <3>1. PICK b \in Nat \ {0} : b = 16
        OBVIOUS
      <3>2. Twice(u, a, b)
        BY <1>2, DivisionTwice
      <3> QED BY <3>1, <3>2 DEF Twice
    <2>4. k \in 0 .. D /\ k - 1 \in 0 .. D
      BY <1>2
    <2>5. f[k] = u \div a /\ f[k - 1] = u \div (16 * a) /\ text[k] = (u \div a) % 16
      BY <2>1, <2>2, <2>4
    <2> HIDE DEF f, text
    <2> QED BY <2>3, <2>5
  <1>7. f = [k \in 0 .. D |-> f[k]]
    OBVIOUS
  <1>8. f[D] = u
    <2>1. D - D = 0 /\ D \in 0 .. D /\ Power(16, 0) = 1
      BY <1>2, PowerStep
    <2>2. u \div 1 = u
      BY <1>2
    <2> QED BY <2>1, <2>2
  <1> HIDE DEF f, text
  <1>9. Sums(f, text, 16)
    <2>1. ASSUME NEW k \in 0 .. D PROVE f[k] = IF k = 0 THEN 0 ELSE f[k - 1] * 16 + text[k]
      <3>1. k = 0 \/ k \in 1 .. D
        BY <1>2
      <3> QED BY <1>5, <1>6, <3>1
    <2> QED BY <1>4, <1>7, <2>1, Zenon DEF Sums
  <1>10. Value(text, 16) = f[D]
    <2>1. Len(text) \in Nat
      BY <1>2, <1>4
    <2> QED BY <1>4, <1>9, <2>1, ValueIs
  <1> QED BY <1>1, <1>3, <1>8, <1>10

(* w is the number u as it is written: no leading zeros, and not empty.    *)
Numeral(w, u, base) ==
    /\ w \in Seq(0 .. base - 1) /\ w # << >>
    /\ Value(w, base) = u
    /\ w[1] = 0 => w = <<0>>

LEMMA ZeroIs ==
    ASSUME NEW base \in Nat, base >= 2
    PROVE  Numeral(<<0>>, 0, base)
  <1>1. << >> \in Seq(Nat) /\ Append(<< >>, 0) = <<0>> /\ 0 \in Nat
    OBVIOUS
  <1>2. Value(<< >>, base) = 0
    BY ValueOfNone
  <1>3. Value(Append(<< >>, 0), base) = Value(<< >>, base) * base + 0
    BY <1>1, ValueAppend
  <1>4. Value(<<0>>, base) = 0
    BY <1>1, <1>2, <1>3
  <1>5. <<0>> \in Seq(0 .. base - 1) /\ <<0>> # << >>
    OBVIOUS
  <1> QED BY <1>4, <1>5 DEF Numeral

LEMMA NumeralIs ==
    ASSUME NEW u \in Nat \ {0}, NEW base \in Nat, base >= 2
    PROVE  Numeral(Reverse(Digits(u, base)), u, base)
  <1> DEFINE B == 0 .. base - 1
             w == Digits(u, base)
             r == Reverse(w)
  <1>1. DigitsOf(w, u, base)
    BY DigitsAre
  <1> HIDE DEF w
  <1>2. w \in Seq(B) /\ Value(r, base) = u /\ w # << >> /\ w[Len(w)] # 0
    BY <1>1 DEF DigitsOf
  <1> HIDE DEF B, r
  <1>3. Turned(B, w, r)
    BY <1>2, ReverseIs DEF r
  <1>4. PICK n \in Nat : n = Len(w) /\ n >= 1
    BY <1>2
  <1>5. r \in Seq(B) /\ Len(r) = n /\ r[1] = w[(n - 1) + 1]
    BY <1>3, <1>4 DEF Turned
  <1>6. (n - 1) + 1 = n
    OBVIOUS
  <1>7. r[1] # 0 /\ r # << >>
    BY <1>2, <1>4, <1>5, <1>6
  <1>8. Numeral(r, u, base)
    BY <1>2, <1>5, <1>7 DEF Numeral, B
  <1> QED BY <1>8 DEF r, w

(* A sign is written for a negative number in base 10 only.                *)
Numerals(t, v, base) ==
    IF v < 0 /\ base = 10 THEN \E w : t = <<Minus>> \o w /\ Numeral(w, -v, base)
    ELSE Numeral(t, Unsigned(v), base)

LEMMA ItoaIs ==
    ASSUME NEW M, NEW H, NEW D, Widths(M, H, D), NEW v \in -H .. M - 1,
           NEW base \in Nat, base >= 2, base <= 36
    PROVE  Numerals(itoa(v, base), v, base)
  <1>1. M \in Nat \ {0} /\ H \in Nat \ {0} /\ M = 2 * H /\ v \in -H .. M - 1
    BY DEF Widths
  <1>2. CASE v = 0
    <2>1. Unsigned(v) = 0
      BY <1>1, <1>2, UnsignedIs
    <2>2. itoa(v, base) = <<0>>
      BY <1>2 DEF itoa
    <2> QED BY <1>2, <2>1, <2>2, ZeroIs DEF Numerals
  <1>3. CASE v # 0 /\ ~(v < 0 /\ base = 10)
    <2>1. PICK u \in Nat \ {0} : u = Unsigned(v)
      <3>1. Unsigned(v) = IF v >= 0 THEN v ELSE v + M
        BY <1>1, UnsignedIs
      <3> QED BY <1>1, <1>3, <3>1
    <2> DEFINE w == Digits(u, base)
    <2>2. DigitsOf(w, u, base)
      BY DigitsAre
    <2>3. itoa(v, base) = Reverse(w \o << >>)
      BY <1>3, <2>1, Zenon DEF itoa
    <2> HIDE DEF w
    <2>4. w \o << >> = w
      BY <2>2 DEF DigitsOf
    <2>5. Numeral(Reverse(w), u, base)
      BY NumeralIs DEF w
    <2> QED BY <1>3, <2>1, <2>3, <2>4, <2>5 DEF Numerals
  <1>4. CASE v < 0 /\ base = 10
    <2>1. PICK u \in Nat \ {0} : u = -v
      BY <1>1, <1>4
    <2>2. u \in -H .. M - 1 /\ u >= 0
      BY <1>1, <2>1
    <2>3. Unsigned(u) = u
      BY <2>2, UnsignedIs
    <2> DEFINE w == Digits(u, base)
    <2>4. DigitsOf(w, u, base)
      BY DigitsAre
    <2>5. itoa(v, base) = Reverse(w \o <<Minus>>)
      <3>1. v # 0
        BY <1>1, <1>4
      <3>2. Unsigned(-v) = u
        BY <2>1, <2>3
      <3> QED BY <1>4, <3>1, <3>2, Zenon DEF itoa
    <2> HIDE DEF w
    <2>6. w \in Seq(Int) /\ <<Minus>> \in Seq(Int)
      <3>1. w \in Seq(0 .. base - 1) /\ 0 .. base - 1 \subseteq Int
        BY <2>4 DEF DigitsOf
      <3> QED BY <3>1 DEF Minus
    <2>7. Reverse(w \o <<Minus>>) = Reverse(<<Minus>>) \o Reverse(w)
      BY <2>6, ReverseConcat
    <2>8. Reverse(<<Minus>>) = <<Minus>>
      BY ReverseOne
    <2>9. Numeral(Reverse(w), u, base)
      BY NumeralIs DEF w
    <2>10. Numeral(Reverse(w), -v, base)
      BY <2>1, <2>9
    <2> QED BY <1>4, <2>5, <2>7, <2>8, <2>10 DEF Numerals
  <1> QED BY <1>2, <1>3, <1>4

LEMMA WithoutSign ==
    ASSUME NEW w, NEW u, NEW base \in Nat, base >= 2, base <= 36, Numeral(w, u, base)
    PROVE  Minus \notin ToSet(w) /\ w[1] # Minus
  <1>1. w \in Seq(0 .. base - 1) /\ w # << >>
    BY DEF Numeral
  <1>2. \A k \in DOMAIN w : w[k] \in 0 .. base - 1
    BY <1>1
  <1>3. \A k \in DOMAIN w : w[k] # Minus
    BY <1>2 DEF Minus
  <1>4. 1 \in DOMAIN w
    BY <1>1
  <1> QED BY <1>3, <1>4 DEF ToSet

(* What NumberFunctionsAgree says of itoa.                                 *)
SaysOf(t, v, base) ==
    LET digits == IF t[1] = Minus THEN Tail(t) ELSE t
    IN  /\ Minus \notin ToSet(digits) /\ (digits[1] = 0 => digits = <<0>>)
        /\ IF base # 10 THEN Value(t, base) = Unsigned(v)
           ELSE v = (IF t[1] = Minus THEN -1 ELSE 1) * Value(digits, 10)

LEMMA ItoaAgrees ==
    ASSUME NEW M, NEW H, NEW D, Widths(M, H, D), NEW v \in -H .. H - 1,
           NEW base \in Nat, base >= 2, base <= 36
    PROVE  SaysOf(itoa(v, base), v, base)
  <1> DEFINE t == itoa(v, base)
  <1>1. M \in Nat \ {0} /\ H \in Nat \ {0} /\ M = 2 * H /\ v \in -H .. M - 1
    BY DEF Widths
  <1>2. Numerals(t, v, base)
    BY <1>1, ItoaIs
  <1> HIDE DEF t
  <1>3. CASE v < 0 /\ base = 10
    <2>1. PICK w : t = <<Minus>> \o w /\ Numeral(w, -v, base)
      BY <1>2, <1>3 DEF Numerals
    <2>2. w \in Seq(Int)
      <3>1. w \in Seq(0 .. base - 1) /\ 0 .. base - 1 \subseteq Int
        BY <2>1 DEF Numeral
      <3> QED BY <3>1
    <2>3. t[1] = Minus /\ Tail(t) = w
      <3>1. <<Minus>> \in Seq(Int)
        BY DEF Minus
      <3>2. Len(t) = 1 + Len(w) /\ t \in Seq(Int) /\ t[1] = Minus
        BY <2>1, <2>2, <3>1
      <3>3. Tail(t) \in Seq(Int) /\ Len(Tail(t)) = Len(w)
        BY <2>2, <3>2
      <3>4. \A k \in 1 .. Len(w) : Tail(t)[k] = w[k]
        BY <2>1, <2>2, <3>1, <3>2
      <3> DEFINE x == Tail(t)
      <3> HIDE DEF x
      <3>5. x = w
        BY <2>2, <3>3, <3>4, SeqEqual DEF x
      <3> QED BY <3>2, <3>5 DEF x
    <2>4. Minus \notin ToSet(w)
      BY <2>1, WithoutSign
    <2>5. Value(w, 10) = -v /\ (w[1] = 0 => w = <<0>>)
      BY <1>3, <2>1 DEF Numeral
    <2>6. v = (-1) * Value(w, 10)
      BY <1>1, <2>5
    <2>7. SaysOf(t, v, base)
      BY <1>3, <2>3, <2>4, <2>5, <2>6, Zenon DEF SaysOf
    <2> QED BY <2>7 DEF t
  <1>4. CASE ~(v < 0 /\ base = 10)
    <2>1. Numeral(t, Unsigned(v), base)
      BY <1>2, <1>4 DEF Numerals
    <2>2. Minus \notin ToSet(t) /\ t[1] # Minus
      BY <2>1, WithoutSign
    <2>3. Value(t, base) = Unsigned(v) /\ (t[1] = 0 => t = <<0>>)
      BY <2>1 DEF Numeral
    <2>4. base = 10 => v = 1 * Value(t, 10)
      <3>1. ASSUME base = 10 PROVE Unsigned(v) = v
        BY <1>1, <1>4, <3>1, UnsignedIs
      <3> QED BY <1>1, <2>3, <3>1
    <2>5. SaysOf(t, v, base)
      BY <2>2, <2>3, <2>4, Zenon DEF SaysOf
    <2> QED BY <2>5 DEF t
  <1> QED BY <1>3, <1>4

(* Whole multiples of M do not show in a remainder.                        *)
LEMMA LessWholes ==
    ASSUME NEW M \in Nat \ {0}, NEW y \in Int, NEW c \in Int
    PROVE  (y - M * c) % M = y % M
  <1>1. PICK d \in Int, r \in 0 .. M - 1 : d = y \div M /\ r = y % M /\ y = M * d + r
    <2>1. y \div M \in Int /\ y % M \in 0 .. M - 1 /\ y = M * (y \div M) + (y % M)
      OBVIOUS
    <2> QED BY <2>1
  <1>2. PICK q \in Int : q = d - c
    OBVIOUS
  <1>3. M * q + r = y - M * c
    <2>1. M * q = M * d - M * c
      BY <1>2
    <2> QED BY <1>1, <2>1
  <1>4. (M * q + r) % M = r
    BY DivisionIs
  <1> QED BY <1>1, <1>3, <1>4

LEMMA ShiftOnce ==
    ASSUME NEW M \in Nat \ {0}, NEW x \in Int, NEW c \in Int
    PROVE  (((x % M) + c) * 16) % M = ((x + c) * 16) % M
  <1>1. PICK d \in Int, r \in 0 .. M - 1 : r = x % M /\ x = M * d + r
    <2>1. x \div M \in Int /\ x % M \in 0 .. M - 1 /\ x = M * (x \div M) + (x % M)
      OBVIOUS
    <2> QED BY <2>1
  <1>2. PICK y \in Int : y = (x + c) * 16
    OBVIOUS
  <1>3. PICK e \in Int : e = 16 * d
    OBVIOUS
  <1>4. (r + c) * 16 = y - M * e
    <2>1. PICK z \in Int : z = M * d
      OBVIOUS
    <2>2. M * e = 16 * (M * d)
      BY <1>3
    <2>3. x = z + r
      BY <1>1, <2>1
    <2>4. M * e = 16 * z
      BY <2>1, <2>2
    <2> QED BY <1>2, <2>3, <2>4
  <1>5. (y - M * e) % M = y % M
    BY LessWholes
  <1> QED BY <1>1, <1>2, <1>4, <1>5

(* g holds the values after 0, 1, 2, ... digits.                           *)
Shifts(g, text) ==
    g = [k \in 0 .. Len(text) |-> IF k = 0 THEN 0 ELSE Unsigned((g[k - 1] + text[k]) * 16)]

LEMMA ShiftsExist ==
    ASSUME NEW text \in Seq(Nat)
    PROVE  \E g : Shifts(g, text)
  <1> DEFINE n == Len(text)
             Of == [k \in 1 .. n |-> k - 1]
             G == [k \in 1 .. n |-> [x \in Nat |-> Unsigned((x + text[k]) * 16)]]
  <1>1. Of \in [1 .. n -> 0 .. n] /\ \A k \in 1 .. n : Of[k] < k
    OBVIOUS
  <1>2. G \in [1 .. n -> [Nat -> Nat]]
    <2>1. PICK M, H, D : Widths(M, H, D)
      BY WidthsAre
    <2>2. ASSUME NEW k \in 1 .. n, NEW x \in Nat PROVE Unsigned((x + text[k]) * 16) \in Nat
      <3>1. PICK y \in Nat : y = (x + text[k]) * 16
        <4>1. PICK z \in Nat : z = text[k]
          OBVIOUS
        <4>2. (x + z) * 16 \in Nat
          OBVIOUS
        <4> QED BY <4>1, <4>2
      <3>2. M \in Nat \ {0} /\ Unsigned(y) = y % M
        BY <2>1 DEF Widths, Unsigned
      <3>3. Unsigned(y) \in Nat
        BY <3>2
      <3> HIDE DEF n
      <3> QED BY <3>1, <3>3
    <2> QED BY <2>2
  <1>3. n \in Nat /\ 0 \in Nat
    OBVIOUS
  <1> HIDE DEF n, Of, G
  <1>4. PICK g : Solves(g, n, Nat, 0, Of, G)
    BY <1>1, <1>2, <1>3, Recursion
  <1>5. g \in [0 .. n -> Nat] /\ g[0] = 0 /\ \A k \in 1 .. n : g[k] = G[k][g[Of[k]]]
    BY <1>4 DEF Solves
  <1>6. ASSUME NEW k \in 0 .. n, k # 0 PROVE g[k] = Unsigned((g[k - 1] + text[k]) * 16)
    <2>1. k \in 1 .. n /\ k - 1 \in 0 .. n
      BY <1>3, <1>6
    <2>2. Of[k] = k - 1 /\ g[k - 1] \in Nat
      BY <1>5, <2>1 DEF Of
    <2> QED BY <1>5, <2>1, <2>2 DEF G
  <1>7. g = [k \in 0 .. n |-> g[k]]
    BY <1>5
  <1>8. Shifts(g, text)
    BY <1>5, <1>6, <1>7, Zenon DEF Shifts, n
  <1> QED BY <1>8

LEMMA ShiftedIs ==
    ASSUME NEW M, NEW H, NEW D, Widths(M, H, D), NEW text \in Seq(Nat)
    PROVE  Shifted(text) = (Value(text, 16) * 16) % M
  <1> DEFINE n == Len(text)
             g == CHOOSE x : Shifts(x, text)
  <1>1. Shifted(text) = g[n]
    BY Zenon DEF Shifted, Shifts
  <1>2. Shifts(g, text)
    BY ShiftsExist
  <1> HIDE DEF g
  <1>3. PICK f : f \in [0 .. n -> Nat] /\ Sums(f, text, 16)
    BY SumsExist
  <1>4. n \in Nat /\ Value(text, 16) = f[n]
    BY <1>3, ValueIs
  <1>5. M \in Nat \ {0} /\ \A x : Unsigned(x) = x % M
    BY DEF Widths, Unsigned
  <1> DEFINE S == {k \in 0 .. n : g[k] = (f[k] * 16) % M}
  <1>6. 0 \in S
    <2>1. g[0] = 0 /\ f[0] = 0
      BY <1>2, <1>3, <1>4 DEF Shifts, Sums
    <2>2. 0 % M = 0
      BY <1>5
    <2> QED BY <1>4, <2>1, <2>2
  <1>7. ASSUME NEW k \in 1 .. n, k - 1 \in S PROVE k \in S
    <2>1. k \in 0 .. n /\ k # 0 /\ k - 1 \in 0 .. n
      BY <1>4
    <2>2. PICK a \in Nat, c \in Nat : a = f[k - 1] /\ c = text[k]
      <3>1. f[k - 1] \in Nat
        BY <1>3, <2>1
      <3>2. text[k] \in Nat
        OBVIOUS
      <3> QED BY <3>1, <3>2
    <2>3. f[k] = a * 16 + c
      BY <1>3, <2>1, <2>2, Zenon DEF Sums
    <2>4. g[k] = ((g[k - 1] + c) * 16) % M
      BY <1>2, <1>5, <2>1, <2>2, Zenon DEF Shifts
    <2>5. g[k - 1] = (a * 16) % M
      BY <1>7, <2>2
    <2>6. PICK x \in Int : x = a * 16
      OBVIOUS
    <2>7. (((x % M) + c) * 16) % M = ((x + c) * 16) % M
      <3>1. c \in Int
        OBVIOUS
      <3> QED BY <1>5, <3>1, ShiftOnce
    <2> QED BY <2>1, <2>3, <2>4, <2>5, <2>6, <2>7
  <1> HIDE DEF S, n
  <1>8. 0 .. n \subseteq S
    BY <1>4, <1>6, <1>7, UpInduction
  <1>9. g[n] = (f[n] * 16) % M
    BY <1>4, <1>8 DEF S
  <1> QED BY <1>1, <1>4, <1>9

(* R is a sixteenth of H.                                                  *)
LEMMA Sixteenth ==
    ASSUME NEW M, NEW H, NEW D, Widths(M, H, D)
    PROVE  \E R \in Nat \ {0} : R = Power(2, Width - 5) /\ H = 16 * R /\ M = 32 * R
  <1>1. PICK w \in Nat : w = Width - 5 /\ Width - 1 = (((w + 1) + 1) + 1) + 1
    <2>1. Width - 5 \in Nat /\ Width - 1 = ((((Width - 5) + 1) + 1) + 1) + 1
      BY CLibraryAssumption
    <2> QED BY <2>1
  <1>2. Power(2, w) \in Nat \ {0} /\ Power(2, w + 1) = 2 * Power(2, w)
    BY PowerStep
  <1>3. Power(2, (w + 1) + 1) = 2 * Power(2, w + 1)
    BY PowerStep
  <1>4. Power(2, ((w + 1) + 1) + 1) = 2 * Power(2, (w + 1) + 1)
    BY PowerStep
  <1>5. Power(2, (((w + 1) + 1) + 1) + 1) = 2 * Power(2, ((w + 1) + 1) + 1)
    BY PowerStep
  <1>6. PICK R \in Nat \ {0} : R = Power(2, w)
    BY <1>2
  <1>7. H = 16 * R /\ M = 32 * R
    BY <1>1, <1>2, <1>3, <1>4, <1>5, <1>6 DEF Widths
  <1> QED BY <1>1, <1>6, <1>7

(* What NumberFunctionsAgree says of atoi.                                 *)
ReadsBack(v) == atoi(itoa(v, 16)) = v <=> v \in -Power(2, Width - 5) .. Power(2, Width - 5) - 1

LEMMA AtoiAgrees ==
    ASSUME NEW M, NEW H, NEW D, Widths(M, H, D), NEW v \in -H .. H - 1
    PROVE  ReadsBack(v)
  <1> DEFINE t == itoa(v, 16)
  <1>1. PICK R \in Nat \ {0} : R = Power(2, Width - 5) /\ H = 16 * R /\ M = 32 * R
    BY Sixteenth
  <1>2. /\ M \in Nat \ {0} /\ H \in Nat \ {0} /\ M = 2 * H /\ v \in -H .. M - 1
        /\ M = Power(2, Width) /\ H = Power(2, Width - 1)
    BY DEF Widths
  <1>3. PICK u \in 0 .. M - 1 : u = Unsigned(v) /\ u = IF v >= 0 THEN v ELSE v + M
    BY <1>2, UnsignedIs
  <1>4. t \in Seq(Nat) /\ Value(t, 16) = u
    <2>1. Numerals(t, v, 16)
      BY <1>2, ItoaIs
    <2> HIDE DEF t
    <2>2. Numeral(t, Unsigned(v), 16)
      BY <2>1 DEF Numerals
    <2>3. t \in Seq(0 .. 15) /\ 0 .. 15 \subseteq Nat
      BY <2>2 DEF Numeral
    <2>4. t \in Seq(Nat)
      BY <2>3
    <2>5. Value(t, 16) = u
      BY <1>3, <2>2 DEF Numeral
    <2> QED BY <2>4, <2>5
  <1> HIDE DEF t
  <1>5. PICK Q \in Nat \ {0} : Q = 2 * R /\ M = 16 * Q
    BY <1>1
  <1>6. PICK h \in Nat, l \in 0 .. Q - 1 : u = Q * h + l
    <2>1. u \div Q \in Nat /\ u % Q \in 0 .. Q - 1 /\ u = Q * (u \div Q) + (u % Q)
      BY <1>2
    <2> QED BY <2>1
  <1>7. Shifted(t) = 16 * l
    <2>1. PICK r \in 0 .. M - 1 : r = 16 * l
      BY <1>5
    <2>2. M * h + r = u * 16
      <3>1. M * h = 16 * (Q * h)
        BY <1>5
      <3>2. PICK z \in Int : z = Q * h
        OBVIOUS
      <3> QED BY <1>6, <2>1, <3>1, <3>2
    <2>3. (M * h + r) % M = r
      <3>1. h \in Int
        OBVIOUS
      <3> QED BY <1>2, <3>1, DivisionIs
    <2>4. Shifted(t) = (Value(t, 16) * 16) % M
      BY <1>4, ShiftedIs
    <2> QED BY <1>4, <2>1, <2>2, <2>3, <2>4
  <1>8. atoi(t) = IF l < R THEN l ELSE l - Q
    <2>1. atoi(t) = (IF 16 * l < H THEN 16 * l ELSE 16 * l - M) \div 16
      BY <1>2, <1>7 DEF atoi, Signed
    <2>2. 16 * l < H <=> l < R
      BY <1>1
    <2>3. 16 * l - M = 16 * (l - Q)
      BY <1>5
    <2>4. (16 * l) \div 16 = l /\ (16 * (l - Q)) \div 16 = l - Q
      BY <1>5
    <2> QED BY <2>1, <2>2, <2>3, <2>4
  <1>9. ASSUME atoi(t) = v PROVE v \in -R .. R - 1
    BY <1>5, <1>8, <1>9
  <1>10. ASSUME v \in -R .. R - 1 PROVE atoi(t) = v
    <2>1. CASE v >= 0
      <3>1. u = v /\ u < Q
        BY <1>3, <1>5, <1>10, <2>1
      <3>2. h = 0
        <4>1. SUFFICES ASSUME h >= 1 PROVE FALSE
          OBVIOUS
        <4>2. PICK c \in Nat : h = 1 + c
          <5>1. h - 1 \in Nat /\ h = 1 + (h - 1)
            BY <4>1
          <5> QED BY <5>1
        <4>3. u = Q + Q * c + l /\ Q * c >= 0
          BY <1>6, <4>2
        <4> QED BY <3>1, <4>3
      <3> QED BY <1>6, <1>8, <1>10, <2>1, <3>1, <3>2
    <2>2. CASE v < 0
      <3>1. PICK k \in 0 .. Q - 1 : k = Q + v
        BY <1>5, <1>10, <2>2
      <3>2. Q * 15 + k = u /\ Q * h + l = u
        BY <1>3, <1>5, <1>6, <2>2, <3>1
      <3>3. (Q * 15 + k) % Q = k
        BY DivisionIs
      <3>4. (Q * h + l) % Q = l
        BY DivisionIs
      <3>5. l = k
        BY <3>2, <3>3, <3>4
      <3> QED BY <1>5, <1>8, <1>10, <2>2, <3>1, <3>5
    <2> QED BY <1>10, <2>1, <2>2
  <1>11. atoi(t) = v <=> v \in -R .. R - 1
    BY <1>9, <1>10
  <1> QED BY <1>1, <1>11 DEF ReadsBack, t

LEMMA NumberFunctionsDoAgree == NumberFunctionsAgree
  <1>1. PICK M, H, D : Widths(M, H, D)
    BY WidthsAre
  <1>2. ASSUME NEW v \in -H .. H - 1
        PROVE  /\ Value(PRINT_BITCNT(v), 16) = Unsigned(v)
               /\ \A base \in {2, 10, 16, 36} : SaysOf(itoa(v, base), v, base)
               /\ ReadsBack(v)
    <2>1. v \in -H .. M - 1
      BY <1>1 DEF Widths
    <2>2. ASSUME NEW base \in {2, 10, 16, 36} PROVE SaysOf(itoa(v, base), v, base)
      <3>1. base \in Nat /\ base >= 2 /\ base <= 36
        OBVIOUS
      <3> QED BY <1>1, <3>1, ItoaAgrees
    <2> QED BY <1>1, <2>1, <2>2, BitcntAgrees, AtoiAgrees
  <1>3. H = Power(2, Width - 1)
    BY <1>1 DEF Widths
  <1> QED BY <1>2, <1>3, Zenon DEF NumberFunctionsAgree, SaysOf, ReadsBack

-----------------------------------------------------------------------------
(* The console.                                                            *)

(* The screens on which no row below the current one is drawn.             *)
Screens ==
    {s \in [drawn : SUBSET (Nat \X Nat), line : 0 .. line_limit - 1,
            char_pos : 0 .. char_pos_limit - 1] : \A cell \in s.drawn : cell[1] <= s.line}

(* A core that panics has written what it has copied so far.  If it is     *)
(* alone, that is still there, and every other core has copied all of its  *)
(* message.                                                                *)
PanicOf(ps, m, c) ==
    /\ ps[c].text \in Seq(Nat \ {0}) /\ Len(ps[c].text) < TrapSize
    /\ ps[c].at \in 0 .. Len(ps[c].text)
    /\ ps[c].alone => /\ \A k \in 1 .. ps[c].at : m[k - 1] = ps[c].text[k]
                      /\ \A d \in DOMAIN ps \ {c} : ps[d].at = Len(ps[d].text)

(* The last two bytes of priv_s are never written: a message is shorter.   *)
TrapInv ==
    /\ priv_s \in [0 .. TrapSize -> Nat]
    /\ priv_s[TrapSize] = 0 /\ priv_s[TrapSize - 1] = 0
    /\ \A c \in DOMAIN panics : PanicOf(panics, priv_s, c)

(* The command line.                                                       *)
LineInv ==
    /\ cmd_buf \in [-Below .. cmd_buf_len -> Nat] /\ cmd_buf[cmd_buf_len - 1] = 0
    /\ cmd_buf_pos \in -Below .. cmd_buf_len - 2
    /\ typed \in Seq(Nat \ {0}) /\ erased \in BOOLEAN
    /\ ~erased => /\ cmd_buf_pos = Len(typed)
                  /\ \A k \in 1 .. Len(typed) : cmd_buf[k - 1] = typed[k]
                  /\ \A a \in Len(typed) .. cmd_buf_len - 1 : cmd_buf[a] = 0

(* The text of the number that was printed last.                           *)
NumberInv == Value(int_num, 16) = number

ConsoleInv == screen \in Screens /\ TrapInv /\ LineInv /\ NumberInv

LEMMA Limits ==
    /\ char_pos_limit \in Nat \ {0} /\ line_limit \in Nat \ {0} /\ TrapSize \in Nat \ {0}
    /\ cmd_buf_len \in Nat /\ cmd_buf_len > 1 /\ Below \in Nat
  BY ConsoleAssumption

LEMMA TextsOf ==
    /\ Banner \in Seq(Nat) /\ Unknown \in Seq(Nat) /\ \A t \in Texts : t \in Seq(Nat)
    /\ \A t \in TrapTexts : t \in Seq(Nat \ {0}) /\ Len(t) < TrapSize
    /\ \A c \in Keys : c \in Nat \ {0}
    /\ \A v \in Numbers : v \in 0 .. 255
  BY ConsoleAssumption

LEMMA RenderChar ==
    ASSUME NEW s \in Screens
    PROVE  render_char(s) \in Screens
  <1> DEFINE r == render_char(s)
  <1>1. /\ s.drawn \in SUBSET (Nat \X Nat) /\ s.line \in 0 .. line_limit - 1
        /\ s.char_pos \in 0 .. char_pos_limit - 1 /\ \A cell \in s.drawn : cell[1] <= s.line
    BY DEF Screens
  <1>2. s.line \in Nat /\ s.char_pos \in Nat /\ <<s.line, s.char_pos>> \in Nat \X Nat
    BY <1>1, Limits
  <1>3. (s.char_pos + 1) % char_pos_limit \in 0 .. char_pos_limit - 1
    <2>1. PICK x \in Nat : x = s.char_pos + 1
      BY <1>2
    <2> QED BY <2>1, Limits
  <1>4. r = [drawn |-> s.drawn \cup {<<s.line, s.char_pos>>}, line |-> s.line,
             char_pos |-> (s.char_pos + 1) % char_pos_limit]
    BY DEF render_char
  <1>5. s.drawn \cup {<<s.line, s.char_pos>>} \in SUBSET (Nat \X Nat)
    BY <1>1, <1>2
  <1>6. \A cell \in s.drawn \cup {<<s.line, s.char_pos>>} : cell[1] <= s.line
    BY <1>1, <1>2
  <1> HIDE DEF r
  <1>7. r \in Screens
    BY <1>1, <1>3, <1>4, <1>5, <1>6 DEF Screens
  <1> QED BY <1>7 DEF r

(* d holds the screens after 0, 1, 2, ... characters.                      *)
Draws(d, s, n) == d = [k \in 0 .. n |-> IF k = 0 THEN s ELSE render_char(d[k - 1])]

LEMMA PrintStream ==
    ASSUME NEW s \in Screens, NEW text, Len(text) \in Nat
    PROVE  print_stream(s, text) \in Screens
  <1> DEFINE n == Len(text)
             d == CHOOSE g : Draws(g, s, n)
             S == {k \in 0 .. n : d[k] \in Screens}
             Of == [k \in 1 .. n |-> k - 1]
             G == [k \in 1 .. n |-> [x \in Screens |-> render_char(x)]]
  <1>1. \E g : Draws(g, s, n)
    <2>1. Of \in [1 .. n -> 0 .. n] /\ \A k \in 1 .. n : Of[k] < k
      OBVIOUS
    <2>2. G \in [1 .. n -> [Screens -> Screens]]
      BY RenderChar
    <2> HIDE DEF Of, G, n
    <2>3. PICK g : Solves(g, n, Screens, s, Of, G)
      BY <2>1, <2>2, Recursion DEF n
    <2>4. g \in [0 .. n -> Screens] /\ g[0] = s /\ \A k \in 1 .. n : g[k] = G[k][g[Of[k]]]
      BY <2>3 DEF Solves
    <2>5. ASSUME NEW k \in 0 .. n, k # 0 PROVE g[k] = render_char(g[k - 1])
      <3>1. k \in 1 .. n /\ k - 1 \in 0 .. n
        BY <2>5 DEF n
      <3>2. Of[k] = k - 1 /\ g[k - 1] \in Screens
        BY <2>4, <3>1 DEF Of
      <3> QED BY <2>4, <3>1, <3>2 DEF G
    <2>6. g = [k \in 0 .. n |-> g[k]]
      BY <2>4
    <2>7. Draws(g, s, n)
      BY <2>4, <2>5, <2>6, Zenon DEF Draws
    <2> QED BY <2>7
  <1>2. Draws(d, s, n)
    BY <1>1
  <1>3. print_stream(s, text) = IF fbuf THEN d[n] ELSE s
    BY Zenon DEF print_stream, Draws
  <1> HIDE DEF d
  <1>4. 0 \in S
    BY <1>2 DEF Draws
  <1>5. ASSUME NEW k \in 1 .. n, k - 1 \in S PROVE k \in S
    <2>1. k \in 0 .. n /\ k # 0 /\ d[k - 1] \in Screens
      BY <1>5
    <2>2. d[k] = render_char(d[k - 1])
      BY <1>2, <2>1 DEF Draws
    <2> QED BY <2>1, <2>2, RenderChar
  <1> HIDE DEF S, n
  <1>6. 0 .. n \subseteq S
    BY <1>4, <1>5, UpInduction DEF n
  <1>7. d[n] \in Screens
    BY <1>6 DEF S, n
  <1> QED BY <1>3, <1>7

LEMMA PrintText ==
    ASSUME NEW s \in Screens, NEW text \in Seq(Nat)
    PROVE  print_str(s, text) \in Screens
  <1> DEFINE N == {k \in DOMAIN text : text[k] = Newline}
             n == Cardinality(N)
             p == print_stream(s, text)
  <1>1. n \in Nat
    <2>1. IsFiniteSet(1 .. Len(text))
      BY FS_Interval
    <2>2. N \subseteq 1 .. Len(text)
      OBVIOUS
    <2>3. IsFiniteSet(N)
      BY <2>1, <2>2, FS_Subset
    <2> QED BY <2>3, FS_CardinalityType
  <1>2. p \in Screens
    BY PrintStream
  <1>3. print_str(s, text) =
            IF ~fbuf \/ n = 0 THEN p ELSE
            [drawn |-> IF Clears(p.line, n) THEN {} ELSE p.drawn,
             line |-> (p.line + n) % line_limit, char_pos |-> 0]
    BY Zenon DEF print_str
  <1> HIDE DEF n, p
  <1>4. /\ p.drawn \in SUBSET (Nat \X Nat) /\ p.line \in 0 .. line_limit - 1
        /\ \A cell \in p.drawn : cell[1] <= p.line
    BY <1>2 DEF Screens
  <1>5. PICK x \in Nat : x = p.line
    BY <1>4, Limits
  <1>6. (x + n) % line_limit \in 0 .. line_limit - 1
    <2>1. PICK y \in Nat : y = x + n
      BY <1>1
    <2> QED BY <2>1, Limits
  <1>7. CASE Clears(x, n)
    <2>1. [drawn |-> {}, line |-> (x + n) % line_limit, char_pos |-> 0] \in Screens
      BY <1>6, Limits DEF Screens
    <2> QED BY <1>2, <1>3, <1>5, <1>7, <2>1
  <1>8. CASE ~Clears(x, n)
    <2>1. (x + n) % line_limit = x + n
      BY <1>1, <1>8, Limits DEF Clears
    <2>2. \A cell \in p.drawn : cell[1] <= x + n
      <3>1. \A cell \in p.drawn : cell[1] \in Nat
        BY <1>4
      <3> QED BY <1>1, <1>4, <1>5, <3>1
    <2>3. PICK y \in Nat : y = x + n
      BY <1>1
    <2>4. y \in 0 .. line_limit - 1 /\ (x + n) % line_limit = y
      BY <1>6, <2>1, <2>3
    <2>5. \A cell \in p.drawn : cell[1] <= y
      BY <2>2, <2>3
    <2>6. [drawn |-> p.drawn, line |-> y, char_pos |-> 0] \in Screens
      BY <1>4, <2>4, <2>5, Limits DEF Screens
    <2> QED BY <1>2, <1>3, <1>5, <1>8, <2>4, <2>6
  <1> QED BY <1>7, <1>8

-----------------------------------------------------------------------------
(* The invariant is kept.                                                  *)

LEMMA ConsoleStarts == ASSUME ConsoleInit PROVE ConsoleInv
  <1>1. screen \in Screens
    <2>1. screen = [drawn |-> {}, line |-> 0, char_pos |-> 0]
      BY DEF ConsoleInit
    <2> QED BY <2>1, Limits DEF Screens
  <1>2. TrapInv
    <2>1. priv_s = [a \in 0 .. TrapSize |-> 0] /\ DOMAIN panics = {}
      BY DEF ConsoleInit
    <2> QED BY <2>1, Limits DEF TrapInv
  <1>3. LineInv
    <2>1. /\ cmd_buf = [a \in -Below .. cmd_buf_len |-> 0]
          /\ cmd_buf_pos = 0 /\ typed = << >> /\ erased = FALSE
      BY DEF ConsoleInit
    <2>2. cmd_buf_len - 1 \in -Below .. cmd_buf_len /\ 0 \in -Below .. cmd_buf_len - 2
      BY Limits
    <2>3. \A a \in 0 .. cmd_buf_len - 1 : a \in -Below .. cmd_buf_len
      BY Limits
    <2>4. cmd_buf \in [-Below .. cmd_buf_len -> Nat] /\ cmd_buf[cmd_buf_len - 1] = 0
      BY <2>1, <2>2
    <2>5. typed \in Seq(Nat \ {0}) /\ Len(typed) = 0 /\ erased \in BOOLEAN
      <3>1. typed \in Seq(Nat \ {0}) /\ Len(typed) = 0
        BY <2>1
      <3>2. erased \in BOOLEAN
        BY <2>1, Zenon
      <3> QED BY <3>1, <3>2, Zenon
    <2>6. \A a \in 0 .. cmd_buf_len - 1 : cmd_buf[a] = 0
      BY <2>1, <2>3
    <2>7. \A k \in 1 .. 0 : cmd_buf[k - 1] = typed[k]
      OBVIOUS
    <2> QED BY <2>1, <2>2, <2>4, <2>5, <2>6, <2>7 DEF LineInv
  <1>4. NumberInv
    <2>1. Numeral(<<0>>, 0, 16)
      BY ZeroIs
    <2> QED BY <2>1 DEF ConsoleInit, NumberInv, Numeral
  <1> QED BY <1>1, <1>2, <1>3, <1>4 DEF ConsoleInv

LEMMA ItoaOfByte ==
    ASSUME NEW v \in 0 .. 255
    PROVE  itoa(v, 16) \in Seq(Nat) /\ Value(itoa(v, 16), 16) = v
  <1>1. PICK M, H, D : Widths(M, H, D)
    BY WidthsAre
  <1>2. v \in -H .. M - 1
    BY <1>1 DEF Widths
  <1>3. Unsigned(v) = v
    BY <1>1, <1>2, UnsignedIs
  <1> DEFINE t == itoa(v, 16)
  <1>4. Numerals(t, v, 16)
    BY <1>1, <1>2, ItoaIs
  <1> HIDE DEF t
  <1>5. Numeral(t, v, 16)
    BY <1>3, <1>4 DEF Numerals
  <1>6. t \in Seq(0 .. 15) /\ 0 .. 15 \subseteq Nat /\ Value(t, 16) = v
    BY <1>5 DEF Numeral
  <1>7. t \in Seq(Nat)
    BY <1>6
  <1> QED BY <1>6, <1>7 DEF t

LEMMA PrintsText ==
    ASSUME ConsoleInv, NEW t \in Texts, PrintStr(t)
    PROVE  ConsoleInv'
  <1>1. t \in Seq(Nat) /\ screen \in Screens /\ screen' = print_str(screen, t)
    BY TextsOf DEF ConsoleInv, PrintStr
  <1>2. screen' \in Screens
    BY <1>1, PrintText
  <1>3. UNCHANGED <<textVars, shellVars>>
    BY DEF PrintStr
  <1>4. TrapInv' /\ LineInv' /\ NumberInv'
    BY <1>3 DEF ConsoleInv, TrapInv, LineInv, NumberInv, textVars, shellVars
  <1> QED BY <1>2, <1>4 DEF ConsoleInv, Screens

LEMMA PrintsNumber ==
    ASSUME ConsoleInv, NEW v \in Numbers, PrintNumber(v)
    PROVE  ConsoleInv'
  <1>1. v \in 0 .. 255
    BY TextsOf
  <1>2. /\ int_num' = itoa(v, 16) /\ number' = v /\ screen' = print_str(screen, int_num')
        /\ UNCHANGED <<priv_s, panics, shellVars>>
    BY DEF PrintNumber
  <1>3. int_num' \in Seq(Nat) /\ NumberInv'
    BY <1>1, <1>2, ItoaOfByte DEF NumberInv
  <1>4. screen' \in Screens
    <2>1. screen \in Screens
      BY DEF ConsoleInv
    <2>2. print_str(screen, int_num') \in Screens
      BY <1>3, <2>1, PrintText
    <2> QED BY <1>2, <2>2
  <1>5. TrapInv' /\ LineInv'
    BY <1>2 DEF ConsoleInv, TrapInv, LineInv, shellVars
  <1> QED BY <1>3, <1>4, <1>5 DEF ConsoleInv, Screens

LEMMA CopiedIs ==
    ASSUME NEW p, p.text \in Seq(Nat \ {0}), Len(p.text) < TrapSize
    PROVE  Copied(p) <=> p.at = Len(p.text)
  <1>1. PICK l \in Nat : l = Len(p.text)
    OBVIOUS
  <1>2. Min({TrapSize, l}) = l
    <2>1. TrapSize \in Int /\ l \in Int /\ ~(TrapSize <= l)
      BY <1>1, Limits
    <2> QED BY <2>1, MinOfTwo
  <1> QED BY <1>1, <1>2 DEF Copied

LEMMA TrapIsSet ==
    ASSUME TrapInv, NEW c \in Cores, NEW t \in TrapTexts, set_trap_str(c, t)
    PROVE  TrapInv'
  <1> DEFINE B == \A d \in DOMAIN panics : Copied(panics[d])
             begun == [text |-> t, at |-> 0, alone |-> B]
  <1>1. t \in Seq(Nat \ {0}) /\ Len(t) < TrapSize
    BY TextsOf
  <1>2. /\ c \notin DOMAIN panics /\ priv_s' = priv_s
        /\ panics' = [d \in DOMAIN panics \cup {c} |->
                        IF d = c THEN begun ELSE [panics[d] EXCEPT !.alone = FALSE]]
    BY Zenon DEF set_trap_str
  <1>3. \A d \in DOMAIN panics : PanicOf(panics, priv_s, d)
    BY DEF TrapInv
  <1>4. DOMAIN panics' = DOMAIN panics \cup {c}
    BY <1>2, Zenon
  <1>5. panics'[c] = begun
    BY <1>2, Zenon
  <1>6. ASSUME NEW d \in DOMAIN panics
        PROVE  /\ d # c /\ panics'[d].text = panics[d].text /\ panics'[d].at = panics[d].at
               /\ panics[d].text \in Seq(Nat \ {0}) /\ Len(panics[d].text) < TrapSize
               /\ panics[d].at \in 0 .. Len(panics[d].text)
    <2>1. d # c /\ panics'[d] = [panics[d] EXCEPT !.alone = FALSE]
      BY <1>2, Zenon
    <2>2. panics'[d].text = panics[d].text /\ panics'[d].at = panics[d].at
      BY <2>1
    <2> QED BY <1>3, <2>1, <2>2 DEF PanicOf
  <1>7. ASSUME NEW d \in DOMAIN panics PROVE ~panics'[d].alone
    <2>1. d # c /\ panics'[d] = [panics[d] EXCEPT !.alone = FALSE]
      BY <1>2, <1>7, Zenon
    <2> QED BY <2>1
  <1>8. ASSUME NEW d \in DOMAIN panics PROVE PanicOf(panics', priv_s', d)
    <2>1. ~panics'[d].alone
      BY <1>7
    <2> QED BY <1>6, <2>1 DEF PanicOf
  <1>9. panics'[c].text = t /\ panics'[c].at = 0
    BY <1>5
  <1>10. panics'[c].alone => B
    <2> HIDE DEF B
    <2>1. begun.alone = B
      BY Zenon
    <2> HIDE DEF begun
    <2> QED BY <1>5, <2>1, Zenon
  <1>11. ASSUME B, NEW d \in DOMAIN panics' \ {c} PROVE panics'[d].at = Len(panics'[d].text)
    <2>1. d \in DOMAIN panics
      BY <1>4
    <2>2. Copied(panics[d])
      BY <1>11, <2>1
    <2> QED BY <1>6, <2>1, <2>2, CopiedIs
  <1>12. PanicOf(panics', priv_s', c)
    <2>1. \A k \in 1 .. 0 : priv_s'[k - 1] = panics'[c].text[k]
      OBVIOUS
    <2> HIDE DEF B
    <2> QED BY <1>1, <1>9, <1>10, <1>11, <2>1 DEF PanicOf
  <1> QED BY <1>2, <1>4, <1>8, <1>12 DEF TrapInv

LEMMA ByteIsCopied ==
    ASSUME TrapInv, NEW c \in Cores, CopyByte(c)
    PROVE  TrapInv'
  <1>1. /\ c \in DOMAIN panics /\ ~Copied(panics[c])
        /\ priv_s' = [priv_s EXCEPT ![panics[c].at] = panics[c].text[panics[c].at + 1]]
        /\ panics' = [panics EXCEPT ![c].at = panics[c].at + 1]
    BY DEF CopyByte
  <1>2. /\ priv_s \in [0 .. TrapSize -> Nat] /\ priv_s[TrapSize] = 0 /\ priv_s[TrapSize - 1] = 0
        /\ \A d \in DOMAIN panics : PanicOf(panics, priv_s, d)
    BY DEF TrapInv
  <1>3. PICK t : t = panics[c].text
    OBVIOUS
  <1>4. t \in Seq(Nat \ {0}) /\ Len(t) < TrapSize /\ panics[c].at \in 0 .. Len(t)
    BY <1>1, <1>2, <1>3 DEF PanicOf
  <1>5. PICK n \in Nat : n = panics[c].at /\ n < Len(t)
    <2>1. panics[c].at # Len(t)
      BY <1>1, <1>3, <1>4, CopiedIs
    <2> QED BY <1>4, <2>1
  <1>6. PICK b \in Nat : b = t[n + 1]
    BY <1>4, <1>5
  <1>7. priv_s' = [priv_s EXCEPT ![n] = b]
    BY <1>1, <1>3, <1>5, <1>6
  <1>8. /\ priv_s' \in [0 .. TrapSize -> Nat] /\ priv_s'[TrapSize] = 0
        /\ priv_s'[TrapSize - 1] = 0 /\ priv_s'[n] = b
        /\ \A a \in 0 .. n - 1 : priv_s'[a] = priv_s[a]
    BY <1>2, <1>4, <1>5, <1>7, Limits
  <1>9. /\ DOMAIN panics' = DOMAIN panics
        /\ \A d \in DOMAIN panics : d # c => panics'[d] = panics[d]
        /\ panics'[c] = [panics[c] EXCEPT !.at = n + 1]
    BY <1>1, <1>5
  <1>10. panics'[c].at = n + 1 /\ panics'[c].text = t /\ (panics'[c].alone <=> panics[c].alone)
    <2>1. panics'[c].at = n + 1
      BY <1>9
    <2>2. panics'[c].text = t
      BY <1>3, <1>9
    <2>3. panics'[c].alone = panics[c].alone
      BY <1>9
    <2> QED BY <2>1, <2>2, <2>3
  <1>11. ASSUME NEW d \in DOMAIN panics, d # c PROVE PanicOf(panics', priv_s', d)
    <2>1. PanicOf(panics, priv_s, d) /\ panics'[d] = panics[d]
      BY <1>2, <1>9, <1>11
    <2>2. c \in DOMAIN panics \ {d} /\ panics[c].at # Len(panics[c].text)
      BY <1>1, <1>3, <1>5, <1>11
    <2>3. ~panics[d].alone
      BY <2>1, <2>2 DEF PanicOf
    <2>4. /\ panics[d].text \in Seq(Nat \ {0}) /\ Len(panics[d].text) < TrapSize
          /\ panics[d].at \in 0 .. Len(panics[d].text)
      BY <2>1 DEF PanicOf
    <2> QED BY <2>1, <2>3, <2>4 DEF PanicOf
  <1>12. PanicOf(panics', priv_s', c)
    <2>1. ASSUME panics[c].alone
          PROVE  /\ \A k \in 1 .. n + 1 : priv_s'[k - 1] = t[k]
                 /\ \A d \in DOMAIN panics' \ {c} : panics'[d].at = Len(panics'[d].text)
      <3>1. /\ \A k \in 1 .. n : priv_s[k - 1] = t[k]
            /\ \A d \in DOMAIN panics \ {c} : panics[d].at = Len(panics[d].text)
        BY <1>1, <1>2, <1>3, <1>5, <2>1 DEF PanicOf
      <3>2. ASSUME NEW k \in 1 .. n + 1 PROVE priv_s'[k - 1] = t[k]
        <4>1. CASE k = n + 1
          BY <1>6, <1>8, <4>1
        <4>2. CASE k \in 1 .. n
          <5>1. k - 1 \in 0 .. n - 1
            BY <4>2
          <5> QED BY <1>8, <3>1, <4>2, <5>1
        <4> QED BY <4>1, <4>2
      <3> QED BY <1>9, <3>1, <3>2
    <2>2. n + 1 \in 0 .. Len(t)
      BY <1>4, <1>5
    <2> QED BY <1>4, <1>10, <2>1, <2>2 DEF PanicOf
  <1> QED BY <1>8, <1>9, <1>11, <1>12 DEF TrapInv

(* A trap's message ends in priv_s.                                        *)
LEMMA MessageEnds ==
    ASSUME TrapInv
    PROVE  \E e \in 0 .. TrapSize - 1 : Holds(priv_s, 0, e, Text(priv_s, 0))
  <1>1. /\ priv_s \in [0 .. TrapSize -> Nat] /\ DOMAIN priv_s \subseteq Int
        /\ priv_s[TrapSize - 1] = 0 /\ 0 <= TrapSize - 1 /\ 0 .. TrapSize - 1 \subseteq DOMAIN priv_s
        /\ TrapSize - 1 \in DOMAIN priv_s /\ 0 \in Int
    BY Limits DEF TrapInv
  <1>2. PICK e \in 0 .. TrapSize - 1 : EndsAt(priv_s, 0, e)
    BY <1>1, EndExists
  <1>3. Holds(priv_s, 0, e, Text(priv_s, 0))
    <2>1. \A a \in DOMAIN priv_s : priv_s[a] \in Nat
      BY <1>1
    <2> QED BY <1>2, <2>1, HoldsText
  <1> QED BY <1>3

LEMMA TrapIsShown ==
    ASSUME ConsoleInv, NEW c \in Cores, debug_handle_trap(c)
    PROVE  ConsoleInv'
  <1> DEFINE t == Text(priv_s, 0)
             s == print_str(screen, t)
  <1>1. screen \in Screens /\ TrapInv
    BY DEF ConsoleInv
  <1>2. t \in Seq(Nat)
    <2>1. PICK e : Holds(priv_s, 0, e, t)
      BY <1>1, MessageEnds
    <2> QED BY <2>1 DEF Holds
  <1>3. /\ screen' = print_stream(s, Banner) /\ UNCHANGED <<priv_s, int_num, number, shellVars>>
        /\ panics' = [d \in DOMAIN panics \ {c} |-> panics[d]]
    BY Zenon DEF debug_handle_trap, Restrict
  <1> HIDE DEF t
  <1>4. s \in Screens
    BY <1>1, <1>2, PrintText
  <1> HIDE DEF s
  <1>5. screen' \in Screens
    <2>1. Len(Banner) \in Nat
      BY TextsOf
    <2> QED BY <1>3, <1>4, <2>1, PrintStream
  <1>6. LineInv' /\ NumberInv'
    BY <1>3 DEF ConsoleInv, LineInv, NumberInv, shellVars
  <1>7. /\ DOMAIN panics' = DOMAIN panics \ {c}
        /\ \A d \in DOMAIN panics \ {c} : panics'[d] = panics[d]
    BY <1>3
  <1>8. ASSUME NEW d \in DOMAIN panics' PROVE PanicOf(panics', priv_s', d)
    <2>1. PanicOf(panics, priv_s, d)
      BY <1>1, <1>7 DEF TrapInv
    <2> QED BY <1>3, <1>7, <2>1 DEF PanicOf
  <1>9. TrapInv'
    BY <1>1, <1>3, <1>8 DEF TrapInv
  <1> QED BY <1>5, <1>6, <1>9 DEF ConsoleInv, Screens

LEMMA LineIsEmptied ==
    ASSUME LineInv, EmptyLine
    PROVE  LineInv'
  <1> DEFINE line == 0 .. cmd_buf_len - 1
  <1>1. cmd_buf \in [-Below .. cmd_buf_len -> Nat]
    BY DEF LineInv
  <1>2. cmd_buf' = Fill(cmd_buf, line, 0)
    <2>1. 0 \in Nat /\ cmd_buf_len \in Nat /\ 0 + cmd_buf_len - 1 = cmd_buf_len - 1
      BY Limits
    <2>2. memset(cmd_buf, 0, 0, cmd_buf_len) = Fill(cmd_buf, 0 .. 0 + cmd_buf_len - 1, 0)
      BY <2>1, MemsetFills
    <2> QED BY <2>1, <2>2 DEF EmptyLine
  <1>3. cmd_buf' = [a \in -Below .. cmd_buf_len |-> IF a \in line THEN 0 ELSE cmd_buf[a]]
    BY <1>1, <1>2, Zenon DEF Fill
  <1>4. cmd_buf' \in [-Below .. cmd_buf_len -> Nat]
    BY <1>1, <1>3
  <1>5. \A a \in line : cmd_buf'[a] = 0
    <2>1. \A a \in line : a \in -Below .. cmd_buf_len
      BY Limits
    <2> QED BY <1>3, <2>1
  <1>6. cmd_buf_len - 1 \in line /\ 0 \in -Below .. cmd_buf_len - 2
    BY Limits
  <1>7. cmd_buf_pos' = 0 /\ typed' = << >> /\ erased' = FALSE
    BY DEF EmptyLine
  <1>8. typed' \in Seq(Nat \ {0}) /\ Len(typed') = 0 /\ erased' \in BOOLEAN
    <2>1. typed' \in Seq(Nat \ {0}) /\ Len(typed') = 0
      BY <1>7
    <2>2. erased' \in BOOLEAN
      BY <1>7, Zenon
    <2> QED BY <2>1, <2>2, Zenon
  <1>9. \A k \in 1 .. 0 : cmd_buf'[k - 1] = typed'[k]
    OBVIOUS
  <1> HIDE DEF line
  <1>10. cmd_buf'[cmd_buf_len - 1] = 0
    BY <1>5, <1>6
  <1>11. \A a \in Len(typed') .. cmd_buf_len - 1 : cmd_buf'[a] = 0
    BY <1>5, <1>8 DEF line
  <1>12. cmd_buf_pos' \in -Below .. cmd_buf_len - 2 /\ cmd_buf_pos' = Len(typed')
    BY <1>6, <1>7, <1>8
  <1>13. \A k \in 1 .. Len(typed') : cmd_buf'[k - 1] = typed'[k]
    BY <1>8, <1>9
  <1> QED BY <1>4, <1>8, <1>10, <1>11, <1>12, <1>13 DEF LineInv

LEMMA KeyIsTyped ==
    ASSUME LineInv, NEW c \in Keys, TypeKey(c)
    PROVE  LineInv'
  <1>1. /\ cmd_buf \in [-Below .. cmd_buf_len -> Nat] /\ cmd_buf[cmd_buf_len - 1] = 0
        /\ cmd_buf_pos \in -Below .. cmd_buf_len - 2
        /\ typed \in Seq(Nat \ {0}) /\ erased \in BOOLEAN
        /\ ~erased => /\ cmd_buf_pos = Len(typed)
                      /\ \A k \in 1 .. Len(typed) : cmd_buf[k - 1] = typed[k]
                      /\ \A a \in Len(typed) .. cmd_buf_len - 1 : cmd_buf[a] = 0
    BY DEF LineInv
  <1>2. c \in Nat \ {0}
    BY TextsOf
  <1>3. CASE Full(cmd_buf_pos + 1)
    BY <1>3, LineIsEmptied DEF TypeKey
  <1>4. CASE ~Full(cmd_buf_pos + 1)
    <2>1. /\ cmd_buf' = [cmd_buf EXCEPT ![cmd_buf_pos] = c] /\ cmd_buf_pos' = cmd_buf_pos + 1
          /\ typed' = Append(typed, c) /\ erased' = erased
      BY <1>4 DEF TypeKey
    <2>2. PICK p \in Int : p = cmd_buf_pos /\ p <= cmd_buf_len - 3 /\ p >= -Below
      BY <1>1, <1>4, Limits DEF Full
    <2>3. cmd_buf' \in [-Below .. cmd_buf_len -> Nat] /\ cmd_buf'[cmd_buf_len - 1] = 0
      BY <1>1, <1>2, <2>1, <2>2, Limits
    <2>4. cmd_buf_pos' \in -Below .. cmd_buf_len - 2
      BY <2>1, <2>2, Limits
    <2>5. typed' \in Seq(Nat \ {0}) /\ Len(typed') = Len(typed) + 1 /\ Len(typed) \in Nat
      BY <1>1, <1>2, <2>1
    <2>6. ASSUME ~erased
          PROVE  /\ cmd_buf_pos' = Len(typed')
                 /\ \A k \in 1 .. Len(typed') : cmd_buf'[k - 1] = typed'[k]
                 /\ \A a \in Len(typed') .. cmd_buf_len - 1 : cmd_buf'[a] = 0
      <3>1. PICK n \in Nat : n = Len(typed) /\ p = n
        BY <1>1, <2>2, <2>6
      <3>2. ASSUME NEW k \in 1 .. n + 1 PROVE cmd_buf'[k - 1] = typed'[k]
        <4>1. k - 1 \in -Below .. cmd_buf_len
          BY <2>2, <3>1, Limits
        <4>2. CASE k = n + 1
          <5>1. k - 1 = p /\ typed'[k] = c
            BY <1>1, <1>2, <2>1, <3>1, <4>2
          <5> QED BY <1>1, <2>1, <2>2, <4>1, <5>1
        <4>3. CASE k # n + 1
          <5>1. k \in 1 .. n /\ k - 1 # p
            BY <3>1, <4>3
          <5>2. typed'[k] = typed[k]
            BY <1>1, <1>2, <2>1, <3>1, <5>1
          <5> QED BY <1>1, <2>1, <2>2, <2>6, <3>1, <4>1, <5>1, <5>2
        <4> QED BY <4>2, <4>3
      <3>3. ASSUME NEW a \in n + 1 .. cmd_buf_len - 1 PROVE cmd_buf'[a] = 0
        <4>1. a \in -Below .. cmd_buf_len /\ a # p /\ a \in n .. cmd_buf_len - 1
          BY <3>1, Limits
        <4> QED BY <1>1, <2>1, <2>2, <2>6, <3>1, <4>1
      <3> QED BY <2>1, <2>2, <2>5, <3>1, <3>2, <3>3
    <2> QED BY <1>1, <2>1, <2>3, <2>4, <2>5, <2>6 DEF LineInv
  <1> QED BY <1>3, <1>4

LEMMA KeyIsTakenBack ==
    ASSUME LineInv, TypeBackspace
    PROVE  LineInv'
  <1>1. /\ cmd_buf \in [-Below .. cmd_buf_len -> Nat] /\ cmd_buf[cmd_buf_len - 1] = 0
        /\ cmd_buf_pos \in -Below .. cmd_buf_len - 2
        /\ typed \in Seq(Nat \ {0}) /\ erased \in BOOLEAN
        /\ ~erased => /\ cmd_buf_pos = Len(typed)
                      /\ \A k \in 1 .. Len(typed) : cmd_buf[k - 1] = typed[k]
                      /\ \A a \in Len(typed) .. cmd_buf_len - 1 : cmd_buf[a] = 0
    BY DEF LineInv
  <1>2. /\ cmd_buf_pos > -Below
        /\ cmd_buf' = [cmd_buf EXCEPT ![cmd_buf_pos - 1] = 0] /\ cmd_buf_pos' = cmd_buf_pos - 1
        /\ typed' = IF typed = << >> THEN << >> ELSE Front(typed)
        /\ erased' = (erased \/ typed = << >>)
    BY DEF TypeBackspace
  <1>3. PICK p \in Int : p = cmd_buf_pos - 1 /\ p <= cmd_buf_len - 3 /\ p >= -Below
    BY <1>1, <1>2, Limits
  <1>4. cmd_buf' \in [-Below .. cmd_buf_len -> Nat] /\ cmd_buf'[cmd_buf_len - 1] = 0
    BY <1>1, <1>2, <1>3, Limits
  <1>5. cmd_buf_pos' \in -Below .. cmd_buf_len - 2
    BY <1>2, <1>3, Limits
  <1>6. typed' \in Seq(Nat \ {0})
    BY <1>1, <1>2 DEF Front
  <1>7. erased' \in BOOLEAN
    BY <1>2
  <1>8. ASSUME ~erased'
        PROVE  /\ cmd_buf_pos' = Len(typed')
               /\ \A k \in 1 .. Len(typed') : cmd_buf'[k - 1] = typed'[k]
               /\ \A a \in Len(typed') .. cmd_buf_len - 1 : cmd_buf'[a] = 0
    <2>1. ~erased /\ typed # << >>
      BY <1>2, <1>8
    <2>2. PICK n \in Nat : Len(typed) = n + 1 /\ p = n
      <3>1. Len(typed) - 1 \in Nat /\ Len(typed) = (Len(typed) - 1) + 1
        BY <1>1, <2>1
      <3> QED BY <1>1, <1>3, <2>1, <3>1
    <2>3. Len(typed') = n /\ \A k \in 1 .. n : typed'[k] = typed[k]
      BY <1>1, <1>2, <2>1, <2>2 DEF Front
    <2>4. ASSUME NEW k \in 1 .. n PROVE cmd_buf'[k - 1] = typed'[k]
      <3>1. k - 1 \in -Below .. cmd_buf_len /\ k - 1 # p /\ k \in 1 .. Len(typed)
        BY <1>3, <2>2, Limits
      <3> QED BY <1>1, <1>2, <1>3, <2>1, <2>3, <3>1
    <2>5. ASSUME NEW a \in n .. cmd_buf_len - 1 PROVE cmd_buf'[a] = 0
      <3>1. a \in -Below .. cmd_buf_len /\ (a = p \/ a \in Len(typed) .. cmd_buf_len - 1)
        BY <2>2, Limits
      <3> QED BY <1>1, <1>2, <1>3, <2>1, <3>1
    <2> QED BY <1>2, <1>3, <2>2, <2>3, <2>4, <2>5
  <1> QED BY <1>4, <1>5, <1>6, <1>7, <1>8 DEF LineInv

LEMMA ConsoleSteps ==
    ASSUME ConsoleInv, [ConsoleNext]_consoleVars
    PROVE  ConsoleInv'
  <1>1. CASE UNCHANGED consoleVars
    BY <1>1 DEF ConsoleInv, Screens, TrapInv, LineInv, NumberInv, consoleVars, textVars, shellVars
  <1>2. CASE sysdebug_install_lfb
    BY <1>2 DEF ConsoleInv, Screens, TrapInv, LineInv, NumberInv, sysdebug_install_lfb, textVars,
                shellVars
  <1>3. CASE \E t \in Texts : PrintStr(t)
    BY <1>3, PrintsText
  <1>4. CASE \E v \in Numbers : PrintNumber(v)
    BY <1>4, PrintsNumber
  <1>5. ASSUME NEW c \in Cores, (\E t \in TrapTexts : set_trap_str(c, t)) \/ CopyByte(c)
        PROVE  ConsoleInv'
    <2>1. TrapInv'
      BY <1>5, TrapIsSet, ByteIsCopied DEF ConsoleInv
    <2>2. UNCHANGED <<screen, int_num, number, shellVars>>
      BY <1>5 DEF set_trap_str, CopyByte
    <2> QED BY <2>1, <2>2 DEF ConsoleInv, Screens, LineInv, NumberInv, shellVars
  <1>6. ASSUME NEW c \in Cores, debug_handle_trap(c) PROVE ConsoleInv'
    BY <1>6, TrapIsShown
  <1>7. CASE \E c \in Keys : TypeKey(c)
    <2>1. PICK c \in Keys : TypeKey(c)
      BY <1>7
    <2>2. LineInv'
      BY <2>1, KeyIsTyped DEF ConsoleInv
    <2>3. UNCHANGED <<screen, textVars>>
      BY <2>1 DEF TypeKey
    <2> QED BY <2>2, <2>3 DEF ConsoleInv, Screens, TrapInv, NumberInv, textVars
  <1>8. CASE TypeBackspace
    <2>1. LineInv'
      BY <1>8, KeyIsTakenBack DEF ConsoleInv
    <2>2. UNCHANGED <<screen, textVars>>
      BY <1>8 DEF TypeBackspace
    <2> QED BY <2>1, <2>2 DEF ConsoleInv, Screens, TrapInv, NumberInv, textVars
  <1>9. CASE TypeReturn
    <2>1. LineInv'
      BY <1>9, LineIsEmptied DEF ConsoleInv, TypeReturn
    <2>2. screen' = print_stream(screen, Unknown) /\ UNCHANGED textVars /\ screen \in Screens
      BY <1>9 DEF TypeReturn, ConsoleInv
    <2>3. screen' \in Screens
      <3>1. Len(Unknown) \in Nat
        BY TextsOf
      <3> QED BY <2>2, <3>1, PrintStream
    <2> QED BY <2>1, <2>2, <2>3 DEF ConsoleInv, Screens, TrapInv, NumberInv, textVars
  <1> QED BY <1>1, <1>2, <1>3, <1>4, <1>5, <1>6, <1>7, <1>8, <1>9 DEF ConsoleNext

(* Every state of the console keeps ConsoleInv.                            *)
THEOREM ConsoleKeepsItsInvariant == ConsoleSpec => []ConsoleInv
  BY ConsoleStarts, ConsoleSteps, PTL DEF ConsoleSpec

-----------------------------------------------------------------------------
(* What the runs check of the console, for every width, every memory and   *)
(* every text.                                                             *)

(* Nothing is printed on what an earlier pass over the screen left: every  *)
(* row below the current one is blank.                                     *)
THEOREM PrintsOnBlankRows == ConsoleSpec => []RowsBelowAreBlank
  <1>1. ASSUME ConsoleInv PROVE RowsBelowAreBlank
    BY <1>1 DEF ConsoleInv, Screens, RowsBelowAreBlank
  <1> QED BY <1>1, ConsoleKeepsItsInvariant, PTL

(* The command line holds what was typed and not taken back, unless a      *)
(* backspace met it empty, and its last cell ends it in any case.          *)
THEOREM LineHoldsWhatWasTyped == ConsoleSpec => []LineIsWhatWasTyped
  <1>1. ASSUME ConsoleInv PROVE LineIsWhatWasTyped
    <2>1. LineInv
      BY <1>1 DEF ConsoleInv
    <2>2. ASSUME ~erased PROVE Text(cmd_buf, 0) = typed
      <3>1. /\ cmd_buf \in [-Below .. cmd_buf_len -> Nat] /\ typed \in Seq(Nat \ {0})
            /\ Len(typed) <= cmd_buf_len - 2
            /\ \A k \in 1 .. Len(typed) : cmd_buf[k - 1] = typed[k]
            /\ \A a \in Len(typed) .. cmd_buf_len - 1 : cmd_buf[a] = 0
        BY <2>1, <2>2 DEF LineInv
      <3>2. PICK n \in Nat : n = Len(typed)
        BY <3>1
      <3>3. DOMAIN cmd_buf \subseteq Int /\ 0 \in Int /\ 0 .. 0 + n \subseteq DOMAIN cmd_buf
        BY <3>1, <3>2, Limits
      <3>4. cmd_buf[0 + n] = 0
        BY <3>1, <3>2, Limits
      <3>5. \A k \in 1 .. n : cmd_buf[0 + k - 1] = typed[k]
        <4>1. \A k \in 1 .. n : 0 + k - 1 = k - 1
          OBVIOUS
        <4> QED BY <3>1, <3>2, <4>1
      <3> QED BY <3>1, <3>2, <3>3, <3>4, <3>5, TextIsThat
    <2> QED BY <2>1, <2>2 DEF LineInv, LineIsWhatWasTyped
  <1> QED BY <1>1, ConsoleKeepsItsInvariant, PTL

(* The functions on blocks and on strings do what they promise, and the    *)
(* clearing of the command line touches neither its stack below nor what   *)
(* is behind it.                                                           *)
THEOREM MemoryIsRight == ConsoleSpec => []MemoryAgrees
  <1>1. ASSUME ConsoleInv PROVE MemoryAgrees
    <2>1. 0 \in Nat /\ cmd_buf_len \in Nat /\ 0 + cmd_buf_len - 1 = cmd_buf_len - 1
      BY Limits
    <2>2. memset(cmd_buf, 0, 0, cmd_buf_len) = Fill(cmd_buf, 0 .. 0 + cmd_buf_len - 1, 0)
      BY <2>1, MemsetFills
    <2>3. StringFunctionsAgree
      BY SearchesDoAgree, ComparisonsDoAgree, JoinsDoAgree DEF StringFunctionsAgree
    <2> QED BY <2>1, <2>2, <2>3, BlockFunctionsDoAgree DEF MemoryAgrees
  <1> QED BY <1>1, ConsoleKeepsItsInvariant, PTL

(* Whatever mix of messages several cores have left in the memory of the   *)
(* message, it ends there.  A core that panics shows its own message,      *)
(* before whatever an older one left behind it, unless another core was    *)
(* copying when it began or has begun since.                               *)
THEOREM MessagesAreShown == ConsoleSpec => []TrapShowsItsMessage
  <1>1. ASSUME ConsoleInv, NEW c \in DOMAIN panics, panics[c].alone, Copied(panics[c])
        PROVE  IsPrefix(panics[c].text, Text(priv_s, 0))
    <2>1. TrapInv /\ PanicOf(panics, priv_s, c)
      BY <1>1 DEF ConsoleInv, TrapInv
    <2> DEFINE t == Text(priv_s, 0)
               u == panics[c].text
    <2>2. PICK e \in 0 .. TrapSize - 1 : Holds(priv_s, 0, e, t)
      BY <2>1, MessageEnds
    <2> HIDE DEF t
    <2>3. /\ t \in Seq(Nat \ {0}) /\ Len(t) = e /\ e \in Nat /\ priv_s[e] = 0
          /\ \A k \in 1 .. e : t[k] = priv_s[k - 1]
      <3>1. e - 0 = e /\ \A k \in 1 .. e : 0 + k - 1 = k - 1
        BY Limits
      <3> QED BY <2>2, <3>1, Limits DEF Holds, EndsAt
    <2>4. u \in Seq(Nat \ {0}) /\ \A k \in 1 .. Len(u) : priv_s[k - 1] = u[k]
      <3>1. panics[c].at = Len(u)
        BY <1>1, <2>1, CopiedIs DEF PanicOf
      <3> QED BY <1>1, <2>1, <3>1 DEF PanicOf
    <2> HIDE DEF u
    <2>5. Len(u) <= e
      <3>1. SUFFICES ASSUME e < Len(u) PROVE FALSE
        BY <2>3, <2>4
      <3>2. e + 1 \in 1 .. Len(u) /\ (e + 1) - 1 = e
        BY <2>3, <2>4, <3>1
      <3>3. u[e + 1] = 0
        BY <2>3, <2>4, <3>2
      <3>4. u[e + 1] \in Nat \ {0}
        BY <2>4, <3>2
      <3> QED BY <3>3, <3>4
    <2>6. Begins(u, t)
      <3>1. Len(u) \in Nat /\ Len(u) <= Len(t)
        BY <2>3, <2>4, <2>5
      <3>2. ASSUME NEW k \in 1 .. Len(u) PROVE u[k] = t[k]
        <4>1. k \in 1 .. e
          BY <2>3, <3>1
        <4> QED BY <2>3, <2>4, <4>1
      <3> QED BY <3>1, <3>2 DEF Begins
    <2>7. IsPrefix(u, t)
      BY <2>3, <2>4, <2>6, PrefixIs
    <2> QED BY <2>7 DEF t, u
  <1>2. ASSUME ConsoleInv PROVE strlen(priv_s, 0) < TrapSize
    <2>1. PICK e \in 0 .. TrapSize - 1 : Holds(priv_s, 0, e, Text(priv_s, 0))
      BY <1>2, MessageEnds DEF ConsoleInv
    <2>2. strlen(priv_s, 0) = e - 0
      BY <2>1, StrlenIs DEF Holds
    <2> QED BY <2>1, <2>2, Limits
  <1>3. ASSUME ConsoleInv PROVE TrapShowsItsMessage
    BY <1>1, <1>2, <1>3 DEF TrapShowsItsMessage
  <1> QED BY <1>3, ConsoleKeepsItsInvariant, PTL

(* itoa, atoi and the print functions do what they promise, and the number *)
(* of an unhandled interrupt is the one that is shown.                     *)
THEOREM NumbersAreRight == ConsoleSpec => []NumbersReadBack
  <1>1. ASSUME ConsoleInv PROVE NumbersReadBack
    BY <1>1, NumberFunctionsDoAgree DEF ConsoleInv, NumberInv, NumbersReadBack
  <1> QED BY <1>1, ConsoleKeepsItsInvariant, PTL

=============================================================================
