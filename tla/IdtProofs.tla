----------------------------- MODULE IdtProofs -----------------------------
(***************************************************************************)
(* What idt.c guarantees for every number of cores, every size of the      *)
(* tables, and every sequence of calls, interrupts and exceptions.         *)
(***************************************************************************)
EXTENDS Idt, FiniteSetTheorems, SequenceTheorems, TLAPS

LEMMA VectorRange == Vectors \subseteq Nat /\ FirstIrq \in Nat /\ LastVector \in Nat
  BY IdtAssumption DEF Vectors

(* A sequence with one element replaced, without its last one, extended.   *)
LEMMA SeqUpdate ==
  ASSUME NEW S, NEW q \in Seq(S), NEW n \in 1 .. Len(q), NEW e \in S
  PROVE  /\ [q EXCEPT ![n] = e] \in Seq(S)
         /\ Len([q EXCEPT ![n] = e]) = Len(q)
         /\ \A k \in 1 .. Len(q) : [q EXCEPT ![n] = e][k] = IF k = n THEN e ELSE q[k]
  OBVIOUS

LEMMA SeqShorter ==
  ASSUME NEW S, NEW q \in Seq(S), Len(q) > 0
  PROVE  /\ SubSeq(q, 1, Len(q) - 1) \in Seq(S)
         /\ Len(SubSeq(q, 1, Len(q) - 1)) = Len(q) - 1
         /\ \A k \in 1 .. Len(q) - 1 : SubSeq(q, 1, Len(q) - 1)[k] = q[k]
  <1>1. Len(q) \in Nat /\ \A k \in 1 .. Len(q) - 1 : q[k] \in S
    OBVIOUS
  <1>2. \A m, n \in Int : (\A k \in m .. n : q[k] \in S) =>
            /\ SubSeq(q, m, n) \in Seq(S)
            /\ Len(SubSeq(q, m, n)) = IF m <= n THEN n - m + 1 ELSE 0
            /\ \A k \in 1 .. n - m + 1 : SubSeq(q, m, n)[k] = q[m + k - 1]
    BY SubSeqProperties
  <1> DEFINE n == Len(q) - 1
             t == SubSeq(q, 1, n)
  <1>3. n \in Int
    BY <1>1
  <1>4. /\ t \in Seq(S) /\ Len(t) = (IF 1 <= n THEN n - 1 + 1 ELSE 0)
        /\ \A k \in 1 .. n - 1 + 1 : t[k] = q[1 + k - 1]
    BY <1>1, <1>2, <1>3
  <1>5. n - 1 + 1 = n /\ n >= 0
    BY <1>1
  <1>6. \A k \in 1 .. n : 1 + k - 1 = k
    OBVIOUS
  <1> HIDE DEF t, n
  <1>7. t \in Seq(S) /\ Len(t) = n /\ \A k \in 1 .. n : t[k] = q[k]
    BY <1>3, <1>4, <1>5, <1>6
  <1> QED BY <1>7 DEF t, n

-----------------------------------------------------------------------------
(* The type invariant.                                                     *)

(* A pending request that names a block, or wishes for one, is within the  *)
(* table.                                                                  *)
CallsFit ==
    \A c \in Cores :
        call[c] # NoCall /\ call[c] \in RequestType /\ (call[c].fixed \/ call[c].base # 0)
            => call[c].base + call[c].cnt - 1 \in Vectors

TInv == TypeOK /\ CallsFit

LEMMA InitTInv == Init => TInv
  <1> SUFFICES ASSUME Init PROVE TInv
    OBVIOUS
  <1>1. TypeOK
    BY IdtAssumption DEF Init, TypeOK, FrameType
  <1>2. CallsFit
    BY DEF Init, CallsFit
  <1> QED BY <1>1, <1>2 DEF TInv

(* What a pending call is, by the name of its operation.                   *)
LEMMA PendingCall ==
  ASSUME TInv, NEW c \in Cores, call[c] # NoCall
  PROVE  /\ call[c] \in TableCalls \cup RequestType
         /\ call[c].op = "allocate" => call[c] \in RequestType
         /\ call[c].op \in {"register", "unregister"} =>
                call[c].pair[1] \in Vectors /\ call[c].pair[2] \in Handlers
  <1>1. call[c] \in TableCalls \cup RequestType
    BY DEF TInv, TypeOK
  <1>2. ASSUME call[c] \in TableCalls
        PROVE  /\ call[c].op \in {"register", "unregister"}
               /\ call[c].pair[1] \in Vectors /\ call[c].pair[2] \in Handlers
    BY <1>2, IdtAssumption DEF TableCalls
  <1>3. ASSUME call[c] \in RequestType PROVE call[c].op = "allocate"
    BY <1>3 DEF RequestType
  <1> QED BY <1>1, <1>2, <1>3

(* The cases of interrupt_allocate: a block is granted that lies in the    *)
(* table and has no reserved vector, the request is refused for a reason,  *)
(* or the wish is dropped.                                                 *)
Refusable(r) ==
    IF r.fixed
    THEN \E v \in Block(r.base, r.cnt) : v \in interrupt_blocked
    ELSE \A i \in FirstIrq .. LastVector - r.cnt :
             \E v \in Block(i, r.cnt) : v \in interrupt_blocked

LEMMA AllocateCases ==
  ASSUME TInv, NEW c \in Cores, call[c] # NoCall, interrupt_allocate(c)
  PROVE  \/ \E b \in SUBSET Vectors : IsFree(b) /\ Grant(c, b)
         \/ Refusable(call[c]) /\ call[c] \in RequestType /\ Refuse(c)
         \/ /\ ~call[c].fixed /\ call[c] \in RequestType
            /\ call' = [call EXCEPT ![c] = WithoutWish(@)]
            /\ UNCHANGED <<interrupt_blocked, uses, refused>>
  <1> DEFINE r == call[c]
  <1>1. r \in RequestType
    BY PendingCall DEF interrupt_allocate, AllocateFixed, AllocateWish, AllocateSearch
  <1>2. r.base \in Nat /\ r.cnt \in Nat \ {0} /\ r.fixed \in BOOLEAN
    BY <1>1, VectorRange DEF RequestType
  <1>3. ASSUME r.fixed \/ r.base # 0 PROVE Block(r.base, r.cnt) \subseteq Vectors
    <2>1. r.base + r.cnt - 1 \in Vectors
      BY <1>1, <1>3 DEF TInv, CallsFit
    <2> QED BY <2>1, <1>2, IdtAssumption DEF Block, Vectors
  <1>4. CASE AllocateFixed(c)
    <2>1. CASE IsFree(Block(r.base, r.cnt))
      BY <1>3, <1>4, <2>1 DEF AllocateFixed
    <2>2. CASE ~IsFree(Block(r.base, r.cnt))
      BY <1>1, <1>4, <2>2 DEF AllocateFixed, IsFree, Refusable
    <2> QED BY <2>1, <2>2
  <1>5. CASE AllocateWish(c)
    BY <1>1, <1>3, <1>5 DEF AllocateWish
  <1>6. CASE AllocateSearch(c)
    <2>1. ASSUME NEW i \in Found(r.cnt), Grant(c, Block(i, r.cnt))
          PROVE  \E b \in SUBSET Vectors : IsFree(b) /\ Grant(c, b)
      <3>1. IsFree(Block(i, r.cnt)) /\ Block(i, r.cnt) \subseteq Vectors
        BY <1>2, VectorRange DEF Found, Block, Vectors
      <3> QED BY <2>1, <3>1
    <2>2. ASSUME Found(r.cnt) = {}, Refuse(c)
          PROVE  Refusable(r) /\ Refuse(c)
      <3>1. ASSUME NEW k \in FirstIrq .. LastVector - r.cnt
            PROVE  \E v \in Block(k, r.cnt) : v \in interrupt_blocked
        <4>1. k \in FirstIrq .. LastVector /\ k + r.cnt <= LastVector
          BY <1>2, VectorRange
        <4> QED BY <4>1, <2>2 DEF Found, IsFree
      <3>2. ~r.fixed
        BY <1>6 DEF AllocateSearch
      <3> QED BY <2>2, <3>1, <3>2 DEF Refusable
    <2> QED BY <1>1, <1>6, <2>1, <2>2 DEF AllocateSearch
  <1> QED BY <1>4, <1>5, <1>6 DEF interrupt_allocate

-----------------------------------------------------------------------------
(* The frames, after the top one is replaced, one is added or taken off.   *)

LEMMA TopFrame ==
  ASSUME TInv, NEW c \in Cores, Depth(c) > 0
  PROVE  /\ frames[c] \in Seq(FrameType) /\ Depth(c) \in 1 .. Len(frames[c])
         /\ Top(c) \in FrameType
         /\ Top(c).vector \in Vectors /\ Top(c).slot \in 0 .. SlotCount
         /\ Top(c).called \in Seq(Handlers)
  <1>1. frames[c] \in Seq(FrameType)
    BY DEF TInv, TypeOK
  <1>2. Depth(c) \in 1 .. Len(frames[c])
    BY <1>1 DEF Depth
  <1>3. Top(c) \in FrameType
    BY <1>1, <1>2 DEF Top
  <1> QED BY <1>1, <1>2, <1>3 DEF FrameType

LEMMA ReplaceTop ==
  ASSUME TInv, NEW c \in Cores, Depth(c) > 0, NEW f \in FrameType,
         frames' = [frames EXCEPT ![c][Depth(c)] = f]
  PROVE  /\ frames' \in [Cores -> Seq(FrameType)]
         /\ \A d \in Cores : DOMAIN frames'[d] = DOMAIN frames[d]
         /\ \A d \in Cores : \A n \in DOMAIN frames[d] :
               frames'[d][n] = IF d = c /\ n = Depth(c) THEN f ELSE frames[d][n]
  <1>1. frames \in [Cores -> Seq(FrameType)]
    BY DEF TInv, TypeOK
  <1> DEFINE q == [frames[c] EXCEPT ![Depth(c)] = f]
  <1>2. /\ q \in Seq(FrameType) /\ Len(q) = Len(frames[c])
        /\ \A k \in 1 .. Len(frames[c]) : q[k] = IF k = Depth(c) THEN f ELSE frames[c][k]
    BY TopFrame, SeqUpdate
  <1>3. frames' = [frames EXCEPT ![c] = q]
    BY <1>1
  <1> HIDE DEF q
  <1>4. frames' \in [Cores -> Seq(FrameType)]
    BY <1>1, <1>2, <1>3
  <1>5. \A d \in Cores : frames'[d] = IF d = c THEN q ELSE frames[d]
    BY <1>1, <1>3
  <1>6. \A d \in Cores : DOMAIN frames[d] = 1 .. Len(frames[d])
    BY <1>1
  <1>7. DOMAIN q = 1 .. Len(q)
    BY <1>2
  <1>8. \A d \in Cores : DOMAIN frames'[d] = DOMAIN frames[d]
    BY <1>2, <1>5, <1>6, <1>7
  <1>9. \A d \in Cores : \A n \in DOMAIN frames[d] :
            frames'[d][n] = IF d = c /\ n = Depth(c) THEN f ELSE frames[d][n]
    BY <1>2, <1>5, <1>6
  <1> QED BY <1>4, <1>8, <1>9

LEMMA AddFrame ==
  ASSUME TInv, NEW c \in Cores, NEW v \in Vectors,
         frames' = [frames EXCEPT ![c] = Append(@, NewFrame(v))]
  PROVE  /\ frames' \in [Cores -> Seq(FrameType)]
         /\ \A d \in Cores : \A n \in DOMAIN frames'[d] :
               \/ n \in DOMAIN frames[d] /\ frames'[d][n] = frames[d][n]
               \/ frames'[d][n] = NewFrame(v)
  <1>1. frames \in [Cores -> Seq(FrameType)]
    BY DEF TInv, TypeOK
  <1> DEFINE f == NewFrame(v)
             q == Append(frames[c], f)
  <1>2. f \in FrameType
    BY IdtAssumption DEF NewFrame, Frame, FrameType
  <1> HIDE DEF f
  <1>3. /\ q \in Seq(FrameType) /\ DOMAIN q = 1 .. Len(frames[c]) + 1
        /\ \A k \in 1 .. Len(frames[c]) : q[k] = frames[c][k]
        /\ q[Len(frames[c]) + 1] = f
    BY <1>1, <1>2
  <1>4. frames' = [frames EXCEPT ![c] = q]
    BY <1>1 DEF f
  <1> HIDE DEF q
  <1>5. frames' \in [Cores -> Seq(FrameType)]
    BY <1>1, <1>3, <1>4
  <1>6. \A d \in Cores : frames'[d] = IF d = c THEN q ELSE frames[d]
    BY <1>1, <1>4
  <1>7. DOMAIN frames[c] = 1 .. Len(frames[c]) /\ Len(frames[c]) \in Nat
    BY <1>1
  <1>8. ASSUME NEW n \in DOMAIN q
        PROVE  (n \in DOMAIN frames[c] /\ q[n] = frames[c][n]) \/ q[n] = f
    BY <1>3, <1>7
  <1> QED BY <1>5, <1>6, <1>8 DEF f

LEMMA DropFrame ==
  ASSUME TInv, NEW c \in Cores, Depth(c) > 0,
         frames' = [frames EXCEPT ![c] = SubSeq(@, 1, Len(@) - 1)]
  PROVE  /\ frames' \in [Cores -> Seq(FrameType)]
         /\ \A d \in Cores : \A n \in DOMAIN frames'[d] :
               /\ n \in DOMAIN frames[d] /\ frames'[d][n] = frames[d][n]
               /\ ~(d = c /\ n = Depth(c))
  <1>1. frames \in [Cores -> Seq(FrameType)]
    BY DEF TInv, TypeOK
  <1> DEFINE q == SubSeq(frames[c], 1, Len(frames[c]) - 1)
  <1>2. /\ q \in Seq(FrameType) /\ Len(q) = Len(frames[c]) - 1
        /\ \A k \in 1 .. Len(frames[c]) - 1 : q[k] = frames[c][k]
    BY <1>1, SeqShorter DEF Depth
  <1>3. frames' = [frames EXCEPT ![c] = q]
    BY <1>1
  <1> HIDE DEF q
  <1>4. frames' \in [Cores -> Seq(FrameType)]
    BY <1>1, <1>2, <1>3
  <1>5. \A d \in Cores : frames'[d] = IF d = c THEN q ELSE frames[d]
    BY <1>1, <1>3
  <1>6. DOMAIN frames[c] = 1 .. Len(frames[c]) /\ Len(frames[c]) \in Nat
    BY <1>1
  <1>7. DOMAIN q = 1 .. Len(frames[c]) - 1
    BY <1>2
  <1> QED BY <1>2, <1>4, <1>5, <1>6, <1>7 DEF Depth

-----------------------------------------------------------------------------
(* The type invariant is preserved.                                        *)

LEMMA BeginCallTInv ==
  ASSUME TInv, NEW c \in Cores, NEW r \in Requests \cup TableCalls, BeginCall(c, r)
  PROVE  TInv'
  <1>1. call \in [Cores -> {NoCall} \cup TableCalls \cup RequestType]
    BY DEF TInv, TypeOK
  <1>2. r \in TableCalls \cup RequestType
    BY IdtAssumption
  <1>3. call' \in [Cores -> {NoCall} \cup TableCalls \cup RequestType]
    BY <1>1, <1>2 DEF BeginCall
  <1>4. TypeOK'
    BY <1>3 DEF BeginCall, TInv, TypeOK
  <1>5. CallsFit'
    <2> SUFFICES ASSUME NEW d \in Cores,
                        call'[d] \in RequestType, call'[d] # NoCall,
                        call'[d].fixed \/ call'[d].base # 0
                 PROVE  call'[d].base + call'[d].cnt - 1 \in Vectors
      BY DEF CallsFit
    <2>1. CASE d # c
      <3>1. call'[d] = call[d]
        BY <1>1, <2>1 DEF BeginCall
      <3> QED BY <3>1 DEF TInv, CallsFit
    <2>2. CASE d = c
      <3>1. call'[d] = r
        BY <1>1, <2>2 DEF BeginCall
      <3>2. ASSUME r \in TableCalls PROVE r.op # "allocate"
        BY <3>2 DEF TableCalls
      <3>3. r.op = "allocate"
        BY <3>1 DEF RequestType
      <3> QED BY <3>1, <3>2, <3>3, IdtAssumption
    <2> QED BY <2>1, <2>2
  <1> QED BY <1>4, <1>5 DEF TInv

(* A call that has ended leaves the others as they are.                    *)
LEMMA CallEnds ==
  ASSUME TInv, NEW c \in Cores, call' = [call EXCEPT ![c] = NoCall]
  PROVE  /\ call' \in [Cores -> {NoCall} \cup TableCalls \cup RequestType]
         /\ CallsFit'
  <1>1. call \in [Cores -> {NoCall} \cup TableCalls \cup RequestType]
    BY DEF TInv, TypeOK
  <1>2. \A d \in Cores : call'[d] = IF d = c THEN NoCall ELSE call[d]
    BY <1>1
  <1> QED BY <1>1, <1>2 DEF TInv, CallsFit

LEMMA GrantTypes ==
  ASSUME TInv, NEW c \in Cores, NEW b \in SUBSET Vectors, Grant(c, b)
  PROVE  interrupt_blocked' \subseteq Vectors /\ uses' \in [Vectors -> Nat]
  <1>1. interrupt_blocked \subseteq Vectors /\ uses \in [Vectors -> Nat]
    BY DEF TInv, TypeOK
  <1> QED BY <1>1 DEF Grant

LEMMA AllocateTInv ==
  ASSUME TInv, NEW c \in Cores, call[c] # NoCall, interrupt_allocate(c),
         UNCHANGED <<lock, frames, service>>
  PROVE  TInv'
  <1>1. UNCHANGED <<interrupt_funcs, shell, lock, frames, service>>
    BY DEF interrupt_allocate
  <1>2. ASSUME NEW b \in SUBSET Vectors, Grant(c, b) PROVE TInv'
    <2>1. call' = [call EXCEPT ![c] = NoCall] /\ refused' = refused
      BY <1>2 DEF Grant
    <2> QED BY <1>1, <1>2, <2>1, CallEnds, GrantTypes DEF TInv, TypeOK
  <1>3. ASSUME call[c] \in RequestType, Refuse(c) PROVE TInv'
    <2>1. call' = [call EXCEPT ![c] = NoCall] /\ refused' = refused \cup {call[c]}
          /\ UNCHANGED <<interrupt_blocked, uses>>
      BY <1>3 DEF Refuse
    <2>2. refused' \subseteq RequestType
      BY <1>3, <2>1 DEF TInv, TypeOK
    <2> QED BY <1>1, <2>1, <2>2, CallEnds DEF TInv, TypeOK
  <1>4. ASSUME call[c] \in RequestType,
               call' = [call EXCEPT ![c] = WithoutWish(@)],
               UNCHANGED <<interrupt_blocked, uses, refused>>
        PROVE  TInv'
    <2>1. call \in [Cores -> {NoCall} \cup TableCalls \cup RequestType]
      BY DEF TInv, TypeOK
    <2> DEFINE w == WithoutWish(call[c])
    <2>2. w \in RequestType /\ ~w.fixed /\ w.base = 0
      BY <1>4, VectorRange, IdtAssumption DEF WithoutWish, RequestType, Vectors
    <2> HIDE DEF w
    <2>3. call' = [call EXCEPT ![c] = w]
      BY <1>4, <2>1 DEF w
    <2>4. call' \in [Cores -> {NoCall} \cup TableCalls \cup RequestType]
      BY <2>1, <2>2, <2>3
    <2>5. \A d \in Cores : call'[d] = IF d = c THEN w ELSE call[d]
      BY <2>1, <2>3
    <2>6. CallsFit'
      BY <2>2, <2>5 DEF TInv, CallsFit
    <2> QED BY <1>1, <1>4, <2>4, <2>6 DEF TInv, TypeOK
  <1> QED BY <1>2, <1>3, <1>4, AllocateCases

LEMMA PerformCallTInv ==
  ASSUME TInv, NEW c \in Cores, PerformCall(c)
  PROVE  TInv'
  <1> DEFINE v == call[c].pair[1]
             h == call[c].pair[2]
  <1>1. call[c] # NoCall /\ UNCHANGED <<lock, frames, service>>
    BY DEF PerformCall
  <1>2. interrupt_funcs \in [Vectors -> [Slots -> Handlers \cup {NoHandler}]]
        /\ shell \in [Cores -> SUBSET Nat] /\ frames \in [Cores -> Seq(FrameType)]
    BY DEF TInv, TypeOK
  <1>3. CASE interrupt_registerhandler(c)
    <2>1. v \in Vectors /\ h \in Handlers
      BY <1>1, <1>3, PendingCall DEF interrupt_registerhandler
    <2>2. call' = [call EXCEPT ![c] = NoCall]
          /\ UNCHANGED <<interrupt_blocked, uses, refused>>
      BY <1>3 DEF interrupt_registerhandler
    <2>3. Depth(c) \in Nat
      BY <1>2 DEF Depth
    <2>4. interrupt_funcs' \in [Vectors -> [Slots -> Handlers \cup {NoHandler}]]
      <3>1. ASSUME NEW s \in Slots,
                   interrupt_funcs' = [interrupt_funcs EXCEPT ![v][s] = h]
            PROVE  interrupt_funcs' \in [Vectors -> [Slots -> Handlers \cup {NoHandler}]]
        BY <1>2, <2>1, <3>1
      <3> QED BY <1>2, <1>3, <3>1 DEF interrupt_registerhandler
    <2>5. shell' = shell \/ shell' = [shell EXCEPT ![c] = @ \cup {Depth(c)}]
      BY <1>3 DEF interrupt_registerhandler
    <2>6. [shell EXCEPT ![c] = @ \cup {Depth(c)}] \in [Cores -> SUBSET Nat]
      BY <1>2, <2>3
    <2>7. shell' \in [Cores -> SUBSET Nat]
      BY <1>2, <2>5, <2>6
    <2> QED BY <1>1, <2>2, <2>4, <2>7, CallEnds DEF TInv, TypeOK
  <1>4. CASE interrupt_unregisterhandler(c)
    <2>1. v \in Vectors
      BY <1>1, <1>4, PendingCall DEF interrupt_unregisterhandler
    <2>2. call' = [call EXCEPT ![c] = NoCall]
          /\ UNCHANGED <<interrupt_blocked, shell, uses, refused>>
      BY <1>4 DEF interrupt_unregisterhandler
    <2>3. interrupt_funcs' \in [Vectors -> [Slots -> Handlers \cup {NoHandler}]]
      BY <1>2, <1>4, <2>1 DEF interrupt_unregisterhandler
    <2> QED BY <1>1, <2>2, <2>3, CallEnds DEF TInv, TypeOK
  <1>5. CASE interrupt_allocate(c)
    BY <1>1, <1>5, AllocateTInv
  <1> QED BY <1>3, <1>4, <1>5 DEF PerformCall

(* The steps of the dispatch change frames, shell, service and lock only.  *)
DispatchVars == <<interrupt_funcs, interrupt_blocked, call, uses, refused>>

LEMMA DispatchTInv ==
  ASSUME TInv, UNCHANGED DispatchVars,
         lock' \in {0, 1}, frames' \in [Cores -> Seq(FrameType)],
         shell' \in [Cores -> SUBSET Nat], service' \in [Cores -> SUBSET Vectors]
  PROVE  TInv'
  BY DEF TInv, TypeOK, CallsFit, DispatchVars

LEMMA EnterTypes ==
  ASSUME TInv, NEW c \in Cores, Depth(c) > 0,
         NEW p \in {"lock", "scan", "handler", "panic"}, Enter(c, p)
  PROVE  /\ frames' \in [Cores -> Seq(FrameType)]
         /\ \A d \in Cores : DOMAIN frames'[d] = DOMAIN frames[d]
         /\ \A d \in Cores : \A n \in DOMAIN frames[d] :
               frames'[d][n] = IF d = c /\ n = Depth(c)
                               THEN Frame(Top(c).vector, p, Top(c).slot, Top(c).called)
                               ELSE frames[d][n]
  <1>1. Frame(Top(c).vector, p, Top(c).slot, Top(c).called) \in FrameType
    BY TopFrame DEF Frame, FrameType
  <1> QED BY <1>1, ReplaceTop DEF Enter

(* The frame of the handler that is called next.                           *)
LEMMA HandlerFrame ==
  ASSUME TInv, NEW c \in Cores, Depth(c) > 0, NEW s \in Left(c)
  PROVE  LET v == Top(c).vector
             h == interrupt_funcs[v][s]
         IN  /\ h \in Handlers /\ s \in Slots /\ v \in Vectors
             /\ Append(Top(c).called, h) \in Seq(Handlers)
             /\ Append(Top(c).called, h)[Len(Append(Top(c).called, h))] = h
             /\ Append(Top(c).called, h) # << >>
             /\ Frame(v, "handler", s, Append(Top(c).called, h)) \in FrameType
  <1> DEFINE v == Top(c).vector
             h == interrupt_funcs[v][s]
             q == Top(c).called
  <1>1. v \in Vectors /\ q \in Seq(Handlers)
    BY TopFrame
  <1>2. s \in Slots /\ h # NoHandler
    BY DEF Left
  <1>3. h \in Handlers
    BY <1>1, <1>2 DEF TInv, TypeOK
  <1> HIDE DEF h, q
  <1>4. Append(q, h) \in Seq(Handlers) /\ Len(Append(q, h)) = Len(q) + 1
        /\ Append(q, h)[Len(q) + 1] = h
    BY <1>1, <1>3
  <1>5. Append(q, h) # << >>
    BY <1>1, <1>3, <1>4
  <1>6. s \in 0 .. SlotCount
    BY <1>2, IdtAssumption DEF Slots
  <1>7. Frame(v, "handler", s, Append(q, h)) \in FrameType
    BY <1>1, <1>4, <1>6 DEF Frame, FrameType
  <1> QED BY <1>1, <1>2, <1>3, <1>4, <1>5, <1>7 DEF h, q

LEMMA TInvNext == TInv /\ [Next]_vars => TInv'
  <1> SUFFICES ASSUME TInv, [Next]_vars PROVE TInv'
    OBVIOUS
  <1>1. CASE UNCHANGED vars
    BY <1>1 DEF vars, TInv, TypeOK, CallsFit
  <1>2. ASSUME NEW c \in Cores, NEW r \in Requests \cup TableCalls, BeginCall(c, r)
        PROVE  TInv'
    BY <1>2, BeginCallTInv
  <1>3. ASSUME NEW c \in Cores, PerformCall(c) PROVE TInv'
    BY <1>3, PerformCallTInv
  <1>4. lock \in {0, 1} /\ shell \in [Cores -> SUBSET Nat]
        /\ service \in [Cores -> SUBSET Vectors] /\ frames \in [Cores -> Seq(FrameType)]
    BY DEF TInv, TypeOK
  <1>5. ASSUME NEW c \in Cores, NEW v \in Sources, Interrupt(c, v) PROVE TInv'
    <2>1. v \in Vectors
      BY IdtAssumption
    <2>2. UNCHANGED DispatchVars /\ UNCHANGED <<lock, shell>>
      BY <1>5 DEF Interrupt, DispatchVars
    <2>3. frames' \in [Cores -> Seq(FrameType)]
      BY <1>5, <2>1, AddFrame DEF Interrupt
    <2>4. service' \in [Cores -> SUBSET Vectors]
      BY <1>4, <1>5, <2>1 DEF Interrupt
    <2> QED BY <1>4, <2>2, <2>3, <2>4, DispatchTInv
  <1>6. ASSUME NEW c \in Cores, NEW v \in Sources, Exception(c, v) PROVE TInv'
    <2>1. UNCHANGED DispatchVars /\ UNCHANGED <<lock, shell, service>>
      BY <1>6 DEF Exception, DispatchVars
    <2>2. frames' \in [Cores -> Seq(FrameType)]
      BY <1>6, IdtAssumption, AddFrame DEF Exception
    <2> QED BY <1>4, <2>1, <2>2, DispatchTInv
  <1>7. ASSUME NEW c \in Cores, DispatchLock(c) PROVE TInv'
    <2>1. UNCHANGED DispatchVars /\ UNCHANGED <<shell, service>> /\ lock' = 1
      BY <1>7 DEF DispatchLock, DispatchVars
    <2>2. frames' \in [Cores -> Seq(FrameType)]
      BY <1>7, EnterTypes DEF DispatchLock, InPhase
    <2> QED BY <1>4, <2>1, <2>2, DispatchTInv
  <1>8. ASSUME NEW c \in Cores, DispatchHandler(c) PROVE TInv'
    <2>1. UNCHANGED DispatchVars /\ UNCHANGED <<lock, shell, service>>
      BY <1>8 DEF DispatchHandler, DispatchVars
    <2>2. frames' \in [Cores -> Seq(FrameType)]
      BY <1>8, HandlerFrame, ReplaceTop DEF DispatchHandler, InPhase
    <2> QED BY <1>4, <2>1, <2>2, DispatchTInv
  <1>9. ASSUME NEW c \in Cores, HandlerReturn(c) PROVE TInv'
    <2>1. UNCHANGED DispatchVars /\ UNCHANGED <<lock, shell, service>>
      BY <1>9 DEF HandlerReturn, DispatchVars
    <2>2. frames' \in [Cores -> Seq(FrameType)]
      BY <1>9, EnterTypes DEF HandlerReturn, InPhase
    <2> QED BY <1>4, <2>1, <2>2, DispatchTInv
  <1>10. ASSUME NEW c \in Cores, DispatchEnd(c) PROVE TInv'
    <2>1. UNCHANGED DispatchVars /\ lock' = 0 /\ Depth(c) > 0 /\ Leave(c)
      BY <1>10 DEF DispatchEnd, DispatchVars, InPhase
    <2>2. Depth(c) \in Nat
      BY <1>4 DEF Depth
    <2>3. ASSUME shell' = [shell EXCEPT ![c] = @ \cup {Depth(c)}],
                 Enter(c, "panic"), UNCHANGED service
          PROVE  TInv'
      <3>1. shell' \in [Cores -> SUBSET Nat]
        BY <1>4, <2>2, <2>3
      <3>2. frames' \in [Cores -> Seq(FrameType)]
        BY <2>1, <2>3, EnterTypes
      <3> QED BY <1>4, <2>1, <2>3, <3>1, <3>2, DispatchTInv
    <2>4. ASSUME service' = [service EXCEPT ![c] =
                     IF Top(c).vector >= FirstIrq
                     THEN interrupt_sendeoi(@, Top(c).vector) ELSE @],
                 frames' = [frames EXCEPT ![c] = SubSeq(@, 1, Len(@) - 1)],
                 UNCHANGED shell
          PROVE  TInv'
      <3>1. service' \in [Cores -> SUBSET Vectors]
        <4>1. interrupt_sendeoi(service[c], Top(c).vector) \subseteq Vectors
          BY <1>4 DEF interrupt_sendeoi
        <4> QED BY <1>4, <2>4, <4>1
      <3>2. frames' \in [Cores -> Seq(FrameType)]
        BY <2>1, <2>4, DropFrame
      <3> QED BY <1>4, <2>1, <2>4, <3>1, <3>2, DispatchTInv
    <2> QED BY <2>1, <2>3, <2>4 DEF Leave
  <1> QED BY <1>1, <1>2, <1>3, <1>5, <1>6, <1>7, <1>8, <1>9, <1>10 DEF Next, Proceed

(* Every variable keeps its type: the tables keep their size, a granted    *)
(* block lies within the vectors.                                          *)
THEOREM TypeCorrect == Spec => []TypeOK
  <1>1. Spec => []TInv
    BY InitTInv, TInvNext, PTL DEF Spec
  <1>2. TInv => TypeOK
    BY DEF TInv
  <1> QED BY <1>1, <1>2, PTL

-----------------------------------------------------------------------------
(* Reservations.                                                           *)

(* A vector that was granted exclusively stays reserved.                   *)
Reserved == \A v \in Vectors : uses[v] > 0 => v \in interrupt_blocked

AllocInv == TInv /\ Reserved /\ ExclusiveIsExclusive /\ RefusalIsHonest

LEMMA InitAllocInv == Init => AllocInv
  BY InitTInv DEF Init, AllocInv, Reserved, ExclusiveIsExclusive, RefusalIsHonest

(* Reserving more vectors keeps what justified a refusal.                  *)
LEMMA RefusalsStayHonest ==
  ASSUME RefusalIsHonest, interrupt_blocked \subseteq interrupt_blocked',
         NEW r, r \in refused \/ Refusable(r)
  PROVE  Refusable(r)'
  <1>1. Refusable(r)
    BY DEF RefusalIsHonest, Refusable
  <1> QED BY <1>1 DEF Refusable, Block

LEMMA AllocInvNext == AllocInv /\ [Next]_vars => AllocInv'
  <1> SUFFICES ASSUME AllocInv, [Next]_vars PROVE AllocInv'
    OBVIOUS
  <1>1. TInv /\ TInv' /\ uses \in [Vectors -> Nat]
    BY TInvNext DEF AllocInv, TInv, TypeOK
  <1>2. ASSUME UNCHANGED <<interrupt_blocked, uses, refused>> PROVE AllocInv'
    BY <1>1, <1>2 DEF AllocInv, Reserved, ExclusiveIsExclusive, RefusalIsHonest, Block
  <1>3. ASSUME NEW c \in Cores, call[c] # NoCall, interrupt_allocate(c) PROVE AllocInv'
    <2>1. ASSUME NEW b \in SUBSET Vectors, IsFree(b), Grant(c, b) PROVE AllocInv'
      <3>1. \A v \in b : uses[v] = 0
        BY <1>1, <2>1 DEF IsFree, AllocInv, Reserved
      <3>2. \A v \in Vectors : uses'[v] =
               IF v \in b /\ (call[c].exclusive \/ uses[v] > 0) THEN uses[v] + 1 ELSE uses[v]
        BY <2>1 DEF Grant
      <3>3. \A v \in Vectors : uses'[v] = IF v \in b /\ call[c].exclusive THEN 1 ELSE uses[v]
        BY <1>1, <3>1, <3>2
      <3>4. interrupt_blocked' =
               interrupt_blocked \cup (IF call[c].exclusive THEN b ELSE {})
            /\ refused' = refused
        BY <2>1 DEF Grant
      <3>5. Reserved'
        BY <3>3, <3>4 DEF AllocInv, Reserved
      <3>6. ExclusiveIsExclusive'
        BY <1>1, <3>3 DEF AllocInv, ExclusiveIsExclusive
      <3>7. RefusalIsHonest'
        <4>1. \A r \in refused : Refusable(r)'
          BY <3>4, RefusalsStayHonest DEF AllocInv
        <4> QED BY <3>4, <4>1 DEF RefusalIsHonest, Refusable
      <3> QED BY <1>1, <3>5, <3>6, <3>7 DEF AllocInv
    <2>2. ASSUME Refusable(call[c]), Refuse(c) PROVE AllocInv'
      <3>1. refused' = refused \cup {call[c]} /\ UNCHANGED <<interrupt_blocked, uses>>
        BY <2>2 DEF Refuse
      <3>2. \A r \in refused' : Refusable(r)'
        BY <2>2, <3>1, RefusalsStayHonest DEF AllocInv
      <3>3. RefusalIsHonest'
        BY <3>2 DEF RefusalIsHonest, Refusable
      <3> QED BY <1>1, <3>1, <3>3 DEF AllocInv, Reserved, ExclusiveIsExclusive
    <2> QED BY <1>1, <1>2, <1>3, <2>1, <2>2, AllocateCases
  <1>4. ASSUME NEW c \in Cores, PerformCall(c) PROVE AllocInv'
    <2>1. CASE interrupt_registerhandler(c) \/ interrupt_unregisterhandler(c)
      BY <1>2, <2>1 DEF interrupt_registerhandler, interrupt_unregisterhandler
    <2>2. CASE interrupt_allocate(c)
      BY <1>3, <1>4, <2>2 DEF PerformCall
    <2> QED BY <1>4, <2>1, <2>2 DEF PerformCall
  <1>5. CASE UNCHANGED vars
    BY <1>2, <1>5 DEF vars
  <1>6. ASSUME NEW c \in Cores, NEW r \in Requests \cup TableCalls, BeginCall(c, r)
        PROVE  AllocInv'
    BY <1>2, <1>6 DEF BeginCall
  <1>7. ASSUME NEW c \in Cores, NEW v \in Sources, Interrupt(c, v) \/ Exception(c, v)
        PROVE  AllocInv'
    BY <1>2, <1>7 DEF Interrupt, Exception
  <1>8. ASSUME NEW c \in Cores,
               \/ DispatchLock(c) \/ DispatchHandler(c)
               \/ HandlerReturn(c) \/ DispatchEnd(c)
        PROVE  AllocInv'
    BY <1>2, <1>8 DEF DispatchLock, DispatchHandler, HandlerReturn, DispatchEnd
  <1> QED BY <1>4, <1>5, <1>6, <1>7, <1>8 DEF Next, Proceed

LEMMA AllocInvHolds == Spec => []AllocInv
  BY InitAllocInv, AllocInvNext, PTL DEF Spec

(* interrupt_allocate never grants a vector again that it has granted      *)
(* exclusively.                                                            *)
THEOREM ExclusiveGrantedOnce == Spec => []ExclusiveIsExclusive
  <1>1. AllocInv => ExclusiveIsExclusive
    BY DEF AllocInv
  <1> QED BY <1>1, AllocInvHolds, PTL

(* interrupt_allocate fails only when the fixed block has a reserved       *)
(* vector, or no block below the last vector is free.                      *)
THEOREM RefusalsJustified == Spec => []RefusalIsHonest
  <1>1. AllocInv => RefusalIsHonest
    BY DEF AllocInv
  <1> QED BY <1>1, AllocInvHolds, PTL

-----------------------------------------------------------------------------
(* Dispatch.                                                               *)

(* One dispatch at most, on all cores and at all depths, goes through the  *)
(* handlers, and the lock is taken then.                                   *)
Dispatching(c, n) == n \in DOMAIN frames[c] /\ frames[c][n].phase \in {"scan", "handler"}

OneDispatch ==
    /\ \A c \in Cores : \A n \in DOMAIN frames[c] : Dispatching(c, n) => lock = 1
    /\ \A c, d \in Cores : \A n \in DOMAIN frames[c], k \in DOMAIN frames[d] :
          Dispatching(c, n) /\ Dispatching(d, k) => c = d /\ n = k

(* A handler that runs is in the slot it was called from: it has not been  *)
(* unregistered since, by any core.                                        *)
RunningIsRegistered ==
    \A c \in Cores : \A n \in DOMAIN frames[c] :
        LET f == frames[c][n] IN
        f.phase = "handler" =>
            /\ f.slot \in Slots /\ f.called # << >>
            /\ f.called[Len(f.called)] = interrupt_funcs[f.vector][f.slot]

DispatchInv == TInv /\ OneDispatch /\ RunningIsRegistered

LEMMA InitDispatchInv == Init => DispatchInv
  <1> SUFFICES ASSUME Init PROVE DispatchInv
    OBVIOUS
  <1>1. \A c \in Cores : frames[c] = << >>
    BY DEF Init
  <1>2. DOMAIN << >> = {}
    OBVIOUS
  <1>3. \A c \in Cores : DOMAIN frames[c] = {}
    BY <1>1, <1>2, Zenon
  <1> QED BY <1>3, InitTInv DEF DispatchInv, OneDispatch, RunningIsRegistered

(* Nothing happens to the frames, and nobody is in a dispatch if the       *)
(* handlers' table changes.                                                *)
LEMMA QuietStep ==
  ASSUME DispatchInv, TInv', UNCHANGED <<frames, lock>>,
         lock = 0 \/ UNCHANGED interrupt_funcs
  PROVE  DispatchInv'
  <1>1. OneDispatch'
    BY DEF DispatchInv, OneDispatch, Dispatching
  <1>2. CASE UNCHANGED interrupt_funcs
    <2>1. RunningIsRegistered'
      BY <1>2 DEF DispatchInv, RunningIsRegistered
    <2> QED BY <1>1, <2>1 DEF DispatchInv
  <1>3. CASE lock = 0
    <2>1. \A c \in Cores : \A n \in DOMAIN frames[c] : frames[c][n].phase # "handler"
      BY <1>3 DEF DispatchInv, OneDispatch, Dispatching
    <2>2. RunningIsRegistered'
      BY <2>1 DEF RunningIsRegistered
    <2> QED BY <1>1, <2>2 DEF DispatchInv
  <1> QED BY <1>2, <1>3

(* A frame that waits for the lock is added.                               *)
LEMMA AddedStep ==
  ASSUME DispatchInv, TInv', NEW c \in Cores, NEW v \in Vectors,
         frames' = [frames EXCEPT ![c] = Append(@, NewFrame(v))],
         UNCHANGED <<lock, interrupt_funcs>>
  PROVE  DispatchInv'
  <1>1. \A d \in Cores : \A n \in DOMAIN frames'[d] :
           \/ n \in DOMAIN frames[d] /\ frames'[d][n] = frames[d][n]
           \/ frames'[d][n] = NewFrame(v)
    BY AddFrame DEF DispatchInv
  <1>2. NewFrame(v).phase = "lock"
    BY DEF NewFrame, Frame
  <1>3. \A d \in Cores : \A n \in DOMAIN frames'[d] :
           frames'[d][n].phase \in {"scan", "handler"} =>
               n \in DOMAIN frames[d] /\ frames'[d][n] = frames[d][n]
    BY <1>1, <1>2
  <1>4. OneDispatch'
    BY <1>3 DEF DispatchInv, OneDispatch, Dispatching
  <1>5. RunningIsRegistered'
    BY <1>3 DEF DispatchInv, RunningIsRegistered
  <1> QED BY <1>4, <1>5 DEF DispatchInv

(* A dispatch begins, or goes on to a handler or from it.                  *)
LEMMA TopStep ==
  ASSUME DispatchInv, TInv', NEW c \in Cores, Depth(c) > 0, NEW f \in FrameType,
         frames' = [frames EXCEPT ![c][Depth(c)] = f],
         UNCHANGED interrupt_funcs,
         lock' = 1,
         lock = 0 \/ Top(c).phase \in {"scan", "handler"},
         f.phase = "handler" => /\ f.slot \in Slots /\ f.called # << >>
                                /\ f.called[Len(f.called)] = interrupt_funcs[f.vector][f.slot]
  PROVE  DispatchInv'
  <1>1. /\ \A d \in Cores : DOMAIN frames'[d] = DOMAIN frames[d]
        /\ \A d \in Cores : \A n \in DOMAIN frames[d] :
              frames'[d][n] = IF d = c /\ n = Depth(c) THEN f ELSE frames[d][n]
    BY ReplaceTop DEF DispatchInv
  <1>2. Depth(c) \in DOMAIN frames[c]
    BY TopFrame DEF DispatchInv
  <1>3. \A d \in Cores : \A n \in DOMAIN frames[d] :
           Dispatching(d, n) => d = c /\ n = Depth(c)
    BY <1>2 DEF DispatchInv, OneDispatch, Dispatching, Top
  <1>4. \A d \in Cores : \A n \in DOMAIN frames'[d] :
           Dispatching(d, n)' => d = c /\ n = Depth(c)
    <2>1. ASSUME NEW d \in Cores, NEW n \in DOMAIN frames'[d],
                 frames'[d][n].phase \in {"scan", "handler"}
          PROVE  d = c /\ n = Depth(c)
      <3>1. n \in DOMAIN frames[d]
        BY <1>1, <2>1
      <3>2. CASE ~(d = c /\ n = Depth(c))
        <4>1. frames'[d][n] = frames[d][n]
          BY <1>1, <3>1, <3>2
        <4> QED BY <1>3, <2>1, <3>1, <4>1 DEF Dispatching
      <3> QED BY <3>2
    <2> QED BY <2>1 DEF Dispatching
  <1>5. OneDispatch'
    <2>1. \A d, e \in Cores : \A n \in DOMAIN frames'[d], k \in DOMAIN frames'[e] :
             Dispatching(d, n)' /\ Dispatching(e, k)' => d = e /\ n = k
      BY <1>4
    <2> QED BY <2>1 DEF OneDispatch
  <1>6. RunningIsRegistered'
    BY <1>1 DEF DispatchInv, RunningIsRegistered
  <1> QED BY <1>5, <1>6 DEF DispatchInv

(* A dispatch ends.                                                        *)
LEMMA EndStep ==
  ASSUME DispatchInv, TInv', NEW c \in Cores, DispatchEnd(c)
  PROVE  DispatchInv'
  <1>1. Depth(c) > 0 /\ Top(c).phase = "scan" /\ Leave(c) /\ lock' = 0
        /\ interrupt_funcs' = interrupt_funcs
    BY DEF DispatchEnd, InPhase
  <1>2. TInv /\ Depth(c) \in DOMAIN frames[c]
    BY <1>1, TopFrame DEF DispatchInv
  <1>3. \A d \in Cores : \A n \in DOMAIN frames[d] :
           Dispatching(d, n) => d = c /\ n = Depth(c)
    BY <1>1, <1>2 DEF DispatchInv, OneDispatch, Dispatching, Top
  <1>4. \A d \in Cores : \A n \in DOMAIN frames'[d] :
           frames'[d][n].phase \notin {"scan", "handler"}
    <2>1. ASSUME Enter(c, "panic")
          PROVE  \A d \in Cores : \A n \in DOMAIN frames'[d] :
                     frames'[d][n].phase \notin {"scan", "handler"}
      <3>1. Frame(Top(c).vector, "panic", Top(c).slot, Top(c).called).phase = "panic"
        BY DEF Frame
      <3> QED BY <1>1, <1>2, <1>3, <2>1, <3>1, EnterTypes DEF Dispatching
    <2>2. ASSUME frames' = [frames EXCEPT ![c] = SubSeq(@, 1, Len(@) - 1)]
          PROVE  \A d \in Cores : \A n \in DOMAIN frames'[d] :
                     frames'[d][n].phase \notin {"scan", "handler"}
      <3>1. \A d \in Cores : \A n \in DOMAIN frames'[d] :
               /\ n \in DOMAIN frames[d] /\ frames'[d][n] = frames[d][n]
               /\ ~(d = c /\ n = Depth(c))
        BY <1>1, <1>2, <2>2, DropFrame
      <3> SUFFICES ASSUME NEW d \in Cores, NEW n \in DOMAIN frames'[d],
                          frames'[d][n].phase \in {"scan", "handler"}
                   PROVE  FALSE
        OBVIOUS
      <3>2. n \in DOMAIN frames[d] /\ frames'[d][n] = frames[d][n]
            /\ ~(d = c /\ n = Depth(c))
        BY <3>1
      <3> QED BY <1>3, <3>2 DEF Dispatching
    <2> QED BY <1>1, <2>1, <2>2 DEF Leave
  <1>5. OneDispatch' /\ RunningIsRegistered'
    BY <1>4 DEF OneDispatch, RunningIsRegistered, Dispatching
  <1> QED BY <1>5 DEF DispatchInv

LEMMA DispatchInvNext == DispatchInv /\ [Next]_vars => DispatchInv'
  <1> SUFFICES ASSUME DispatchInv, [Next]_vars PROVE DispatchInv'
    OBVIOUS
  <1>1. TInv /\ TInv'
    BY TInvNext DEF DispatchInv
  <1>2. CASE UNCHANGED vars
    BY <1>1, <1>2, QuietStep DEF vars
  <1>3. ASSUME NEW c \in Cores, NEW r \in Requests \cup TableCalls, BeginCall(c, r)
        PROVE  DispatchInv'
    BY <1>1, <1>3, QuietStep DEF BeginCall
  <1>4. ASSUME NEW c \in Cores, PerformCall(c) PROVE DispatchInv'
    BY <1>1, <1>4, QuietStep DEF PerformCall
  <1>5. ASSUME NEW c \in Cores, NEW v \in Sources, Interrupt(c, v) \/ Exception(c, v)
        PROVE  DispatchInv'
    BY <1>1, <1>5, AddedStep, IdtAssumption DEF Interrupt, Exception
  <1>6. ASSUME NEW c \in Cores, NEW p \in {"scan"}, Depth(c) > 0, Enter(c, p),
               UNCHANGED interrupt_funcs, lock' = 1,
               lock = 0 \/ Top(c).phase \in {"scan", "handler"}
        PROVE  DispatchInv'
    <2> DEFINE f == Frame(Top(c).vector, p, Top(c).slot, Top(c).called)
    <2>1. f \in FrameType /\ f.phase # "handler"
      BY <1>1, <1>6, TopFrame DEF Frame, FrameType
    <2>2. frames' = [frames EXCEPT ![c][Depth(c)] = f]
      BY <1>6 DEF Enter
    <2> HIDE DEF f
    <2> QED BY <1>1, <1>6, <2>1, <2>2, TopStep
  <1>7. ASSUME NEW c \in Cores, DispatchLock(c) PROVE DispatchInv'
    BY <1>6, <1>7 DEF DispatchLock, InPhase
  <1>8. ASSUME NEW c \in Cores, InPhase(c, "scan") \/ InPhase(c, "handler") PROVE lock = 1
    <2>1. Depth(c) \in DOMAIN frames[c]
      BY <1>1, <1>8, TopFrame DEF InPhase
    <2> QED BY <1>8, <2>1 DEF InPhase, Top, DispatchInv, OneDispatch, Dispatching
  <1>9. ASSUME NEW c \in Cores, HandlerReturn(c) PROVE DispatchInv'
    BY <1>6, <1>8, <1>9 DEF HandlerReturn, InPhase
  <1>10. ASSUME NEW c \in Cores, DispatchHandler(c) PROVE DispatchInv'
    <2>1. Depth(c) > 0 /\ Top(c).phase = "scan" /\ lock = 1
          /\ UNCHANGED <<lock, interrupt_funcs>>
      BY <1>8, <1>10 DEF DispatchHandler, InPhase
    <2>2. PICK s \in Left(c) :
             frames' = [frames EXCEPT ![c][Depth(c)] =
                 Frame(Top(c).vector, "handler", s,
                       Append(Top(c).called, interrupt_funcs[Top(c).vector][s]))]
      BY <1>10 DEF DispatchHandler
    <2> DEFINE q == Append(Top(c).called, interrupt_funcs[Top(c).vector][s])
               f == Frame(Top(c).vector, "handler", s, q)
    <2>3. f \in FrameType /\ s \in Slots /\ q # << >>
          /\ q[Len(q)] = interrupt_funcs[Top(c).vector][s]
      BY <1>1, <2>1, HandlerFrame
    <2>4. f.vector = Top(c).vector /\ f.slot = s /\ f.called = q
      BY DEF Frame
    <2>5. frames' = [frames EXCEPT ![c][Depth(c)] = f]
      BY <2>2
    <2> HIDE DEF q, f
    <2> QED BY <1>1, <2>1, <2>3, <2>4, <2>5, TopStep
  <1>11. ASSUME NEW c \in Cores, DispatchEnd(c) PROVE DispatchInv'
    BY <1>1, <1>11, EndStep
  <1> QED BY <1>2, <1>3, <1>4, <1>5, <1>7, <1>9, <1>10, <1>11 DEF Next, Proceed

(* At any time one dispatch at most calls handlers, and the handler it is  *)
(* in is the one that its slot holds: interrupt_unregisterhandler returns  *)
(* on no core while the handler runs.                                      *)
THEOREM HandlersRunRegistered == Spec => [](OneDispatch /\ RunningIsRegistered)
  <1>1. Spec => []DispatchInv
    BY InitDispatchInv, DispatchInvNext, PTL DEF Spec
  <1>2. DispatchInv => OneDispatch /\ RunningIsRegistered
    BY DEF DispatchInv
  <1> QED BY <1>1, <1>2, PTL

-----------------------------------------------------------------------------
(* What a dispatch has called, and what the APIC of a core has in service. *)

InOrder(f) ==
    /\ f.phase = "lock" => f.slot = 0 /\ f.called = << >>
    /\ f.phase \in {"scan", "handler"} =>
          /\ Len(f.called) = Cardinality(Taken(f.vector, f.slot))
          /\ \A s \in Taken(f.vector, f.slot) :
                f.called[Cardinality(Taken(f.vector, s))] = interrupt_funcs[f.vector][s]

HandlersInOrder == \A c \in Cores : \A n \in DOMAIN frames[c] : InOrder(frames[c][n])

(* An interrupt meets a core at rest only, so that every frame but the     *)
(* first is an exception's, and the APIC has the first in service if it is *)
(* an interrupt's.                                                         *)
InterruptsFirst ==
    \A c \in Cores :
        /\ Depth(c) = 0 => service[c] = {}
        /\ Depth(c) > 0 => service[c] = {v \in {frames[c][1].vector} : v >= FirstIrq}
        /\ \A n \in DOMAIN frames[c] : n > 1 => frames[c][n].vector < FirstIrq

CompleteInv == DispatchInv /\ HandlersInOrder /\ InterruptsFirst

LEMMA InitCompleteInv == Init => CompleteInv
  <1> SUFFICES ASSUME Init PROVE CompleteInv
    OBVIOUS
  <1>1. \A c \in Cores : frames[c] = << >> /\ service[c] = {}
    BY DEF Init
  <1>2. DOMAIN << >> = {} /\ Len(<< >>) = 0
    OBVIOUS
  <1>3. \A c \in Cores : DOMAIN frames[c] = {} /\ Depth(c) = 0
    BY <1>1, <1>2, Zenon DEF Depth
  <1>4. HandlersInOrder
    BY <1>3 DEF HandlersInOrder
  <1>5. InterruptsFirst
    BY <1>1, <1>3 DEF InterruptsFirst
  <1> QED BY <1>4, <1>5, InitDispatchInv DEF CompleteInv

LEMMA TakenFinite ==
    ASSUME NEW v \in Vectors, NEW s \in Nat
    PROVE  IsFiniteSet(Taken(v, s)) /\ Cardinality(Taken(v, s)) \in Nat
  <1>1. IsFiniteSet(1 .. s)
    BY FS_Interval
  <1>2. Taken(v, s) \subseteq 1 .. s
    BY DEF Taken
  <1> QED BY <1>1, <1>2, FS_Subset, FS_CardinalityType

(* Slot s is the next that holds a handler: calling it keeps the order.    *)
LEMMA NextInOrder ==
  ASSUME TInv, NEW c \in Cores, Depth(c) > 0, Top(c).phase = "scan", InOrder(Top(c)),
         NEW s \in Left(c), IsFirst(s, Left(c))
  PROVE  LET v == Top(c).vector
         IN  InOrder(Frame(v, "handler", s, Append(Top(c).called, interrupt_funcs[v][s])))
  <1> DEFINE v == Top(c).vector
             k == Top(c).slot
             q == Top(c).called
             h == interrupt_funcs[v][s]
             p == Append(q, h)
  <1>1. v \in Vectors /\ k \in Nat /\ q \in Seq(Handlers) /\ h \in Handlers
    BY TopFrame, HandlerFrame
  <1>2. s \in Slots /\ s \in Nat /\ s > k /\ h # NoHandler
    BY DEF Left, Slots
  <1>3. \A t \in Slots : t > k /\ interrupt_funcs[v][t] # NoHandler => s <= t
    BY DEF IsFirst, Left
  <1>4. /\ Len(q) = Cardinality(Taken(v, k))
        /\ \A t \in Taken(v, k) : q[Cardinality(Taken(v, t))] = interrupt_funcs[v][t]
    BY DEF InOrder
  <1>5. /\ p \in Seq(Handlers) /\ Len(p) = Len(q) + 1 /\ p[Len(q) + 1] = h
        /\ \A i \in 1 .. Len(q) : p[i] = q[i]
    BY <1>1
  <1> HIDE DEF v, k, q, h, p
  <1>6. Taken(v, s) = Taken(v, k) \cup {s} /\ s \notin Taken(v, k)
    <2>1. s \in 1 .. SlotCount
      BY <1>2 DEF Slots
    <2>2. \A t \in 1 .. s : t \in 1 .. SlotCount /\ (t \in 1 .. k \/ t > k) /\ (s <= t => t = s)
      BY <1>1, <2>1, IdtAssumption
    <2>3. ASSUME NEW t \in Taken(v, s) PROVE t \in Taken(v, k) \/ t = s
      BY <1>3, <2>2, <2>3 DEF Taken, Slots
    <2>4. s \in Taken(v, s) /\ Taken(v, k) \subseteq Taken(v, s) /\ s \notin Taken(v, k)
      BY <1>1, <1>2 DEF Taken, h
    <2> QED BY <2>3, <2>4
  <1>7. Cardinality(Taken(v, s)) = Len(q) + 1
    <2>1. IsFiniteSet(Taken(v, k))
      BY <1>1, TakenFinite
    <2>2. Cardinality(Taken(v, k) \cup {s}) = Cardinality(Taken(v, k)) + 1
      BY <1>6, <2>1, FS_AddElement
    <2> QED BY <1>4, <1>6, <2>2
  <1>8. ASSUME NEW t \in Taken(v, s)
        PROVE  p[Cardinality(Taken(v, t))] = interrupt_funcs[v][t]
    <2>1. CASE t = s
      BY <1>5, <1>7, <2>1 DEF h
    <2>2. CASE t # s
      <3>1. t \in Taken(v, k) /\ t \in 1 .. k
        BY <1>6, <2>2 DEF Taken
      <3>2. t \in Taken(v, t) /\ Taken(v, t) \subseteq Taken(v, k)
        BY <1>1, <3>1 DEF Taken
      <3>3. Cardinality(Taken(v, t)) <= Len(q) /\ Cardinality(Taken(v, t)) \in Nat
        BY <1>1, <1>4, <3>1, <3>2, TakenFinite, FS_Subset
      <3>4. Cardinality(Taken(v, t)) # 0
        BY <1>1, <3>1, <3>2, TakenFinite, FS_EmptySet
      <3>5. Cardinality(Taken(v, t)) \in 1 .. Len(q)
        BY <1>1, <3>3, <3>4
      <3> QED BY <1>4, <1>5, <3>1, <3>5
    <2> QED BY <2>1, <2>2
  <1> DEFINE f == Frame(v, "handler", s, p)
  <1>9. f.vector = v /\ f.phase = "handler" /\ f.slot = s /\ f.called = p
    BY DEF Frame
  <1> HIDE DEF f
  <1>10. InOrder(f)
    BY <1>5, <1>7, <1>8, <1>9 DEF InOrder
  <1> QED BY <1>10 DEF f, p, h, q, v

(* A step that leaves the table alone, for whatever frames are new.        *)
LEMMA OrderKept ==
  ASSUME HandlersInOrder, UNCHANGED interrupt_funcs,
         \A c \in Cores : \A n \in DOMAIN frames'[c] :
            \/ n \in DOMAIN frames[c] /\ frames'[c][n] = frames[c][n]
            \/ InOrder(frames'[c][n])
  PROVE  HandlersInOrder'
  <1>1. \A c \in Cores : \A n \in DOMAIN frames'[c] : InOrder(frames'[c][n])
    BY DEF HandlersInOrder
  <1>2. ASSUME NEW c \in Cores, NEW n \in DOMAIN frames'[c]
        PROVE  InOrder(frames[c][n])'
    <2>1. PICK f : f = frames'[c][n]
      OBVIOUS
    <2>2. InOrder(f)
      BY <1>1, <2>1
    <2>3. /\ f.phase = "lock" => f.slot = 0 /\ f.called = << >>
          /\ f.phase \in {"scan", "handler"} =>
                /\ Len(f.called) = Cardinality(Taken(f.vector, f.slot)')
                /\ \A s \in Taken(f.vector, f.slot)' :
                      f.called[Cardinality(Taken(f.vector, s)')] = interrupt_funcs'[f.vector][s]
      BY <2>2 DEF InOrder, Taken
    <2> QED BY <2>1, <2>3 DEF InOrder
  <1> QED BY <1>2 DEF HandlersInOrder

(* While nobody holds the lock, nobody is in a dispatch.                   *)
LEMMA OrderUnderChange ==
  ASSUME DispatchInv, HandlersInOrder, lock = 0, UNCHANGED frames
  PROVE  HandlersInOrder'
  <1>1. \A c \in Cores : \A n \in DOMAIN frames[c] :
           /\ frames[c][n].phase \notin {"scan", "handler"}
           /\ frames[c][n].phase = "lock" => frames[c][n].slot = 0 /\ frames[c][n].called = << >>
    BY DEF DispatchInv, OneDispatch, Dispatching, HandlersInOrder, InOrder
  <1> QED BY <1>1 DEF HandlersInOrder, InOrder

LEMMA OrderNext == CompleteInv /\ [Next]_vars => HandlersInOrder'
  <1> SUFFICES ASSUME CompleteInv, [Next]_vars PROVE HandlersInOrder'
    OBVIOUS
  <1> USE DEF CompleteInv
  <1>1. TInv /\ lock \in {0, 1}
    BY DEF DispatchInv, TInv, TypeOK
  <1>2. ASSUME UNCHANGED <<frames, interrupt_funcs>> PROVE HandlersInOrder'
    BY <1>2, OrderKept
  <1>3. CASE UNCHANGED vars
    BY <1>2, <1>3 DEF vars
  <1>4. ASSUME NEW c \in Cores, NEW r \in Requests \cup TableCalls, BeginCall(c, r)
        PROVE  HandlersInOrder'
    BY <1>2, <1>4 DEF BeginCall
  <1>5. ASSUME NEW c \in Cores, PerformCall(c) PROVE HandlersInOrder'
    BY <1>5, OrderUnderChange DEF PerformCall
  <1>6. ASSUME NEW c \in Cores, NEW v \in Sources, Interrupt(c, v) \/ Exception(c, v)
        PROVE  HandlersInOrder'
    <2>1. /\ frames' = [frames EXCEPT ![c] = Append(@, NewFrame(v))]
          /\ v \in Vectors /\ UNCHANGED interrupt_funcs
      BY <1>6, IdtAssumption DEF Interrupt, Exception
    <2>2. InOrder(NewFrame(v))
      BY DEF InOrder, NewFrame, Frame
    <2> QED BY <1>1, <2>1, <2>2, AddFrame, OrderKept
  <1>7. ASSUME NEW c \in Cores, Depth(c) > 0, NEW f \in FrameType, InOrder(f),
               frames' = [frames EXCEPT ![c][Depth(c)] = f], UNCHANGED interrupt_funcs
        PROVE  HandlersInOrder'
    <2>1. \A d \in Cores : \A n \in DOMAIN frames'[d] :
             \/ n \in DOMAIN frames[d] /\ frames'[d][n] = frames[d][n]
             \/ InOrder(frames'[d][n])
      BY <1>1, <1>7, ReplaceTop
    <2> QED BY <1>7, <2>1, OrderKept
  <1>8. ASSUME NEW c \in Cores, Depth(c) > 0 PROVE InOrder(Top(c)) /\ Top(c) \in FrameType
    BY <1>1, <1>8, TopFrame DEF HandlersInOrder, Top
  <1>9. ASSUME NEW c \in Cores, DispatchLock(c) PROVE HandlersInOrder'
    <2>1. Depth(c) > 0 /\ Top(c).phase = "lock" /\ Enter(c, "scan") /\ UNCHANGED interrupt_funcs
      BY <1>9 DEF DispatchLock, InPhase
    <2> DEFINE f == Frame(Top(c).vector, "scan", Top(c).slot, Top(c).called)
    <2>2. Top(c).slot = 0 /\ Top(c).called = << >> /\ Top(c).vector \in Vectors
      BY <1>1, <1>8, <2>1, TopFrame DEF InOrder
    <2>3. f.vector = Top(c).vector /\ f.phase = "scan" /\ f.slot = 0 /\ f.called = << >>
      BY <2>2 DEF Frame
    <2>4. f \in FrameType
      BY <1>1, <2>1, TopFrame DEF Frame, FrameType
    <2>5. frames' = [frames EXCEPT ![c][Depth(c)] = f]
      BY <2>1 DEF Enter
    <2> HIDE DEF f
    <2>6. Taken(f.vector, 0) = {}
      BY DEF Taken
    <2>7. InOrder(f)
      BY <2>3, <2>6, FS_EmptySet DEF InOrder
    <2> QED BY <1>7, <2>1, <2>4, <2>5, <2>7
  <1>10. ASSUME NEW c \in Cores, HandlerReturn(c) PROVE HandlersInOrder'
    <2>1. Depth(c) > 0 /\ Top(c).phase = "handler" /\ Enter(c, "scan")
          /\ UNCHANGED interrupt_funcs
      BY <1>10 DEF HandlerReturn, InPhase
    <2> DEFINE f == Frame(Top(c).vector, "scan", Top(c).slot, Top(c).called)
    <2>2. /\ f.vector = Top(c).vector /\ f.phase = "scan"
          /\ f.slot = Top(c).slot /\ f.called = Top(c).called
      BY DEF Frame
    <2>3. f \in FrameType
      BY <1>1, <2>1, TopFrame DEF Frame, FrameType
    <2>4. frames' = [frames EXCEPT ![c][Depth(c)] = f]
      BY <2>1 DEF Enter
    <2> HIDE DEF f
    <2>5. InOrder(f)
      BY <1>8, <2>1, <2>2 DEF InOrder
    <2> QED BY <1>7, <2>1, <2>3, <2>4, <2>5
  <1>11. ASSUME NEW c \in Cores, DispatchHandler(c) PROVE HandlersInOrder'
    <2>1. Depth(c) > 0 /\ Top(c).phase = "scan" /\ UNCHANGED interrupt_funcs
      BY <1>11 DEF DispatchHandler, InPhase
    <2>2. PICK s \in Left(c) :
             /\ IsFirst(s, Left(c))
             /\ frames' = [frames EXCEPT ![c][Depth(c)] =
                   Frame(Top(c).vector, "handler", s,
                         Append(Top(c).called, interrupt_funcs[Top(c).vector][s]))]
      BY <1>11 DEF DispatchHandler
    <2> DEFINE f == Frame(Top(c).vector, "handler", s,
                          Append(Top(c).called, interrupt_funcs[Top(c).vector][s]))
    <2>3. f \in FrameType
      BY <1>1, <2>1, HandlerFrame
    <2>4. InOrder(f)
      BY <1>1, <1>8, <2>1, <2>2, NextInOrder
    <2>5. frames' = [frames EXCEPT ![c][Depth(c)] = f]
      BY <2>2
    <2> HIDE DEF f
    <2> QED BY <1>7, <2>1, <2>3, <2>4, <2>5
  <1>12. ASSUME NEW c \in Cores, DispatchEnd(c) PROVE HandlersInOrder'
    <2>1. Depth(c) > 0 /\ Leave(c) /\ UNCHANGED interrupt_funcs
      BY <1>12 DEF DispatchEnd, InPhase
    <2>2. ASSUME Enter(c, "panic") PROVE HandlersInOrder'
      <3> DEFINE f == Frame(Top(c).vector, "panic", Top(c).slot, Top(c).called)
      <3>1. f \in FrameType /\ f.phase = "panic"
        BY <1>1, <2>1, TopFrame DEF Frame, FrameType
      <3>2. frames' = [frames EXCEPT ![c][Depth(c)] = f]
        BY <2>2 DEF Enter
      <3> HIDE DEF f
      <3>3. InOrder(f)
        BY <3>1 DEF InOrder
      <3> QED BY <1>7, <2>1, <3>1, <3>2, <3>3
    <2>3. ASSUME frames' = [frames EXCEPT ![c] = SubSeq(@, 1, Len(@) - 1)]
          PROVE  HandlersInOrder'
      BY <1>1, <2>1, <2>3, DropFrame, OrderKept
    <2> QED BY <2>1, <2>2, <2>3 DEF Leave
  <1> QED BY <1>3, <1>4, <1>5, <1>6, <1>9, <1>10, <1>11, <1>12 DEF Next, Proceed

(* Below, one core's part of InterruptsFirst, as a function of its frames  *)
(* and of what its APIC has in service.                                    *)
FirstOnly(q, sv) ==
    /\ Len(q) = 0 => sv = {}
    /\ Len(q) > 0 => sv = {v \in {q[1].vector} : v >= FirstIrq}
    /\ \A n \in DOMAIN q : n > 1 => q[n].vector < FirstIrq

LEMMA OneCore == InterruptsFirst <=> \A c \in Cores : FirstOnly(frames[c], service[c])
  BY DEF InterruptsFirst, FirstOnly, Depth

LEMMA FrameAdded ==
  ASSUME NEW q \in Seq(FrameType), NEW sv, FirstOnly(q, sv), NEW v \in Vectors,
         NEW f \in FrameType, f.vector = v
  PROVE  /\ v < FirstIrq => FirstOnly(Append(q, f), sv)
         /\ Len(q) = 0 /\ v >= FirstIrq => FirstOnly(Append(q, f), sv \cup {v})
  <1> DEFINE r == Append(q, f)
  <1>1. /\ Len(q) \in Nat /\ DOMAIN q = 1 .. Len(q) /\ DOMAIN r = 1 .. Len(q) + 1
        /\ Len(r) = Len(q) + 1 /\ r[Len(q) + 1] = f
        /\ \A n \in 1 .. Len(q) : r[n] = q[n]
    OBVIOUS
  <1> HIDE DEF r
  <1>2. v \in Nat /\ FirstIrq \in Nat
    BY VectorRange
  <1>3. CASE Len(q) = 0
    <2>1. sv = {} /\ Len(r) = 1 /\ r[1] = f /\ DOMAIN r = 1 .. 1
      BY <1>1, <1>3 DEF FirstOnly
    <2>2. \A n \in DOMAIN r : ~(n > 1)
      BY <2>1
    <2> QED BY <1>2, <2>1, <2>2 DEF FirstOnly, r
  <1>4. CASE Len(q) > 0
    <2>1. r[1] = q[1] /\ Len(r) > 0
      BY <1>1, <1>4
    <2>2. ASSUME v < FirstIrq, NEW n \in DOMAIN r, n > 1
          PROVE  r[n].vector < FirstIrq
      BY <1>1, <2>2 DEF FirstOnly
    <2> QED BY <1>1, <1>4, <2>1, <2>2 DEF FirstOnly, r
  <1> QED BY <1>1, <1>3, <1>4

LEMMA FrameReplaced ==
  ASSUME NEW q \in Seq(FrameType), NEW r \in Seq(FrameType), NEW sv, FirstOnly(q, sv),
         Len(r) = Len(q), \A n \in 1 .. Len(q) : r[n].vector = q[n].vector
  PROVE  FirstOnly(r, sv)
  <1>1. DOMAIN q = 1 .. Len(q) /\ DOMAIN r = 1 .. Len(q) /\ Len(q) \in Nat
    OBVIOUS
  <1>2. Len(q) > 0 => r[1].vector = q[1].vector
    BY <1>1
  <1> QED BY <1>1, <1>2 DEF FirstOnly

(* The report of the end of the interrupt that the first frame is for.     *)
LEMMA FrameDropped ==
  ASSUME NEW q \in Seq(FrameType), NEW sv, FirstOnly(q, sv), Len(q) > 0
  PROVE  FirstOnly(SubSeq(q, 1, Len(q) - 1),
                   IF q[Len(q)].vector >= FirstIrq
                   THEN interrupt_sendeoi(sv, q[Len(q)].vector) ELSE sv)
  <1> DEFINE r == SubSeq(q, 1, Len(q) - 1)
             v == q[Len(q)].vector
             left == IF v >= FirstIrq THEN interrupt_sendeoi(sv, v) ELSE sv
  <1>1. /\ r \in Seq(FrameType) /\ Len(r) = Len(q) - 1 /\ Len(q) \in Nat
        /\ \A n \in 1 .. Len(q) - 1 : r[n] = q[n]
    BY SeqShorter
  <1>2. DOMAIN r = 1 .. Len(q) - 1 /\ DOMAIN q = 1 .. Len(q)
    BY <1>1
  <1>3. v \in Nat /\ FirstIrq \in Nat
    <2>1. q[Len(q)] \in FrameType
      OBVIOUS
    <2> QED BY <2>1, VectorRange DEF FrameType
  <1> HIDE DEF r, v
  <1>4. CASE Len(q) = 1
    <2>1. sv = {u \in {v} : u >= FirstIrq}
      BY <1>4 DEF FirstOnly, v
    <2>2. left = {}
      BY <1>3, <2>1 DEF interrupt_sendeoi
    <2> QED BY <1>1, <1>2, <1>4, <2>2 DEF FirstOnly, r, v
  <1>5. CASE Len(q) > 1
    <2>1. v < FirstIrq
      BY <1>1, <1>2, <1>5 DEF FirstOnly, v
    <2>2. left = sv
      BY <1>3, <2>1
    <2>3. Len(r) > 0 /\ r[1] = q[1]
      BY <1>1, <1>5
    <2>4. \A n \in DOMAIN r : n \in DOMAIN q /\ r[n] = q[n]
      BY <1>1, <1>2
    <2> HIDE DEF left
    <2>5. FirstOnly(r, left)
      BY <1>1, <1>5, <2>2, <2>3, <2>4 DEF FirstOnly
    <2> QED BY <2>5 DEF left, r, v
  <1> QED BY <1>1, <1>4, <1>5

LEMMA InterruptsFirstNext == CompleteInv /\ [Next]_vars => InterruptsFirst'
  <1> SUFFICES ASSUME CompleteInv, [Next]_vars PROVE InterruptsFirst'
    OBVIOUS
  <1> USE DEF CompleteInv
  <1>1. /\ TInv /\ frames \in [Cores -> Seq(FrameType)]
        /\ service \in [Cores -> SUBSET Vectors]
        /\ \A c \in Cores : FirstOnly(frames[c], service[c])
    BY OneCore DEF DispatchInv, TInv, TypeOK
  <1>2. ASSUME \A c \in Cores : FirstOnly(frames'[c], service'[c]) PROVE InterruptsFirst'
    BY <1>2 DEF InterruptsFirst, FirstOnly, Depth
  <1>3. ASSUME UNCHANGED <<frames, service>> PROVE InterruptsFirst'
    BY <1>1, <1>2, <1>3
  <1>4. CASE UNCHANGED vars
    BY <1>3, <1>4 DEF vars
  <1>5. ASSUME NEW c \in Cores, NEW r \in Requests \cup TableCalls, BeginCall(c, r)
        PROVE  InterruptsFirst'
    BY <1>3, <1>5 DEF BeginCall
  <1>6. ASSUME NEW c \in Cores, PerformCall(c) PROVE InterruptsFirst'
    BY <1>3, <1>6 DEF PerformCall
  <1>7. ASSUME NEW v \in Vectors PROVE NewFrame(v) \in FrameType /\ NewFrame(v).vector = v
    BY IdtAssumption DEF NewFrame, Frame, FrameType
  <1>8. ASSUME NEW c \in Cores, NEW v \in Sources, Interrupt(c, v) PROVE InterruptsFirst'
    <2>1. /\ v \in Vectors /\ v >= FirstIrq /\ Len(frames[c]) = 0
          /\ frames' = [frames EXCEPT ![c] = Append(@, NewFrame(v))]
          /\ service' = [service EXCEPT ![c] = @ \cup {v}]
      BY <1>8, IdtAssumption DEF Interrupt, Depth
    <2>2. FirstOnly(Append(frames[c], NewFrame(v)), service[c] \cup {v})
      BY <1>1, <1>7, <2>1, FrameAdded
    <2>3. \A d \in Cores : FirstOnly(frames'[d], service'[d])
      BY <1>1, <2>1, <2>2
    <2> QED BY <1>2, <2>3
  <1>9. ASSUME NEW c \in Cores, NEW v \in Sources, Exception(c, v) PROVE InterruptsFirst'
    <2>1. /\ v \in Vectors /\ v < FirstIrq /\ UNCHANGED service
          /\ frames' = [frames EXCEPT ![c] = Append(@, NewFrame(v))]
      BY <1>9, IdtAssumption DEF Exception
    <2>2. FirstOnly(Append(frames[c], NewFrame(v)), service[c])
      BY <1>1, <1>7, <2>1, FrameAdded
    <2>3. \A d \in Cores : FirstOnly(frames'[d], service'[d])
      BY <1>1, <2>1, <2>2
    <2> QED BY <1>2, <2>3
  <1>10. ASSUME NEW c \in Cores, Depth(c) > 0, NEW f \in FrameType,
                f.vector = Top(c).vector, UNCHANGED service,
                frames' = [frames EXCEPT ![c][Depth(c)] = f]
         PROVE  InterruptsFirst'
    <2> DEFINE q == [frames[c] EXCEPT ![Depth(c)] = f]
    <2>1. /\ q \in Seq(FrameType) /\ Len(q) = Len(frames[c])
          /\ \A k \in 1 .. Len(frames[c]) : q[k] = IF k = Depth(c) THEN f ELSE frames[c][k]
      BY <1>1, <1>10, TopFrame, SeqUpdate
    <2>2. frames' = [frames EXCEPT ![c] = q]
      BY <1>1, <1>10
    <2> HIDE DEF q
    <2>3. \A n \in 1 .. Len(frames[c]) : q[n].vector = frames[c][n].vector
      BY <1>10, <2>1 DEF Top
    <2>4. FirstOnly(q, service[c])
      BY <1>1, <2>1, <2>3, FrameReplaced
    <2>5. \A d \in Cores : FirstOnly(frames'[d], service'[d])
      BY <1>1, <1>10, <2>2, <2>4
    <2> QED BY <1>2, <2>5
  <1>11. ASSUME NEW c \in Cores, Depth(c) > 0, NEW p \in {"scan", "panic"}, Enter(c, p),
                UNCHANGED service
         PROVE  InterruptsFirst'
    <2> DEFINE f == Frame(Top(c).vector, p, Top(c).slot, Top(c).called)
    <2>1. f \in FrameType /\ f.vector = Top(c).vector
      BY <1>1, <1>11, TopFrame DEF Frame, FrameType
    <2>2. frames' = [frames EXCEPT ![c][Depth(c)] = f]
      BY <1>11 DEF Enter
    <2> HIDE DEF f
    <2> QED BY <1>10, <1>11, <2>1, <2>2
  <1>12. ASSUME NEW c \in Cores, DispatchLock(c) \/ HandlerReturn(c) PROVE InterruptsFirst'
    BY <1>11, <1>12 DEF DispatchLock, HandlerReturn, InPhase
  <1>13. ASSUME NEW c \in Cores, DispatchHandler(c) PROVE InterruptsFirst'
    <2>1. Depth(c) > 0 /\ UNCHANGED service
      BY <1>13 DEF DispatchHandler, InPhase
    <2>2. PICK s \in Left(c) :
             frames' = [frames EXCEPT ![c][Depth(c)] =
                   Frame(Top(c).vector, "handler", s,
                         Append(Top(c).called, interrupt_funcs[Top(c).vector][s]))]
      BY <1>13 DEF DispatchHandler
    <2> DEFINE f == Frame(Top(c).vector, "handler", s,
                          Append(Top(c).called, interrupt_funcs[Top(c).vector][s]))
    <2>3. f \in FrameType /\ f.vector = Top(c).vector
      BY <1>1, <2>1, HandlerFrame DEF Frame
    <2>4. frames' = [frames EXCEPT ![c][Depth(c)] = f]
      BY <2>2
    <2> HIDE DEF f
    <2> QED BY <1>10, <2>1, <2>3, <2>4
  <1>14. ASSUME NEW c \in Cores, DispatchEnd(c) PROVE InterruptsFirst'
    <2>1. Depth(c) > 0 /\ Leave(c)
      BY <1>14 DEF DispatchEnd, InPhase
    <2>2. ASSUME frames' = [frames EXCEPT ![c] = SubSeq(@, 1, Len(@) - 1)],
                 service' = [service EXCEPT ![c] =
                     IF Top(c).vector >= FirstIrq
                     THEN interrupt_sendeoi(@, Top(c).vector) ELSE @]
          PROVE  InterruptsFirst'
      <3> DEFINE r == SubSeq(frames[c], 1, Len(frames[c]) - 1)
                 left == IF Top(c).vector >= FirstIrq
                         THEN interrupt_sendeoi(service[c], Top(c).vector) ELSE service[c]
      <3>1. FirstOnly(r, left)
        BY <1>1, <2>1, FrameDropped DEF Top, Depth
      <3>2. frames' = [frames EXCEPT ![c] = r] /\ service' = [service EXCEPT ![c] = left]
        BY <1>1, <2>2
      <3> HIDE DEF r, left
      <3>3. \A d \in Cores : FirstOnly(frames'[d], service'[d])
        BY <1>1, <3>1, <3>2
      <3> QED BY <1>2, <3>3
    <2> QED BY <1>11, <2>1, <2>2 DEF Leave
  <1> QED BY <1>4, <1>5, <1>6, <1>8, <1>9, <1>12, <1>13, <1>14 DEF Next, Proceed

(* No handler of a dispatch is passed over, called twice, or called after  *)
(* it has been unregistered on another core; and a core at rest has        *)
(* reported the end of every interrupt it took.                            *)
THEOREM DispatchesComplete == Spec => []DispatchIsComplete
  <1>1. CompleteInv /\ [Next]_vars => CompleteInv'
    BY DispatchInvNext, OrderNext, InterruptsFirstNext DEF CompleteInv
  <1>2. Spec => []CompleteInv
    BY <1>1, InitCompleteInv, PTL DEF Spec
  <1>3. CompleteInv => DispatchIsComplete
    BY DEF CompleteInv, HandlersInOrder, InterruptsFirst, InOrder, DispatchIsComplete
  <1> QED BY <1>2, <1>3, PTL

=============================================================================
