----------------------------- MODULE TrapFrame -----------------------------
(***************************************************************************)
(* The way through an interrupt on one core: the stub of the vector,       *)
(* idt_defaulthandler and idt_mainhandler of kernel/src/interrupts/idt.c,  *)
(* and the exchange of the interrupted registers by a handler, as a        *)
(* scheduler needs it.                                                     *)
(*                                                                         *)
(* The processor pushes, the stub pushes, and regs_t lies over it: the     *)
(* stack is a sequence of words, its top first, and a field is a position. *)
(* Every vector has a handler, and no handler is interrupted.              *)
(***************************************************************************)
EXTENDS Integers, Sequences

CONSTANTS
    ThreadCount,
    UserThreads,  \* the threads with privilege level 3
    Vectors       \* bound: the vectors that occur

Threads == 1 .. ThreadCount

(* For 17, 21, 29 and 30, features the kernel leaves off, the stub pushes  *)
(* a dummy on top of the processor's error code.                           *)
ASSUME TrapFrameAssumption ==
    /\ ThreadCount \in Nat
    /\ UserThreads \subseteq Threads
    /\ Vectors \subseteq (0 .. 255) \ {17, 21, 29, 30}

VARIABLES
    cpu,        \* the registers of the processor, by name
    gs,         \* GS_BASE: the TLS block of the core ("tls"), or "user"
    stack,      \* the stack of the handler, empty in a thread
    running,    \* the thread that the processor or the frame holds
    saved,      \* TRUE when the handler has saved the thread it met
    states,     \* the saved interrupt_register_state_t of every thread
    vector,     \* history: the vector that occurred last
    context     \* history: the registers each thread left, or starts with

vars == <<cpu, gs, stack, running, saved, states, vector, context>>

-----------------------------------------------------------------------------
(* Registers.                                                              *)

(* In the order in which they are pushed.                                  *)
Pushed == <<"rax", "rbx", "rcx", "rdx", "rbp", "rsi", "rdi", "r8", "r9",
            "r10", "r11", "r12", "r13", "r14", "r15">>

(* Mutant: two registers are popped in the order they were pushed in.      *)
PoppedSwapped == <<"rsp", "r15", "r14", "r13", "r12", "r11", "r10", "r9", "r8",
                   "rsi", "rdi", "rbp", "rdx", "rcx", "rbx", "rax">>

(* In the order in which they are popped; the first word goes to rdi.      *)
Popped == <<"rsp", "r15", "r14", "r13", "r12", "r11", "r10", "r9", "r8",
            "rdi", "rsi", "rbp", "rdx", "rcx", "rbx", "rax">>

(* The fields of the frame, from the lowest address on.                    *)
regs_t == <<"rsp", "r15", "r14", "r13", "r12", "r11", "r10", "r9", "r8",
            "rdi", "rsi", "rbp", "rdx", "rcx", "rbx", "rax",
            "int_no", "err_code", "rip", "cs", "rflags", "useresp", "ss">>

Position(name, list) == CHOOSE i \in 1 .. Len(list) : list[i] = name

General == {Pushed[i] : i \in 1 .. Len(Pushed)}

Registers == General \cup {"rip", "cs", "rflags", "rsp", "ss"}

(* interrupt_register_state_t has no useresp: its rsp is that of the frame *)
(* of the processor.                                                       *)
FieldOf(r) == Position(IF r = "rsp" THEN "useresp" ELSE r, regs_t)

User(cs) == cs % 4 # 0

(* A word that only thread t has, and in register r only.                  *)
WordOf(t, r, n) ==
    1000 * t + 4 * Position(r, regs_t) + 100 * n

(* Kernel segments, interrupts on, a stack, a start and its arguments.     *)
(* What makes a user thread replaces the segments.                         *)
mp_platform_getdefaultstate(t) ==
    [r \in Registers |->
        CASE r = "cs" -> IF t \in UserThreads THEN 43 ELSE 8
          [] r = "ss" -> IF t \in UserThreads THEN 35 ELSE 16
          [] r = "rflags" -> 512
          [] r \in {"rsp", "rbp"} -> WordOf(t, "rsp", 0)
          [] r \in {"rip", "rdi", "rsi"} -> WordOf(t, r, 0)
          [] OTHER -> 0]

(* A kernel thread runs first, after mp_tls_setup.                         *)
Init ==
    /\ running \in Threads \ UserThreads
    /\ context = [t \in Threads |-> mp_platform_getdefaultstate(t)]
    /\ states = context
    /\ cpu = context[running]
    /\ gs = "tls" /\ stack = << >> /\ saved = FALSE /\ vector = 0

(* The thread computes: its registers take one of two sets of values.      *)
Compute ==
    /\ stack = << >>
    /\ \E n \in {1, 2} :
         cpu' = [r \in Registers |->
                   IF r \in {"cs", "ss"} THEN cpu[r] ELSE WordOf(running, r, n)]
    /\ context' = [context EXCEPT ![running] = cpu']
    /\ UNCHANGED <<gs, stack, running, saved, states, vector>>

-----------------------------------------------------------------------------
(* Entry.                                                                  *)

(* The exceptions for which the processor pushes an error code.            *)
HasErrorCode(v) == v = 8 \/ v \in 10 .. 14 \/ v \in {17, 21, 29, 30}

StubPushes(v) == ~(v = 8 \/ v \in 10 .. 14)

(* The stub pushes the vector as a byte with a sign.                       *)
StubWords(v) ==
    <<IF v < 128 THEN v ELSE v - 256>>
        \o (IF StubPushes(v) THEN <<1>> ELSE << >>)
        \o (IF HasErrorCode(v) THEN <<4>> ELSE << >>)

(* The last push is the address of the frame.                              *)
GeneralWords ==
    <<0>> \o [i \in 1 .. Len(Pushed) |-> cpu[Pushed[Len(Pushed) + 1 - i]]]

ProcessorWords == <<cpu["rip"], cpu["cs"], cpu["rflags"], cpu["rsp"], cpu["ss"]>>

(* Mutant: the vector keeps its sign.                                      *)
Unmasked(frame) == frame

MaskVector(frame) == [frame EXCEPT ![Position("int_no", regs_t)] = @ % 256]

(* Mutant: GS is exchanged in an interrupt of the kernel as well.          *)
SwapAlways(g, cs) == IF g = "tls" THEN "user" ELSE "tls"

SwapGs(g, cs) == IF User(cs) THEN (IF g = "tls" THEN "user" ELSE "tls") ELSE g

(* Interrupts are off from here to the end of the handler.                 *)
Enter(v) ==
    /\ stack = << >>
    /\ LET frame == GeneralWords \o StubWords(v) \o ProcessorWords IN
       /\ stack' = MaskVector(frame)
       /\ gs' = SwapGs(gs, frame[Position("cs", regs_t)])
    /\ vector' = v /\ saved' = FALSE
    /\ UNCHANGED <<cpu, running, states, context>>

-----------------------------------------------------------------------------
(* What the handler may call, and the way back.                            *)

FrameState == [r \in Registers |-> stack[FieldOf(r)]]

interrupt_getregisterstate ==
    /\ stack # << >>
    /\ states' = [states EXCEPT ![running] = FrameState]
    /\ saved' = TRUE
    /\ UNCHANGED <<cpu, gs, stack, running, vector, context>>

(* Whoever sets another state has saved the one that was met.              *)
interrupt_setregisterstate(t) ==
    /\ stack # << >> /\ saved
    /\ stack' = [i \in 1 .. Len(stack) |->
                   IF \E r \in Registers : FieldOf(r) = i
                   THEN states[t][CHOOSE r \in Registers : FieldOf(r) = i]
                   ELSE stack[i]]
    /\ running' = t
    /\ UNCHANGED <<cpu, gs, saved, states, vector, context>>

(* ss is given level 3 when the frame returns to a user.                   *)
ReturnSs(cs, ss) == IF User(cs) THEN (ss - (ss % 4)) + 3 ELSE ss

(* The pops, the two words that are skipped, and iretq.                    *)
Leave ==
    /\ stack # << >>
    /\ LET cs == stack[Position("cs", regs_t)]
           iret == SubSeq(stack, Len(Popped) + 3, Len(Popped) + 7)
       IN  /\ gs' = SwapGs(gs, cs)
           /\ cpu' = [r \in Registers |->
                CASE r = "rip" -> iret[1] [] r = "cs" -> iret[2]
                  [] r = "rflags" -> iret[3] [] r = "rsp" -> iret[4]
                  [] r = "ss" -> ReturnSs(cs, iret[5])
                  [] OTHER -> stack[Position(r, Popped)]]
    /\ stack' = << >>
    /\ UNCHANGED <<running, saved, states, vector, context>>

Next ==
    \/ Compute
    \/ \E v \in Vectors : Enter(v)
    \/ interrupt_getregisterstate
    \/ \E t \in Threads : interrupt_setregisterstate(t)
    \/ Leave

Spec == Init /\ [][Next]_vars

-----------------------------------------------------------------------------
(* Properties.                                                             *)

(* Whatever the vector and whether the processor pushes an error code, the *)
(* handler finds its vector and the registers of the interrupted thread in *)
(* regs_t, also after it has put another thread into the frame.            *)
FrameHoldsThread ==
    stack # << >> =>
        /\ stack[Position("int_no", regs_t)] = vector
        /\ FrameState = context[running]

(* A thread goes on with exactly the registers it was interrupted with,    *)
(* through any number of switches between user and kernel threads; in the  *)
(* meantime its saved state is that.                                       *)
ThreadsResume ==
    /\ stack = << >> => cpu = context[running]
    /\ \A t \in Threads \ {running} : states[t] = context[t]

(* The TLS block is behind GS exactly while the kernel runs: the handler   *)
(* reaches idt->reg_ref, and a user thread does not reach it, though the   *)
(* frame that is left may be of another level than the one that was met.   *)
GsFollowsMode == gs = "tls" <=> stack # << >> \/ ~User(cpu["cs"])

=============================================================================
