------------------------------ MODULE BumpArea ------------------------------
(***************************************************************************)
(* What the bootstrap allocator promises to cores that call it at the same *)
(* time: every call takes effect at one instant between its start and its  *)
(* return.  Memory is handed out from the bottom of an area upwards; a     *)
(* block that is given back is reused if it was the last one, and not the  *)
(* first one.                                                              *)
(***************************************************************************)
EXTENDS Naturals

CONSTANTS Cores, Area, NULL, BlockSizes

VARIABLES
    top,    \* the first byte that is not handed out
    given,  \* the blocks that belong to callers
    call    \* per core: the call it is in

vars == <<top, given, call>>

NoCall == [op |-> "none", mem |-> NULL, s |-> 0, done |-> FALSE]

Init ==
    /\ top = 0
    /\ given = {}
    /\ call = [c \in Cores |-> NoCall]

Invoke(c, op, mem, s) ==
    /\ call[c] = NoCall
    /\ call' = [call EXCEPT ![c] = [op |-> op, mem |-> mem, s |-> s, done |-> FALSE]]
    /\ UNCHANGED top

InvokeMalloc(c) ==
    /\ \E s \in BlockSizes : Invoke(c, "malloc", NULL, s)
    /\ UNCHANGED given

InvokeFree(c) ==
    \E b \in given : /\ Invoke(c, "free", b.mem, b.s)
                     /\ given' = given \ {b}

(* The effect of a call, with the block it answers with.                   *)
Effect(c, op, newTop, mem) ==
    /\ call[c].op = op
    /\ ~call[c].done
    /\ top' = newTop
    /\ call' = [call EXCEPT ![c] =
                   [op |-> op, mem |-> mem, s |-> call[c].s, done |-> TRUE]]
    /\ UNCHANGED given

Malloc(c) ==
    \/ /\ top + call[c].s < Area
       /\ Effect(c, "malloc", top + call[c].s, top)
    \/ /\ top + call[c].s >= Area
       /\ Effect(c, "malloc", top, NULL)

Free(c) ==
    LET b == call[c]
        last == top > b.s /\ top = b.mem + b.s
    IN  \/ last /\ Effect(c, "free", b.mem, b.mem)
        \/ ~last /\ Effect(c, "free", top, b.mem)

Return(c) ==
    /\ call[c].done
    /\ given' = IF call[c].op = "malloc" /\ call[c].mem # NULL
                THEN given \cup {[mem |-> call[c].mem, s |-> call[c].s]}
                ELSE given
    /\ call' = [call EXCEPT ![c] = NoCall]
    /\ UNCHANGED top

Next == \E c \in Cores : \/ InvokeMalloc(c) \/ InvokeFree(c)
                         \/ Malloc(c) \/ Free(c) \/ Return(c)

Spec == Init /\ [][Next]_vars

=============================================================================
