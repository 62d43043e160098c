------------------------------- MODULE Deque -------------------------------
(***************************************************************************)
(* What kernel/src/containers/queue.c promises its callers: a sequence of  *)
(* values with a fixed capacity, filled at either end and emptied at the   *)
(* front.  A call that cannot be served answers "refused" and leaves the   *)
(* sequence alone.                                                         *)
(***************************************************************************)
EXTENDS Naturals, Sequences

CONSTANTS Values,    \* what callers store
          Capacity,  \* the number of values the deque holds
          Refused    \* the answer of a call that returned false

VARIABLES items,   \* the stored values, first to last
          answer   \* the answer of the last call

vars == <<items, answer>>

Init ==
    /\ items = << >>
    /\ answer = Refused

PushBack(v) ==
    /\ Len(items) < Capacity
    /\ items' = Append(items, v)
    /\ answer' = v

PushFront(v) ==
    /\ Len(items) < Capacity
    /\ items' = <<v>> \o items
    /\ answer' = v

RefusePush ==
    /\ Len(items) = Capacity
    /\ answer' = Refused
    /\ UNCHANGED items

Pop ==
    /\ items # << >>
    /\ answer' = Head(items)
    /\ items' = Tail(items)

Peek ==
    /\ items # << >>
    /\ answer' = Head(items)
    /\ UNCHANGED items

RefusePop ==
    /\ items = << >>
    /\ answer' = Refused
    /\ UNCHANGED items

Next ==
    \/ \E v \in Values : PushBack(v) \/ PushFront(v)
    \/ RefusePush
    \/ Pop
    \/ Peek
    \/ RefusePop

Spec == Init /\ [][Next]_vars

=============================================================================
