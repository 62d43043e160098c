---------------------------- MODULE QueueClient ----------------------------
(***************************************************************************)
(* The ring buffer of Queue under an arbitrary sequence of calls, and the  *)
(* claim that it implements the bounded deque of module Deque.             *)
(***************************************************************************)
EXTENDS Queue, Sequences

CONSTANTS Values,   \* what callers store; the word 0 is storable
          Refused   \* stands for the return value false

ASSUME ClientAssumption ==
    /\ Zero \in Values
    /\ Refused \notin Values

VARIABLE answer   \* the value of the last call, or Refused

clientVars == <<queue, head, tail, ent_cnt, answer>>

ClientInit ==
    /\ queue_init
    /\ answer = Refused

TryEnqueue(v) ==
    \/ queue_tryenqueue(v) /\ answer' = v
    \/ NoRoom /\ answer' = Refused /\ UNCHANGED queueVars

TryEnqueueFront(v) ==
    \/ queue_tryenqueue_front(v) /\ answer' = v
    \/ NoRoom /\ answer' = Refused /\ UNCHANGED queueVars

TryDequeue ==
    \/ queue_trydequeue /\ answer' = queue_peek
    \/ IsEmpty /\ answer' = Refused /\ UNCHANGED queueVars

Peek ==
    \/ ~IsEmpty /\ answer' = queue_peek /\ UNCHANGED queueVars
    \/ IsEmpty /\ answer' = Refused /\ UNCHANGED queueVars

ClientNext ==
    \/ \E v \in Values : TryEnqueue(v) \/ TryEnqueueFront(v)
    \/ TryDequeue
    \/ Peek

ClientSpec == ClientInit /\ [][ClientNext]_clientVars

-----------------------------------------------------------------------------

ClientTypeOK ==
    /\ queue \in [Slots -> Values]
    /\ head \in Slots
    /\ tail \in Slots
    /\ ent_cnt \in Int
    /\ answer \in Values \cup {Refused}

(* queue_entcnt tells the truth: the counter, which queue.c maintains      *)
(* apart from head and tail, is the distance between them, whatever mix of *)
(* calls at both ends and of refused calls came before.                    *)
CountIsDistance == ent_cnt = Distance(head, tail)

(* Every slot outside head..tail-1 is cleared.  compact_queue relies on    *)
(* it: for an empty queue it sorts and scans all the slots.                *)
DeadSlotsClear ==
    \A s \in Slots : Distance(head, s) >= Distance(head, tail)
                        => queue[s] = Zero

(* The stored values in order: the refinement mapping.                     *)
Items == [k \in 1 .. Distance(head, tail) |-> queue[(head + k - 1) % Size]]

D == INSTANCE Deque WITH Capacity <- Size - 1, items <- Items

(* The ring buffer is a deque of Size - 1 values: every call of            *)
(* queue_tryenqueue, queue_tryenqueue_front, queue_trydequeue and          *)
(* queue_peek answers what the deque answers and is refused only when the  *)
(* deque is full or empty.                                                 *)
ImplementsDeque == D!Spec

=============================================================================
