------------------------------- MODULE Queue -------------------------------
(***************************************************************************)
(* The ring buffer of kernel/src/containers/queue.c: the fields of queue_t *)
(* as variables, and the effect of every call on them.  The module has no  *)
(* specification of its own: the modules that call the queue (QueueClient, *)
(* PageAlloc) extend it.                                                   *)
(*                                                                         *)
(* An operation that returns a bool is given by the action of its          *)
(* successful call and by the condition under which it returns false; a    *)
(* call that returns false changes nothing.                                *)
(***************************************************************************)
EXTENDS Integers

CONSTANTS Size,  \* sz, the number of slots given to queue_init
          Zero   \* the content of a cleared slot: the 64-bit word 0

(* The only caller passes btm_sz / 2 + 1.                                  *)
ASSUME SizeAssumption == Size \in Nat \ {0}

VARIABLES queue,    \* q->queue, the slots
          head,     \* q->head, the slot of the first entry
          tail,     \* q->tail, the slot after the last entry
          ent_cnt   \* q->ent_cnt, the number of entries

queueVars == <<queue, head, tail, ent_cnt>>

Slots == 0 .. Size - 1

(* The slots come from bootstrap_malloc, whose area is in .bss.            *)
queue_init ==
    /\ queue = [s \in Slots |-> Zero]
    /\ ent_cnt = 0
    /\ head = 0
    /\ tail = 0

(* Mutant: the ring is full when every slot is in use (as queue_full says). *)
NoRoomByCount == ent_cnt = Size

(* The tests that make the try operations return false.                    *)
NoRoom  == head = (tail + 1) % Size
IsEmpty == head = tail

(* The slot queue_tryenqueue_front moves the head to.                      *)
SlotBefore(s) == IF s > 0 THEN (s - 1) % Size ELSE Size - 1

queue_tryenqueue(val) ==
    /\ ~NoRoom
    /\ queue' = [queue EXCEPT ![tail] = val]
    /\ tail' = (tail + 1) % Size
    /\ ent_cnt' = ent_cnt + 1
    /\ UNCHANGED head

(* Mutant: the entry at the front is not counted.                          *)
EnqueueFrontUncounted(val) ==
    /\ ~NoRoom
    /\ head' = SlotBefore(head)
    /\ queue' = [queue EXCEPT ![SlotBefore(head)] = val]
    /\ UNCHANGED <<tail, ent_cnt>>

queue_tryenqueue_front(val) ==
    /\ ~NoRoom
    /\ head' = SlotBefore(head)
    /\ queue' = [queue EXCEPT ![SlotBefore(head)] = val]
    /\ ent_cnt' = ent_cnt + 1
    /\ UNCHANGED tail

(* The value handed to the caller is queue_peek.                           *)
queue_trydequeue ==
    /\ ~IsEmpty
    /\ queue' = [queue EXCEPT ![head] = Zero]
    /\ head' = (head + 1) % Size
    /\ ent_cnt' = ent_cnt - 1
    /\ UNCHANGED tail

queue_peek == queue[head]

(* The distance from slot s to slot t, going up and around.                *)
Distance(s, t) == IF t >= s THEN t - s ELSE t - s + Size

=============================================================================
