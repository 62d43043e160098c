------------------------------ MODULE Spinlock ------------------------------
(***************************************************************************)
(* The test-and-test-and-set lock of kernel/inc/local_spinlock.h: one lock *)
(* and, for every core, the place it has reached in the code that uses it. *)
(* The modules of the code that takes a lock, as BootstrapAlloc, extend    *)
(* this one and say where a core goes once it is inside.                   *)
(***************************************************************************)
EXTENDS Naturals

CONSTANTS
    Cores,
    ReadsOnce   \* the compiler reads *x once before the waiting loop

(* The waiting loop reads *x, which is not volatile, and its asm statement *)
(* does not clobber memory: the build may read *x anew in every iteration  *)
(* or once and for all.                                                    *)
ASSUME SpinlockAssumption == ReadsOnce \in BOOLEAN

VARIABLES
    lock,   \* *x
    pc      \* per core: "idle", "try", "wait", "stuck" or a place inside

GoTo(c, place) == pc' = [pc EXCEPT ![c] = place]

(* Mutant: the lock is tested but not set.                                 *)
TestWithoutSet(c, inside) ==
    /\ pc[c] = "try"
    /\ \/ lock = 0 /\ GoTo(c, inside)
       \/ lock = 1 /\ GoTo(c, "wait")
    /\ UNCHANGED lock

(* __sync_lock_test_and_set(x, 1).                                         *)
TestAndSet(c, inside) ==
    /\ pc[c] = "try"
    /\ \/ lock = 0 /\ GoTo(c, inside)
       \/ lock = 1 /\ GoTo(c, "wait")
    /\ lock' = 1

(* The end of the waiting loop, or its first and last look at the lock.    *)
Spin(c) ==
    /\ pc[c] = "wait"
    /\ \/ lock = 0 /\ GoTo(c, "try")
       \/ lock = 1 /\ ReadsOnce /\ GoTo(c, "stuck")
    /\ UNCHANGED lock

local_spinlock_unlock == lock' = 0

=============================================================================
