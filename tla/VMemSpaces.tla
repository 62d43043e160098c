----------------------------- MODULE VMemSpaces -----------------------------
(***************************************************************************)
(* The address spaces of kernel/src/vmem.c on several cores: the top-level *)
(* tables of the kernel (kmem) and of every user space, and the copies of  *)
(* them that the processors walk.                                          *)
(*                                                                         *)
(* Every core has a table of its own, ktable: its lower half is a copy of  *)
(* the active space's ptable, its upper half a copy of kmem.ptable.  The   *)
(* copies are brought up to date by calls, in both directions.             *)
(*                                                                         *)
(* An entry of a top-level table is a table of the next level or absent:   *)
(* there are no pages of 512GiB.  The tables below are shared by all the   *)
(* copies and are the subject of VMemMap.                                  *)
(*                                                                         *)
(* A call is a list of jobs.  A job is what the code does from taking a    *)
(* lock to releasing it, and is one step: a space's table is read and      *)
(* written under its lock only, and a core's table by that core only.  The *)
(* last job of vmem_setactive includes the write of cur_vmem after it.     *)
(* Nothing preempts a call on its core: there is no scheduler yet, and no  *)
(* handler changes mappings (the TODO at vmem.c:81 speaks of the time      *)
(* when there is one).                                                     *)
(*                                                                         *)
(* No caller of vmem_destroy exists yet.  One is assumed that destroys no  *)
(* space in use, and uses no destroyed space.                              *)
(***************************************************************************)
EXTENDS Naturals, Sequences, FiniteSets

CONSTANTS
    Cores,
    Boot,         \* the core that ran vmem_init
    Spaces,       \* the storage that malloc can return to vmem_create
    Kmem,         \* kmem
    NoSpace,      \* NULL
    UserSlots,    \* the entries of vmem_t.ptable
    KernelSlots,  \* the entries of kmem.ptable
    BootSlots,    \* those that vmem_init has filled
    Tables,       \* the tables of the next level
    NoTable,      \* an absent entry
    MaxCreated    \* bound: the calls of vmem_create

ASSUME SpacesAssumption ==
    /\ Boot \in Cores
    /\ Kmem \notin Spaces /\ NoSpace \notin Spaces \cup {Kmem}
    /\ UserSlots \cap KernelSlots = {}
    /\ BootSlots \subseteq KernelSlots /\ BootSlots \subseteq Tables
    /\ NoTable \notin Tables
    /\ IsFiniteSet(Tables) /\ IsFiniteSet(Cores)
    /\ MaxCreated \in Nat

VARIABLES
    top,     \* ptable of every space and of kmem
    ktable,  \* per core: the table at lcl->ktable
    cur,     \* per core: lcl->cur_vmem
    lock,    \* the lock of every space and of kmem
    life,    \* how often every storage was returned by vmem_create
    live,    \* the spaces that were created and not destroyed
    up,      \* the cores that have run vmem_init or vmem_mp_init
    todo,    \* per core: the jobs of the call it is in
    home     \* which entry of which space every table was allocated for

vars == <<top, ktable, cur, lock, life, live, up, todo, home>>

Slots(s) == IF s = Kmem THEN KernelSlots ELSE UserSlots

AllSlots == UserSlots \cup KernelSlots

Free == {t \in Tables : home[t] = << >>}

Place(s, k) == <<s, IF s \in Spaces THEN life[s] ELSE 0, k>>

(* After vmem_init.  A boot entry's table has the name of its slot.        *)
Init ==
    /\ top = [s \in Spaces \cup {Kmem} |->
                 [k \in Slots(s) |-> IF k \in BootSlots THEN k ELSE NoTable]]
    /\ ktable = [c \in Cores |-> [k \in AllSlots |->
                    IF c = Boot /\ k \in BootSlots THEN k ELSE NoTable]]
    /\ cur = [c \in Cores |-> NoSpace]
    /\ lock = [s \in Spaces \cup {Kmem} |-> 0]
    /\ life = [s \in Spaces |-> 0]
    /\ live = {}
    /\ up = {Boot}
    /\ todo = [c \in Cores |-> << >>]
    /\ home = [t \in Tables |-> IF t \in BootSlots THEN <<Kmem, 0, t>> ELSE << >>]

-----------------------------------------------------------------------------
(* Calls.                                                                  *)

Job(do, s) == [do |-> do, of |-> s]

Starts(c, jobs) ==
    /\ todo[c] = << >>
    /\ todo' = [todo EXCEPT ![c] = jobs]
    /\ UNCHANGED <<top, ktable, cur, lock, life, up, home>>

(* Mutant: the kernel's half is left empty.                                *)
StartWithoutKernel(c) ==
    /\ c \notin up
    /\ up' = up \cup {c}
    /\ UNCHANGED <<top, ktable, cur, lock, life, live, todo, home>>

vmem_mp_init(c) ==
    /\ c \notin up
    /\ Starts(c, <<Job("boot", Kmem)>>)
    /\ UNCHANGED live

Mapping == {c \in Cores : todo[c] # << >> /\ Head(todo[c]).do = "map"}

(* The bound: a call is made only while there is a table for it.           *)
vmem_map(c, s, k) ==
    /\ Cardinality(Free) > Cardinality(Mapping)
    /\ Starts(c, <<[do |-> "map", of |-> s, slot |-> k]>>)
    /\ UNCHANGED live

(* It unmaps nothing, as its size is set to 0.                             *)
vmem_unmap(c, s) == Starts(c, <<Job("unmap", s)>>) /\ UNCHANGED live

InCall(s) == \E d \in Cores : \E i \in DOMAIN todo[d] : todo[d][i].of = s

IsActive(s) == \E c \in Cores : cur[c] = s

Created == {p \in Spaces \X (1 .. MaxCreated) : p[2] <= life[p[1]]}

vmem_create(c) ==
    /\ todo[c] = << >>
    /\ Cardinality(Created) < MaxCreated
    /\ \E s \in Spaces \ live :
           /\ ~InCall(s)
           /\ live' = live \cup {s}
           /\ life' = [life EXCEPT ![s] = @ + 1]
           /\ lock' = [lock EXCEPT ![s] = 0]
           /\ top' = [top EXCEPT ![s] = [k \in UserSlots |-> NoTable]]
    /\ UNCHANGED <<ktable, cur, up, todo, home>>

(* The lock is taken and never released.                                   *)
vmem_destroy(c, s) ==
    /\ ~IsActive(s) /\ ~InCall(s)
    /\ Starts(c, <<Job("destroy", s)>>)
    /\ live' = live \ {s}

vmem_savestate(c) ==
    IF cur[c] = NoSpace THEN <<Job("save", Kmem)>>
                        ELSE <<Job("save", cur[c]), Job("save", Kmem)>>

(* Mutant: the state is saved when the new space is already loaded.        *)
LoadBeforeSave(c, s) ==
    Starts(c, <<Job("load", s)>> \o vmem_savestate(c)) /\ UNCHANGED live

vmem_setactive(c, s) ==
    Starts(c, vmem_savestate(c) \o <<Job("load", s)>>) /\ UNCHANGED live

(* vmem_getactive and vmem_flush, whose only effect on the tables is that  *)
(* of vmem_savestate.                                                      *)
SaveOnly(c) == Starts(c, vmem_savestate(c)) /\ UNCHANGED live

-----------------------------------------------------------------------------
(* Jobs.                                                                   *)

(* memcpy from ktable.                                                     *)
Save(c, s) ==
    /\ top' = [top EXCEPT ![s] = [k \in Slots(s) |-> ktable[c][k]]]
    /\ UNCHANGED <<ktable, home>>

(* Half of core c's table, copied from the given ptable.                   *)
Copied(c, s, ptable) ==
    [ktable EXCEPT ![c] = [k \in AllSlots |-> IF k \in Slots(s) THEN ptable[k] ELSE @[k]]]

(* memcpy to ktable.                                                       *)
Load(c, s) ==
    /\ ktable' = Copied(c, s, top[s])
    /\ UNCHANGED <<top, home>>

(* Mutant: an entry that is there is not looked at.                        *)
MapAlwaysAllocates(c, s, k) ==
    LET t == CHOOSE u \in Free : TRUE
    IN  /\ top' = [top EXCEPT ![s][k] = t]
        /\ home' = [home EXCEPT ![t] = Place(s, k)]
        /\ ktable' = IF s = Kmem THEN Copied(c, s, top'[s]) ELSE ktable

(* vmem_map_st at level 0.  A user space's entry is added to its ptable    *)
(* only, even if the space is active.                                      *)
Map(c, s, k) ==
    LET t == CHOOSE u \in Free : TRUE
    IN  /\ \/ top[s][k] # NoTable /\ UNCHANGED <<top, home>>
           \/ /\ top[s][k] = NoTable
              /\ top' = [top EXCEPT ![s][k] = t]
              /\ home' = [home EXCEPT ![t] = Place(s, k)]
        /\ ktable' = IF s = Kmem THEN Copied(c, s, top'[s]) ELSE ktable

Effect(c, job) ==
    \/ job.do = "save" /\ Save(c, job.of)
    \/ job.do \in {"load", "boot"} /\ Load(c, job.of)
    \/ job.do = "unmap" /\ job.of = Kmem /\ Load(c, Kmem)
    \/ job.do = "unmap" /\ job.of # Kmem /\ UNCHANGED <<top, ktable, home>>
    \/ job.do = "map" /\ Map(c, job.of, job.slot)
    \/ job.do = "destroy" /\ UNCHANGED <<top, ktable, home>>

(* Mutant: the lock is not released after saving.                          *)
KeepsLockOfSaved(job) == job.do \in {"destroy", "save"}

KeepsLock(job) == job.do = "destroy"

(* vmem_setactive ends with the new cur_vmem.                              *)
Work(c) ==
    /\ todo[c] # << >>
    /\ LET job == Head(todo[c])
       IN  /\ lock[job.of] = 0
           /\ Effect(c, job)
           /\ lock' = [lock EXCEPT ![job.of] = IF KeepsLock(job) THEN 1 ELSE 0]
           /\ cur' = IF job.do = "load" THEN [cur EXCEPT ![c] = job.of] ELSE cur
           /\ up' = IF job.do = "boot" THEN up \cup {c} ELSE up
    /\ todo' = [todo EXCEPT ![c] = Tail(@)]
    /\ UNCHANGED <<life, live>>

Calls(c) ==
    \/ vmem_create(c)
    \/ \E s \in live \cup {Kmem} : \/ vmem_unmap(c, s)
                                   \/ \E k \in Slots(s) : vmem_map(c, s, k)
    \/ \E s \in live : vmem_setactive(c, s) \/ vmem_destroy(c, s)
    \/ SaveOnly(c)

Next == \E c \in Cores : \/ vmem_mp_init(c)
                         \/ c \in up /\ Calls(c)
                         \/ Work(c)

Spec == Init /\ [][Next]_vars

-----------------------------------------------------------------------------

BelongsTo(t, s, k) == t = NoTable \/ home[t] = Place(s, k)

(* However the calls of the cores interleave, and although every core      *)
(* copies its table back and forth without a look at what changed, no      *)
(* entry of a space ever reaches another space, another slot, a core on    *)
(* which the space is not active, or the space that is created next in the *)
(* same storage.                                                           *)
SpacesApart ==
    /\ \A s \in Spaces \cup {Kmem} : \A k \in Slots(s) : BelongsTo(top[s][k], s, k)
    /\ \A c \in Cores : /\ \A k \in UserSlots : BelongsTo(ktable[c][k], cur[c], k)
                        /\ \A k \in KernelSlots : BelongsTo(ktable[c][k], Kmem, k)

EntriesStay(s) ==
    \A k \in Slots(s) : top[s][k] # NoTable => top'[s][k] = top[s][k]

(* A live user space that is active on no core loses none of its mappings. *)
InactiveSpacesKeep ==
    [][\A s \in live : ~IsActive(s) => EntriesStay(s)]_vars

(* What vmem_init mapped stays mapped for the kernel and on every core     *)
(* that has come up: it is in every copy, so no stale copy can undo it.    *)
BootMappingsStay ==
    \A k \in BootSlots :
        /\ top[Kmem][k] = k
        /\ \A c \in up : ktable[c][k] = k

(* No call leaves a lock behind that a later call needs: only vmem_destroy *)
(* keeps one, and malloc returns its storage with the lock initialised.    *)
LocksAreFree == \A s \in live \cup {Kmem} : lock[s] = 0

(* vmem.c: "Add to user map", "Add to kernel map".  What vmem_map has      *)
(* added stays, as vmem_unmap is not implemented.                          *)
MappingsStay == [][\A s \in live \cup {Kmem} : EntriesStay(s)]_vars

=============================================================================
