-------------------------- MODULE VMemSpacesProofs --------------------------
(***************************************************************************)
(* Proof that the address spaces of vmem.c stay apart, that the mappings   *)
(* of vmem_init are never lost and that no lock is left behind, for every  *)
(* number of cores, spaces, slots and tables.                              *)
(***************************************************************************)
EXTENDS VMemSpaces, FiniteSetTheorems, SequenceTheorems, TLAPS

USE SpacesAssumption

-----------------------------------------------------------------------------
(* The inductive invariant.                                                *)

Owners == Spaces \cup {Kmem}

Entries == Tables \cup {NoTable}

MapJob(s, k) == [do |-> "map", of |-> s, slot |-> k]

Jobs == {Job(do, s) : do \in {"boot", "save", "load", "unmap", "destroy"}, s \in Owners}
            \cup {MapJob(s, k) : s \in Owners, k \in AllSlots}

TypeInv ==
    /\ top \in [Owners -> [UserSlots -> Entries] \cup [KernelSlots -> Entries]]
    /\ \A s \in Owners : top[s] \in [Slots(s) -> Entries]
    /\ ktable \in [Cores -> [AllSlots -> Entries]]
    /\ cur \in [Cores -> Spaces \cup {NoSpace}]
    /\ lock \in [Owners -> {0, 1}]
    /\ life \in [Spaces -> Nat]
    /\ live \subseteq Spaces
    /\ up \subseteq Cores
    /\ todo \in [Cores -> Seq(Jobs)]
    /\ home \in [Tables -> (Owners \X Nat \X AllSlots) \cup {<< >>}]

(* What core c may still have to do: it saves its active space to itself   *)
(* only, and works on spaces that live, or destroys one that does not.     *)
JobFits(c, job) ==
    \/ c \notin up /\ job = Job("boot", Kmem)
    \/ c \in up /\ job = Job("save", Kmem)
    \/ c \in up /\ cur[c] # NoSpace /\ job = Job("save", cur[c])
    \/ c \in up /\ \E s \in live : job = Job("load", s)
    \/ c \in up /\ \E s \in live \cup {Kmem} : job = Job("unmap", s)
    \/ c \in up /\ \E s \in live \cup {Kmem} : \E k \in Slots(s) : job = MapJob(s, k)
    \/ c \in up /\ \E s \in Spaces \ live : job = Job("destroy", s)

(* Only the last job of a call is anything but a save, and a mapping is a  *)
(* call of its own.                                                        *)
JobsFit(c) ==
    \A i \in 1 .. Len(todo[c]) :
        /\ JobFits(c, todo[c][i])
        /\ i < Len(todo[c]) => todo[c][i].do = "save"
        /\ todo[c][i].do = "map" => i = 1

JobsInv == \A c \in Cores : JobsFit(c)

ActiveLives == \A c \in Cores : cur[c] \in live \cup {NoSpace}

(* Every call of vmem_map under way finds a table.                         *)
TablesSuffice == Cardinality(Mapping) <= Cardinality(Free)

IInv ==
    /\ TypeInv /\ JobsInv /\ ActiveLives /\ TablesSuffice
    /\ SpacesApart /\ BootMappingsStay /\ LocksAreFree

LEMMA JobIsJob ==
    /\ \A s \in Owners : \A do \in {"boot", "save", "load", "unmap", "destroy"} :
           Job(do, s) \in Jobs /\ Job(do, s).do = do /\ Job(do, s).of = s
    /\ \A s \in Owners : \A k \in AllSlots :
           MapJob(s, k) \in Jobs /\ MapJob(s, k).do = "map"
           /\ MapJob(s, k).of = s /\ MapJob(s, k).slot = k
  <1>1. ASSUME NEW s \in Owners, NEW do \in {"boot", "save", "load", "unmap", "destroy"}
        PROVE  Job(do, s) \in Jobs
    BY DEF Jobs
  <1>2. ASSUME NEW s \in Owners, NEW k \in AllSlots
        PROVE  MapJob(s, k) \in Jobs
    BY DEF Jobs
  <1> QED BY <1>1, <1>2 DEF Job, MapJob

LEMMA SlotsSplit ==
    /\ \A s \in Spaces : Slots(s) = UserSlots /\ s # Kmem
    /\ Slots(Kmem) = KernelSlots
    /\ \A s \in Owners : Slots(s) \subseteq AllSlots
  BY DEF Slots, AllSlots, Owners

(* The tables and the cores are finitely many.                             *)
LEMMA CountsAreNumbers ==
    /\ IsFiniteSet(Free) /\ Cardinality(Free) \in Nat
    /\ IsFiniteSet(Mapping) /\ Cardinality(Mapping) \in Nat
  <1>1. Free \subseteq Tables /\ Mapping \subseteq Cores
    BY DEF Free, Mapping
  <1>2. IsFiniteSet(Free) /\ IsFiniteSet(Mapping)
    BY <1>1, FS_Subset
  <1> QED BY <1>2, FS_CardinalityType

LEMMA InitIInv == Init => IInv
  <1> SUFFICES ASSUME Init PROVE IInv
    OBVIOUS
  <1>1. TypeInv
    <2>1. \A s \in Owners : top[s] \in [Slots(s) -> Entries]
      BY DEF Init, Owners, Entries
    <2>2. top \in [Owners -> [UserSlots -> Entries] \cup [KernelSlots -> Entries]]
      BY <2>1, SlotsSplit DEF Init, Owners
    <2>3. home \in [Tables -> (Owners \X Nat \X AllSlots) \cup {<< >>}]
      BY DEF Init, Owners, AllSlots
    <2>4. ktable \in [Cores -> [AllSlots -> Entries]]
      BY DEF Init, Entries, AllSlots
    <2> QED BY <2>1, <2>2, <2>3, <2>4 DEF Init, TypeInv, Owners
  <1>2. JobsInv /\ ActiveLives
    BY DEF Init, JobsInv, JobsFit, ActiveLives
  <1>3. TablesSuffice
    <2>1. Mapping = {}
      BY DEF Init, Mapping
    <2> QED BY <2>1, CountsAreNumbers, FS_EmptySet DEF TablesSuffice
  <1>4. SpacesApart
    <2>1. \A k \in BootSlots : BelongsTo(k, Kmem, k)
      BY DEF Init, BelongsTo, Place
    <2>2. \A s, k : BelongsTo(NoTable, s, k)
      BY DEF BelongsTo
    <2>3. \A s \in Spaces \cup {Kmem} : \A k \in Slots(s) : BelongsTo(top[s][k], s, k)
      BY <2>1, <2>2, SlotsSplit DEF Init
    <2>4. ASSUME NEW c \in Cores
          PROVE  /\ \A k \in UserSlots : BelongsTo(ktable[c][k], cur[c], k)
                 /\ \A k \in KernelSlots : BelongsTo(ktable[c][k], Kmem, k)
      BY <2>1, <2>2 DEF Init, AllSlots
    <2> QED BY <2>3, <2>4 DEF SpacesApart
  <1>5. BootMappingsStay
    BY SlotsSplit DEF Init, BootMappingsStay, AllSlots
  <1>6. LocksAreFree
    BY DEF Init, LocksAreFree
  <1> QED BY <1>1, <1>2, <1>3, <1>4, <1>5, <1>6 DEF IInv

-----------------------------------------------------------------------------
(* The beginning of a call.                                                *)

(* A call changes no table, and the spaces it takes from the live ones are *)
(* neither active nor in a call.                                           *)
LEMMA CallBegins ==
    ASSUME IInv, NEW c \in Cores, NEW js \in Seq(Jobs), Starts(c, js),
           NEW gone \in SUBSET Spaces, live' = live \ gone,
           \A s \in gone : ~IsActive(s) /\ ~InCall(s),
           JobsFit(c)',
           js # << >> /\ Head(js).do = "map" => Cardinality(Free) > Cardinality(Mapping)
    PROVE  IInv'
  <1> USE DEF IInv
  <1>1. /\ UNCHANGED <<top, ktable, cur, lock, life, up, home>>
        /\ todo[c] = << >>
        /\ todo' = [todo EXCEPT ![c] = js]
    BY DEF Starts
  <1>2. TypeInv'
    BY <1>1 DEF TypeInv, Slots
  <1>3. JobsInv'
    <2>1. ASSUME NEW d \in Cores, d # c
          PROVE  JobsFit(d)'
      <3>1. todo'[d] = todo[d] /\ DOMAIN todo[d] = 1 .. Len(todo[d])
        BY <1>1, <2>1 DEF TypeInv
      <3>2. SUFFICES ASSUME NEW i \in 1 .. Len(todo[d])
                     PROVE  /\ JobFits(d, todo[d][i])'
                            /\ i < Len(todo[d]) => todo[d][i].do = "save"
                            /\ todo[d][i].do = "map" => i = 1
        BY <3>1 DEF JobsFit
      <3>3. /\ JobFits(d, todo[d][i])
            /\ i < Len(todo[d]) => todo[d][i].do = "save"
            /\ todo[d][i].do = "map" => i = 1
        BY DEF JobsInv, JobsFit
      <3>4. \A s \in gone : todo[d][i].of # s
        BY <3>1 DEF InCall
      <3>5. \A s \in live : todo[d][i].of = s => s \in live'
        BY <3>4
      <3>6. JobFits(d, todo[d][i])'
        BY <1>1, <3>1, <3>3, <3>5 DEF JobFits, TypeInv, Slots, Job, MapJob
      <3> QED BY <3>3, <3>6
    <2> QED BY <2>1 DEF JobsInv
  <1>4. ActiveLives'
    BY <1>1 DEF ActiveLives, IsActive
  <1>5. TablesSuffice'
    <2>1. Free' = Free
      BY <1>1 DEF Free
    <2>2. CASE js # << >> /\ Head(js).do = "map"
      <3>1. Mapping' \subseteq Mapping \cup {c}
        BY <1>1 DEF Mapping, TypeInv
      <3>2. /\ IsFiniteSet(Mapping \cup {c})
            /\ Cardinality(Mapping \cup {c}) =
                  IF c \in Mapping THEN Cardinality(Mapping) ELSE Cardinality(Mapping) + 1
        BY CountsAreNumbers, FS_AddElement
      <3>3. Cardinality(Mapping \cup {c}) <= Cardinality(Mapping) + 1
        BY <3>2, CountsAreNumbers
      <3>4. Cardinality(Mapping') <= Cardinality(Mapping \cup {c})
        BY <3>1, <3>2, FS_Subset
      <3>5. IsFiniteSet(Mapping') /\ Cardinality(Mapping') \in Nat /\ Cardinality(Mapping \cup {c}) \in Nat
        BY <3>1, <3>2, FS_Subset, FS_CardinalityType
      <3> QED BY <2>1, <2>2, <3>3, <3>4, <3>5, CountsAreNumbers DEF TablesSuffice
    <2>3. CASE ~(js # << >> /\ Head(js).do = "map")
      <3>1. Mapping' = Mapping
        BY <1>1, <2>3 DEF Mapping, TypeInv
      <3> QED BY <2>1, <3>1 DEF TablesSuffice
    <2> QED BY <2>2, <2>3
  <1>6. SpacesApart' /\ BootMappingsStay'
    <2>1. SpacesApart'
      BY <1>1 DEF SpacesApart, BelongsTo, Place, Slots
    <2>2. BootMappingsStay'
      BY <1>1 DEF BootMappingsStay, BelongsTo, Place, Slots
    <2> QED BY <2>1, <2>2
  <1>7. LocksAreFree'
    BY <1>1 DEF LocksAreFree
  <1> QED BY <1>2, <1>3, <1>4, <1>5, <1>6, <1>7

LEMMA OneJobList ==
    ASSUME NEW job \in Jobs
    PROVE  /\ <<job>> \in Seq(Jobs) /\ Len(<<job>>) = 1 /\ <<job>>[1] = job
           /\ Head(<<job>>) = job
  OBVIOUS

LEMMA OneJobBegins ==
    ASSUME IInv, NEW c \in Cores, NEW job \in Jobs, Starts(c, <<job>>), UNCHANGED live,
           JobFits(c, job), job.do = "map" => Cardinality(Free) > Cardinality(Mapping)
    PROVE  IInv'
  <1>1. PICK js \in Seq(Jobs) : js = <<job>> /\ Len(js) = 1 /\ js[1] = job /\ Head(js) = job
    BY OneJobList
  <1>2. todo'[c] = js /\ UNCHANGED <<up, cur>> /\ Starts(c, js)
    BY <1>1 DEF Starts, IInv, TypeInv
  <1>3. JobFits(c, job)'
    BY <1>2 DEF JobFits, Slots
  <1>4. JobsFit(c)'
    BY <1>1, <1>2, <1>3 DEF JobsFit
  <1>5. live' = live \ {}
    OBVIOUS
  <1>6. {} \in SUBSET Spaces /\ \A s \in {} : ~IsActive(s) /\ ~InCall(s)
    OBVIOUS
  <1> QED BY <1>1, <1>2, <1>4, <1>5, <1>6, CallBegins

LEMMA MpInitIInv ==
    ASSUME IInv, NEW c \in Cores, vmem_mp_init(c)
    PROVE  IInv'
  <1>1. Job("boot", Kmem) \in Jobs /\ Job("boot", Kmem).do = "boot"
    BY JobIsJob DEF Owners
  <1>2. JobFits(c, Job("boot", Kmem))
    BY DEF vmem_mp_init, JobFits
  <1> QED BY <1>1, <1>2, OneJobBegins DEF vmem_mp_init

LEMMA MapIInv ==
    ASSUME IInv, NEW c \in up, NEW s \in live \cup {Kmem}, NEW k \in Slots(s),
           vmem_map(c, s, k)
    PROVE  IInv'
  <1>1. c \in Cores /\ s \in Owners /\ k \in AllSlots
    BY SlotsSplit DEF IInv, TypeInv, Owners
  <1>2. MapJob(s, k) \in Jobs
    BY <1>1, JobIsJob
  <1>3. JobFits(c, MapJob(s, k))
    BY DEF JobFits
  <1> QED BY <1>1, <1>2, <1>3, OneJobBegins DEF vmem_map, MapJob

LEMMA UnmapIInv ==
    ASSUME IInv, NEW c \in up, NEW s \in live \cup {Kmem}, vmem_unmap(c, s)
    PROVE  IInv'
  <1>1. c \in Cores /\ s \in Owners
    BY DEF IInv, TypeInv, Owners
  <1>2. Job("unmap", s) \in Jobs /\ Job("unmap", s).do = "unmap"
    BY <1>1, JobIsJob
  <1>3. JobFits(c, Job("unmap", s))
    BY DEF JobFits
  <1> QED BY <1>1, <1>2, <1>3, OneJobBegins DEF vmem_unmap

LEMMA DestroyIInv ==
    ASSUME IInv, NEW c \in up, NEW s \in live, vmem_destroy(c, s)
    PROVE  IInv'
  <1>1. c \in Cores /\ s \in Spaces /\ s \in Owners
    BY DEF IInv, TypeInv, Owners
  <1>2. Job("destroy", s) \in Jobs /\ Job("destroy", s).do = "destroy"
    BY <1>1, JobIsJob
  <1>3. PICK js \in Seq(Jobs) : /\ js = <<Job("destroy", s)>>
                                /\ Len(js) = 1 /\ js[1] = Job("destroy", s)
                                /\ js[1].do = "destroy" /\ Head(js) = js[1]
    BY <1>2, OneJobList
  <1>4. /\ todo'[c] = js /\ UNCHANGED <<up, cur>> /\ Starts(c, js) /\ live' = live \ {s}
        /\ ~IsActive(s) /\ ~InCall(s)
    BY <1>1, <1>3 DEF vmem_destroy, Starts, IInv, TypeInv
  <1>5. JobsFit(c)'
    <2>1. ASSUME NEW i \in 1 .. 1
          PROVE  /\ todo'[c][i] = Job("destroy", s) /\ i = 1
                 /\ s \in Spaces \ live' /\ c \in up'
      BY <1>1, <1>3, <1>4
    <2> QED BY <1>3, <1>4, <2>1 DEF JobsFit, JobFits
  <1>6. js # << >> /\ Head(js).do # "map"
    BY <1>3
  <1>7. {s} \in SUBSET Spaces
    BY <1>1
  <1> QED BY <1>1, <1>4, <1>5, <1>6, <1>7, CallBegins

(* The calls that save the state, and then perhaps load another space.     *)
LEMMA SavestateIInv ==
    ASSUME IInv, NEW c \in up, NEW last \in Seq(Jobs),
           last = << >> \/ \E s \in live : last = <<Job("load", s)>>,
           Starts(c, vmem_savestate(c) \o last), UNCHANGED live
    PROVE  IInv'
  <1>1. /\ c \in Cores /\ cur[c] \in Spaces \cup {NoSpace}
        /\ live \subseteq Spaces /\ todo \in [Cores -> Seq(Jobs)]
    BY DEF IInv, TypeInv
  <1>2. PICK saves \in Seq(Jobs) : saves = vmem_savestate(c)
    <2>1. Job("save", Kmem) \in Jobs
      BY JobIsJob DEF Owners
    <2>2. cur[c] # NoSpace => Job("save", cur[c]) \in Jobs
      BY <1>1, JobIsJob DEF Owners
    <2>3. vmem_savestate(c) \in Seq(Jobs)
      BY <2>1, <2>2 DEF vmem_savestate
    <2> QED BY <2>3
  <1>3. /\ Len(saves) \in {1, 2}
        /\ \A i \in 1 .. Len(saves) : saves[i].do = "save" /\ JobFits(c, saves[i])
    <2>1. CASE cur[c] = NoSpace
      <3>1. Len(saves) = 1 /\ saves[1] = Job("save", Kmem)
        BY <1>2, <2>1 DEF vmem_savestate
      <3> QED BY <3>1, JobIsJob DEF JobFits, Owners
    <2>2. CASE cur[c] # NoSpace
      <3>1. Len(saves) = 2 /\ saves[1] = Job("save", cur[c]) /\ saves[2] = Job("save", Kmem)
        BY <1>2, <2>2 DEF vmem_savestate
      <3> QED BY <1>1, <2>2, <3>1, JobIsJob DEF JobFits, Owners
    <2> QED BY <2>1, <2>2
  <1>4. /\ Len(last) \in {0, 1}
        /\ \A i \in 1 .. Len(last) : last[i].do = "load" /\ JobFits(c, last[i])
    <2>1. CASE last = << >>
      BY <2>1
    <2>2. ASSUME NEW s \in live, last = <<Job("load", s)>>
          PROVE  last[1].do = "load" /\ JobFits(c, last[1]) /\ Len(last) = 1
      <3>1. s \in Owners
        BY <1>1 DEF Owners
      <3> QED BY <2>2, <3>1, JobIsJob DEF JobFits
    <2> QED BY <2>1, <2>2
  <1>5. PICK js \in Seq(Jobs) : js = saves \o last
    <2>1. saves \o last \in Seq(Jobs)
      OBVIOUS
    <2> QED BY <2>1
  <1>6. /\ Len(js) = Len(saves) + Len(last)
        /\ \A i \in 1 .. Len(js) :
              js[i] = IF i <= Len(saves) THEN saves[i] ELSE last[i - Len(saves)]
    BY <1>5
  <1>7. \A i \in 1 .. Len(js) :
           /\ JobFits(c, js[i])
           /\ js[i].do \in {"save", "load"}
           /\ i < Len(js) => js[i].do = "save"
    <2> TAKE i \in 1 .. Len(js)
    <2> DEFINE n == Len(saves)
    <2>1. n \in Nat /\ Len(last) \in {0, 1} /\ Len(js) = n + Len(last)
      BY <1>4, <1>6
    <2> HIDE DEF n
    <2>2. CASE i <= n
      <3>1. js[i] = saves[i] /\ i \in 1 .. n
        BY <1>6, <2>1, <2>2 DEF n
      <3> QED BY <1>3, <3>1 DEF n
    <2>3. CASE ~(i <= n)
      <3>1. i - n \in 1 .. Len(last) /\ i = Len(js)
        <4>1. \A m \in {0, 1} : i \in 1 .. n + m => m = 1 /\ i = n + 1
          BY <2>1, <2>3
        <4>2. Len(last) = 1 /\ i = n + 1
          BY <2>1, <4>1
        <4> QED BY <2>1, <4>2
      <3>2. js[i] = last[i - n]
        BY <1>6, <2>3 DEF n
      <3> QED BY <1>4, <2>1, <3>1, <3>2
    <2> QED BY <2>2, <2>3
  <1>8. todo'[c] = js /\ UNCHANGED <<up, cur>> /\ Starts(c, js) /\ live' = live \ {}
    BY <1>1, <1>2, <1>5 DEF Starts
  <1>9. JobsFit(c)'
    BY <1>7, <1>8 DEF JobsFit, JobFits, Slots
  <1>10. js # << >> => Head(js).do # "map"
    <2>1. js # << >> => 1 \in 1 .. Len(js) /\ Head(js) = js[1]
      OBVIOUS
    <2> QED BY <1>7, <2>1
  <1> QED BY <1>1, <1>8, <1>9, <1>10, CallBegins

LEMMA SetactiveIInv ==
    ASSUME IInv, NEW c \in up, NEW s \in live, vmem_setactive(c, s)
    PROVE  IInv'
  <1>1. Job("load", s) \in Jobs
    BY JobIsJob DEF IInv, TypeInv, Owners
  <1>2. PICK last \in Seq(Jobs) : last = <<Job("load", s)>>
    BY <1>1, OneJobList
  <1> QED BY <1>2, SavestateIInv DEF vmem_setactive

LEMMA SaveOnlyIInv ==
    ASSUME IInv, NEW c \in up, SaveOnly(c)
    PROVE  IInv'
  <1>1. vmem_savestate(c) = vmem_savestate(c) \o << >> /\ << >> \in Seq(Jobs)
    BY DEF vmem_savestate
  <1> QED BY <1>1, SavestateIInv DEF SaveOnly

(* No core and no call holds the storage that malloc returns.              *)
LEMMA CreateIInv ==
    ASSUME IInv, NEW c \in Cores, vmem_create(c)
    PROVE  IInv'
  <1> USE DEF IInv
  <1>1. PICK s \in Spaces \ live :
           /\ ~InCall(s)
           /\ live' = live \cup {s}
           /\ life' = [life EXCEPT ![s] = @ + 1]
           /\ lock' = [lock EXCEPT ![s] = 0]
           /\ top' = [top EXCEPT ![s] = [k \in UserSlots |-> NoTable]]
    BY DEF vmem_create
  <1>2. UNCHANGED <<ktable, cur, up, todo, home>>
    BY DEF vmem_create
  <1>3. \A d \in Cores : cur[d] # s
    BY DEF ActiveLives
  <1>4. s \in Spaces /\ s \in Owners /\ s # Kmem /\ Slots(s) = UserSlots
    BY SlotsSplit DEF Owners
  <1>5. TypeInv'
    <2>1. [k \in UserSlots |-> NoTable] \in [UserSlots -> Entries]
      BY DEF Entries
    <2>2. top' \in [Owners -> [UserSlots -> Entries] \cup [KernelSlots -> Entries]]
      BY <1>1, <1>4, <2>1 DEF TypeInv
    <2>3. \A o \in Owners : top'[o] \in [Slots(o) -> Entries]
      BY <1>1, <1>4, <2>1 DEF TypeInv
    <2>4. lock' \in [Owners -> {0, 1}]
      BY <1>1, <1>4 DEF TypeInv
    <2>5. life' \in [Spaces -> Nat]
      BY <1>1, <1>4 DEF TypeInv
    <2> QED BY <1>1, <1>2, <1>4, <2>2, <2>3, <2>4, <2>5 DEF TypeInv, Slots
  <1>6. JobsInv'
    <2>1. ASSUME NEW d \in Cores, NEW i \in 1 .. Len(todo[d])
          PROVE  /\ JobFits(d, todo[d][i])'
                 /\ i < Len(todo[d]) => todo[d][i].do = "save"
                 /\ todo[d][i].do = "map" => i = 1
      <3>1. DOMAIN todo[d] = 1 .. Len(todo[d])
        BY DEF TypeInv
      <3>2. todo[d][i].of # s
        BY <1>1, <3>1 DEF InCall
      <3>3. /\ JobFits(d, todo[d][i])
            /\ i < Len(todo[d]) => todo[d][i].do = "save"
            /\ todo[d][i].do = "map" => i = 1
        BY DEF JobsInv, JobsFit
      <3>4. \A o \in Spaces \ live : todo[d][i] = Job("destroy", o) => o \in Spaces \ live'
        BY <1>1, <3>2 DEF Job
      <3>5. live \subseteq live'
        BY <1>1
      <3>6. JobFits(d, todo[d][i])'
        BY <1>2, <3>3, <3>4, <3>5 DEF JobFits, Slots
      <3> QED BY <3>3, <3>6
    <2>2. todo' = todo
      BY <1>2
    <2> QED BY <2>1, <2>2 DEF JobsInv, JobsFit
  <1>7. ActiveLives'
    BY <1>1, <1>2 DEF ActiveLives
  <1>8. TablesSuffice'
    BY <1>2 DEF TablesSuffice, Free, Mapping
  <1>9. SpacesApart'
    <2>1. \A o \in Owners \ {s} : \A k : Place(o, k)' = Place(o, k)
      BY <1>1 DEF Place, TypeInv
    <2>2. \A t, o, k : o # s => (BelongsTo(t, o, k)' <=> BelongsTo(t, o, k))
      BY <1>1, <1>2 DEF BelongsTo, Place, TypeInv
    <2>3. ASSUME NEW o \in Spaces \cup {Kmem}, NEW k \in Slots(o)
          PROVE  BelongsTo(top[o][k], o, k)'
      <3>1. CASE o = s
        BY <1>1, <1>4, <3>1 DEF TypeInv, BelongsTo, Owners
      <3>2. CASE o # s
        <4>1. top'[o] = top[o]
          BY <1>1, <3>2 DEF TypeInv, Owners
        <4> QED BY <2>2, <3>2, <4>1 DEF SpacesApart, BelongsTo
      <3> QED BY <3>1, <3>2
    <2>4. ASSUME NEW d \in Cores
          PROVE  /\ \A k \in UserSlots : BelongsTo(ktable[d][k], cur[d], k)'
                 /\ \A k \in KernelSlots : BelongsTo(ktable[d][k], Kmem, k)'
      BY <1>2, <1>3, <1>4, <2>2 DEF SpacesApart
    <2> QED BY <2>3, <2>4 DEF SpacesApart, Slots
  <1>10. BootMappingsStay'
    BY <1>1, <1>2, <1>4 DEF BootMappingsStay, TypeInv, Owners
  <1>11. LocksAreFree'
    BY <1>1, <1>4 DEF LocksAreFree, TypeInv, Owners
  <1> QED BY <1>5, <1>6, <1>7, <1>8, <1>9, <1>10, <1>11

-----------------------------------------------------------------------------
(* The jobs.                                                               *)

LEMMA JobFields ==
    /\ \A do, s : Job(do, s).do = do /\ Job(do, s).of = s
    /\ \A s, k : /\ MapJob(s, k).do = "map" /\ MapJob(s, k).of = s
                 /\ MapJob(s, k).slot = k
  BY DEF Job, MapJob

(* What a job that fits works on.                                          *)
LEMMA JobMeaning ==
    ASSUME NEW c, NEW job, JobFits(c, job)
    PROVE  /\ job.do \in {"boot", "save", "load", "unmap", "map", "destroy"}
           /\ job.do = "boot" => job.of = Kmem
           /\ job.do # "boot" => c \in up
           /\ job.do = "save" => job.of = Kmem \/ (cur[c] # NoSpace /\ job.of = cur[c])
           /\ job.do = "load" => job.of \in live
           /\ job.do \in {"unmap", "map"} => job.of \in live \cup {Kmem}
           /\ job.do = "map" => job.slot \in Slots(job.of)
           /\ job.do = "destroy" => job.of \in Spaces \ live
  <1>1. CASE job = Job("boot", Kmem)
    BY <1>1, JobFields
  <1>2. CASE c \in up /\ job = Job("save", Kmem)
    BY <1>2, JobFields
  <1>3. CASE c \in up /\ cur[c] # NoSpace /\ job = Job("save", cur[c])
    BY <1>3, JobFields
  <1>4. CASE c \in up /\ \E s \in live : job = Job("load", s)
    BY <1>4, JobFields
  <1>5. CASE c \in up /\ \E s \in live \cup {Kmem} : job = Job("unmap", s)
    BY <1>5, JobFields
  <1>6. ASSUME c \in up, NEW s \in live \cup {Kmem}, NEW k \in Slots(s), job = MapJob(s, k)
        PROVE  job.do = "map" /\ job.of = s /\ job.slot = k
    BY <1>6, JobFields
  <1>7. CASE c \in up /\ \E s \in Spaces \ live : job = Job("destroy", s)
    BY <1>7, JobFields
  <1> QED BY <1>1, <1>2, <1>3, <1>4, <1>5, <1>6, <1>7 DEF JobFits

LEMMA TailOfOne ==
    ASSUME NEW S, NEW s \in Seq(S), Len(s) = 1
    PROVE  Tail(s) = << >>
  <1>1. s # << >>
    OBVIOUS
  <1>2. Tail(s) \in Seq(S) /\ Len(Tail(s)) = Len(s) - 1
    BY <1>1, HeadTailProperties
  <1>3. Len(Tail(s)) = 0
    BY <1>2
  <1> QED BY <1>2, <1>3, EmptySeq

LEMMA JobAtHand ==
    ASSUME IInv, NEW c \in Cores, todo[c] # << >>
    PROVE  /\ Head(todo[c]) \in Jobs /\ JobFits(c, Head(todo[c]))
           /\ Head(todo[c]).do # "save" => Tail(todo[c]) = << >>
           /\ Tail(todo[c]) \in Seq(Jobs)
           /\ \A i \in 1 .. Len(Tail(todo[c])) :
                 /\ JobFits(c, Tail(todo[c])[i])
                 /\ i < Len(Tail(todo[c])) => Tail(todo[c])[i].do = "save"
                 /\ Tail(todo[c])[i].do # "map"
  <1>1. todo[c] \in Seq(Jobs)
    BY DEF IInv, TypeInv
  <1>2. /\ Head(todo[c]) = todo[c][1] /\ 1 \in 1 .. Len(todo[c])
        /\ Head(todo[c]) \in Jobs /\ Tail(todo[c]) \in Seq(Jobs)
        /\ Len(Tail(todo[c])) = Len(todo[c]) - 1
        /\ \A i \in 1 .. Len(Tail(todo[c])) : Tail(todo[c])[i] = todo[c][i + 1]
    BY <1>1
  <1>3. \A i \in 1 .. Len(todo[c]) :
           /\ JobFits(c, todo[c][i])
           /\ i < Len(todo[c]) => todo[c][i].do = "save"
           /\ todo[c][i].do = "map" => i = 1
    BY DEF IInv, JobsInv, JobsFit
  <1>4. Head(todo[c]).do # "save" => Tail(todo[c]) = << >>
    <2>1. Len(todo[c]) \in Nat /\ Len(todo[c]) >= 1
      BY <1>1
    <2>2. 1 < Len(todo[c]) => Head(todo[c]).do = "save"
      BY <1>2, <1>3
    <2>3. Head(todo[c]).do # "save" => Len(todo[c]) = 1
      <3>1. \A n \in Nat : n >= 1 /\ ~(1 < n) => n = 1
        OBVIOUS
      <3> QED BY <2>1, <2>2, <3>1, Zenon
    <2> QED BY <1>1, <2>3, TailOfOne
  <1>5. ASSUME NEW i \in 1 .. Len(Tail(todo[c]))
        PROVE  /\ JobFits(c, Tail(todo[c])[i])
               /\ i < Len(Tail(todo[c])) => Tail(todo[c])[i].do = "save"
               /\ Tail(todo[c])[i].do # "map"
    <2>1. /\ i + 1 \in 1 .. Len(todo[c]) /\ i + 1 # 1
          /\ i < Len(Tail(todo[c])) => i + 1 < Len(todo[c])
      BY <1>1, <1>2
    <2> QED BY <1>2, <1>3, <2>1
  <1> QED BY <1>2, <1>3, <1>4, <1>5

(* What is left to do still fits when a job is done.                       *)
LEMMA JobsGoOn ==
    ASSUME IInv, NEW c \in Cores, Work(c)
    PROVE  JobsInv' /\ ActiveLives'
  <1> DEFINE job == Head(todo[c])
  <1>1. /\ todo[c] # << >>
        /\ cur' = IF job.do = "load" THEN [cur EXCEPT ![c] = job.of] ELSE cur
        /\ up' = IF job.do = "boot" THEN up \cup {c} ELSE up
        /\ todo' = [todo EXCEPT ![c] = Tail(@)]
        /\ UNCHANGED live
    BY DEF Work
  <1>2. JobFits(c, job) /\ (job.do # "save" => Tail(todo[c]) = << >>)
    BY <1>1, JobAtHand
  <1>3. /\ todo \in [Cores -> Seq(Jobs)] /\ cur \in [Cores -> Spaces \cup {NoSpace}]
        /\ todo'[c] = Tail(todo[c])
    BY <1>1 DEF IInv, TypeInv
  <1>4. JobsInv'
    <2>1. ASSUME NEW d \in Cores, d # c
          PROVE  JobsFit(d)'
      <3>1. /\ todo'[d] = todo[d] /\ cur'[d] = cur[d] /\ (d \in up' <=> d \in up)
            /\ live' = live
        BY <1>1, <1>3, <2>1
      <3>2. JobsFit(d)
        BY DEF IInv, JobsInv
      <3> QED BY <3>1, <3>2 DEF JobsFit, JobFits, Slots
    <2>2. JobsFit(c)'
      <3>1. CASE job.do # "save"
        <4>1. todo'[c] = << >> /\ Len(<< >>) = 0
          BY <1>2, <1>3, <3>1
        <4>2. \A i : i \notin 1 .. Len(todo'[c])
          BY <4>1
        <4> QED BY <4>2 DEF JobsFit
      <3>2. CASE job.do = "save"
        <4>1. cur' = cur /\ up' = up /\ live' = live
          BY <1>1, <3>2
        <4>2. \A i \in 1 .. Len(Tail(todo[c])) :
                 /\ JobFits(c, Tail(todo[c])[i])
                 /\ i < Len(Tail(todo[c])) => Tail(todo[c])[i].do = "save"
                 /\ Tail(todo[c])[i].do # "map"
          BY <1>1, JobAtHand
        <4> QED BY <1>3, <4>1, <4>2 DEF JobsFit, JobFits, Slots
      <3> QED BY <3>1, <3>2
    <2> QED BY <2>1, <2>2 DEF JobsInv
  <1>5. ActiveLives'
    <2>1. job.do = "load" => job.of \in live
      BY <1>2, JobMeaning
    <2> QED BY <1>1, <1>3, <2>1 DEF ActiveLives, IInv
  <1> QED BY <1>4, <1>5

(* The locks: only one that no live space has is kept.                     *)
LEMMA LocksGoOn ==
    ASSUME IInv, NEW c \in Cores, Work(c)
    PROVE  LocksAreFree'
  <1> DEFINE job == Head(todo[c])
  <1>1. /\ todo[c] # << >> /\ UNCHANGED live
        /\ lock' = [lock EXCEPT ![job.of] = IF job.do = "destroy" THEN 1 ELSE 0]
    BY DEF Work, KeepsLock
  <1>2. JobFits(c, job)
    BY <1>1, JobAtHand
  <1>3. job.do = "destroy" => job.of \in Spaces \ live
    BY <1>2, JobMeaning
  <1>4. lock \in [Owners -> {0, 1}] /\ live \subseteq Spaces
    BY DEF IInv, TypeInv
  <1> QED BY <1>1, <1>3, <1>4 DEF LocksAreFree, IInv, Owners

(* What a job does to the tables.                                          *)
TablesTyped ==
    /\ top \in [Owners -> [UserSlots -> Entries] \cup [KernelSlots -> Entries]]
    /\ \A s \in Owners : top[s] \in [Slots(s) -> Entries]
    /\ ktable \in [Cores -> [AllSlots -> Entries]]
    /\ home \in [Tables -> (Owners \X Nat \X AllSlots) \cup {<< >>}]

LEMMA SaveKeeps ==
    ASSUME IInv, NEW c \in up, NEW s \in Owners, Save(c, s),
           s = Kmem \/ (cur[c] # NoSpace /\ s = cur[c]),
           UNCHANGED <<cur, up, life>>
    PROVE  TablesTyped' /\ SpacesApart' /\ BootMappingsStay' /\ UNCHANGED home
  <1> DEFINE copy == [k \in Slots(s) |-> ktable[c][k]]
  <1>1. top' = [top EXCEPT ![s] = copy] /\ UNCHANGED <<ktable, home>> /\ c \in Cores
    BY DEF Save, IInv, TypeInv
  <1>2. TablesTyped
    BY DEF IInv, TypeInv, TablesTyped
  <1>3. copy \in [Slots(s) -> Entries]
    BY <1>1, <1>2, SlotsSplit DEF TablesTyped
  <1>4. \A o \in Owners : top'[o] = IF o = s THEN copy ELSE top[o]
    BY <1>1, <1>2 DEF TablesTyped
  <1> HIDE DEF copy
  <1>5. TablesTyped'
    <2>1. \A o \in Owners : top'[o] \in [Slots(o) -> Entries]
      BY <1>2, <1>3, <1>4 DEF TablesTyped
    <2>2. top' \in [Owners -> [UserSlots -> Entries] \cup [KernelSlots -> Entries]]
      BY <1>1, <1>2, <2>1, SlotsSplit, <1>3 DEF TablesTyped, Owners
    <2> QED BY <1>1, <1>2, <2>1, <2>2 DEF TablesTyped, Slots
  <1>7. \A k \in Slots(s) : copy[k] = ktable[c][k]
    BY DEF copy
  <1>8. SpacesApart'
    <2>1. \A k \in Slots(s) : BelongsTo(ktable[c][k], s, k)
      <3>1. CASE s = Kmem
        BY <1>1, <3>1, SlotsSplit DEF IInv, SpacesApart
      <3>2. CASE cur[c] # NoSpace /\ s = cur[c]
        <4>1. s \in Spaces
          BY <1>1, <3>2 DEF IInv, TypeInv
        <4> QED BY <1>1, <3>2, <4>1, SlotsSplit DEF IInv, SpacesApart
      <3> QED BY <3>1, <3>2
    <2>2. ASSUME NEW o \in Spaces \cup {Kmem}, NEW k \in Slots(o)
          PROVE  BelongsTo(top[o][k], o, k)'
      <3>1. BelongsTo(top'[o][k], o, k)
        BY <1>4, <1>7, <2>1 DEF IInv, SpacesApart, Owners
      <3> QED BY <1>1, <3>1 DEF BelongsTo, Place
    <2>3. ASSUME NEW d \in Cores
          PROVE  /\ \A k \in UserSlots : BelongsTo(ktable[d][k], cur[d], k)'
                 /\ \A k \in KernelSlots : BelongsTo(ktable[d][k], Kmem, k)'
      BY <1>1 DEF IInv, SpacesApart, BelongsTo, Place
    <2> QED BY <2>2, <2>3 DEF SpacesApart, Slots
  <1>9. BootMappingsStay'
    <2>1. \A k \in BootSlots : top'[Kmem][k] = k
      BY <1>4, <1>7, SlotsSplit DEF IInv, BootMappingsStay, Owners
    <2> QED BY <1>1, <2>1 DEF IInv, BootMappingsStay
  <1> QED BY <1>1, <1>5, <1>8, <1>9

(* The jobs that bring core c's table up to date.                          *)
LEMMA LoadKeeps ==
    ASSUME IInv, NEW c \in Cores, NEW s \in live \cup {Kmem}, Load(c, s),
           UNCHANGED life,
           \/ s = Kmem /\ UNCHANGED cur /\ up' \subseteq up \cup {c}
           \/ s # Kmem /\ cur' = [cur EXCEPT ![c] = s] /\ UNCHANGED up
    PROVE  TablesTyped' /\ SpacesApart' /\ BootMappingsStay' /\ UNCHANGED home
  <1> DEFINE copy == [k \in AllSlots |-> IF k \in Slots(s) THEN top[s][k] ELSE ktable[c][k]]
  <1>1. /\ ktable \in [Cores -> [AllSlots -> Entries]] /\ top[s] \in [Slots(s) -> Entries]
        /\ s \in Owners /\ cur \in [Cores -> Spaces \cup {NoSpace}]
    BY DEF IInv, TypeInv, Owners
  <1>2. ktable' = [ktable EXCEPT ![c] = copy] /\ UNCHANGED <<top, home>>
    BY <1>1 DEF Load, Copied
  <1>3. copy \in [AllSlots -> Entries]
    BY <1>1
  <1>4. /\ \A k \in Slots(s) : copy[k] = top[s][k]
        /\ \A k \in AllSlots \ Slots(s) : copy[k] = ktable[c][k]
    BY <1>1, SlotsSplit
  <1> HIDE DEF copy
  <1>5. \A d \in Cores : ktable'[d] = IF d = c THEN copy ELSE ktable[d]
    BY <1>1, <1>2
  <1>6. TablesTyped'
    BY <1>1, <1>2, <1>3 DEF IInv, TypeInv, TablesTyped, Slots
  <1>7. SpacesApart'
    <2>1. ASSUME NEW o \in Spaces \cup {Kmem}, NEW k \in Slots(o)
          PROVE  BelongsTo(top[o][k], o, k)'
      BY <1>2 DEF IInv, SpacesApart, BelongsTo, Place
    <2>2. ASSUME NEW d \in Cores, d # c
          PROVE  /\ \A k \in UserSlots : BelongsTo(ktable[d][k], cur[d], k)'
                 /\ \A k \in KernelSlots : BelongsTo(ktable[d][k], Kmem, k)'
      <3>1. ktable'[d] = ktable[d] /\ cur'[d] = cur[d]
        BY <1>1, <1>5, <2>2
      <3>2. /\ \A k \in UserSlots : BelongsTo(ktable[d][k], cur[d], k)
            /\ \A k \in KernelSlots : BelongsTo(ktable[d][k], Kmem, k)
        BY DEF IInv, SpacesApart
      <3> QED BY <1>2, <3>1, <3>2 DEF BelongsTo, Place
    <2>3. /\ \A k \in UserSlots : BelongsTo(ktable[c][k], cur[c], k)'
          /\ \A k \in KernelSlots : BelongsTo(ktable[c][k], Kmem, k)'
      <3>1. ktable'[c] = copy
        BY <1>5
      <3>2. \A k \in Slots(s) : BelongsTo(top[s][k], s, k)
        BY DEF IInv, TypeInv, SpacesApart
      <3>3. /\ \A k \in UserSlots : BelongsTo(ktable[c][k], cur[c], k)
            /\ \A k \in KernelSlots : BelongsTo(ktable[c][k], Kmem, k)
        BY DEF IInv, SpacesApart
      <3>4. CASE s = Kmem
        <4>1. Slots(s) = KernelSlots /\ cur'[c] = cur[c]
          BY <3>4, SlotsSplit
        <4>2. \A k \in UserSlots : copy[k] = ktable[c][k]
          BY <1>4, <4>1 DEF AllSlots
        <4>3. /\ \A k \in UserSlots : BelongsTo(copy[k], cur[c], k)
              /\ \A k \in KernelSlots : BelongsTo(copy[k], Kmem, k)
          BY <1>4, <3>2, <3>3, <3>4, <4>1, <4>2
        <4> QED BY <1>2, <3>1, <4>1, <4>3 DEF BelongsTo, Place
      <3>5. CASE s # Kmem
        <4>1. Slots(s) = UserSlots /\ cur'[c] = s
          BY <1>1, <3>5, SlotsSplit DEF Owners
        <4>2. \A k \in KernelSlots : copy[k] = ktable[c][k]
          BY <1>4, <4>1 DEF AllSlots
        <4>3. /\ \A k \in UserSlots : BelongsTo(copy[k], s, k)
              /\ \A k \in KernelSlots : BelongsTo(copy[k], Kmem, k)
          BY <1>4, <3>2, <3>3, <4>1, <4>2
        <4> QED BY <1>2, <3>1, <4>1, <4>3 DEF BelongsTo, Place
      <3> QED BY <3>4, <3>5
    <2> QED BY <2>1, <2>2, <2>3 DEF SpacesApart, Slots
  <1>8. BootMappingsStay'
    <2>1. \A k \in BootSlots : top[Kmem][k] = k /\ k \in KernelSlots /\ k \in AllSlots
      BY DEF IInv, BootMappingsStay, AllSlots
    <2>2. ASSUME NEW k \in BootSlots, NEW d \in up' PROVE ktable'[d][k] = k
      <3>1. d \in Cores
        BY DEF IInv, TypeInv
      <3>2. CASE s = Kmem
        BY <1>4, <1>5, <2>1, <3>1, <3>2, SlotsSplit DEF IInv, BootMappingsStay
      <3>3. CASE s # Kmem
        <4>1. Slots(s) = UserSlots
          BY <1>1, <3>3, SlotsSplit DEF Owners
        <4> QED BY <1>4, <1>5, <2>1, <3>1, <3>3, <4>1 DEF IInv, BootMappingsStay
      <3> QED BY <3>2, <3>3
    <2> QED BY <1>2, <2>1, <2>2 DEF BootMappingsStay
  <1> QED BY <1>2, <1>6, <1>7, <1>8

(* The table that a mapping adds was nobody's.                             *)
LEMMA MapKeeps ==
    ASSUME IInv, NEW c \in Cores, NEW s \in live \cup {Kmem}, NEW k \in Slots(s), Map(c, s, k),
           Free # {}, UNCHANGED <<cur, up, life>>
    PROVE  /\ TablesTyped' /\ SpacesApart' /\ BootMappingsStay'
           /\ \E t \in Free : Free' = Free \/ Free' = Free \ {t}
  <1>1. PICK t \in Free : t = CHOOSE u \in Free : TRUE
    OBVIOUS
  <1>2. /\ s \in Owners /\ k \in AllSlots /\ t \in Tables /\ home[t] = << >>
        /\ Place(s, k) \in Owners \X Nat \X AllSlots /\ Place(s, k) # << >>
    <2>1. s \in Owners /\ k \in AllSlots
      BY SlotsSplit DEF IInv, TypeInv, Owners
    <2>2. Place(s, k) \in Owners \X Nat \X AllSlots
      BY <2>1 DEF Place, IInv, TypeInv
    <2> QED BY <2>1, <2>2, <1>1 DEF Free, Place
  <1>3. TablesTyped
    BY DEF IInv, TypeInv, TablesTyped
  <1>4. \/ UNCHANGED <<top, home>>
        \/ /\ top[s][k] = NoTable
           /\ top' = [top EXCEPT ![s][k] = t]
           /\ home' = [home EXCEPT ![t] = Place(s, k)]
    BY <1>1 DEF Map
  <1>5. ktable' = IF s = Kmem THEN Copied(c, s, top'[s]) ELSE ktable
    BY <1>1 DEF Map
  <1>6. /\ home' \in [Tables -> (Owners \X Nat \X AllSlots) \cup {<< >>}]
        /\ \A u \in Tables : home[u] # << >> => home'[u] = home[u]
        /\ \E u \in Free : Free' = Free \/ Free' = Free \ {u}
    <2>1. CASE UNCHANGED home
      BY <1>1, <1>3, <2>1 DEF TablesTyped, Free
    <2>2. CASE home' = [home EXCEPT ![t] = Place(s, k)]
      <3>1. \A u \in Tables : home'[u] = IF u = t THEN Place(s, k) ELSE home[u]
        BY <1>2, <1>3, <2>2 DEF TablesTyped
      <3>2. home' \in [Tables -> (Owners \X Nat \X AllSlots) \cup {<< >>}]
        BY <1>2, <1>3, <2>2 DEF TablesTyped
      <3>3. Free' = Free \ {t}
        BY <1>2, <3>1 DEF Free
      <3> QED BY <1>2, <3>1, <3>2, <3>3
    <2> QED BY <1>4, <2>1, <2>2
  <1>7. /\ \A o \in Owners : top'[o] \in [Slots(o) -> Entries]
        /\ top' \in [Owners -> [UserSlots -> Entries] \cup [KernelSlots -> Entries]]
    <2>1. \A o \in Owners : top'[o] \in [Slots(o) -> Entries]
      BY <1>2, <1>3, <1>4 DEF TablesTyped, Entries
    <2>2. DOMAIN top' = Owners /\ top' = [o \in Owners |-> top'[o]]
      BY <1>3, <1>4 DEF TablesTyped
    <2>3. \A o \in Owners : top'[o] \in [UserSlots -> Entries] \cup [KernelSlots -> Entries]
      BY <2>1, SlotsSplit DEF Owners
    <2> QED BY <2>1, <2>2, <2>3
  <1>8. \A o \in Owners : \A l \in Slots(o) :
           top'[o][l] = top[o][l] \/ (o = s /\ l = k /\ top[s][k] = NoTable /\ top'[o][l] = t
                                     /\ home'[t] = Place(s, k))
    BY <1>2, <1>3, <1>4 DEF TablesTyped
  <1>9. \A u \in Entries, o \in Owners \cup {NoSpace} : \A l :
           BelongsTo(u, o, l) => u = NoTable \/ home'[u] = Place(o, l)
    <2>1. \A o, l : Place(o, l) # << >>
      BY DEF Place
    <2> QED BY <1>6, <2>1 DEF BelongsTo, Entries
  <1>10. \A o \in Owners : \A l \in Slots(o) :
            top'[o][l] = NoTable \/ home'[top'[o][l]] = Place(o, l)
    <2>1. \A o \in Owners : \A l \in Slots(o) : top[o][l] \in Entries /\ BelongsTo(top[o][l], o, l)
      BY <1>3 DEF TablesTyped, IInv, SpacesApart, Owners
    <2> QED BY <1>8, <1>9, <2>1
  <1>11. ktable' \in [Cores -> [AllSlots -> Entries]]
         /\ \A d \in Cores : \A l \in AllSlots :
               ktable'[d][l] = ktable[d][l]
               \/ (d = c /\ s = Kmem /\ l \in KernelSlots /\ ktable'[d][l] = top'[Kmem][l])
    <2>1. CASE s # Kmem
      BY <1>3, <1>5, <2>1 DEF TablesTyped
    <2>2. CASE s = Kmem
      <3>1. top'[Kmem] \in [KernelSlots -> Entries] /\ Slots(s) = KernelSlots
        BY <1>2, <1>7, <2>2, SlotsSplit
      <3> QED BY <1>3, <1>5, <2>2, <3>1 DEF TablesTyped, Copied
    <2> QED BY <2>1, <2>2
  <1>12. \A d \in Cores :
            /\ \A l \in UserSlots : ktable'[d][l] = NoTable \/ home'[ktable'[d][l]] = Place(cur[d], l)
            /\ \A l \in KernelSlots : ktable'[d][l] = NoTable \/ home'[ktable'[d][l]] = Place(Kmem, l)
    <2> SUFFICES ASSUME NEW d \in Cores
                 PROVE  /\ \A l \in UserSlots :
                              ktable'[d][l] = NoTable \/ home'[ktable'[d][l]] = Place(cur[d], l)
                        /\ \A l \in KernelSlots :
                              ktable'[d][l] = NoTable \/ home'[ktable'[d][l]] = Place(Kmem, l)
      OBVIOUS
    <2>1. /\ \A l \in AllSlots : ktable[d][l] \in Entries
          /\ cur[d] \in Owners \cup {NoSpace} /\ Kmem \in Owners
      BY <1>3 DEF TablesTyped, IInv, TypeInv, Owners
    <2>2. /\ \A l \in UserSlots : BelongsTo(ktable[d][l], cur[d], l)
          /\ \A l \in KernelSlots : BelongsTo(ktable[d][l], Kmem, l)
      BY DEF IInv, SpacesApart
    <2>3. \A l \in UserSlots : ktable'[d][l] = ktable[d][l]
      BY <1>11 DEF AllSlots
    <2>4. \A l \in KernelSlots : ktable'[d][l] = ktable[d][l] \/ ktable'[d][l] = top'[Kmem][l]
      BY <1>11 DEF AllSlots
    <2>5. \A l \in KernelSlots : top'[Kmem][l] = NoTable \/ home'[top'[Kmem][l]] = Place(Kmem, l)
      BY <1>10, <2>1, SlotsSplit
    <2> QED BY <1>9, <2>1, <2>2, <2>3, <2>4, <2>5 DEF AllSlots
  <1>13. SpacesApart'
    BY <1>10, <1>12 DEF SpacesApart, BelongsTo, Place, Slots, Owners
  <1>14. BootMappingsStay'
    <2>1. \A l \in BootSlots : l # NoTable /\ l \in Slots(Kmem) /\ l \in AllSlots /\ top[Kmem][l] = l
      BY SlotsSplit DEF IInv, BootMappingsStay, AllSlots
    <2>2. \A l \in BootSlots : top'[Kmem][l] = l
      BY <1>8, <2>1 DEF Owners
    <2> QED BY <1>11, <2>1, <2>2 DEF IInv, TypeInv, BootMappingsStay
  <1> QED BY <1>6, <1>7, <1>11, <1>13, <1>14 DEF TablesTyped, Slots

(* A core that maps is counted, so there is a table for it.                *)
LEMMA TableForMapping ==
    ASSUME IInv, NEW c \in Mapping
    PROVE  /\ Free # {}
           /\ IsFiniteSet(Mapping \ {c})
           /\ Cardinality(Mapping \ {c}) = Cardinality(Mapping) - 1
  <1>1. IsFiniteSet(Mapping \ {c}) /\ Cardinality(Mapping \ {c}) = Cardinality(Mapping) - 1
    BY CountsAreNumbers, FS_RemoveElement
  <1>2. Cardinality(Mapping \ {c}) \in Nat
    BY <1>1, FS_CardinalityType
  <1>3. Cardinality(Free) >= 1
    BY <1>1, <1>2, CountsAreNumbers DEF IInv, TablesSuffice
  <1>4. Free # {}
    BY <1>3, FS_EmptySet
  <1> QED BY <1>1, <1>4

LEMMA WorkTables ==
    ASSUME IInv, NEW c \in Cores, Work(c)
    PROVE  /\ TablesTyped' /\ SpacesApart' /\ BootMappingsStay'
           /\ IF Head(todo[c]).do = "map" THEN \E t \in Free : Free' = Free \/ Free' = Free \ {t}
                                         ELSE Free' = Free
  <1> DEFINE job == Head(todo[c])
  <1>1. /\ todo[c] # << >> /\ Effect(c, job)
        /\ cur' = IF job.do = "load" THEN [cur EXCEPT ![c] = job.of] ELSE cur
        /\ up' = IF job.do = "boot" THEN up \cup {c} ELSE up
        /\ UNCHANGED <<life, live>>
    BY DEF Work
  <1>2. JobFits(c, job)
    BY <1>1, JobAtHand
  <1>3. /\ live \subseteq Spaces /\ Kmem \in Owners /\ live \subseteq Owners /\ Kmem \notin live
        /\ cur[c] \in Spaces \cup {NoSpace}
        /\ TablesTyped /\ SpacesApart /\ BootMappingsStay
    BY DEF IInv, TypeInv, Owners, TablesTyped
  <1> HIDE DEF job
  <1>4. CASE job.do = "save" /\ Save(c, job.of)
    <2>1. c \in up /\ (job.of = Kmem \/ (cur[c] # NoSpace /\ job.of = cur[c]))
      BY <1>2, <1>4, JobMeaning
    <2>2. job.of \in Owners
      BY <1>3, <2>1 DEF Owners
    <2>3. UNCHANGED <<cur, up, life>>
      BY <1>1, <1>4
    <2>4. TablesTyped' /\ SpacesApart' /\ BootMappingsStay' /\ UNCHANGED home
      BY <1>4, <2>1, <2>2, <2>3, SaveKeeps
    <2> QED BY <1>4, <2>4 DEF Free, job
  <1>5. CASE job.do \in {"load", "boot"} /\ Load(c, job.of)
    <2>1. \/ job.do = "load" /\ job.of \in live
          \/ job.do = "boot" /\ job.of = Kmem
      BY <1>2, <1>5, JobMeaning
    <2>2. \/ job.of = Kmem /\ UNCHANGED cur /\ up' \subseteq up \cup {c}
          \/ job.of # Kmem /\ cur' = [cur EXCEPT ![c] = job.of] /\ UNCHANGED up
      BY <1>1, <1>3, <2>1
    <2>3. TablesTyped' /\ SpacesApart' /\ BootMappingsStay' /\ UNCHANGED home
      BY <1>1, <1>5, <2>1, <2>2, LoadKeeps
    <2> QED BY <1>5, <2>3 DEF Free, job
  <1>6. CASE job.do = "unmap" /\ job.of = Kmem /\ Load(c, Kmem)
    <2>1. UNCHANGED <<cur, up, life>> /\ up' \subseteq up \cup {c}
      BY <1>1, <1>6
    <2>2. TablesTyped' /\ SpacesApart' /\ BootMappingsStay' /\ UNCHANGED home
      BY <1>6, <2>1, LoadKeeps
    <2> QED BY <1>6, <2>2 DEF Free, job
  <1>7. CASE job.do \in {"unmap", "destroy"} /\ UNCHANGED <<top, ktable, home>>
    <2>1. UNCHANGED <<cur, up, life>>
      BY <1>1, <1>7
    <2>2. TablesTyped'
      BY <1>3, <1>7, <2>1 DEF TablesTyped, BelongsTo, Place, Slots
    <2>3. SpacesApart'
      BY <1>3, <1>7, <2>1 DEF SpacesApart, BelongsTo, Place, Slots
    <2>4. BootMappingsStay'
      BY <1>3, <1>7, <2>1 DEF BootMappingsStay, BelongsTo, Place, Slots
    <2> QED BY <1>7, <2>2, <2>3, <2>4 DEF Free, job
  <1>8. CASE job.do = "map" /\ Map(c, job.of, job.slot)
    <2>1. job.of \in live \cup {Kmem} /\ job.slot \in Slots(job.of)
      BY <1>2, <1>8, JobMeaning
    <2>2. c \in Mapping
      BY <1>1, <1>8 DEF Mapping, job
    <2>3. UNCHANGED <<cur, up, life>>
      BY <1>1, <1>8
    <2>4. Free # {}
      BY <2>2, TableForMapping
    <2>5. /\ TablesTyped' /\ SpacesApart' /\ BootMappingsStay'
          /\ \E t \in Free : Free' = Free \/ Free' = Free \ {t}
      BY <1>8, <2>1, <2>3, <2>4, MapKeeps
    <2> QED BY <1>8, <2>5 DEF job
  <1> QED BY <1>1, <1>4, <1>5, <1>6, <1>7, <1>8 DEF Effect

LEMMA WorkIInv ==
    ASSUME IInv, NEW c \in Cores, Work(c)
    PROVE  IInv'
  <1> DEFINE job == Head(todo[c])
  <1>1. /\ todo[c] # << >>
        /\ lock' = [lock EXCEPT ![job.of] = IF job.do = "destroy" THEN 1 ELSE 0]
        /\ cur' = IF job.do = "load" THEN [cur EXCEPT ![c] = job.of] ELSE cur
        /\ up' = IF job.do = "boot" THEN up \cup {c} ELSE up
        /\ todo' = [todo EXCEPT ![c] = Tail(@)]
        /\ UNCHANGED <<life, live>>
    BY DEF Work, KeepsLock
  <1>2. /\ JobFits(c, job) /\ Tail(todo[c]) \in Seq(Jobs)
        /\ job.do # "save" => Tail(todo[c]) = << >>
        /\ \A i \in 1 .. Len(Tail(todo[c])) : Tail(todo[c])[i].do # "map"
    BY <1>1, JobAtHand
  <1>3. TypeInv'
    <2>1. TypeInv /\ TablesTyped'
      BY WorkTables DEF IInv
    <2>2. todo' \in [Cores -> Seq(Jobs)]
      BY <1>1, <1>2, <2>1 DEF TypeInv
    <2>3. cur' \in [Cores -> Spaces \cup {NoSpace}]
      BY <1>1, <1>2, <2>1, JobMeaning DEF TypeInv
    <2>4. lock' \in [Owners -> {0, 1}] /\ up' \subseteq Cores
      BY <1>1, <2>1 DEF TypeInv
    <2> QED BY <1>1, <2>1, <2>2, <2>3, <2>4 DEF TypeInv, TablesTyped, Slots
  <1>4. TablesSuffice'
    <2>1. \A d \in Cores \ {c} : todo'[d] = todo[d]
      BY <1>1 DEF IInv, TypeInv
    <2>2. todo'[c] = Tail(todo[c])
      BY <1>1 DEF IInv, TypeInv
    <2>3. c \notin Mapping'
      <3>1. Tail(todo[c]) # << >> => Head(Tail(todo[c])) = Tail(todo[c])[1] /\ 1 \in 1 .. Len(Tail(todo[c]))
        BY <1>2
      <3> QED BY <1>2, <2>2, <3>1 DEF Mapping
    <2>4. Mapping' \subseteq Mapping \ {c}
      BY <2>1, <2>3 DEF Mapping
    <2>5. IsFiniteSet(Mapping') /\ Cardinality(Mapping') \in Nat
          /\ IsFiniteSet(Mapping \ {c}) /\ Cardinality(Mapping \ {c}) \in Nat
          /\ Cardinality(Mapping') <= Cardinality(Mapping \ {c})
          /\ Cardinality(Mapping \ {c}) <= Cardinality(Mapping)
      <3>1. IsFiniteSet(Mapping \ {c}) /\ Cardinality(Mapping \ {c}) <= Cardinality(Mapping)
        BY CountsAreNumbers, FS_Subset
      <3>2. IsFiniteSet(Mapping') /\ Cardinality(Mapping') <= Cardinality(Mapping \ {c})
        BY <2>4, <3>1, FS_Subset
      <3> QED BY <3>1, <3>2, FS_CardinalityType
    <2>6. CASE job.do = "map"
      <3>1. c \in Mapping
        BY <1>1, <2>6 DEF Mapping
      <3>2. Cardinality(Mapping \ {c}) = Cardinality(Mapping) - 1
        BY <3>1, TableForMapping
      <3>3. PICK t \in Free : Free' = Free \/ Free' = Free \ {t}
        BY <2>6, WorkTables
      <3>4. Cardinality(Free \ {t}) = Cardinality(Free) - 1
        BY CountsAreNumbers, FS_RemoveElement
      <3>5. Cardinality(Free') >= Cardinality(Free) - 1
        <4>1. Cardinality(Free') \in {Cardinality(Free), Cardinality(Free) - 1}
          BY <3>3, <3>4
        <4> QED BY <4>1, CountsAreNumbers
      <3>6. Cardinality(Free') \in Nat
        BY <3>3, <3>4, CountsAreNumbers, FS_RemoveElement, FS_CardinalityType
      <3> QED BY <2>5, <3>2, <3>5, <3>6, CountsAreNumbers DEF IInv, TablesSuffice
    <2>7. CASE job.do # "map"
      <3>1. Free' = Free
        BY <2>7, WorkTables
      <3> QED BY <2>5, <3>1, CountsAreNumbers DEF IInv, TablesSuffice
    <2> QED BY <2>6, <2>7
  <1> QED BY <1>3, <1>4, WorkTables, JobsGoOn, LocksGoOn DEF IInv

-----------------------------------------------------------------------------
(* The theorems.                                                           *)

LEMMA NextIInv == IInv /\ [Next]_vars => IInv'
  <1> SUFFICES ASSUME IInv, [Next]_vars PROVE IInv'
    OBVIOUS
  <1>1. CASE UNCHANGED vars
    <2>1. TypeInv' /\ ActiveLives' /\ LocksAreFree'
      BY <1>1 DEF vars, IInv, TypeInv, ActiveLives, LocksAreFree, Slots
    <2>2. JobsInv'
      BY <1>1 DEF vars, IInv, JobsInv, JobsFit, JobFits, Slots
    <2>3. TablesSuffice'
      BY <1>1 DEF vars, IInv, TablesSuffice, Mapping, Free
    <2>4. SpacesApart' /\ BootMappingsStay'
      BY <1>1 DEF vars, IInv, SpacesApart, BelongsTo, Place, BootMappingsStay, Slots
    <2> QED BY <2>1, <2>2, <2>3, <2>4 DEF IInv
  <1>2. ASSUME NEW c \in Cores, c \in up, Calls(c)
        PROVE  IInv'
    BY <1>2, CreateIInv, UnmapIInv, MapIInv, SetactiveIInv, DestroyIInv, SaveOnlyIInv DEF Calls
  <1> QED BY <1>1, <1>2, MpInitIInv, WorkIInv DEF Next

LEMMA Invariance == Spec => []IInv
  BY InitIInv, NextIInv, PTL DEF Spec

(* Whatever cores copy back and forth between their tables and those of    *)
(* the spaces, entries stay with the space and the slot they were made for.*)
THEOREM SpacesStayApart == Spec => []SpacesApart
  <1>1. IInv => SpacesApart
    BY DEF IInv
  <1> QED BY <1>1, Invariance, PTL

(* No copy ever undoes what vmem_init has mapped.                          *)
THEOREM BootMappingsKept == Spec => []BootMappingsStay
  <1>1. IInv => BootMappingsStay
    BY DEF IInv
  <1> QED BY <1>1, Invariance, PTL

(* Every call finds the locks it needs free, or held by a job that ends.   *)
THEOREM NoLockLeftBehind == Spec => []LocksAreFree
  <1>1. IInv => LocksAreFree
    BY DEF IInv
  <1> QED BY <1>1, Invariance, PTL

LEMMA WorkEntriesStay ==
    ASSUME IInv, NEW c \in Cores, Work(c), NEW s \in live, ~IsActive(s)
    PROVE  EntriesStay(s)
  <1> DEFINE job == Head(todo[c])
  <1>1. todo[c] # << >> /\ Effect(c, job)
    BY DEF Work
  <1>2. JobFits(c, job)
    BY <1>1, JobAtHand
  <1>3. s \in Spaces /\ s \in Owners /\ s # Kmem /\ top \in [Owners -> [UserSlots -> Entries]
            \cup [KernelSlots -> Entries]] /\ top[s] \in [Slots(s) -> Entries]
    BY DEF IInv, TypeInv, Owners
  <1> HIDE DEF job
  <1>4. CASE job.do = "save" /\ Save(c, job.of)
    <2>1. job.of # s
      BY <1>2, <1>3, <1>4, JobMeaning DEF IsActive
    <2> QED BY <1>3, <1>4, <2>1 DEF Save, EntriesStay
  <1>5. CASE job.do = "map" /\ Map(c, job.of, job.slot)
    <2>1. PICK t : \/ UNCHANGED top
                   \/ /\ top[job.of][job.slot] = NoTable
                      /\ top' = [top EXCEPT ![job.of][job.slot] = t]
      BY <1>5 DEF Map
    <2>2. job.of \in Owners /\ top[job.of] \in [Slots(job.of) -> Entries]
      BY <1>2, <1>5, JobMeaning DEF IInv, TypeInv, Owners
    <2> QED BY <1>3, <2>1, <2>2 DEF EntriesStay
  <1>6. CASE UNCHANGED top
    BY <1>6 DEF EntriesStay
  <1> QED BY <1>1, <1>4, <1>5, <1>6 DEF Effect, Load

LEMMA NextEntriesStay ==
    ASSUME IInv, Next, NEW s \in live, ~IsActive(s)
    PROVE  EntriesStay(s)
  <1>1. CASE UNCHANGED top
    BY <1>1 DEF EntriesStay
  <1>2. ASSUME NEW c \in Cores, vmem_create(c)
        PROVE  EntriesStay(s)
    <2>1. PICK o \in Spaces \ live : top' = [top EXCEPT ![o] = [k \in UserSlots |-> NoTable]]
      BY <1>2 DEF vmem_create
    <2>2. top'[s] = top[s]
      BY <2>1 DEF IInv, TypeInv, Owners
    <2> QED BY <2>2 DEF EntriesStay
  <1>3. ASSUME NEW c \in Cores, Calls(c), ~vmem_create(c)
        PROVE  UNCHANGED top
    BY <1>3 DEF Calls, vmem_unmap, vmem_map, vmem_setactive, vmem_destroy, SaveOnly, Starts
  <1> QED BY <1>1, <1>2, <1>3, WorkEntriesStay DEF Next, vmem_mp_init, Starts

(* A space that no core has active loses nothing, not even to a copy that  *)
(* a core made before.                                                     *)
THEOREM InactiveSpacesLoseNothing == Spec => InactiveSpacesKeep
  <1>1. IInv /\ [Next]_vars => [\A s \in live : ~IsActive(s) => EntriesStay(s)]_vars
    BY NextEntriesStay
  <1> QED BY <1>1, Invariance, PTL DEF Spec, InactiveSpacesKeep

=============================================================================
