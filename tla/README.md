# A TLA+ model of the Cardinal2 kernel

Cardinal2 is a small x86-64 kernel in C (`kernel/src`, `kernel/inc`).  It is
started by a multiboot2 loader, sets up physical and virtual memory,
interrupts and the other processors, and then runs a debug shell.  This
directory holds a specification of the parts that make decisions: TLA+ modules
translated from the code, TLC configurations that check them on small
instances, and proofs checked by TLAPS.

Paths below are relative to the repository's `kernel/` directory.

## 1. The system

### Components

| part | code | state | operations | modelled in |
|---|---|---|---|---|
| ring queue | `src/containers/queue.c` | slots, `head`, `tail`, `ent_cnt` | init, tryenqueue, tryenqueue_front, trydequeue, peek | `Queue`, `QueueClient`; promise: `Deque` |
| page allocator | `src/pagealloc.c` | a ring of runs of free frames, `free_mem` | `pagealloc_init`, `_alloc`, `_free`; inside: compact (sort and merge), insert | `PageAlloc` |
| its sort | `src/pagealloc.c` 52-95 | the ring's slots, a recursion | `partition_pgs`, `quicksort_pgs` | `PageSort` |
| boot information | `src/bootinfo.c`, and `pagealloc_init` | the memory map, the stored regions | one pass over the map, one over the regions | `BootMap` |
| bootstrap allocator | `src/bootstrap_alloc.c` | a static area, a position, a lock | `bootstrap_malloc`, `bootstrap_free` | `BootstrapAlloc`; promise: `BumpArea` |
| spinlock | `inc/local_spinlock.h` | an `int` | lock, unlock | `Spinlock` |
| page tables | `src/vmem.c` 220-394, 515-560 | four levels of tables | `vmem_map`, `vmem_unmap`, `vmem_virttophys` | `VMemMap` |
| address spaces | `src/vmem.c` 30-46, 169-218, 367-513 | `kmem`, the user spaces, a table per core | create, destroy, setactive, getactive, flush, mp_init, map, unmap | `VMemSpaces` |
| interrupts | `src/interrupts/idt.c` | handlers and reservations per vector, a lock | allocate, register, unregister, dispatch | `Idt` |
| the way through an interrupt | `src/interrupts/idt.c` 43-68, 186-402 | registers, the frame on the stack, GS | entry, exchange of the registers by a handler, return | `TrapFrame` |
| thread-local storage | `src/mp.c` 80-107 and the `*_init` functions of `vmem.c`, `gdt.c`, `idt.c`, `apic.c` | a position, a block per core, a pointer per structure | setup, alloc, get, initialise | `CoreLocal` |
| I/O APIC, its table | `src/interrupts/ioapic.c`, `src/acpi.c` | the controllers and their pins | find, init, map, mask | `IoApic`; with `CoreLocal`: `Platform` |
| console and debug shell | `src/debug.c` | the screen, the trap message, the command line | print, trap, keys | `Console` |
| C library | `src/memory.c`, `src/stdlib.c` | none | blocks, strings, numbers | `CLibrary` |
| local APIC | `src/interrupts/apic.c` | device registers, the core's number | init, EOI, number | in `CoreLocal` and `Idt` |
| GDT, CPUID, `boot.S` | `src/interrupts/gdt.c`, `src/cpuid.c`, `src/boot.S` | constants | straight-line initialisation | `gdt_init` in `CoreLocal`, else no |

### How they interact

* `bootinfo_parse_and_store` reads the loader's memory map, cuts off what lies
  below 2MB or in the kernel, and stores the rest; the memory size sizes the
  ring of the page allocator, whose slots come from `malloc`, which at that
  time is `bootstrap_malloc` through a hook.
* `pagealloc_init` gives every stored region to `pagealloc_free`.  The
  allocator keeps runs of free frames in one ring queue.  It is called by
  `vmem_map_st` for new tables, and by drivers' initialisation.
* `vmem_map` takes the lock of `kmem` or of one address space, walks and
  extends the tables, and copies the top level to the calling core's own table
  (`lcl->ktable`), the one its processor uses.  `vmem_savestate` copies in the
  opposite direction.
* Drivers reserve vectors with `interrupt_allocate` (the local timer asks for
  vector 50, exclusively) and register handlers for them.  The dispatch calls
  the handlers of a vector with the lock of the tables held and interrupts off,
  and acknowledges the interrupt to the core's APIC.
* `vmem.c`, `gdt.c`, `idt.c` and `apic.c` keep one structure per core in
  thread-local storage, at the same offset in the block of every core; the
  dispatch reads it through GS, and `ioapic_map` takes the target of an
  interrupt from it.
* `PANIC` stores a message with `strncpy` and prints it with `print_str`; then
  the core stays in the shell.
* Cores communicate through shared memory, under `local_spinlock_lock` for the
  bootstrap allocator, the page tables and the interrupt tables, and without any
  lock for the registers of the I/O APIC and the statics of `debug.c`.  There are
  no messages.  The kernel persists nothing, so there is no recovery to speak of.

### What is hard

* **Long histories in the page allocator.**  Runs are cut, merged, sorted,
  split into chunks and put back; the counter of the ring, its indices and its
  slots are changed by different functions.  Dead slots stay behind and can
  come back to life.
* **Copies of tables.**  A core's table, a user space's table and `kmem`'s are
  copied over one another at different times by different cores.
* **Readers without a lock.**  `vmem_virttophys` and the processor itself read
  tables while `vmem_map_st` builds them.
* **Locks.**  The waiting loop reads plain memory; `vmem_destroy` frees a
  locked object; interrupt handlers run with a lock held.
* **State without a lock.**  A register of the I/O APIC takes two accesses, a pin
  up to eight; two cores that panic copy their messages into one buffer.
* **Interrupts.**  A handler may be unregistered while another core dispatches
  to it, call back into the tables, or raise an exception; a core that has
  panicked may still take interrupts.
* **Layouts that must agree.**  The stub, the processor, two lists of pushes and
  pops and a C structure describe one frame; an offset of thread-local storage
  means the same on every core.
* **Firmware.**  Tables may be missing or damaged; lines are moved by overrides
  and spread over several controllers.
* **Boundaries of loops** in the C library and on the screen.
* **Unsigned arithmetic at boot.**  Differences of addresses wrap around.

The correctness properties per part are the properties of the runs below;
`PROJECT.json` lists each hazard at its line with the properties that cover it.

## 2. The modules

`Queue` is the ring as operators and actions on `queue`, `head`, `tail`,
`ent_cnt`.  `QueueClient` adds callers that make any sequence of calls and
record the answers; `Deque` is the bounded double-ended queue they believe
in.  `PageAlloc` EXTENDS `Queue` and uses the same actions for its ring, as the
C code does.

`PageAlloc` has one action per loop iteration of the C code.  `pc` names the
loop: `"pass"` and `"scan"` are the two nested loops of `pagealloc_alloc`,
`"grant"` its end, `"free"` the loop of `pagealloc_free`, `"insert"`/`"retry"`
the two halves of `insert_queue[_front]`, `"sort"`/`"merge"` those of
`compact_queue`; `after` and `resume` are return addresses.  Panics are
states.  Addresses are counted in frames.  The sort is one step here, with the
effect that the code has on a window of the ring (`quicksort_pgs` orders the
window by address); `PageSort` follows the sort itself, one step per iteration
of its scans and with the recursion as a stack, and shows that this effect is
right.  The two agree on the contract only: `PageSort` works on words (an
address above the count bits) and compares as the code does.

`BootMap` starts from any loader's map, models the iterations of the two loops
with arithmetic modulo `Word`, and ends with the ranges given to
`pagealloc_free`.  `PageAlloc`'s `RegionsAssumption` (no region below two
frames, no overlap) is what `BootMap` establishes where the region lengths are
multiples of a page; see limits below.

`Spinlock` is the lock as `BootstrapAlloc` uses it.  The compiler may read the
lock word once before the waiting loop (`int *`, no volatile, no memory
clobber).  With `ReadsOnce` the model lets every execution of the loop choose:
a core either sees later values, or is `"stuck"`.

`BootstrapAlloc` has separate steps for reading and writing the position.
`BumpArea` is what callers may rely on: each call takes effect at one instant.
The refinement maps the position to its `top` and a core's locals to its
`call`.

`VMemMap` has the recursion of `vmem_map_st` as a stack of frames
(`lv`, `t`, `virt`, `phys`, `size`, `idx`), one step per loop iteration, and
separate steps for the allocation, the clearing and the linking of a table,
since readers can look in between.  `vmem_virttophys` is an operator: what a
walk finds in the current state.  Entries are records of the present bit, the
large-page bit, the address and the cache bits; the other permission bits are
copied in the same statement and left out.  `Levels` is a recursive function (the
pages that an entry of each level stands for), and so is `Walk`, the walk through
given tables, of which `vmem_virttophys` is an instance.  The requests are those
the code is made for (`RequestsAssumption`, `MadeFor`).

`VMemSpaces` has the top-level tables only and abstracts everything below an
entry to a name.  A call is a list of jobs; a job is what the code does
between a lock and an unlock, and is one step, because nobody can see a table
in between: a space's table is read and written under its lock only and
`ktable` by its own core only.  `home` records which entry of which space each
table was made for, with the creation number of the space, so that reused
storage can be told apart.

`Idt` has the two tables of `idt.c` and per core the pending call of the thread
or of a handler (`call`), the stack of dispatches it is in (`frames`), the
levels that ended in the debug shell (`shell`) and the vectors its APIC has in
service.  A call of `interrupt_allocate`, `_registerhandler` or
`_unregisterhandler` takes the lock once and is one step; a request with a
preferred base takes it twice and is two.  The dispatch is a step for each of:
taking the lock, calling the next handler, the handler's return, and the end
(unlock, panic or acknowledgement, `iretq`).  Gates are interrupt gates and
each call starts with `cli()`, so interrupts arrive at a thread outside a call
only; there is no variable for the flag.  A thread that panicked keeps the flag
it had (`PANIC` comes after `sti`) and goes on taking interrupts.  Handlers are
external: one ends, calls back, or raises an exception.

`TrapFrame` is one core and its threads.  The stack is a sequence of words, top
first, built from what the processor, the stub and `idt_defaulthandler` push;
`regs_t` is the list of field names that lies over it, and `Popped` the list of
pops.  `Compute` gives the running thread new registers, `Enter` is everything
up to the handlers, `Leave` everything behind them; in between a handler may
save the frame and put another thread into it.  `context` is a history: what
every thread left.

`CoreLocal` has the position of `mp.c`, the offset in each module's pointer, and
for every core its block.  A cell of a block records which core wrote it and for
which structure.  An allocation and the statements after it are two steps
(`Initialise`, `mp_tls_alloc`), because other cores may come in between.
`NoBlock` is the memory at address 0, which all cores whose `malloc` failed
share.  The repository's `main` ends after `vmem_init` and names the later
initialisations in comments; the model follows them (`Order`).

`IoApic` starts from what the firmware left (`Systems`).  The search for the MADT
is an operator; `ioapic_init` is one step per iteration, with a step between
`ioapic_map`, which unmasks the pin, and `ioapic_setmask`.  `TheTable`,
`Controllers`, `Meant` and `FromTable` say what the tables mean, without the
loops.  The calls of later times, `interrupt_mapinterrupt` and
`interrupt_setmask`, are one step per access of the index or the data register
(`SelectRegister`, `ReadData`, `WriteHigh`, `WriteLow`), and those of several cores
interleave: `index` is the register that is selected now, whoever selected it, and
`calls` has what each core has read.  `asked` and `mixed` are histories: what was
asked of a pin since the start, and the pins that calls have taken which overlapped
with another.  A call that takes a pin the controller does not have ends the model
(`"wild"`): what such an access does is left open.  Flags are numbers, as `bool`
is `int` here, and lose all bits but bit 0 where the code does that (`Entry`).
`FirmwareAssumption` says what a firmware may leave: an RSDT at least,
tables that are lists, controllers of one line or more; roots may be damaged,
pointers zero, lines out of range.  `Platform` composes the two: the number of the calling core is read from
its structure `apic`.

`CLibrary` has a memory as a function from addresses to bytes; every function of
`memory.c` and every conversion of `stdlib.c` is an operator, with the loop of
the code as the first address where it stops (`Stop`) or as a function of the
passes made so far.  `Power` stands for the shifts by a width, which the provers
could not take as `^`.  `strstr` has one such address for its two nested loops,
because both step over one character.  `Console` EXTENDS it
and uses them where the code does: `memset` for the command line, `itoa` for the
number of an unhandled interrupt.  A row and a column stand for the frame buffer.
Several cores may panic at once: `panics` has the message of each and how far it is
copied, and the `strncpy` in `set_trap_str` is one step per byte (`CopyByte`).  A
handler that panics on a core that is panicking is another core in this model.
Printing goes on after a panic, as interrupts do.

`MC*` modules define the instances.

### Abstractions to keep in mind

* `pagealloc_alloc` drops `domain`, `color` and `flags` in the code
  (`src/pagealloc.c:172`), and so does the model.
* Where the code has no lock, the models interleave single accesses: of the I/O
  APIC's registers, of the trap message, and of the tables for their readers.  Each
  access is of a word or a byte, which the processor does not tear.  The ring and
  the allocator run on the boot processor only.
* Locals keep their initial values between calls, which only merges states.
* Cached translations (TLB) are not modelled; `vmem_flush` is modelled by what
  it does to the tables.
* A caller of `vmem_destroy` does not exist in the repository.  The model
  assumes one that destroys no space that is active or in a call, and uses
  none afterwards.  Without this assumption a later `vmem_savestate` of a core
  on which the space is active waits for its lock for ever.

## 3. The runs

Small instances suffice because the code treats all slots, frames, cores and
spaces alike: what matters is that wrap-around, full and empty rings,
refusals, both sides of every comparison and every pair of concurrent calls
occur.  Every action fires in the passing runs.

| run | bounds | shows |
|---|---|---|
| `queue` | 4 slots, 3 values | `ImplementsDeque`: the ring answers like the deque; `CountIsDistance` |
| `page_alloc` | 8 frames of memory (5 slots), two regions of 1 and 4 frames, entries of at most 3 frames, requests and releases of up to 2 | `OneOwner`, `OnlyManaged`, `NothingLost`, `CountNeverAhead`, `NeverOutOfEntries`, `FailureIsHonest`, `CallsEnd` |
| `page_sort` | 4 slots, every content over 4 words (two of them with one address), every window | `SortsTheWindow`, `ScansStayInside`, `Terminates` |
| `bootstrap_alloc` | 3 cores, area of 8 bytes aligned to 2, sizes 1, 2, 4 | `BlocksApart`, `CallsAreAtomic`, `LockIsReleased` |
| `boot_map` | address space of 24 bytes, pages of 4, kernel at 4..10, every map of one or two entries at even addresses | `ReservedNeverReleased`, `MemoryAfterKernelReleased` |
| `vmem_map` | tables of 2 entries on 4 levels, 5 frames for tables, two calls, every range of 1 to 8 pages that is aligned as its pages are, at two physical addresses | `NeverWrong`, `MapsWhatWasAsked`, `RefusalIsHonest`, `OldMappingsStay` |
| `vmem_spaces` | 2 cores, 2 user spaces of storage and 3 creations, 1 user and 2 kernel entries, 2 tables | `SpacesApart`, `BootMappingsStay`, `LocksAreFree`, `InactiveSpacesKeep` |
| `idt` | 2 cores, vector 0 an exception and 1..4 interrupts, 2 slots, 2 handlers of one vector, a request with a preferred vector, one for any two, one fixed and shared | `ExclusiveIsExclusive`, `RefusalIsHonest`, `DispatchIsComplete`, `LockIsReleased` |
| `trap_frame` | 2 user threads and one of the kernel; vectors 6 (no error code), 14 (error code) and 200 (above 127) | `FrameHoldsThread`, `ThreadsResume`, `GsFollowsMode` |
| `platform` | 2 cores, a block of 7 cells, structures of 2 and 1, requests of 1; six firmwares: none, one or two controllers, in both orders, overrides at their ends and of no line, two damaged roots; 2 calls for the lines 0 and 2 | `OwnData`, `PinsFollowTables`, `MaskedUntilAsked` |
| `console` | 2 cores, messages of 2 and 4 characters in 6 bytes; 3 rows of 2 columns, texts with up to two newlines, 4 characters on the command line, 2 keys, a number of two digits, 1 cell below the line; words of 2 bytes, memories of 4 cells of 3 bytes, ints of 12 bits | `RowsBelowAreBlank`, `LineIsWhatWasTyped`, `MemoryAgrees`, `TrapShowsItsMessage`, `NumbersReadBack` |

`MemoryAgrees` and `NumbersReadBack` say of the functions of
`CLibrary` what they do, for every memory, address, length and number within
the bounds (`BlockFunctionsAgree`, `StringFunctionsAgree`,
`NumberFunctionsAgree`), and then what follows for the console: clearing the
command line touches nothing else, and a number on the screen is the one that was
to be printed.  `TrapShowsItsMessage` says that what cores have copied into the trap
message, in whatever mix, ends within its memory, and that a core that no other
came between shows its own.
In `platform` a block is smaller than all that is asked for, so that the refusal
of `mp_tls_alloc` and the panic behind it occur at every place.  Its two calls
overlap in every way; that a later mapping repairs what they spoil takes a third
call, and is proved only.

One run shows where the code does not do what one of its comments says
(`PROJECT.json`, `findings`): `vmem_spaces_lost`, where a stale copy overwrites
newer entries of an active space, or of the kernel if another core added them.

Other disagreements with the words of the code that the models contain, and
that no property excludes without naming them:

* A merge clears the first of the two entries and moves the head by one, also
  when they are not the first ones of the ring (`src/pagealloc.c:107`).  The
  cleared slot then lies among the entries, and `pagealloc_alloc` hands it out as
  frame 0 (against `src/bootinfo.c:51`, "Reserve everything below 2MB"); the
  instance of `page_alloc` reaches this.  `OneOwner` and `OnlyManaged` except
  frame 0.
* Compacting an **empty** ring makes the window the whole ring
  (`src/pagealloc.c:92`).  If entries lie in the dead slots and are merged there,
  the counter ends short by the size of the ring, `max_iter` is negative, and an
  allocation fails while a long enough run is free.  Three entries have to be lost
  behind the head before: the instance does not get there, but nothing in the
  invariant excludes it, so `FailureIsHonest` is limited to a counter that is not
  negative and `CountNeverAhead` names both values.
* The polarity and the trigger mode of an override are lost: `ioapic_init` passes
  `flags & 2` and `flags & 8` as `bool`, which is `int` (`inc/stdbool.h:10`), with
  the comments `active_low` and `level_trigger` (`src/interrupts/ioapic.c:194`), and
  `ioapic_map` keeps bit 0 of them (57, 60).  Every override is active high and
  triggered by its edge.  `FromTable` says so.
* The search for a block of vectors, meant to "find a block that does work"
  (`src/interrupts/idt.c:151`), never finds one that ends at the last vector (157).
  `RefusalIsHonest` stops short of it.
* A region that starts above the kernel is not released: the difference to the
  end of the kernel wraps around (`src/bootinfo.c:77`).
  `MemoryAfterKernelReleased` speaks of a region that contains that end.
* The start of a region is rounded up without shortening it, so up to a page
  behind it is released as well (`src/pagealloc.c:275`).
* `ioapic_map` says that the boot processor is the destination
  (`src/interrupts/ioapic.c:49`); it is the calling core.

`CHECK_DEADLOCK FALSE` is used where the program may stop: after a panic, when
the sort is done, when both loops of the boot code have ended, and when the
bounded number of calls has been made, when every core has panicked, or when a
handler waits for itself.  `queue`, `bootstrap_alloc` and
`vmem_spaces` check that no state is a deadlock.

### Properties worth a second look

* `OneOwner` counts **dead** slots as owners as well, because `compact_queue`
  can revive them; only frame 0, the value of a cleared slot, is exempt.
* `NothingLost` has one named exception, `MergesPastHead`: `compact_queue`
  advances the head once per merge, whichever two neighbours merged, so an
  entry that was not merged can fall behind the head.  `FailureIsHonest` is
  limited to a counter that is not negative, for the reason above.
* `OldMappingsStay` has one named exception, `ReplacesLargePage`: an entry with
  address bits 0 counts as absent (`src/vmem.c:275`), so a large page of
  physical address 0 is replaced by a table.
* `InactiveSpacesKeep` and `BootMappingsStay` say which mappings survive the
  copying of tables; `vmem_spaces_lost` shows which do not.
* `MapsWhatWasAsked` is about the ranges `vmem_map_st` is made for
  (`MadeFor`: aligned to their page size, and to the pages of the level
  below where they continue in another table).  For other ranges the code maps
  elsewhere or only in part, with result 0.

* `DispatchIsComplete` compares what a dispatch has called with what the table
  holds *now*, so it fails as soon as another core can change the table during
  a dispatch.
* `RefusalIsHonest` stops short of the last vector: the search tests the length
  of a run before it looks at the next vector, so a block that ends at vector
  255 is never found.
* `OwnData` is about cores that have a block; the others share the memory at 0.
  It depends on the order of the initialisations: a structure placed at offset 0
  is taken for one that was not allocated, and only `vmem.c`, which comes first
  and does not ask again on other cores, can live with that.
* `PinsFollowTables` and `MaskedUntilAsked` speak of the pins that are `AtRest`: no
  call is at them, and no call that overlapped with another has taken them since
  they were last mapped by one that did not.  They say that the damage two
  overlapping calls do stays with the pins they take.  Which pin that is, is the
  code's choice: a local variable of `ioapic_init` hides the counter of the module
  (`src/interrupts/ioapic.c:129`), so that both calls always take the first
  controller listed, and the line for the pin (`Taken`).
* `MaskedUntilAsked` excepts the pin between its `ioapic_map` and its
  `ioapic_setmask`, which is open for that moment, and says when `ioapic_init`
  fails: without a table, or, with a fault, for an XSDT whose checksum is wrong
  (-1, where NULL is expected; `src/acpi.c:48`).
* `FrameHoldsThread` leaves vectors 17, 21, 29 and 30 out: the processor pushes
  an error code for them and the stub pushes a dummy as well
  (`src/interrupts/idt.c:392`), so the frame is off by a word.
* `LineIsWhatWasTyped` excepts a line after a backspace on the empty line, which
  moves the index below the buffer (`src/debug.c:207`).
* `TrapShowsItsMessage` is about a core that panics alone, as long as it does; what
  two of them show is a mix.  Even the message of one may have the rest of an older
  one behind it.
* `MemoryAgrees` names where the functions of `memory.c` are not those of the
  standard: `strrchr` never finds the first character and reads past an empty
  string, `strncmp` goes on behind two terminators, `strcmp` compares characters
  above 127 as negative, `strncpy` copies no terminator.  `NumbersReadBack` says which
  numbers `atoi` reads back: those that fit with their sign into four bits less
  than an int has.
* `LockIsReleased` of `Idt` has one exception, `WaitsForItself`: a handler that
  calls back into `idt.c`, or raises an exception, waits for the lock its own
  core holds.

### Fairness

`PageAlloc`, `PageSort` and `BootMap` are sequential code that keeps running
(`WF` of the internal steps; clients need not call).  In `BootstrapAlloc` every
core keeps executing the call it is in (`WF` per core, interrupts do not hold
the lock): `LockIsReleased` needs no more.  Weak fairness does not give a core
the lock, as the spinlock has no queue, and a core whose build reads the lock
once waits for ever (`"stuck"`): nothing is claimed about getting in.
In `Idt` every core
keeps executing and a handler that makes no call ends (`WF` of each core's own
steps; nothing makes interrupts or calls happen).  No other specification
states fairness.

## 4. The proofs

All theorems hold for every value of the constants that satisfies the named
assumptions.

**`PageAllocProofs`** (assumptions: the ring has `MemPages \div 2 + 1` slots, the
regions are disjoint and lie above frame 1).  `TypeCorrect` strengthens
`TypeOK` with the ranges that the sort and merge window keeps.

* `FramesHaveOneOwner` and `FramesAreManaged` share an inductive invariant:
  `Owned` (the two properties) and `RegionsHeld` (regions not yet released are
  still with the clients).  The proof of a merge needs that the merged runs are
  neighbours; that of the sort, that it permutes the slots of the window
  (`SortMovesEntries`).
* `CounterNeverAhead` and `RotationNeverStarves` share `Counted`: the counter is
  exact or one turn short of a non-empty ring (`CountOK`), the compaction window
  never exceeds the ring unless the ring was empty (`WindowCounted`), a rotation
  has no more to dequeue than the counter says (`ScanCounted`), and putting back
  always finds room (`RoomToPutBack`), which is why a rotation is never compacted
  in the middle.
* `FramesStayTracked` (an action property) adds `Tidy` to `Counted`: a local that
  is about to be overwritten holds no frame (`InHand`), and the window that is
  sorted is the ring, or all slots for an empty one (`SortsTheRing`).  Then every
  step but `MergesPastHead` keeps every frame in a slot, in a local or with a
  client.
* `NoFalseFailure` is the longest argument.  A failure comes after a compaction
  and two rotations, so the invariant `Honest` follows what each has found:
  behind the merge position no two entries fit together and the window is sorted
  (`MergeInv`); after it nothing is left to merge but the last two entries, which
  the loop does not look at (`CompactInv`, `Settled`); a rotation changes the
  order of the entries only, and those it has passed over are too short
  (`RotationInv`); what was too short before stays so (`PassInv`).  That the
  sorted window is in order is counted with ranks (`SortedOrder`), and that two
  neighbours in the window are neighbours among all entries follows from
  `OneOwner` and `OnlyManaged` (`NothingBetween`).

The module also holds the two theorems about the ring itself under any caller
(assumption: at least one slot; none of the allocator's is used), because both
parts need the same index arithmetic.  `CountAndClearSlots` is inductive as it
stands, once the distance from head to tail modulo the size is shown to change by
one with each call (`WrapOnce`).  `RingIsDeque` maps the ring to the sequence of its
live slots; each call maps to the call of the deque.

**`PageSortProofs`** (assumptions: at least one slot; words are natural numbers and
0 is one).  The invariant reads the window as a function from unrolled indices to
addresses.  The windows of the pending calls share no index (`WindowsApart`), and
two entries that lie in none of them together are in order (`OrderedApart`); inside
a partition the entries passed by either scan are on the right side of the pivot,
and one on each side stops the next scan (`SidesInv`, `ScanInv`, `FirstRound`); the
ring is a permutation of what it was, outside the window the same (`PermInv`).
`ScansInside` and `Sorted` follow.  That the sort ends is left to TLC.

**`BootProofs`**, first half (any set of cores, any area, any positive alignment).
The invariant of the bootstrap allocator says that one core at most is inside and
the lock is taken then, that what it has read is still true when it writes, that
the locals fit the place, and that the blocks are ordered below the position.
`BlocksNeverOverlap` and `CallsAreLinearizable` (every step is a step of `BumpArea`
or a stutter) follow.  Second half (`BootMapAssumption`: any map whose entries end
within the address space, whole pages, a word wide enough for a difference and a
sum): every stored entry starts at the end of the kernel, neither before nor
behind it, because an entry that ends before it is left out and the difference of
one that starts behind it wraps around and is left out too.  What
`pagealloc_init` makes of such an entry starts no earlier, hence
`ReservedStaysReserved`.

**`VMemSpacesProofs`** (assumptions: the boot core is a core, user and kernel
entries are different, the tables of `vmem_init` are among the finitely many
tables).  The invariant consists of the types, the form of the list of jobs that
each call leaves (`JobsInv`: only the last job is anything but a save; a core saves
its own active space only; a pending job is of a space that exists, or destroys one
that does not any more), `ActiveLives` (an active space has been created and not
destroyed), `TablesSuffice` (every `vmem_map` under way finds a table), and the
three properties `SpacesStayApart`, `BootMappingsKept`, `NoLockLeftBehind`.  The
first needs that a table made for an entry is found in no other and that the user
half of a core's own table comes from its active space.
`InactiveSpacesLoseNothing` is an action property and follows from the forms of
the jobs.

**`VMemMapProofs`** (`VMemAssumption`: at least two levels, tables of at least two
entries, 4KiB pages on the last level, no large page on the first, an address space
wider than what the tables span; `RequestsAssumption`: aligned requests; any frames).
The processor's tables are shown to be a tree, by a witness: `p` gives every table
in use its level and the first page it stands for (its place).  The invariant `IInv`
says that such places exist (`PlaceInv`): every entry is absent, or a link to the
table whose place is the entry's (`IsLink`), or a page that some call asked for,
behind the position if that call is the current one (`IsLeaf`); every frame of the recursion is
at the entry its position in the range belongs to (`FrameInv`) and calls the frame
above it through the entry it is at (`Calls`); and what lies between the start of the
range and the position of the innermost call is mapped as asked (`MappedTo`).  To
these it adds what `pc` implies (`PcInv`), that `ktable` has only entries of the root,
and all of them when a call returns (`KtableInv`), that
every table but the one being filled has an entry (`FilledInv`), and the results
(`ResultInv`).  The recursive definitions are unfolded by induction from the last
level upwards, written with the least element of a set of counterexamples
(`LeastOne`, `DownInduction`).  On the tree a walk is then shown to find only what the
entries on its way say (`WalkIsSound`), to be unchanged by an entry written elsewhere
(`WalkIsStable`), and to arrive at every table it passes (`WalkReaches`).  The hard
step is the return of a call into the table above: the range goes on exactly at the
next entry (`NodeAdvances`), which is where alignment is needed.  That a refusal is
honest when the reason is a table, not a page, rests on `FilledInv`: below every table
there is a page (`FullTable`).

* `NothingWrongIsMapped` is `WalkIsSound` on a core's own table.
* `WhatWasAskedIsMapped` is `MappedTo` at the end of the range.
* `RefusalsAreHonest` follows from `ResultInv`.
* `MappingsStay`, an action property, is `WalkIsStable` for each of the two steps that
  write an entry and for the copy of the root.

**`IdtProofs`** (any vectors, slots, cores and requests that lie within the table).
`TypeCorrect` needs that a pending request still fits the table (`CallsFit`).
`ExclusiveGrantedOnce` and `RefusalsJustified` rest on `Reserved` (a vector once
granted exclusively is still reserved) and on reservations never being taken
back.  `HandlersRunRegistered`: at most one dispatch, over all cores and all
depths of nesting, is past the lock (`OneDispatch`), hence nobody changes the
table while a handler runs.  `DispatchesComplete` adds that what a dispatch has
called is what the slots before its place hold, in their order
(`HandlersInOrder`), and that interrupts meet a core at rest only, so that the
first dispatch of a core accounts for all its APIC has in service
(`InterruptsFirst`).

**`TrapProofs`**, first half (any number of threads of either level, any vectors but
the four named in section 3).  Lemmas about the lists show that the field names, the
pushes and the pops describe one layout of 23 words.  The invariant has the
types, `LevelsKept` (the segments in a thread's registers are those of its level)
and `MetIsSaved` (a handler that may give the frame to another thread has saved the
one it met).  `FrameIsRegs`, `ResumeUnchanged` and `GsIsExchanged` follow.

Second half, the console a trap ends in (`CLibraryAssumption`: a word of one byte at
least, an int of whole hexadecimal digits and at least 8 bits, memories of at least two cells, bytes below
256; `ConsoleAssumption`: a screen, a command line of at least two cells, messages
that fit, end in a newline and hold no NUL, keys other than NUL, interrupt numbers
below 256).
The functions of `CLibrary` are shown to do what they promise for every size of
memory, address, string, length and number of the width:

* recursive definitions are solved by `Recursion` (each value from an earlier one) and
  followed by `UpInduction`, both from the least element of a set of naturals;
* `BlockFunctionsDoAgree`: `memset`'s bytes and words cover the block exactly
  (`WholeWords`), and after k bytes a copy has moved the first k, or the last k, of the
  block (`CopiesUp`, `CopiesDown`): in the order each function chooses, the byte read
  next was not written yet;
* `SearchesDoAgree`, `ComparisonsDoAgree`, `JoinsDoAgree`: a string in memory is its
  characters up to the first zero (`Holds`), so that where a loop stops says what it
  has passed.  `OccursIs` and `SearchIs` tell the places where `strstr` may stop,
  and `SameStrings` when `strncmp` may go on behind a terminator.  `JoinsAgree` speaks
  of appended texts of at most two characters; `CatIs` and `CpyIs` hold for any;
* `NumberFunctionsDoAgree`: dividing by the base takes the last digit of a value
  (`OneMoreDigit`), dividing twice is dividing by the product (`DivisionTwice`), and
  what `atoi` has read is the value it has met times 16, modulo the width
  (`ShiftedIs`), of which the last shift gives back all but the upper digit.

The invariant of the console (`ConsoleInv`) has the screens without anything
drawn below the current row (`Screens`), the two last bytes of `priv_s`, which stay 0,
and how much of its message each panicking core has copied, of which, if no other
core came between, all is there (`TrapInv`, `PanicOf`), the command line with what was typed, zeros behind it, and an
index that stays two cells before its end (`LineInv`), and the number that is on the screen.
`PrintsOnBlankRows`, `LineHoldsWhatWasTyped`, `MemoryIsRight`,
`MessagesAreShown` and `NumbersAreRight` follow, for any number of cores.

**`PlatformProofs`**, thread-local storage (any cores, block size, structures of at
least one cell, and requests).  `OwnDataStays` rests on four invariants: what a core
has set up before it starts (`StartInv`); that the boot core allocates and in which
order (`OrderInv`); that what it has allocated lies apart and below the position,
and above 0 except for the first (`PlaceInv`); and `OwnData` itself.  The others
start when every pointer is set, so they never allocate for a pointer.  A write
goes to the block of its own core or to the memory at 0 (`WrittenCells`), and a
grant lies behind everything that is placed (`GrantKeepsOwn`).
The I/O APIC (`FirmwareAssumption`: there is an RSDT, tables are lists, and every
controller in a MADT has at least one line): the search has found the table or said that there is
none (`FoundInv`); the loops stay inside it (`LoopInv`); the controllers joined so
far are those of the entries read (`ListInv`); every pin that is mapped is set as
the entries read so far say, but for the one that is open (`PinsInv`).  Once it has
ended, for any number of cores whose accesses interleave: every pin that no call is
at or may have spoiled (`Busy`) is as the tables say or as it was last asked for
(`AskedInv`); a core that is about to access data finds a register selected of one of
the pins in `Busy`, whoever selected it, and its own if no other call is under way
(`SelectedInv`); and such a call works on what it asked for, target included
(`AloneInv`).
`PinsAsTheTablesSay` and `OpenedOnRequest` follow, and `OwnDataOnThePlatform` says
that the composition leaves thread-local storage as it was.

**Only model-checked**:

* liveness (`CallsEnd`, `Terminates`, `LockIsReleased` twice,
  `MemoryAfterKernelReleased`), which the proof system does not cover.

Every safety invariant and action property the passing runs check is proved.  The
type invariants `TypeOK` are proved, not run.

## 5. What is left out, and why

* `queue_fini` and `local_spinlock_trylock` have no callers.  `vmem_vmalloc` and
  `vmem_vfree` are two statements without callers.
* `vmem_unmap_st` is dead code as long as `vmem_unmap` sets `size = 0`
  (`src/vmem.c:399`); unmapping removes nothing.
* The ring used by several threads at once: its fields are atomic
  (`inc/containers/queue.h`), its operations are not; nothing uses it so.
* Non-maskable interrupts, and interrupts that meet a handler, in `TrapFrame`;
  `Idt` has the nesting of dispatches.
* `mp_init`, whose body is commented out, with it the start of the processors
  and `mp_signalready`; `mp_platform_getstate` and `_setstate`, whose calls are
  commented out.  `CoreLocal` lets the other cores come up in any order.
* `src/boot.S`, which builds fixed tables; the gates and descriptors, which are
  constants; `src/cpuid.c`; the masking of the PIC.
* Calls for a pin the controller does not have, or without a controller: the code
  writes a register that is not there or through a null pointer, and the model ends
  (`"wild"`).  `ioapic_init` has the registers to itself, and a `ioapic_map` in it is
  one step.  Nobody calls the I/O APIC before it.
* In `pagealloc_free` the panics for a length or an address that is no multiple of
  a page, and in `pagealloc_init` the return for missing boot information and the
  panic for a ring that could not be set up: the models have whole frames, boot
  information, and a ring.
* The unsigned wrap of the position in `bootstrap_malloc`, for sizes near the
  width of a word: sizes and area together fit a word.
* Preemption inside a call on an address space, which `src/vmem.c:81` has as a TODO:
  a job of `VMemSpaces` is one step, and a core does nothing else inside it.
* `atoi` for bases other than 16, where it returns -1.
* The timer and the inter-processor interrupts of `src/interrupts/apic.c`: a
  table of rates per processor model, and messages that nobody sends.
* The tags of the boot information that are copied field by field; the layouts
  in `inc/multiboot2.h`, `inc/acpi`, `inc/kerndefs.h`.
* The serial port, the shapes of characters, and the layout of `print_hexdump`.
* Two cores that print at once: nothing keeps them from the screen, and the
  console model lets one print at a time.  A text is drawn in one step.
* The initial ram disk: nothing reserves its memory (`src/bootinfo.c:57`); the
  lines that would keep it are commented out in `pagealloc_init`.

Limits of the code that the models show and no run states, because they take
effect at once: `quicksort_pgs` recurses into the longer part, so its stack is
not logarithmic as its comment says (`src/pagealloc.c:79`); the 32-bit flag is never honoured (`src/pagealloc.c:172`); the
first block of the bootstrap area is never taken back
(`src/bootstrap_alloc.c:55`); `pagealloc_alloc` reports failure with -1 and
`vmem_map_st` compares with 0 (`src/vmem.c:280`), which the model ends in a
`"fault"`; the vectors of lines above 223 are cut to 8 bits
(`src/interrupts/ioapic.c:64`).

Where the code has a fault that a property could only describe by naming it, the
property excepts exactly that fault and does not test for it: what a merge past the
head loses and frame 0 (`src/pagealloc.c:107`), the waiting loop that may be stuck
(`inc/local_spinlock.h:13`), what lies behind the end of a region that was moved
(`src/pagealloc.c:275`), a large page at physical address 0 (`src/vmem.c:275`), the
lock of a destroyed space (`src/vmem.c:445`), a handler that waits for itself
(`src/interrupts/idt.c:205`), the block at the last vector (`src/interrupts/idt.c:157`),
the controller that is always the first and the pin that is open for a moment
(`src/interrupts/ioapic.c:129`, 170), the use of a damaged XSDT (`src/acpi.c:48`), the
backspace below the command line (`src/debug.c:207`).  `PROJECT.json` says so in the
note of each of these hazards.

## 6. The plan

Done: the memory management of section 1, in the order ring, page allocator,
sort, bootstrap allocator, boot map, page tables, address spaces; the interrupt
vectors; then the frames, thread-local storage, the I/O APIC, the C library and
the console.

The proofs of section 4: every invariant and action property of the passing runs, and
the two refinements.  What is left are the five liveness properties, which stay with
TLC, and the parts section 5 leaves out.
