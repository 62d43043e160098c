------------------------------ MODULE Platform ------------------------------
(***************************************************************************)
(* The start of the machine: cores set up their storage (CoreLocal), then  *)
(* the boot core initialises the interrupt controllers (IoApic), and cores *)
(* map and mask lines, one call at a time each.  A core finds its number,  *)
(* which becomes the target of what it maps, through its pointer to the    *)
(* structure apic.                                                         *)
(***************************************************************************)
EXTENDS CoreLocal, IoApic

CONSTANTS
    Lines,   \* bound: the lines the calls are for
    Irqs,    \* bound: the vectors they are mapped to
    Flags,   \* bound: the flags they ask for polarity and trigger mode with
    MaxCalls \* bound: how many calls are made

ASSUME MaxCallsAssumption == MaxCalls \in Nat

VARIABLE left  \* of these calls

vars == <<coreVars, ioVars, left>>

Init == CoreInit /\ IoInit /\ left = MaxCalls

(* main.c lists the controllers after the APIC.                            *)
Usable(c) == base[c] = c /\ ready[c] = Data /\ c \notin shell

InitIoApic ==
    /\ Usable(BootCore)
    /\ ioapic_init(interrupt_get_cpuidx(BootCore))
    /\ UNCHANGED <<coreVars, left>>

Call(c) ==
    /\ Usable(c)
    /\ \E line \in Lines :
         \/ \E irq \in Irqs, flag \in Flags : interrupt_mapinterrupt(c, line, irq, flag, flag)
         \/ \E mask \in BOOLEAN : interrupt_setmask(c, line, mask)
    /\ left > 0 /\ left' = left - 1
    /\ UNCHANGED coreVars

Access(c) ==
    /\ Usable(c)
    /\ Step(c, interrupt_get_cpuidx(c), BootCore)
    /\ UNCHANGED <<coreVars, left>>

Next ==
    \/ CoreNext /\ UNCHANGED <<ioVars, left>>
    \/ InitIoApic
    \/ \E c \in Cores : Call(c) \/ Access(c)

Spec == Init /\ [][Next]_vars

-----------------------------------------------------------------------------
(* Properties; and OwnData of CoreLocal.                                   *)

(* Once initialised, every pin is as the tables of the firmware say, with  *)
(* the boot core as its target, and from a call on as was asked, with the  *)
(* calling core.  Calls that overlap may spoil the pins they take and no   *)
(* other, and what they have spoiled a later mapping sets right.  Of the   *)
(* tables the polarity and the trigger mode are lost: of the values 2 and  *)
(* 8 of their flags the code keeps bit 0.                                  *)
PinsFollowTables ==
    phase = "done" =>
        /\ ioapics = Controllers
        /\ DOMAIN pins = AllPins
        /\ \A q \in DOMAIN pins : AtRest(q) => pins[q] = Wanted(q, BootCore)

(* A pin is open only if that was asked, apart from the one that is being  *)
(* initialised and those that overlapping calls have taken.  ioapic_init   *)
(* ends before it if there is no table; and it uses the result of          *)
(* acpi_find that stands for a damaged XSDT.                               *)
MaskedUntilAsked ==
    /\ phase = "failed" => TheTable = << >>
    /\ phase = "fault" => system.xsdt # Zero /\ ~system.xsdt.ok
    /\ \A q \in DOMAIN pins :
          ~pins[q].mask => \/ q = open \/ ~AtRest(q)
                           \/ q \in DOMAIN asked /\ ~asked[q].mask

=============================================================================
