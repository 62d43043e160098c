------------------------------- MODULE IoApic -------------------------------
(***************************************************************************)
(* The I/O interrupt controllers: kernel/src/interrupts/ioapic.c, and the  *)
(* search for their table in kernel/src/acpi.c.                            *)
(*                                                                         *)
(* A system is what the firmware left: a revision, an XSDT (or Zero) and   *)
(* an RSDT.  A table has a signature, a checksum that is right or wrong,   *)
(* and entries: tables in a root, descriptions of hardware in the MADT.    *)
(* Memory for the list of controllers is always found.                     *)
(*                                                                         *)
(* The registers of a controller are reached through an index register and *)
(* a data register, and no lock protects the pair.  ioapic_init runs while *)
(* no call is made and takes a pin in one step; the calls of several cores *)
(* interleave access by access.  A flag is a number, as bool is an int.    *)
(***************************************************************************)
EXTENDS Integers, Sequences, FiniteSetsExt

CONSTANTS
    Systems,  \* bound: the systems
    Zero,     \* the pointer 0
    Wild      \* the pointer -1

IsList(l) == l \in Seq({l[i] : i \in DOMAIN l})

(* The lines of a controller are those from its base on, at least one.     *)
IsMadt(entries) ==
    /\ IsList(entries)
    /\ \A i \in DOMAIN entries :
          /\ entries[i].type = "ioapic" =>
                entries[i].base \in Nat /\ entries[i].redirs \in Nat \ {0}
          /\ entries[i].type = "override" =>
                entries[i].line \in Nat /\ entries[i].flags \in Nat

IsRoot(t) ==
    /\ IsList(t.entries)
    /\ \A i \in DOMAIN t.entries :
          /\ t.entries[i] # Wild
          /\ t.entries[i] # Zero /\ t.entries[i].sig = "APIC" => IsMadt(t.entries[i].entries)

(* There is always an RSDT.                                                *)
ASSUME FirmwareAssumption ==
    /\ Zero # Wild
    /\ \A s \in Systems : IsRoot(s.rsdt) /\ (s.xsdt # Zero => IsRoot(s.xsdt))

VARIABLES
    system,
    phase,    \* of ioapic_init: "start", "pins", "overrides", "done",
              \* "failed" (no table), "fault" (it used a wild pointer);
              \* "wild": a call used a register that is not there
    madt,     \* the entries of the table that was found
    off,      \* the entry the loop is at
    pin,      \* the pin the loop over a controller is at
    open,     \* the entry between ioapic_map and ioapic_setmask: <<k, p>>, or << >>
    ioapics,  \* the controllers
    pins,     \* the redirection entries, by controller and pin
    index,    \* of the controllers that were called for: the selected register
    calls,    \* the calls in progress, by core
    asked,    \* history: what calls have asked of a pin since
    mixed     \* history: the pins of calls that overlapped with another

initVars == <<system, phase, madt, off, pin, open, ioapics>>
ioVars == <<initVars, pins, index, calls, asked, mixed>>

IoInit ==
    /\ system \in Systems
    /\ phase = "start" /\ madt = << >> /\ off = 1 /\ pin = 0 /\ open = << >>
    /\ ioapics = << >> /\ pins = << >> /\ index = << >> /\ calls = << >>
    /\ asked = << >> /\ mixed = {}

-----------------------------------------------------------------------------
(* acpi_find, for the MADT.                                                *)

Matches(t) == t.sig = "APIC" /\ t.ok

(* The loop over an XSDT skips the pointer 0; that over an RSDT looks for  *)
(* a signature at address 0, where there is none.                          *)
FirstMatch(root) ==
    LET found == {i \in 1 .. Len(root.entries) :
                    root.entries[i] # Zero /\ Matches(root.entries[i])}
    IN  IF found = {} THEN Zero ELSE root.entries[Min(found)]

acpi_find ==
    IF system.revision # 0 /\ system.xsdt # Zero
    THEN IF system.xsdt.ok THEN FirstMatch(system.xsdt) ELSE Wild
    ELSE IF system.rsdt.ok THEN FirstMatch(system.rsdt) ELSE Zero

-----------------------------------------------------------------------------
(* The registers.  Those of a pin, low and high, make up its entry; dest   *)
(* is all there is in the high one.                                        *)

(* Of the flags bit 0 is kept.                                             *)
Entry(irq, low, level, mask, dest) ==
    [vector |-> irq % 256, low |-> low % 2, level |-> level % 2, mask |-> mask, dest |-> dest]

Updated(f, Q, entry) == [q \in DOMAIN f \cup Q |-> IF q \in Q THEN entry ELSE f[q]]

(* It unmasks, too.                                                        *)
ioapic_map(q, irq, low, level, dest) ==
    pins' = Updated(pins, {q}, Entry(irq, low, level, FALSE, dest))

(* Mutant: the bit is cleared, and not set again.                          *)
MaskForgotten(q, mask) == pins' = [pins EXCEPT ![q].mask = FALSE]

ioapic_setmask(q, mask) == pins' = [pins EXCEPT ![q].mask = mask]

-----------------------------------------------------------------------------
(* ioapic_init, on a core whose number is dest.                            *)

(* Only NULL is taken for a failure.                                       *)
FindTable ==
    /\ phase = "start"
    /\ phase' = CASE acpi_find = Zero -> "failed"
                  [] acpi_find = Wild -> "fault"
                  [] OTHER -> "pins"
    /\ madt' = IF acpi_find \in {Zero, Wild} THEN << >> ELSE acpi_find.entries
    /\ UNCHANGED <<off, pin, open, ioapics, pins>>

AtEntry(loop, type) ==
    /\ phase = loop /\ open = << >>
    /\ off <= Len(madt) /\ madt[off].type = type

SkipEntry ==
    /\ phase \in {"pins", "overrides"} /\ open = << >> /\ off <= Len(madt)
    /\ madt[off].type # IF phase = "pins" THEN "ioapic" ELSE "override"
    /\ off' = off + 1
    /\ UNCHANGED <<phase, madt, pin, open, ioapics, pins>>

(* A controller joins the list with its first pin.                         *)
MapPin(dest) ==
    /\ AtEntry("pins", "ioapic")
    /\ ioapics' = IF pin = 0 THEN Append(ioapics, madt[off]) ELSE ioapics
    /\ open' = <<Len(ioapics'), pin>>
    /\ ioapic_map(open', pin + madt[off].base + 32, 0, 0, dest)
    /\ UNCHANGED <<phase, madt, off, pin>>

Serves(c, line) == c.base <= line /\ c.base + c.redirs > line

Serving(line) == {k \in 1 .. Len(ioapics) : Serves(ioapics[k], line)}

(* n & bit, for a power of 2.                                              *)
And(n, bit) == bit * ((n \div bit) % 2)

MapOverride(dest) ==
    /\ AtEntry("overrides", "override")
    /\ LET o == madt[off]  serving == Serving(o.line) IN
       IF serving = {} THEN off' = off + 1 /\ UNCHANGED <<open, pins>>
       ELSE /\ open' = <<Min(serving), o.line - ioapics[Min(serving)].base>>
            /\ ioapic_map(open', o.src + 32, And(o.flags, 2), And(o.flags, 8), dest)
            /\ UNCHANGED off
    /\ UNCHANGED <<phase, madt, pin, ioapics>>

MaskPin ==
    /\ open # << >>
    /\ ioapic_setmask(open, TRUE)
    /\ open' = << >>
    /\ IF phase = "pins" /\ pin + 1 < madt[off].redirs
       THEN pin' = pin + 1 /\ UNCHANGED off
       ELSE pin' = 0 /\ off' = off + 1
    /\ UNCHANGED <<phase, madt, ioapics>>

EndLoop ==
    /\ phase \in {"pins", "overrides"} /\ open = << >> /\ off > Len(madt)
    /\ phase' = IF phase = "pins" THEN "overrides" ELSE "done"
    /\ off' = 1
    /\ UNCHANGED <<madt, pin, open, ioapics, pins>>

ioapic_init(dest) ==
    /\ \/ FindTable \/ SkipEntry \/ MapPin(dest) \/ MapOverride(dest)
       \/ MaskPin \/ EndLoop
    /\ UNCHANGED <<system, index, calls, asked, mixed>>

-----------------------------------------------------------------------------
(* What the tables say.                                                    *)

(* The valid MADT that comes first in the root of the revision.            *)
TheTable ==
    LET root == IF system.revision = 0 \/ system.xsdt = Zero THEN system.rsdt ELSE system.xsdt
        valid == {i \in 1 .. Len(root.entries) :
                    root.entries[i] \notin {Zero} /\ root.entries[i].sig = "APIC" /\ root.entries[i].ok}
    IN  IF root.ok /\ valid # {} THEN root.entries[Min(valid)].entries ELSE << >>

Listed(n) == {i \in 1 .. n : TheTable[i].type = "ioapic"}

(* The controllers, in the order of the table.                             *)
Place == [i \in Listed(Len(TheTable)) |-> Cardinality(Listed(i))]

Controllers ==
    LET table == TheTable
        place == Place
        numbers == 1 .. Cardinality(Listed(Len(table)))
        entry == Inverse(place, DOMAIN place, numbers)
    IN  [k \in numbers |-> table[entry[k]]]

AllPins == UNION {{<<k, p>> : p \in 0 .. Controllers[k].redirs - 1} : k \in DOMAIN Controllers}

(* The pin of a line: that of the first controller with the line.          *)
Meant(line) ==
    LET c == Controllers
        having == {k \in 1 .. Len(c) : line - c[k].base \in 0 .. c[k].redirs - 1}
    IN  {<<k, line - c[k].base>> : k \in {j \in having : j = Min(having)}}

(* The overrides of a pin's line, and the entry of the pin: that of the    *)
(* last one, or of the line itself.  As the code has it, the flags of an   *)
(* override are lost: those passed on have other bits than bit 0.          *)
OverridesOf(q) ==
    LET line == Controllers[q[1]].base + q[2] IN
    {i \in 1 .. Len(TheTable) : /\ TheTable[i].type = "override"
                                /\ TheTable[i].line = line /\ q \in Meant(line)}

FromTable(q, dest) ==
    LET over == OverridesOf(q) IN
    IF over = {} THEN Entry(Controllers[q[1]].base + q[2] + 32, 0, 0, TRUE, dest)
    ELSE Entry(TheTable[Max(over)].src + 32, 0, 0, TRUE, dest)

Wanted(q, dest) == IF q \in DOMAIN asked THEN asked[q] ELSE FromTable(q, dest)

-----------------------------------------------------------------------------
(* Calls, once the controllers are initialised: core c takes a pin, and    *)
(* then the steps of its call, numbered, each of which is one access.      *)
(* ioapic_map reads and writes the high register in the steps 1 to 4, and  *)
(* the low one in 5 to 8; ioapic_setmask has the steps 5 to 8 only.  Of    *)
(* two accesses the first is to the index register.                        *)

(* The counter of the module stays 0: a local one of ioapic_init hides it. *)
ioapic_cnt == 0

Closer(line) == {k \in 1 .. ioapic_cnt : ioapics[k].base < line /\ ioapics[k].base > 0}

(* The pin a call takes: that with the number of the line, of the closest  *)
(* controller among those counted, else of the first.                      *)
Taken(line) ==
    LET k == IF Closer(line) = {} THEN 1
             ELSE CHOOSE j \in Closer(line) : \A i \in Closer(line) : ioapics[i].base <= ioapics[j].base
    IN  <<k, line>>

(* entry is what the call will write, of which ioapic_setmask writes the   *)
(* mask only.  What follows an access to a register that is not there, or  *)
(* through the pointer of a controller that is not there, is left open.    *)
Begin(c, line, maps, entry) ==
    /\ phase = "done" /\ c \notin DOMAIN calls
    /\ IF Taken(line) \notin DOMAIN pins THEN phase' = "wild" /\ UNCHANGED calls
       ELSE /\ calls' = [d \in DOMAIN calls \cup {c} |->
                  IF d = c THEN [pin |-> Taken(line), maps |-> maps, entry |-> entry,
                                 at |-> IF maps THEN 1 ELSE 5, word |-> entry,
                                 alone |-> DOMAIN calls = {}]
                  ELSE [calls[d] EXCEPT !.alone = FALSE]]
            /\ UNCHANGED phase
    /\ UNCHANGED <<system, madt, off, pin, open, ioapics, pins, index, asked, mixed>>

interrupt_mapinterrupt(c, line, irq, low, level) ==
    Begin(c, line, TRUE, Entry(irq, low, level, FALSE, c))

interrupt_setmask(c, line, mask) == Begin(c, line, FALSE, Entry(0, 0, 0, mask, c))

Stepping(c, steps) == phase = "done" /\ c \in DOMAIN calls /\ calls[c].at \in steps

(* Mutant: the low register is not selected again after the high one.      *)
PartLate(at) == IF at <= 5 THEN "high" ELSE "low"

Part(at) == IF at <= 4 THEN "high" ELSE "low"

SelectRegister(c) ==
    /\ Stepping(c, {1, 3, 5, 7})
    /\ LET call == calls[c] IN
       index' = Updated(index, {call.pin[1]}, [part |-> Part(call.at), pin |-> call.pin])
    /\ calls' = [calls EXCEPT ![c].at = @ + 1]
    /\ UNCHANGED <<initVars, pins, asked, mixed>>

(* The register that is selected now, whoever has selected it.             *)
Selected(c) == index[calls[c].pin[1]]

(* The bits of the other register are 0 in what is read.                   *)
ioapic_read(reg) ==
    IF reg.part = "low" THEN [pins[reg.pin] EXCEPT !.dest = 0]
    ELSE Entry(0, 0, 0, FALSE, pins[reg.pin].dest)

ReadData(c) ==
    /\ Stepping(c, {2, 6})
    /\ calls' = [calls EXCEPT ![c].at = @ + 1, ![c].word = ioapic_read(Selected(c))]
    /\ UNCHANGED <<initVars, pins, index, asked, mixed>>

(* A register keeps the bits it has.                                       *)
ioapic_write(reg, word) ==
    pins' = [pins EXCEPT ![reg.pin] =
                IF reg.part = "low" THEN [word EXCEPT !.dest = pins[reg.pin].dest]
                ELSE [pins[reg.pin] EXCEPT !.dest = word.dest]]

(* dest is what the calling core takes for its number.                     *)
WriteHigh(c, dest) ==
    /\ Stepping(c, {4})
    /\ ioapic_write(Selected(c), [calls[c].word EXCEPT !.dest = dest])
    /\ calls' = [calls EXCEPT ![c].at = @ + 1]
    /\ UNCHANGED <<initVars, index, asked, mixed>>

NewLow(call) ==
    IF call.maps THEN [call.entry EXCEPT !.dest = call.word.dest]
    ELSE [call.word EXCEPT !.mask = call.entry.mask]

(* A call that had the registers to itself is taken into account; a        *)
(* mapping among them sets the whole entry, whatever was in it.            *)
Account(call, boot) ==
    IF call.alone
    THEN /\ asked' = Updated(asked, {call.pin},
                IF call.maps THEN call.entry
                ELSE [Wanted(call.pin, boot) EXCEPT !.mask = call.entry.mask])
         /\ mixed' = IF call.maps THEN mixed \ {call.pin} ELSE mixed
    ELSE mixed' = mixed \cup {call.pin} /\ UNCHANGED asked

WriteLow(c, boot) ==
    /\ Stepping(c, {8})
    /\ ioapic_write(Selected(c), NewLow(calls[c]))
    /\ Account(calls[c], boot)
    /\ calls' = Restrict(calls, DOMAIN calls \ {c})
    /\ UNCHANGED <<initVars, index>>

Step(c, dest, boot) ==
    SelectRegister(c) \/ ReadData(c) \/ WriteHigh(c, dest) \/ WriteLow(c, boot)

(* No call that overlapped has taken the pin since it was mapped by one    *)
(* that did not, and none is about to.                                     *)
AtRest(q) == q \notin mixed /\ \A c \in DOMAIN calls : calls[c].pin # q

=============================================================================
