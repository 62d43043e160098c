----------------------------- MODULE MCPlatform -----------------------------
(***************************************************************************)
(* An instance of Platform for TLC: two cores, and firmware that is right, *)
(* wrong or of the older revision, with one controller or two.             *)
(***************************************************************************)
EXTENDS Platform

MCSize == [lcl |-> 2, gdt |-> 1, idt |-> 1, apic |-> 1]

Table(sig, ok, entries) == [sig |-> sig, ok |-> ok, entries |-> entries]

Io(base0, redirs) == [type |-> "ioapic", base |-> base0, redirs |-> redirs]

Override(src, line) ==
    [type |-> "override", src |-> src, line |-> line, flags |-> IF src = 1 THEN 15 ELSE 7]

Local == [type |-> "lapic"]

(* One controller, with the timer's line moved; two, the second listed     *)
(* first or last, with an override at the end of each; none.               *)
OneIo == Table("APIC", TRUE, <<Local, Override(0, 2), Io(0, 3)>>)

TwoIo == Table("APIC", TRUE, <<Io(0, 2), Local, Io(2, 2), Override(1, 2), Override(5, 3), Override(6, 3)>>)

Reversed == Table("APIC", TRUE, <<Io(2, 2), Io(0, 2), Override(1, 1), Override(7, 9)>>)

Damaged == Table("APIC", FALSE, <<Io(0, 1)>>)

Other == Table("FACP", TRUE, << >>)

Root(ok, entries) == Table("RSDT", ok, entries)

System(revision, xsdt, rsdt) == [revision |-> revision, xsdt |-> xsdt, rsdt |-> rsdt]

MCSystems ==
    {System(0, Zero, Root(TRUE, <<Other, OneIo>>)),
     System(2, Root(TRUE, <<Zero, Damaged, TwoIo>>), Root(TRUE, <<OneIo>>)),
     System(2, Zero, Root(TRUE, <<Reversed, OneIo>>)),
     System(0, Root(TRUE, <<TwoIo>>), Root(FALSE, <<OneIo>>)),
     System(0, Zero, Root(TRUE, <<Other, Damaged>>)),
     System(2, Root(FALSE, <<TwoIo>>), Root(TRUE, <<OneIo>>))}

=============================================================================
