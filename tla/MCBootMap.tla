------------------------------ MODULE MCBootMap ------------------------------
(***************************************************************************)
(* Memory maps for TLC: all maps of at most two entries, in any order, on  *)
(* a physical address space of six pages of four bytes.                    *)
(***************************************************************************)
EXTENDS BootMap

Evens == {2 * k : k \in 0 .. Limit \div 2}

MCEntries == {e \in [addr : Evens, len : Evens, type : {"available", "other"}] :
                 e.addr + e.len <= Limit}

Disjoint(d, e) == d.addr + d.len <= e.addr \/ e.addr + e.len <= d.addr

TwoEntries == {<<e>> : e \in MCEntries}
    \cup {p \in MCEntries \X MCEntries : Disjoint(p[1], p[2])}

=============================================================================
