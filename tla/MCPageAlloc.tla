---------------------------- MODULE MCPageAlloc ----------------------------
(***************************************************************************)
(* An instance of PageAlloc for TLC: two regions that do not touch, the    *)
(* second longer than MaxEntries.                                          *)
(***************************************************************************)
EXTENDS PageAlloc

ZeroEntry == [addr |-> 0, pg |-> 0]

TwoRegions == <<[addr |-> 2, len |-> 1], [addr |-> 4, len |-> 4]>>

=============================================================================
