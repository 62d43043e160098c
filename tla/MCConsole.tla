----------------------------- MODULE MCConsole -----------------------------
(* Characters 1 and 2 are letters, 100 is the newline, and the digits of a *)
(* number are their values.                                                *)
EXTENDS Console

MCTexts == {<<1>>, <<1, 100>>, <<100, 100>>}

(* Of these messages each may end inside another.                          *)
MCTrapTexts == {<<1, 100>>, <<2, 1, 2, 100>>}

MCBanner == <<100, 1>>

MCUnknown == <<1, 1, 100>>

=============================================================================
