------------------------------- MODULE MCIdt -------------------------------
(* Vector 0 is the only exception, 1 .. 4 are interrupts.                  *)
EXTENDS Idt

CONSTANTS h, g

MCRegistered == {<<2, h>>, <<2, g>>}

Request(cnt, fixed, exclusive, base) ==
    [op |-> "allocate", cnt |-> cnt, fixed |-> fixed, exclusive |-> exclusive,
     base |-> base]

(* One like that of the timer, which wishes vector 2; a block of two,      *)
(* wherever; and a fixed block that is not exclusive.                      *)
MCRequests ==
    {Request(1, FALSE, TRUE, 2), Request(2, FALSE, TRUE, 0), Request(2, TRUE, FALSE, 1)}

=============================================================================
