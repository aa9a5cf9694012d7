------------------------ MODULE MCIdempotentCommand ------------------------
(* Finite instances of IdempotentCommand.                                  *)
EXTENDS IdempotentCommand

CONSTANTS r1, r2, r3, k1, p1, p2

=============================================================================
