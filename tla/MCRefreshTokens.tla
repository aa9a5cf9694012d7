-------------------------- MODULE MCRefreshTokens --------------------------
(* Finite instances of RefreshTokens.                                      *)
EXTENDS RefreshTokens, TLC

CONSTANTS a1, a2, a3, a4

AttemptSymmetry == Permutations(Attempts)
=============================================================================
