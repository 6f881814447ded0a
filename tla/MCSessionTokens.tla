--------------------------- MODULE MCSessionTokens ---------------------------
(* Small instances of SessionTokens. *)
EXTENDS SessionTokens, TLC

CONSTANTS u1, u2, l1

MCSub == [t \in Legacy |-> u1]

Symmetry == Permutations(Requests)
=============================================================================
