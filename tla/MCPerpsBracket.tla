--------------------------- MODULE MCPerpsBracket ---------------------------
(* TLC instances of PerpsBracket. *)
EXTENDS PerpsBracket, TLC

CONSTANTS i1, i2, r1, r2

Symmetry == Permutations({i1, i2}) \cup Permutations({r1, r2})
=============================================================================
