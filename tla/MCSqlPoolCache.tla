--------------------------- MODULE MCSqlPoolCache ---------------------------
(* Small instances of SqlPoolCache: two requests for one connection.       *)
EXTENDS SqlPoolCache, TLC
CONSTANTS r1, r2
Symmetry == Permutations(Requests)
=============================================================================
