-------------------------- MODULE MCTunnelRegistry --------------------------
(* Small instances of TunnelRegistry: two calls of ensure, one thread that *)
(* evicts or shuts down.                                                   *)
EXTENDS TunnelRegistry, TLC
CONSTANTS a, b, x, y, z, t1, t2, p1, p2, s1, s2
MCWants == a :> {x, y} @@ b :> {z}
Symmetry == Permutations(Callers) \cup Permutations(Slots) \cup Permutations(Pids)
=============================================================================
