-------------------------- MODULE MCNetconfTarget --------------------------
(***************************************************************************)
(* Model-checking instance of NetconfTarget: two leaf paths, two values.  *)
(***************************************************************************)
EXTENDS NetconfTarget, TLC

CONSTANTS p1, p2, v1, v2

MCPaths  == {p1, p2}
MCValues == {v1, v2}

Symmetry == Permutations(MCPaths) \cup Permutations(MCValues)

=============================================================================
