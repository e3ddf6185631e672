-------------------------- MODULE MCAccessControl --------------------------
(* AccessControl with the symmetry of its requests and plain groups.       *)
EXTENDS AccessControl, TLC

CONSTANTS a1, a2, g1, g2
Symmetry == Permutations({a1, a2}) \cup Permutations({g1, g2})
=============================================================================
