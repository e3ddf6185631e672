-------------------------- MODULE MCPipelineIndexing --------------------------
(* Instances of PipelineIndexing for TLC. *)
EXTENDS PipelineIndexing, TLC

CONSTANTS p1, p2, v1, d1, d2

Symm == Permutations({p1, p2}) \cup Permutations({d1, d2})
=============================================================================
