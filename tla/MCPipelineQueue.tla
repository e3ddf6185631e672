--------------------------- MODULE MCPipelineQueue ---------------------------
(* Instances of PipelineQueue for TLC. *)
EXTENDS PipelineQueueRefinement, PipelineQueueHistory, TLC

CONSTANTS p1, p2, v1, d1, d2

\* Replicas of a worker and documents are interchangeable; job ids are ordered.
Symm == Permutations({p1, p2}) \cup Permutations({d1, d2})
=============================================================================
