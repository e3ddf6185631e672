---------------------------- MODULE MCWorkspace ----------------------------
(* Collaboration and Enrichment in one instance.  They share no table, so a *)
(* step of one commutes with every step of the other, and a behaviour that  *)
(* takes steps of both says no more than one that takes steps of one.       *)
EXTENDS Collaboration, Enrichment, TLC

CONSTANTS t1, t2, r1, r2, s1, s2, d1, d2

Symmetry ==
  Permutations({t1, t2}) \cup Permutations({r1, r2}) \cup
  Permutations({s1, s2}) \cup Permutations({d1, d2})

WInit == CollaborationInit /\ EnrichmentInit
WNext ==
  \/ CollaborationNext /\ EnrichmentInit /\ UNCHANGED evars
  \/ EnrichmentNext /\ CollaborationInit /\ UNCHANGED cvars
WSpec == WInit /\ [][WNext]_<<cvars, evars>>
=============================================================================
