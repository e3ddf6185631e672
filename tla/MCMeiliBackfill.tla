-------------------------- MODULE MCMeiliBackfill --------------------------
(* MeiliBackfill with texts of one and of two chunks.  Every source starts *)
(* with the first group or with none, and a grant may add the second.      *)
EXTENDS MeiliBackfill

CONSTANTS x, y, g1

ChunkTexts == {<<x>>, <<y, x>>}

OneGroup == \A d \in Docs : acl[d] \subseteq {g1}
MCInit == Init /\ OneGroup
MCFairSpec == MCInit /\ [][Next]_bvars /\ WF_bvars(CommandStep)
=============================================================================
