---------------------------- MODULE MCRetrieval ----------------------------
(* Chunking and Retrieval share no state: a behaviour of MCSpec is a       *)
(* behaviour of one of them while the other is in its initial state.       *)
EXTENDS Retrieval, Chunking

ASSUME SizesAgree == PassageSize = ChunkSize

Sevenths == [vector |-> 7, bm25 |-> 3]

MCInit == RInit /\ ChunkInit
MCNext ==
  \/ RNext /\ read = 0 /\ ~done /\ UNCHANGED cvars
  \/ ChunkNext /\ changes = 0 /\ ~meili /\ UNCHANGED rvars
MCSpec == MCInit /\ [][MCNext]_<<rvars, cvars>>
=============================================================================
