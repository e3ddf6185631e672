---------------------------- MODULE MCKafkaDrain ----------------------------
(* Instances of KafkaDrain for TLC. *)
EXTENDS KafkaDrain

CONSTANTS k1, k2

\* A new item, its duplicate, another item; Bad adds rejected offsets.
ItemOf == [m \in Offsets |-> IF m = 2 THEN k2 ELSE k1]
=============================================================================
