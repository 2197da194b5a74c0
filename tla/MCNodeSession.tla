---------------------------- MODULE MCNodeSession ----------------------------
(* One node, its clients and two other nodes.                              *)
EXTENDS NodeSession

CONSTANTS HighRank

MCRank == [x \in Sap \cup Node |-> IF x \in HighRank THEN 1 ELSE 0]
=============================================================================
