----------------------------- MODULE MCPublish ------------------------------
(***************************************************************************)
(* Two peers, of which both are enough to verify a transaction; c spends   *)
(* the outputs of the others.                                              *)
(***************************************************************************)
EXTENDS PublishClaims, TLC

CONSTANTS p1, p2, a, c, f

MCParents == [t \in TX |-> IF t = c THEN TX \ {c} ELSE {}]
Symmetric == Permutations(Peer)
=============================================================================
