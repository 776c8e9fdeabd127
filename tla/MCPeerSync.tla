----------------------------- MODULE MCPeerSync -----------------------------
(***************************************************************************)
(* Two peers: p1 is one block ahead of p2 and of the wallet.               *)
(***************************************************************************)
EXTENDS SyncClaims, TLC

CONSTANTS p1, p2

MCLast == p1 :> 1 @@ p2 :> 0
FairSpec == Spec /\ Fairness
=============================================================================
