---------------------------- MODULE MCPeerChain -----------------------------
(***************************************************************************)
(* An instance of PeerChain with intervals of two blocks.  c0 and c2 are   *)
(* checkpoints, x4 has a bad target.  Peer q has the branch that loses.    *)
(*                                                                         *)
(*     c0 - b1 - c2 - a3 - x4                                              *)
(*                  \ d3 - d4 - d5                                         *)
(***************************************************************************)
EXTENDS PeerChain, TLC

CONSTANTS c0, b1, c2, a3, x4, d3, d4, d5, None, t, u, p, q

MCBlock  == {c0, b1, c2, a3, x4, d3, d4, d5}
MCPrev   == c0 :> None @@ b1 :> c0 @@ c2 :> b1 @@ a3 :> c2 @@ x4 :> a3 @@ d3 :> c2 @@ d4 :> d3 @@ d5 :> d4
MCHeight == c0 :> 0 @@ b1 :> 1 @@ c2 :> 2 @@ a3 :> 3 @@ x4 :> 4 @@ d3 :> 3 @@ d4 :> 4 @@ d5 :> 5
MCTxs    == [b \in MCBlock |-> CASE b = a3 -> {t, u} [] b = d4 -> {t} [] OTHER -> {}]
MCRelays == p :> {b1, c2, d3, d4, d5} @@ q :> {b1, c2, a3, x4}
MCLast   == p :> 4 @@ q :> 4

ASSUME NetworkAssumption

FairSpec   == Spec /\ Fairness(d5)

\* A sync does not stop short: the manager reaches the height that its peers reported
\* and the one that it believes the chain has, unless it stopped, whatever was relayed,
\* set aside, freed, reorganised or lost in a restart before.  With d5 mined later it
\* need not reach d5: a block above the reported heights that is freed at :1192 is not
\* asked for again at the tip (DownloadClaims!StaysAtTip).
CatchesUp ==
    <>[](rescans = 0 /\ running =>
            /\ Height[lastBlock] >= estimatedHeight
            /\ \A r \in Peer : Height[lastBlock] >= PeerLast[r])
=============================================================================
