--------------------------- MODULE PublishClaims ----------------------------
(***************************************************************************)
(* What BRPeerManager.c and BRWallet.c do not keep about published         *)
(* transactions; README.md gives a behaviour for each.                     *)
(***************************************************************************)
EXTENDS Publish

\* What is in publishedTx is memory the wallet still holds.
PublishedIsHeld == published \cap freed = {}

\* "unconfirmed transactions that aren't in the mempools of any of connected peers have
\* likely dropped off the network" (BRPeerManager.c:449): what a peer relays, or what
\* is being published, is not removed.
RelayedIsKept ==
    [][\A t \in registered \ registered' : t \notin pending /\ relays[t] = {}]_vars
=============================================================================
