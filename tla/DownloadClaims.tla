--------------------------- MODULE DownloadClaims ---------------------------
(***************************************************************************)
(* Statements of BRPeerManager.c about the download of blocks that its     *)
(* code does not keep; TLC refutes each of them.                           *)
(***************************************************************************)
EXTENDS Download

\* A block that may be incomplete is never taken (BRPeerManager.c:1192, "ignore
\* potentially incomplete blocks when a filter update is pending"): bloomFilter is one
\* for all peers.  The thread of a peer relays a block that an old filter has matched
\* when a peer that has just connected, to replace it or beside it, has a filter
\* already, or when the filter was replaced at the tip, where no block is asked for
\* again.
NothingIsMissed == AllRegistered

\* Whatever was missed is found in the end, because blocks are requested again after
\* a filter update (BRPeer.c:82, "after filterload is sent, getdata is sent to
\* re-request recent blocks").
MissedIsFound == <>[]AllRegistered

\* A new block that is dropped while the filter is replaced is requested again: with
\* the chain complete, _updateFilterLoadDone asks for mempools only.
StaysAtTip == <>[](\A p \in Peer : ctx[p].connected /\ ctx[p].open => lastBlock >= best[p])
=============================================================================
