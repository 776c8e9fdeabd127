----------------------------- MODULE SyncClaims -----------------------------
(***************************************************************************)
(* What comments in BRPeerManager.c and BRPeerManager.h say of connections *)
(* and the sync, and some behaviour of the code breaks.                    *)
(***************************************************************************)
EXTENDS PeerSync

\* BRPeerManager.c:748 "only load bloom filter if we're done syncing": the callbacks that
\* follow that filter report success and stop the sync only when the chain is downloaded.
SuccessIsCaughtUp ==
    [][\A p \in Peer : Pong(p) /\ syncing /\ ~syncing' => ~Behind]_vars

\* BRPeerManager.h "syncStopped - called when blockchain syncing stops".
SyncIsAlwaysServed == syncing => Served

\* BRPeerManager.c:380 "if syncing, rerequest blocks": from a download peer that is there.
HandlersReturn == running

\* BRPeerManager.c:1701 "disconnect the current download peer so a new random one will be
\* selected": without a download peer, one of the peers or threads will select another.
DownloadIsSought ==
    syncing /\ downloadPeer = None /\ InList # {}
    => \/ \E p \in Peer : peer[p].th \in {"waiting", "starting", "opening", "greeted", "draining"}
       \/ \E k \in Step : calls[k] > 0

\* BRPeerManagerDisconnect waits for peers that are closing, and therefore returns.
WaitsForClosing ==
    waiting => \A p \in Peer : peer[p].th \in {"waiting", "greeted", "open"} => peer[p].shut # "no"
=============================================================================
