------------------------------ MODULE Publish ------------------------------
(***************************************************************************)
(* Publishing and relays: the parts of BRPeerManager.c about publishedTx,  *)
(* txRelays, txRequests and the publish timeout, with the wallet's         *)
(* transactions that they register, verify and remove.  Connections are    *)
(* those of PeerSync, with less detail: no heights, no lookup of peers.    *)
(* An action is a region under the manager's lock; a peer may send any     *)
(* message at any time.  The order of publishedTx and of the lists of      *)
(* peers has no effect and they are sets.                                  *)
(***************************************************************************)
EXTENDS Integers, Sequences, FiniteSets

CONSTANTS
    Peer, TX, None,
    Parents,                \* Parents[t]: the transactions whose outputs t spends
    Foreign,                \* transactions that are not the wallet's
    Sends,                  \* transactions that spend from the wallet
    Invalid,                \* those BRWalletTransactionIsValid finds invalid
    Stored,                 \* unconfirmed transactions of the wallet at the start
    MaxConnectCount, MaxConnectFailures,
    MaxEvents, MaxPongs     \* bounds of the model: what comes from outside; unanswered pings

ASSUME NoneAssumption == None \notin Peer
ASSUME BoundsAssumption == MaxConnectFailures \in Nat /\ MaxEvents \in Nat
ASSUME TxAssumption ==
    /\ Parents \in [TX -> SUBSET TX]
    /\ Sends \subseteq TX /\ Foreign \subseteq TX \ Sends /\ Stored \subseteq TX \ Foreign

VARIABLES
    conn,           \* conn[p]: the state of p in connectedPeers, "out" if it is not there
    downloadPeer,   \* None or a peer; isConnected is downloadPeer # None
    behind,         \* the chain of the download peer is not downloaded yet
    syncing,        \* syncStartHeight > 0
    failures,       \* connectFailureCount
    timer,          \* the peers with a disconnect time
    synced,         \* the peers with PEER_FLAG_SYNCED
    pongs,          \* pongs[p]: the queue of pong callbacks
    known,          \* wallet->allTx
    registered,     \* wallet->transactions
    confirmed,      \* those in a block
    verified,       \* those with a timestamp
    freed,          \* those whose memory the wallet has freed
    published,      \* publishedTx
    pending,        \* those whose publish callback is still to be called
    told,           \* ghost: how often the callback of an entry has been called
    relays,         \* txRelays
    requests,       \* txRequests
    events

peerVars   == <<conn, downloadPeer, behind, failures>>
walletVars == <<known, registered, confirmed, verified, freed>>
listVars   == <<published, pending, told, relays, requests>>
vars == <<peerVars, syncing, timer, synced, pongs, walletVars, listVars, events>>

Event == events < MaxEvents /\ events' = events + 1
InList    == {p \in Peer : conn[p] # "out"}
Connected == {p \in Peer : conn[p] \in {"open", "closing"}}     \* BRPeerStatusConnected
Quiet     == \A p \in Peer : Len(pongs[p]) <= MaxPongs   \* bounds the queues of pongs
Callback  == {"inv", "getdata", "bloom", "mempool"}

Init ==
    /\ conn = [p \in Peer |-> "out"]
    /\ downloadPeer = None /\ behind = FALSE /\ syncing = FALSE /\ failures = 0
    /\ timer = {} /\ synced = {}
    /\ pongs = [p \in Peer |-> <<>>]
    /\ known = Stored /\ registered = Stored /\ confirmed = {} /\ verified = Stored /\ freed = {}
    /\ published = {} /\ pending = {}
    /\ told = [t \in TX |-> 0]
    /\ relays = [t \in TX |-> {}] /\ requests = [t \in TX |-> {}]
    /\ events = 0
-----------------------------------------------------------------------------
(* What the wallet does.                                                   *)

Unconfirmed == registered \ confirmed       \* BRWalletTxUnconfirmedBefore

\* BRWalletRegisterTransaction, and what it returns: a transaction in allTx is
\* not added again, and counts as the wallet's.
RegisterUnheld(t) ==            \* mutant: the transaction is not put in allTx
    /\ known' = IF t \in Foreign THEN known \cup {t} ELSE known
    /\ registered' = IF t \in known \cup Foreign THEN registered ELSE registered \cup {t}
Register(t) ==
    /\ known' = known \cup {t}
    /\ registered' = IF t \in known \cup Foreign THEN registered ELSE registered \cup {t}
IsWalletTx(t) == t \in known \/ t \notin Foreign

\* The least set with the transactions of S that is closed under Of.
Closure(S, Of(_)) ==
    {t \in TX : \A C \in SUBSET TX : S \subseteq C /\ (\A x \in C : Of(x) \subseteq C) => t \in C}

\* BRWalletRemoveTransaction removes what spends the transaction's outputs, too.
SpentBy(t) == {s \in registered : t \in Parents[s]}
WithDependents(S) == Closure(S, SpentBy)
-----------------------------------------------------------------------------
(* The lists.                                                              *)

AddPeer(list, t, p)    == [list EXCEPT ![t] = list[t] \cup {p}]
RemovePeer(list, t, p) == [list EXCEPT ![t] = list[t] \ {p}]

\* All lists without p, whose connection ended; the mutant keeps it on them.
ForgetNone(list, p) == list
Forget(list, p) == [t \in TX |-> list[t] \ {p}]

\* _BRPeerManagerAddTxToPublishList: t with its unconfirmed parents, up to those
\* that are listed already.
ToList(S) == {t \in S : t \notin published \cup confirmed}
UnlistedParents(t) == ToList(Parents[t] \cap known)
Listing(t) == Closure(ToList({t}), UnlistedParents)

\* The callback of t is taken off the list, and called after the lock is released.
TellKept(S) ==                  \* mutant: the callback stays on the list
    /\ pending' = pending
    /\ told' = [t \in TX |-> IF t \in S \cap pending THEN told[t] + 1 ELSE told[t]]
Tell(S) ==
    /\ pending' = pending \ S
    /\ told' = [t \in TX |-> IF t \in S \cap pending THEN told[t] + 1 ELSE told[t]]

\* "cancel tx publish timeout if no publish callbacks are pending, and syncing is
\* done or this is not downloadPeer": other callbacks than the one of t.
AnyPending(t) == TRUE            \* mutant: hasPendingCallbacks is not looked at
NoneElsePending(t) == pending \subseteq {t}
TimerAfter(p, t) ==
    IF NoneElsePending(t) /\ (~ syncing \/ p # downloadPeer) THEN timer \ {p} ELSE timer

\* "reschedule sync timeout"
Rescheduled(tm, p, isWalletTx) ==
    IF syncing /\ p = downloadPeer /\ isWalletTx THEN tm \cup {p} ELSE tm

\* _BRPeerManagerPublishPendingTx for the peers of S: an inv, and a timeout.
PublishPendingTx(tm, S) == IF pending = {} THEN tm ELSE tm \cup S

\* _BRPeerManagerSyncStopped: "don't cancel timeout if there's a pending tx publish
\* callback".
SyncStopped == timer' = IF pending = {} THEN timer \ {downloadPeer} ELSE timer

Ping(q, S, cb) == [p \in Peer |-> IF p \in S THEN Append(q[p], cb) ELSE q[p]]

\* BRPeerSendMempool, and the ping after its answer: refused when the mempool was
\* requested before and no filter loaded since, or the answer is awaited.
SendMempool(q, S) == pongs' \in {q, Ping(q, S, "mempool")}

\* _BRPeerManagerLoadMempools for download peer d, pongs q; reload: it needs a
\* new filter, too.
LoadMempools(q, tm, d, reload) ==
    LET others == IF reload THEN Connected ELSE Connected \ {d}
    IN  /\ SendMempool(Ping(q, others, "bloom"), Connected \ others)
        /\ timer' = PublishPendingTx(tm, others)
-----------------------------------------------------------------------------
(* Connections.                                                            *)

\* BRPeerManagerConnect, which adds one peer.
Connect(p) ==
    /\ Event
    /\ conn[p] = "out" /\ Cardinality(InList) < MaxConnectCount
    /\ conn' = [conn EXCEPT ![p] = "joining"]
    /\ failures' = IF failures >= MaxConnectFailures THEN 0 ELSE failures
    /\ syncing' = (syncing \/ downloadPeer = None \/ behind)
    /\ UNCHANGED <<downloadPeer, behind, timer, synced, pongs, walletVars, listVars>>

\* _peerConnected: p beside the download peer; once the chain is downloaded it gets
\* what is to be published.
ConnectedBeside(p) ==
    /\ conn[p] = "joining" /\ downloadPeer # None
    /\ conn' = [conn EXCEPT ![p] = "open"]
    /\ \/ /\ failures' = 0
          /\ timer' = PublishPendingTx(timer, {p})
          /\ pongs' = Ping(pongs, {p}, "bloom")
       \/ UNCHANGED <<failures, timer, pongs>>
    /\ UNCHANGED <<downloadPeer, behind, syncing, synced, walletVars, listVars, events>>

\* _peerConnected: d, p or a connected peer with a lower ping time, is the new download
\* peer.
ConnectedChosen(p, d) ==
    /\ conn[p] = "joining" /\ Quiet
    /\ d \in (Connected \ {downloadPeer}) \cup {p}
    /\ conn' = [q \in Peer |-> CASE q = p -> "open"
                                 [] q = downloadPeer /\ conn[q] = "open" -> "closing"
                                 [] OTHER -> conn[q]]
    /\ downloadPeer' = d
    /\ behind' \in BOOLEAN
    /\ downloadPeer # None => behind'
    /\ IF behind'
         THEN timer' = timer \cup {d} /\ UNCHANGED <<failures, pongs>>
         ELSE /\ failures' = 0
              /\ SendMempool(Ping(pongs, (Connected \cup {p}) \ {d}, "bloom"), {d})
              /\ timer' = PublishPendingTx(timer, Connected \cup {p})
    /\ UNCHANGED <<syncing, synced, walletVars, listVars, events>>

\* The block at estimatedHeight (_peerRelayedBlock).
CaughtUp ==
    /\ Quiet
    /\ behind /\ \E p \in Peer : conn[p] = "open"
    /\ behind' = FALSE
    /\ \E reload \in BOOLEAN : LoadMempools(pongs, timer, downloadPeer, reload)
    /\ UNCHANGED <<conn, downloadPeer, failures, syncing, synced, walletVars, listVars, events>>

\* The connection ends; the thread of p leaves its loop.
Close(p) ==
    /\ conn[p] \in {"joining", "open", "closing"}
    /\ conn' = [conn EXCEPT ![p] = "draining"]
    /\ UNCHANGED <<downloadPeer, behind, syncing, failures, timer, synced, pongs, walletVars, listVars, events>>

\* _peerDisconnected.  A timeout cancels what is being published, if it may have been
\* the publish timeout; so does the last failure.
TxError(p, error) ==
    error = "timeout" /\ (p # downloadPeer \/ ~ syncing \/ InList = {p})

Disconnected(p, error) ==
    LET isDownload == p = downloadPeer
        failed == IF error \in {"reset", "timeout"} THEN failures + 1 ELSE failures
        capped == IF isDownload /\ failed > MaxConnectFailures THEN MaxConnectFailures ELSE failed
        stops  == (isDownload \/ downloadPeer = None) /\ capped = MaxConnectFailures
    IN  /\ conn[p] = "draining" /\ pongs[p] = <<>>
        /\ error = "timeout" => p \in timer
        /\ conn' = [conn EXCEPT ![p] = "out"]
        /\ failures' = capped
        /\ downloadPeer' = IF isDownload THEN None ELSE downloadPeer
        /\ behind' = (behind /\ ~ isDownload)
        /\ syncing' = (syncing /\ ~ stops)
        /\ timer' = timer \ {p}
        /\ synced' = synced \ {p}
        /\ relays' = Forget(relays, p)
        /\ Tell(IF stops \/ TxError(p, error) THEN pending ELSE {})
        /\ UNCHANGED <<pongs, walletVars, published, requests, events>>
-----------------------------------------------------------------------------
(* Pong callbacks.                                                         *)

\* _BRPeerManagerRequestUnrelayedTx; q: the pongs without the one that is answered.
RequestUnrelayedTx(p, q) ==
    LET ask == {t \in Unconfirmed : p \notin relays[t] \cup requests[t]}
    IN  /\ requests' = [t \in TX |-> IF t \in ask THEN requests[t] \cup {p} ELSE requests[t]]
        /\ pongs' = IF ask # {} /\ p \notin synced THEN Ping(q, {p}, "getdata") ELSE q
        /\ synced' = IF ask = {} THEN synced \cup {p} ELSE synced

\* _requestUnrelayedTxGetdataDone: once all peers have answered, what no peer has is
\* removed, and what few peers have is not verified.
AllSynced(s) == InList \subseteq s /\ Cardinality(Connected) >= MaxConnectCount
Settled == Unconfirmed \ pending
Unrelayed == {t \in Settled : relays[t] = {} /\ requests[t] = {}}
Doubtful == {t \in Settled \ Unrelayed : Cardinality(relays[t]) < MaxConnectCount}

GetdataDone(p, success) ==
    LET s == IF success THEN synced \cup {p} ELSE synced
    IN  /\ synced' = s
        /\ IF AllSynced(s)
             THEN /\ registered' = registered \ WithDependents(Unrelayed)
                  /\ verified' = verified \ Doubtful
             ELSE UNCHANGED <<registered, verified>>
        /\ UNCHANGED <<known, confirmed, freed>>

\* The callback at the head of the queue of p, after a pong or, without success,
\* when the thread of p ends.
Called(p, success) ==
    LET cb == Head(pongs[p])
        q  == [pongs EXCEPT ![p] = Tail(pongs[p])]
        ends == \/ cb = "mempool" /\ success
                \/ cb = "bloom" /\ ~ success /\ p = downloadPeer
    IN  /\ pongs[p] # <<>>
        /\ syncing' = (syncing /\ ~ ends)
        /\ IF ends /\ (syncing \/ ~ success) THEN SyncStopped ELSE UNCHANGED timer
        /\ CASE cb = "getdata" ->
                    GetdataDone(p, success) /\ pongs' = q /\ UNCHANGED requests
             [] cb = "inv" \/ (cb = "mempool" /\ success) ->
                    RequestUnrelayedTx(p, q) /\ UNCHANGED walletVars
             [] cb = "bloom" /\ success ->
                    SendMempool(q, {p}) /\ UNCHANGED <<requests, synced, walletVars>>
             [] OTHER -> pongs' = q /\ UNCHANGED <<requests, synced, walletVars>>
        /\ UNCHANGED <<peerVars, published, pending, told, relays, events>>

Pong(p)  == conn[p] = "open" /\ Called(p, TRUE)
Drain(p) == conn[p] = "draining" /\ Called(p, FALSE)
-----------------------------------------------------------------------------
(* Messages about a transaction.                                           *)

\* "set timestamp when tx is verified"
Verified(t, ps) ==
    IF Cardinality(ps) >= MaxConnectCount /\ t \notin confirmed THEN verified \cup {t} ELSE verified

RelayedTx(p, t) ==
    LET listed  == t \in published
        taken   == ~ syncing \/ t \notin Foreign
        mine    == taken /\ IsWalletTx(t)
        counted == listed \/ (mine /\ ~ syncing)
    IN  /\ Event /\ conn[p] = "open"
        /\ IF taken THEN Register(t) ELSE UNCHANGED <<known, registered>>
        /\ timer' = Rescheduled(TimerAfter(p, t), p, mine)
        /\ Tell({t})
        /\ published' = published \cup IF mine /\ t \in Sends \ Invalid THEN Listing(t) ELSE {}
        /\ relays' = IF counted THEN AddPeer(relays, t, p) ELSE relays
        /\ requests' = IF mine THEN RemovePeer(requests, t, p) ELSE requests
        /\ verified' = IF taken /\ counted THEN Verified(t, relays'[t]) ELSE verified
        /\ UNCHANGED <<peerVars, syncing, synced, pongs, confirmed, freed>>

HasTx(p, t) ==
    LET listed  == t \in published
        held    == t \in known \/ listed
        counted == held /\ (listed \/ ~ syncing)
    IN  /\ Event /\ conn[p] = "open"
        /\ IF held THEN Register(t) ELSE UNCHANGED <<known, registered>>
        /\ timer' = Rescheduled(TimerAfter(p, t), p, held /\ IsWalletTx(t))
        /\ Tell({t})
        /\ relays' = IF counted THEN AddPeer(relays, t, p) ELSE relays
        /\ requests' = IF held THEN RemovePeer(requests, t, p) ELSE requests
        /\ verified' = IF counted THEN Verified(t, relays'[t]) ELSE verified
        /\ UNCHANGED <<peerVars, syncing, synced, pongs, confirmed, freed, published>>

\* "if we get rejected for any reason other than double-spend, the peer is likely
\* misconfigured", if all inputs are confirmed.
RejectedTx(p, t, spent) ==
    /\ Event /\ conn[p] = "open"
    /\ requests' = RemovePeer(requests, t, p)
    /\ IF t \in known
         THEN /\ relays' = RemovePeer(relays, t, p)
              /\ verified' = IF p \in relays[t] /\ t \notin confirmed THEN verified \ {t} ELSE verified
              /\ conn' = IF ~ spent /\ t \in Sends /\ Parents[t] \cap known \subseteq confirmed
                         THEN [conn EXCEPT ![p] = "closing"] ELSE conn
         ELSE UNCHANGED <<relays, verified, conn>>
    /\ UNCHANGED <<downloadPeer, behind, failures, syncing, timer, synced, pongs,
                   known, registered, confirmed, freed, published, pending, told>>

RequestedTx(p, t) ==
    /\ Event /\ conn[p] = "open"
    /\ IF t \in published THEN Register(t) ELSE UNCHANGED <<known, registered>>
    /\ timer' = TimerAfter(p, t)
    /\ Tell({t})
    /\ relays' = AddPeer(relays, t, p)
    /\ UNCHANGED <<peerVars, syncing, synced, pongs, confirmed, verified, freed, published, requests>>

\* _peerDataNotfound
DataNotfound(p, t) ==
    /\ Event /\ conn[p] = "open"
    /\ relays' = RemovePeer(relays, t, p)
    /\ requests' = RemovePeer(requests, t, p)
    /\ UNCHANGED <<peerVars, syncing, timer, synced, pongs, walletVars, published, pending, told>>
-----------------------------------------------------------------------------
(* Calls and blocks.                                                       *)

\* BRPeerManagerPublishTx: every peer but the download peer is sent the list.  (With no
\* connection in sight the callback is called at once, and nothing changes.)
PublishTx(t) ==
    LET chosen == {p \in Connected : p # downloadPeer \/ Connected = {p}}
    IN  /\ Event
        /\ t \notin confirmed \cup Foreign
        /\ downloadPeer # None \/ failures < MaxConnectFailures
        /\ Quiet
        /\ verified' = verified \cup {t}
        /\ published' = published \cup Listing(t)
        /\ pending' = IF t \in published THEN pending ELSE pending \cup {t}
        /\ timer' = IF pending' = {} THEN timer ELSE timer \cup chosen
        /\ pongs' = Ping(pongs, chosen, "inv")
        /\ UNCHANGED <<peerVars, syncing, synced, known, registered, confirmed, freed,
                       told, relays, requests>>

\* BRWalletUpdateTransactions for a block with t: a confirmed transaction that is not
\* the wallet's is freed.
Confirm(t) ==
    /\ Event
    /\ t \in known \ confirmed
    /\ IF t \in Foreign
         THEN known' = known \ {t} /\ freed' = freed \cup {t} /\ UNCHANGED <<confirmed, verified>>
         ELSE /\ confirmed' = confirmed \cup {t} /\ verified' = verified \cup {t}
              /\ UNCHANGED <<known, freed>>
    /\ UNCHANGED <<peerVars, syncing, timer, synced, pongs, registered, listVars>>

\* BRWalletSetTxUnconfirmedAfter
Unconfirm ==
    /\ Event
    /\ confirmed # {}
    /\ confirmed' = {}
    /\ UNCHANGED <<peerVars, syncing, timer, synced, pongs, known, registered, verified, freed, listVars>>

\* BRPeerManagerRescan
Rescan ==
    /\ Event
    /\ downloadPeer # None
    /\ syncing' = FALSE /\ behind' = TRUE
    /\ conn' = IF conn[downloadPeer] = "open" THEN [conn EXCEPT ![downloadPeer] = "closing"] ELSE conn
    /\ UNCHANGED <<downloadPeer, failures, timer, synced, pongs, walletVars, listVars>>
-----------------------------------------------------------------------------
Message(p, t) ==
    RelayedTx(p, t) \/ HasTx(p, t) \/ RequestedTx(p, t) \/ DataNotfound(p, t)
    \/ \E spent \in BOOLEAN : RejectedTx(p, t, spent)
Next ==
    \/ CaughtUp \/ Unconfirm \/ Rescan
    \/ \E t \in TX : PublishTx(t) \/ Confirm(t)
    \/ \E p \in Peer :
        \/ Connect(p) \/ ConnectedBeside(p) \/ Close(p) \/ Pong(p) \/ Drain(p)
        \/ \E d \in Peer : ConnectedChosen(p, d)
        \/ \E error \in {"none", "reset", "timeout"} : Disconnected(p, error)
        \/ \E t \in TX : Message(p, t)

Spec == Init /\ [][Next]_vars
-----------------------------------------------------------------------------
TypeOK ==
    /\ conn \in [Peer -> {"out", "joining", "open", "closing", "draining"}]
    /\ downloadPeer \in Peer \cup {None}
    /\ behind \in BOOLEAN /\ syncing \in BOOLEAN
    /\ failures \in Nat
    /\ timer \subseteq InList /\ synced \subseteq InList
    /\ pongs \in [Peer -> Seq(Callback)]
    /\ registered \subseteq known /\ known \subseteq TX
    /\ confirmed \subseteq TX \ Foreign /\ verified \subseteq TX /\ freed \subseteq Foreign
    /\ published \subseteq TX /\ pending \subseteq published
    /\ told \in [TX -> Nat]
    /\ relays \in [TX -> SUBSET Peer] /\ requests \in [TX -> SUBSET Peer]
    /\ events \in 0..MaxEvents

\* The callback of a published transaction is called at most once, whichever of the
\* handlers comes first (the peer asks for it, has it or relays it; a timeout; the last
\* failure), and while it is pending it has not been called.
CallbackOnce == \A t \in TX : told[t] <= IF t \in pending THEN 0 ELSE 1

\* The relay count that verifies a transaction counts only peers of connectedPeers: the
\* handlers of a peer add it, its disconnection takes it off every list.
RelaysAreConnected == \A t \in TX : relays[t] \subseteq InList

\* The timeout of a peer that stays is never cancelled while a publish callback is
\* pending, or while the peer is the download peer of a sync that goes on: publishing
\* and syncing share one timer per peer.
TimeoutKept ==
    [][\A p \in timer \ timer' :
        p \in InList' => pending' = {} /\ ~ (syncing' /\ p = downloadPeer')]_vars
=============================================================================
