------------------------------ MODULE PeerSync ------------------------------
(***************************************************************************)
(* Connections and synchronisation: BRPeerManager.c from BRPeerManager-    *)
(* Connect to _peerDisconnected, with the part of BRPeer.c that they rest  *)
(* on: the thread of a peer, its queue of pong callbacks, its mempool      *)
(* request, its disconnect time and its socket.                            *)
(*                                                                         *)
(* An action is a region under the manager's lock, or a step of a peer's   *)
(* thread outside it.  Threads that have left _peerDisconnected and        *)
(* application threads are alike: calls counts them by what they do next.  *)
(* The chain is its height here; PeerChain has the blocks.                 *)
(***************************************************************************)
EXTENDS Integers, Sequences, FiniteSets

CONSTANTS
    Peer, None,
    PeerLast,               \* PeerLast[p]: the last block height in p's version message
    Stored,                 \* the peers that were saved before the start
    Unfit,                  \* peers that lack a service the manager needs
    MaxLag,                 \* a peer this far behind is not synced: 10
    MaxConnectCount,        \* maxConnectCount
    MaxConnectFailures,     \* MAX_CONNECT_FAILURES
    MaxEvents,              \* bound of the model: calls of the application, updates of the filter,
                            \* protocol errors
    MaxPongs,               \* bound of the model: pings without a pong when a handshake ends
    MaxCalls,               \* bound of the model: threads in BRPeerManagerConnect when one disconnects
    MaxHeight               \* bound of the model: the best height of the network

ASSUME PeerAssumption  == None \notin Peer /\ Unfit \subseteq Peer /\ Stored \subseteq Peer /\ PeerLast \in [Peer -> Nat]
ASSUME CountAssumption == /\ MaxLag \in Nat /\ MaxConnectCount \in Nat /\ MaxConnectFailures \in Nat
                          /\ MaxEvents \in Nat /\ MaxPongs \in Nat /\ MaxCalls \in Nat /\ MaxHeight \in Nat
                          /\ \A p \in Peer : PeerLast[p] <= MaxHeight

VARIABLES
    peer,           \* peer[p]: the BRPeer and its thread, see NewPeer
    downloadPeer,   \* None or a peer; isConnected is downloadPeer # None
    failures,       \* connectFailureCount
    syncing,        \* syncStartHeight > 0
    height,         \* lastBlock->height
    estimated,      \* estimatedHeight
    filter,         \* bloomFilter # NULL
    peers,          \* manager->peers
    reachable,      \* networkIsReachable
    calls,          \* calls[k]: threads that are about to do step k of BRPeerManagerConnect
    waiting,        \* is a thread in the loop of BRPeerManagerDisconnect
    running,        \* FALSE after NULL or a freed peer has been dereferenced
    events

vars == <<peer, downloadPeer, failures, syncing, height, estimated, filter, peers, reachable,
          calls, waiting, running, events>>

-----------------------------------------------------------------------------
Event == events < MaxEvents /\ events' = events + 1

\* The state of a peer: where its thread is ("out": not in connectedPeers), the
\* error it ended with, its socket (shut "late": another thread has shut it, and the
\* thread of the peer may still finish the message it has read), the queue of pong
\* callbacks, the mempool request, disconnectTime is set, PEER_FLAG_NEEDSUPDATE.
NewPeer(th) == [th |-> th, error |-> "none", shut |-> "no", pongs |-> <<>>, mempool |-> "no",
                timer |-> FALSE, needsUpdate |-> FALSE]
Thread    == {"out", "waiting", "starting", "opening", "greeted", "open", "draining"}
Errors    == {"none", "reset", "timeout", "proto"}
Callback  == {"filterPing", "filterLoad", "rerequest", "bloomDone", "mempoolDone"}
Step      == {"enter", "begun", "found"}

InList    == {p \in Peer : peer[p].th # "out"}                       \* connectedPeers
Connected == {p \in Peer : peer[p].th \in {"greeted", "open"}}       \* BRPeerStatusConnected
Behind    == height < estimated

\* BRPeerDisconnect has an effect only while there is a socket.
Shut(ps, p) == IF ps[p].shut = "no" /\ ps[p].th \in {"opening", "greeted", "open"}
               THEN [ps EXCEPT ![p].shut = "late"] ELSE ps
ShutOwn(ps, p) == [ps EXCEPT ![p].shut = "yes"]
\* The thread of p takes a message from its socket.
Message(p)  == running /\ peer[p].th = "open" /\ peer[p].shut # "yes"
Taken(p)    == [peer EXCEPT ![p].shut = IF @ = "no" THEN "no" ELSE "yes"]

\* A pong callback and the peer its info names.
Ping(ps, p, cb, who) == [ps EXCEPT ![p].pongs = Append(@, <<cb, who>>)]

\* BRPeerSendFilterload: the mempool may be requested again.
Loaded(mempool) == CASE mempool = "sent" -> "no" [] mempool = "asked" -> "again" [] OTHER -> mempool
\* A peer, or each peer of S, is given a new filter and a ping.
LoadPing(ps, p, cb, who) == Ping([ps EXCEPT ![p].mempool = Loaded(@)], p, cb, who)
LoadPingAll(ps, S, cb)   == [p \in Peer |-> IF p \in S THEN LoadPing(ps, p, cb, p)[p] ELSE ps[p]]

\* BRPeerSendMempool: one request for each filter, while no other waits for its answer.
\* The callback of another one is told at once that it failed, and does nothing.
SendMempool(ps, p, callback) ==
    [ps EXCEPT ![p].mempool = CASE @ = "no" /\ ~callback -> "sent" [] @ = "sent" -> "sent" [] OTHER -> "asked"]

\* _BRPeerManagerLoadMempools, called by a connected peer; reload says that the false
\* positive rate is too high.
LoadMempools(ps, down, reload) ==
    LET S == IF reload THEN Connected ELSE Connected \ {down}
        pinged == LoadPingAll(ps, S, "bloomDone")
    IN  IF down \in Connected \ S THEN SendMempool(pinged, down, TRUE) ELSE pinged

\* _BRPeerManagerSyncStopped without a pending publish callback.
Unscheduled(ps, down) == IF down = None THEN ps ELSE [ps EXCEPT ![down].timer = FALSE]

\* _BRPeerManagerUpdateFilter
UpdateFilter(ps) ==
    IF downloadPeer = None \/ ps[downloadPeer].needsUpdate THEN ps
    ELSE Ping([ps EXCEPT ![downloadPeer].needsUpdate = TRUE], downloadPeer, "filterPing", downloadPeer)

-----------------------------------------------------------------------------
TypeOK ==
    /\ peer \in [Peer -> [th : Thread, error : Errors, shut : {"no", "late", "yes"},
                          pongs : Seq(Callback \X (Peer \union {None})),
                          mempool : {"no", "asked", "sent", "again"}, timer : BOOLEAN, needsUpdate : BOOLEAN]]
    /\ downloadPeer \in Peer \union {None}
    /\ failures \in Nat
    /\ height \in 0..MaxHeight /\ estimated \in 0..MaxHeight
    /\ peers \subseteq Peer
    /\ syncing \in BOOLEAN /\ filter \in BOOLEAN /\ reachable \in BOOLEAN
    /\ waiting \in BOOLEAN /\ running \in BOOLEAN
    /\ calls \in [Step -> Nat]
    /\ events \in 0..MaxEvents

\* BRPeerManagerNew with the stored peers; the application is about to connect.
Init ==
    /\ peer = [p \in Peer |-> NewPeer("out")]
    /\ downloadPeer = None /\ failures = 0 /\ syncing = FALSE
    /\ height = 0 /\ estimated = 0 /\ filter = FALSE
    /\ peers = Stored
    /\ reachable = TRUE /\ running = TRUE /\ waiting = FALSE
    /\ calls = [k \in Step |-> IF k = "enter" THEN 1 ELSE 0]
    /\ events = 0

-----------------------------------------------------------------------------
(* BRPeerManagerConnect: to the syncStarted callback, to the DNS lookup, and the rest. *)
PendingAny(k) == running                                              \* mutant
Pending(k)    == running /\ calls[k] > 0
Moved(k, n)   == [calls EXCEPT ![k] = @ - 1, ![n] = @ + 1]
Returned(k)   == [calls EXCEPT ![k] = @ - 1]
Begin         == IF reachable THEN "starting" ELSE "waiting"          \* BRPeerConnect

\* New connections to peers that are not in the list; with none, the sync has failed.
SyncNever(in)  == FALSE                                               \* mutant
SyncFails(in)  == in = {}
Add(k, ps) ==
    LET in   == {p \in Peer : ps[p].th # "out"}
        free == peers' \ in
        room == MaxConnectCount - Cardinality(in)
    IN  \E S \in SUBSET free :
          /\ Cardinality(S) = (IF room >= Cardinality(free) THEN Cardinality(free)
                               ELSE IF room > 0 THEN room ELSE 0)
          /\ peer' = [p \in Peer |-> IF p \in S THEN NewPeer(Begin) ELSE ps[p]]
          /\ syncing' = (syncing /\ ~SyncFails(in \union S))
          /\ calls' = Returned(k)

\* Peers that wait for the network are tried again; too few known peers are looked up.
Join(k) ==
    LET ps == [p \in Peer |-> IF peer[p].th = "waiting" THEN [peer[p] EXCEPT !.th = Begin] ELSE peer[p]]
    IN  \/ /\ Cardinality(InList) < MaxConnectCount     \* the known peers are few or old
           /\ peer' = ps /\ calls' = Moved(k, "found")
           /\ UNCHANGED <<peers, syncing>>
        \/ /\ \/ Cardinality(InList) >= MaxConnectCount
              \/ Cardinality(peers) >= MaxConnectCount
           /\ peers' = peers
           /\ Add(k, ps)

ConnectEnter ==
    /\ Pending("enter")
    /\ failures' = (IF failures >= MaxConnectFailures THEN 0 ELSE failures)
    /\ IF (downloadPeer = None \/ Behind) /\ ~syncing
       THEN /\ syncing' = TRUE /\ calls' = Moved("enter", "begun")
            /\ UNCHANGED <<peer, peers>>
       ELSE Join("enter")
    /\ UNCHANGED <<downloadPeer, height, estimated, filter, reachable, waiting, running, events>>

ConnectBegun ==
    /\ Pending("begun") /\ Join("begun")
    /\ UNCHANGED <<downloadPeer, failures, height, estimated, filter, reachable, waiting, running, events>>

\* The lookup has found the peers, or none.
ConnectFound ==
    /\ Pending("found")
    /\ peers' \in {peers, Peer}
    /\ Add("found", peer)
    /\ UNCHANGED <<downloadPeer, failures, height, estimated, filter, reachable, waiting, running, events>>

-----------------------------------------------------------------------------
(* The thread of a peer. *)

\* The thread opens its socket.
OpenSocket(p) ==
    /\ running /\ peer[p].th = "starting"
    /\ peer' = [peer EXCEPT ![p].th = "opening"]
    /\ UNCHANGED <<downloadPeer, failures, syncing, height, estimated, filter, peers, reachable, calls,
                   waiting, running, events>>

\* The handshake is done (_BRPeerDidConnect).
Greeted(p) ==
    /\ running /\ peer[p].th = "opening" /\ peer[p].shut # "yes"
    /\ \A q \in Peer : Len(peer[q].pongs) <= MaxPongs
    /\ peer' = [Taken(p) EXCEPT ![p].th = "greeted", ![p].timer = FALSE]
    /\ UNCHANGED <<downloadPeer, failures, syncing, height, estimated, filter, peers, reachable, calls,
                   waiting, running, events>>

\* _peerConnected
Stick(p) == /\ downloadPeer # None
            /\ \/ PeerLast[downloadPeer] >= PeerLast[p]
               \/ height >= PeerLast[p]
IsFit(p) == p \notin Unfit /\ PeerLast[p] + MaxLag >= height

PeerUnfit(p, up) ==
    /\ ~IsFit(p)
    /\ peer' = ShutOwn(up, p)
    /\ UNCHANGED <<downloadPeer, failures, estimated, filter>>

\* The download peer stays; once the chain is downloaded, p gets a filter.
PeerBeside(p, up) ==
    /\ IsFit(p) /\ Stick(p)
    /\ IF height >= PeerLast[p]
       THEN /\ failures' = 0 /\ filter' = TRUE
            /\ peer' = LoadPing(up, p, "bloomDone", p)
       ELSE peer' = up /\ UNCHANGED <<failures, filter>>
    /\ UNCHANGED <<downloadPeer, estimated>>

\* A download peer is chosen among the connected peers with the highest last block.
Best == {q \in Connected : \A r \in Connected : PeerLast[q] >= PeerLast[r]}

PeerChosen(p, up) ==
    /\ IsFit(p) /\ ~Stick(p)
    /\ \E q \in Best :
         LET old    == IF downloadPeer = None THEN up ELSE Shut(up, downloadPeer)
             loaded == [old EXCEPT ![q].mempool = Loaded(@)]
         IN  /\ downloadPeer' = q
             /\ estimated' = PeerLast[q]
             /\ filter' = TRUE
             /\ IF height < PeerLast[q]
                THEN peer' = [loaded EXCEPT ![q].timer = TRUE] /\ UNCHANGED failures
                ELSE peer' = LoadMempools(loaded, q, FALSE) /\ failures' = 0

PeerConnected(p) ==
    /\ running /\ peer[p].th = "greeted"
    /\ LET up == [peer EXCEPT ![p].th = "open"]
       IN  PeerUnfit(p, up) \/ PeerBeside(p, up) \/ PeerChosen(p, up)
    /\ UNCHANGED <<syncing, height, peers, reachable, calls, waiting, running, events>>

-----------------------------------------------------------------------------
\* _peerRelayedBlock, a block that extends the main chain (PeerChain has the others):
\* without a filter it is ignored; the rate of false positives may ask for a new filter,
\* or make the manager disconnect p.
FalsePositiveRate == {"low", "degraded", "high"}
BlockIgnored(p) ==
    /\ ~filter
    /\ IF p = downloadPeer /\ Behind
       THEN peer' = [Taken(p) EXCEPT ![p].timer = TRUE] /\ failures' = 0
       ELSE peer' = Taken(p) /\ UNCHANGED failures
    /\ UNCHANGED <<height, estimated>>

BlockAdded(p, rate, reload) ==
    LET seen     == CASE rate = "low" -> Taken(p)
                      [] rate = "degraded" -> UpdateFilter(Taken(p))
                      [] rate = "high" -> ShutOwn(peer, p)
        progress == height + 1 < estimated /\ p = downloadPeer
        timed    == IF progress THEN [seen EXCEPT ![p].timer = TRUE] ELSE seen
    IN  /\ filter
        /\ height' = height + 1
        /\ estimated' = IF height + 1 > estimated THEN height + 1 ELSE estimated
        /\ failures' = (IF progress THEN 0 ELSE failures)
        /\ peer' = IF height + 1 = estimated THEN LoadMempools(timed, downloadPeer, reload) ELSE timed

Block(p) ==
    /\ Message(p) /\ height < MaxHeight
    /\ \/ /\ height < PeerLast[p] \/ ~Behind        \* what p has, and new blocks
          /\ \/ BlockIgnored(p) /\ UNCHANGED events
             \/ \E rate \in FalsePositiveRate, reload \in BOOLEAN :
                  /\ IF rate = "low" THEN UNCHANGED events ELSE p = downloadPeer /\ Event
                  /\ BlockAdded(p, rate, reload)
    /\ UNCHANGED <<downloadPeer, syncing, filter, peers, reachable, calls, waiting, running>>

\* _peerRelayedTx: a transaction of the wallet uses an address that has not enough
\* others after it in the filter, which is thrown away until a new one is loaded.  A
\* filter that is just being loaded has enough (Download has the addresses).
Loading ==
    /\ downloadPeer # None
    /\ \E p \in Peer : <<"filterLoad", downloadPeer>> \in {peer[p].pongs[i] : i \in DOMAIN peer[p].pongs}
RelayedTx(p) ==
    /\ Message(p) /\ Event
    /\ filter /\ ~Loading
    /\ filter' = FALSE
    /\ peer' = UpdateFilter(Taken(p))
    /\ UNCHANGED <<downloadPeer, failures, syncing, height, estimated, peers, reachable, calls,
                   waiting, running>>

-----------------------------------------------------------------------------
(* Pong callbacks, called by the thread of p with the callback's success and   *)
(* the peer that its info names (None: that peer has been freed).              *)

\* _updateFilterPingDone: while the chain is downloaded only the download peer gets the
\* new filter, and the info goes on with its ping.
FilterPingDoneAlone(up, who) ==                                       \* mutant: no ping while behind
    /\ IF Behind
       THEN filter' = (downloadPeer # None) /\ peer' = up
       ELSE filter' = TRUE /\ peer' = LoadPingAll(up, Connected, "filterLoad")
    /\ UNCHANGED <<syncing, running>>
FilterPingDone(up, who) ==
    /\ IF Behind
       THEN /\ filter' = (downloadPeer # None)
            /\ peer' = IF downloadPeer = None THEN up ELSE LoadPing(up, downloadPeer, "filterLoad", who)
       ELSE filter' = TRUE /\ peer' = LoadPingAll(up, Connected, "filterLoad")
    /\ UNCHANGED <<syncing, running>>

\* _updateFilterLoadDone
FlagKept(ps, who)    == ps                                            \* mutant
FlagCleared(ps, who) == [ps EXCEPT ![who].needsUpdate = FALSE]
FilterLoadDone(up, who) ==
    LET crash == who = None \/ (Behind /\ downloadPeer = None)
        seen  == IF who = None THEN up ELSE FlagCleared(up, who)
    IN  /\ running' = ~crash
        /\ peer' = IF crash THEN seen
                   ELSE IF Behind THEN Ping(seen, downloadPeer, "rerequest", who)
                   ELSE SendMempool(seen, who, FALSE)
        /\ UNCHANGED <<filter, syncing>>

\* _updateFilterRerequestDone: a getblocks message, from the flags of the peer of info.
RerequestDone(up, who) ==
    /\ running' = (who # None)
    /\ peer' = up
    /\ UNCHANGED <<filter, syncing>>

\* _loadBloomFilterDone
BloomDone(up, p) ==
    /\ peer' = SendMempool(up, p, TRUE)
    /\ UNCHANGED <<filter, syncing, running>>

\* _mempoolDone
MempoolDone(up) ==
    /\ syncing' = FALSE
    /\ peer' = IF syncing THEN Unscheduled(up, downloadPeer) ELSE up
    /\ UNCHANGED <<filter, running>>

Pong(p) ==
    /\ Message(p) /\ peer[p].pongs # <<>>
    /\ LET cb  == Head(peer[p].pongs)[1]
           who == Head(peer[p].pongs)[2]
           up  == [Taken(p) EXCEPT ![p].pongs = Tail(@)]
       IN  \/ cb = "filterPing"  /\ FilterPingDone(up, who)
           \/ cb = "filterLoad"  /\ FilterLoadDone(up, who)
           \/ cb = "rerequest"   /\ RerequestDone(up, who)
           \/ cb = "bloomDone"   /\ BloomDone(up, p)
           \/ cb = "mempoolDone" /\ MempoolDone(up)
    /\ UNCHANGED <<downloadPeer, failures, height, estimated, peers, reachable, calls, waiting, events>>

\* The mempool has been relayed, or its time is over: the callback goes on with a ping.
MempoolTimer(p) ==
    /\ Message(p) /\ peer[p].mempool \in {"asked", "again"}
    /\ peer' = Ping([Taken(p) EXCEPT ![p].mempool = IF @ = "asked" THEN "sent" ELSE "no"], p, "mempoolDone", p)
    /\ UNCHANGED <<downloadPeer, failures, syncing, height, estimated, filter, peers, reachable, calls,
                   waiting, running, events>>

-----------------------------------------------------------------------------
(* The end of a connection. *)

\* The socket fails, the peer breaks the protocol, the disconnect time is over (while
\* connecting there is always one), or the socket has been shut.  What a peer without a
\* socket has no use for is reset.
Close(p, error) ==
    /\ running /\ peer[p].th \in {"opening", "open"}
    /\ \/ error \in {"reset", "proto"} /\ peer[p].shut # "yes"
       \/ error = "timeout" /\ (peer[p].timer \/ peer[p].th = "opening") /\ peer[p].shut # "yes"
       \/ error \in {"none", "reset"} /\ peer[p].shut # "no"
    /\ IF error = "proto" THEN Event ELSE UNCHANGED events
    /\ peer' = [peer EXCEPT ![p] = [NewPeer("draining") EXCEPT !.error = error, !.pongs = peer[p].pongs,
                                                                !.needsUpdate = peer[p].needsUpdate]]
    /\ UNCHANGED <<downloadPeer, failures, syncing, height, estimated, filter, peers, reachable, calls,
                   waiting, running>>

\* The callbacks that are left are told of failure: the one of a new filter ends the sync
\* if the peer is the download peer, the others free their info.
Drain(p) ==
    /\ running /\ peer[p].th = "draining" /\ peer[p].pongs # <<>>
    /\ LET up    == [peer EXCEPT ![p].pongs = Tail(@)]
           stops == Head(peer[p].pongs)[1] = "bloomDone" /\ p = downloadPeer
       IN  /\ peer' = IF stops THEN Unscheduled(up, p) ELSE up
           /\ syncing' = (syncing /\ ~stops)
    /\ UNCHANGED <<downloadPeer, failures, height, estimated, filter, peers, reachable, calls,
                   waiting, running, events>>

\* _peerDisconnected: the peer is freed, and pings that name it keep a dangling pointer.
Freed(ps, p) ==
    [q \in Peer |-> IF q = p THEN NewPeer("out")
                    ELSE [ps[q] EXCEPT !.pongs = [i \in DOMAIN @ |-> IF @[i][2] = p THEN <<@[i][1], None>> ELSE @[i]]]]

GoneIfFailed(p) == IF p = downloadPeer /\ peer[p].error # "none" THEN None ELSE downloadPeer   \* mutant
Gone(p)         == IF p = downloadPeer THEN None ELSE downloadPeer

Disconnected(p) ==
    LET error  == peer[p].error
        failed == IF error \in {"reset", "timeout"} THEN failures + 1 ELSE failures
        capped == IF p = downloadPeer /\ failed > MaxConnectFailures THEN MaxConnectFailures ELSE failed
        stops  == Gone(p) = None /\ capped = MaxConnectFailures
    IN  /\ running /\ peer[p].th = "draining" /\ peer[p].pongs = <<>>
        /\ calls["enter"] + calls["begun"] + calls["found"] < MaxCalls
        /\ failures' = capped
        /\ downloadPeer' = Gone(p)
        /\ peer' = Freed(peer, p)
        /\ syncing' = (syncing /\ ~stops)
        /\ \/ peers' = (IF stops THEN {} ELSE IF error = "none" THEN peers ELSE peers \ {p})
           \/ error = "proto" /\ peers' = {}             \* misbehavinCount has reached its limit
        /\ calls' = IF ~stops /\ capped < MaxConnectFailures THEN [calls EXCEPT !["enter"] = @ + 1] ELSE calls
        /\ UNCHANGED <<height, estimated, filter, reachable, waiting, running, events>>

-----------------------------------------------------------------------------
(* Calls of the application. *)


\* BRPeerManagerConnect, also called when the network has become reachable.
UserConnect ==
    /\ running /\ Event
    /\ calls' = [calls EXCEPT !["enter"] = @ + 1]
    /\ reachable' \in BOOLEAN
    /\ UNCHANGED <<peer, downloadPeer, failures, syncing, height, estimated, filter, peers, waiting, running>>

\* BRPeerManagerDisconnect, to its loop and from its loop.
UserDisconnect ==
    /\ running /\ Event /\ ~waiting
    /\ peer' = [p \in Peer |-> Shut(peer, p)[p]]
    /\ failures' = (IF InList = {} THEN failures ELSE MaxConnectFailures)
    /\ waiting' = (InList # {})
    /\ UNCHANGED <<downloadPeer, syncing, height, estimated, filter, peers, reachable, calls, running>>

DisconnectDone ==
    /\ running /\ waiting /\ InList = {}
    /\ waiting' = FALSE
    /\ UNCHANGED <<peer, downloadPeer, failures, syncing, height, estimated, filter, peers, reachable, calls,
                   running, events>>

\* BRPeerManagerRescan, then BRPeerManagerConnect by the same thread.
Rescan ==
    /\ running /\ Event /\ downloadPeer # None
    /\ height' = 0
    /\ peers' = peers \ {downloadPeer}
    /\ peer' = Shut(peer, downloadPeer)
    /\ syncing' = FALSE
    /\ calls' = [calls EXCEPT !["enter"] = @ + 1]
    /\ UNCHANGED <<downloadPeer, failures, estimated, filter, reachable, waiting, running>>

-----------------------------------------------------------------------------
Connecting == ConnectEnter \/ ConnectBegun \/ ConnectFound
Next ==
    \/ Connecting \/ UserConnect \/ UserDisconnect \/ DisconnectDone \/ Rescan
    \/ \E p \in Peer :
         \/ OpenSocket(p) \/ Greeted(p) \/ PeerConnected(p) \/ Block(p) \/ RelayedTx(p) \/ Pong(p)
         \/ MempoolTimer(p) \/ Drain(p) \/ Disconnected(p)
         \/ \E error \in Errors : Close(p, error)

Spec == Init /\ [][Next]_vars

\* The thread of a peer that has shaken hands runs, and a socket that was shut is found
\* closed.  WF of Pong assumes of the remote peer that it answers pings or is lost: at
\* the tip no timer of the code would end a connection on which nothing arrives.
PeerRuns(p) == PeerConnected(p) \/ Pong(p) \/ (peer[p].shut # "no" /\ Close(p, "none"))
Fairness    == \A p \in Peer : WF_vars(PeerRuns(p))

-----------------------------------------------------------------------------
\* The download peer is a connection that is still in the list and has shaken hands, and
\* its blocks are not ignored for ever: there is a filter, or an update that brings one.
DownloadPeerServes ==
    downloadPeer # None =>
        /\ peer[downloadPeer].th \in {"greeted", "open", "draining"}
        /\ filter \/ peer[downloadPeer].needsUpdate

\* An update that the download peer waits for is under way: no later one would be started.
UpdateIsUnderWay ==
    downloadPeer \in Connected /\ peer[downloadPeer].needsUpdate /\ peer[downloadPeer].shut = "no"
    => \E p \in Peer : \E i \in DOMAIN peer[p].pongs :
          peer[p].pongs[i] \in {<<"filterPing", downloadPeer>>, <<"filterLoad", downloadPeer>>}

\* A sync that has started is served: by a peer, or by a thread that will add one.
Served       == InList # {} \/ \E k \in Step : calls[k] > 0
SyncIsServed == syncing => Served \/ failures > MaxConnectFailures

\* An update of the filter comes to its end while its peer is the download peer and open,
\* although filters, heights and other peers change between its two pongs.
UpdateEnds ==
    \A p \in Peer :
        p = downloadPeer /\ peer[p].needsUpdate
        ~> p # downloadPeer \/ peer[p].th = "draining" \/ ~peer[p].needsUpdate \/ ~running
=============================================================================
