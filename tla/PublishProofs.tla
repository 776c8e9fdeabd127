--------------------------- MODULE PublishProofs ----------------------------
(***************************************************************************)
(* Proofs about Publish, for every set of peers and transactions, every    *)
(* number of connections, and whatever the peers send.                     *)
(***************************************************************************)
EXTENDS Publish, TLAPS

-----------------------------------------------------------------------------
(***************************************************************************)
(* The inductive invariant, by the variables that it is about.             *)
(***************************************************************************)
PeersOK ==
    /\ conn \in [Peer -> {"out", "joining", "open", "closing", "draining"}]
    /\ downloadPeer \in Peer \cup {None}
    /\ behind \in BOOLEAN /\ syncing \in BOOLEAN
    /\ failures \in Nat
    /\ events \in 0..MaxEvents

\* No timeout, answer or relay is kept of a peer that has gone.
OnlyListed ==
    /\ timer \subseteq InList /\ synced \subseteq InList
    /\ relays \in [TX -> SUBSET Peer] /\ requests \in [TX -> SUBSET Peer]
    /\ RelaysAreConnected

QueuesOK == pongs \in [Peer -> Seq(Callback)]

\* A transaction that is not the wallet's is never registered.
WalletOK ==
    /\ registered \subseteq known \ Foreign /\ known \subseteq TX
    /\ confirmed \subseteq TX \ Foreign /\ verified \subseteq TX /\ freed \subseteq Foreign

\* A transaction that was never listed was never answered for.
CallbacksOK ==
    /\ published \subseteq TX /\ pending \subseteq published
    /\ told \in [TX -> Nat]
    /\ CallbackOnce
    /\ \A t \in TX \ published : told[t] = 0

Inv == PeersOK /\ OnlyListed /\ QueuesOK /\ WalletOK /\ CallbacksOK

LEMMA InitInv == Init => Inv
<1> SUFFICES ASSUME Init PROVE Inv
  OBVIOUS
<1>1. PeersOK /\ OnlyListed /\ QueuesOK
  <2>1. PeersOK
    <3>1. 0 \in 0..MaxEvents /\ events = 0
      BY BoundsAssumption DEF Init
    <3>2. conn \in [Peer -> {"out", "joining", "open", "closing", "draining"}]
      BY DEF Init
    <3> QED BY <3>1, <3>2 DEF Init, PeersOK
  <2>2. OnlyListed
    BY DEF Init, OnlyListed, RelaysAreConnected
  <2>3. <<>> \in Seq(Callback)
    OBVIOUS
  <2>4. QueuesOK
    BY <2>3 DEF Init, QueuesOK
  <2> QED BY <2>1, <2>2, <2>4
<1>2. WalletOK
  BY TxAssumption DEF Init, WalletOK
<1>3. CallbacksOK
  BY DEF Init, CallbacksOK, CallbackOnce
<1> QED BY <1>1, <1>2, <1>3 DEF Inv

LEMMA InvTypeOK == Inv => TypeOK
BY DEF Inv, TypeOK, PeersOK, OnlyListed, QueuesOK, WalletOK, CallbacksOK
-----------------------------------------------------------------------------
(***************************************************************************)
(* The parts.                                                              *)
(***************************************************************************)
LEMMA PeersStep == PeersOK /\ [Next]_vars => PeersOK'
<1> SUFFICES ASSUME PeersOK, [Next]_vars PROVE PeersOK'
  OBVIOUS
<1> USE BoundsAssumption
<1>0. ASSUME Event PROVE events' \in 0..MaxEvents
  BY <1>0 DEF Event, PeersOK
<1>1. CASE UNCHANGED vars
  BY <1>1 DEF PeersOK, vars, peerVars
<1>2. CASE CaughtUp \/ Unconfirm \/ Rescan
  BY <1>0, <1>2 DEF PeersOK, CaughtUp, Unconfirm, Rescan, peerVars
<1>3. ASSUME NEW t \in TX, PublishTx(t) \/ Confirm(t) PROVE PeersOK'
  BY <1>0, <1>3 DEF PeersOK, PublishTx, Confirm, peerVars
<1>4. ASSUME NEW p \in Peer, Connect(p) \/ ConnectedBeside(p) \/ Close(p) PROVE PeersOK'
  <2>1. CASE Connect(p)
    BY <1>0, <2>1 DEF PeersOK, Connect
  <2>2. CASE ConnectedBeside(p)
    BY <2>2 DEF PeersOK, ConnectedBeside
  <2>3. CASE Close(p)
    BY <2>3 DEF PeersOK, Close
  <2> QED BY <1>4, <2>1, <2>2, <2>3
<1>5. ASSUME NEW p \in Peer, Pong(p) \/ Drain(p) PROVE PeersOK'
  BY <1>5 DEF PeersOK, Pong, Drain, Called, peerVars
<1>6. ASSUME NEW p \in Peer, NEW d \in Peer, ConnectedChosen(p, d) PROVE PeersOK'
  BY <1>6 DEF PeersOK, ConnectedChosen
<1>7. ASSUME NEW p \in Peer, NEW error \in {"none", "reset", "timeout"}, Disconnected(p, error)
      PROVE  PeersOK'
  BY <1>7 DEF PeersOK, Disconnected
<1>8. ASSUME NEW p \in Peer, NEW t \in TX, Message(p, t) PROVE PeersOK'
  <2>1. ASSUME NEW spent \in BOOLEAN, RejectedTx(p, t, spent) PROVE PeersOK'
    BY <1>0, <2>1 DEF PeersOK, RejectedTx
  <2>2. CASE RelayedTx(p, t) \/ HasTx(p, t) \/ RequestedTx(p, t) \/ DataNotfound(p, t)
    BY <1>0, <2>2 DEF PeersOK, RelayedTx, HasTx, RequestedTx, DataNotfound, peerVars
  <2> QED BY <1>8, <2>1, <2>2 DEF Message
<1> QED BY <1>1, <1>2, <1>3, <1>4, <1>5, <1>6, <1>7, <1>8 DEF Next

LEMMA WalletStep == WalletOK /\ [Next]_vars => WalletOK'
<1> SUFFICES ASSUME WalletOK, [Next]_vars PROVE WalletOK'
  OBVIOUS
<1>1. CASE UNCHANGED walletVars
  BY <1>1 DEF WalletOK, walletVars
<1>2. ASSUME NEW t \in TX, PublishTx(t) \/ Confirm(t) PROVE WalletOK'
  BY <1>2 DEF WalletOK, PublishTx, Confirm
<1>3. CASE Unconfirm
  BY <1>3 DEF WalletOK, Unconfirm
<1>4. ASSUME NEW p \in Peer, NEW t \in TX, Message(p, t) PROVE WalletOK'
  <2>1. Register(t) => registered' \subseteq known' \ Foreign /\ known' \subseteq TX
    BY DEF WalletOK, Register
  <2>2. \A ps : Verified(t, ps) \subseteq TX
    BY DEF WalletOK, Verified
  <2>3. CASE RelayedTx(p, t)
    BY <2>1, <2>2, <2>3 DEF WalletOK, RelayedTx
  <2>4. CASE HasTx(p, t)
    BY <2>1, <2>2, <2>4 DEF WalletOK, HasTx
  <2>5. CASE RequestedTx(p, t) \/ DataNotfound(p, t)
    BY <2>1, <2>5 DEF WalletOK, RequestedTx, DataNotfound, walletVars
  <2>6. ASSUME NEW spent \in BOOLEAN, RejectedTx(p, t, spent) PROVE WalletOK'
    BY <2>6 DEF WalletOK, RejectedTx
  <2> QED BY <1>4, <2>3, <2>4, <2>5, <2>6 DEF Message
<1>5. ASSUME NEW p \in Peer, NEW success, Called(p, success) PROVE WalletOK'
  BY <1>5 DEF WalletOK, Called, GetdataDone, walletVars
<1>6. CASE CaughtUp \/ Rescan
  BY <1>1, <1>6 DEF CaughtUp, Rescan
<1>7. ASSUME NEW p \in Peer, \/ Connect(p) \/ ConnectedBeside(p) \/ Close(p)
                             \/ \E d \in Peer : ConnectedChosen(p, d)
                             \/ \E error \in {"none", "reset", "timeout"} : Disconnected(p, error)
      PROVE WalletOK'
  BY <1>1, <1>7 DEF Connect, ConnectedBeside, Close, ConnectedChosen, Disconnected
<1> QED BY <1>1, <1>2, <1>3, <1>4, <1>5, <1>6, <1>7 DEF Next, Pong, Drain, vars

\* What starts a list is in it.
LEMMA ListingHas ==
    ASSUME NEW t \in TX, t \notin published \cup confirmed
    PROVE  t \in Listing(t)
BY DEF Listing, Closure, ToList

LEMMA CallbacksStep == CallbacksOK /\ [Next]_vars => CallbacksOK'
<1> SUFFICES ASSUME CallbacksOK, [Next]_vars PROVE CallbacksOK'
  OBVIOUS
<1>1. CASE UNCHANGED <<published, pending, told>>
  BY <1>1 DEF CallbacksOK, CallbackOnce
<1>2. ASSUME NEW S, Tell(S), published \subseteq published', published' \subseteq TX
      PROVE  CallbacksOK'
  <2>1. pending' \subseteq published' /\ told' \in [TX -> Nat]
    BY <1>2 DEF CallbacksOK, Tell
  <2>2. CallbackOnce'
    <3> SUFFICES ASSUME NEW t \in TX PROVE told'[t] <= IF t \in pending' THEN 0 ELSE 1
      BY DEF CallbackOnce
    <3>1. told[t] \in Nat /\ told[t] <= IF t \in pending THEN 0 ELSE 1
      BY DEF CallbacksOK, CallbackOnce
    <3> QED BY <1>2, <3>1 DEF Tell
  <2>3. \A t \in TX \ published' : told'[t] = 0
    BY <1>2 DEF Tell, CallbacksOK
  <2> QED BY <1>2, <2>1, <2>2, <2>3 DEF CallbacksOK
<1>3. \A t \in TX : Listing(t) \subseteq TX
  BY DEF Listing, Closure
<1>4. ASSUME NEW t \in TX, PublishTx(t) PROVE CallbacksOK'
  <2>1. published' = published \cup Listing(t) /\ told' = told
        /\ pending' = IF t \in published THEN pending ELSE pending \cup {t}
    BY <1>4 DEF PublishTx
  <2>2. t \notin published => t \in Listing(t)
    BY <1>4, ListingHas DEF PublishTx
  <2>3. published' \subseteq TX /\ pending' \subseteq published' /\ told' \in [TX -> Nat]
    BY <1>3, <2>1, <2>2 DEF CallbacksOK
  <2>4. CallbackOnce' /\ \A u \in TX \ published' : told'[u] = 0
    BY <2>1 DEF CallbacksOK, CallbackOnce
  <2> QED BY <2>3, <2>4 DEF CallbacksOK
<1>5. ASSUME NEW p \in Peer, NEW t \in TX, Message(p, t) PROVE CallbacksOK'
  <2>1. CASE RelayedTx(p, t)
    <3>1. Tell({t}) /\ published \subseteq published' /\ published' \subseteq published \cup Listing(t)
      BY <2>1 DEF RelayedTx
    <3>2. published' \subseteq TX
      BY <1>3, <3>1 DEF CallbacksOK
    <3> QED BY <1>2, <3>1, <3>2
  <2>2. CASE HasTx(p, t) \/ RequestedTx(p, t)
    <3>1. Tell({t}) /\ published' = published
      BY <2>2 DEF HasTx, RequestedTx
    <3>2. published' \subseteq TX
      BY <3>1 DEF CallbacksOK
    <3> QED BY <1>2, <3>1, <3>2
  <2>3. CASE DataNotfound(p, t) \/ \E spent \in BOOLEAN : RejectedTx(p, t, spent)
    BY <1>1, <2>3 DEF DataNotfound, RejectedTx
  <2> QED BY <1>5, <2>1, <2>2, <2>3 DEF Message
<1>6. ASSUME NEW p \in Peer, NEW error \in {"none", "reset", "timeout"}, Disconnected(p, error)
      PROVE  CallbacksOK'
  <2>1. \E S : Tell(S) /\ published' = published
    BY <1>6 DEF Disconnected
  <2>2. published' \subseteq TX
    BY <2>1 DEF CallbacksOK
  <2> QED BY <1>2, <2>1, <2>2
<1>7. CASE CaughtUp \/ Unconfirm \/ Rescan \/ \E t \in TX : Confirm(t)
  BY <1>1, <1>7 DEF CaughtUp, Unconfirm, Rescan, Confirm, listVars
<1>8. ASSUME NEW p \in Peer, \/ Connect(p) \/ ConnectedBeside(p) \/ Close(p) \/ Pong(p) \/ Drain(p)
                             \/ \E d \in Peer : ConnectedChosen(p, d)
      PROVE  CallbacksOK'
  BY <1>1, <1>8 DEF Connect, ConnectedBeside, Close, ConnectedChosen, Pong, Drain, Called, listVars
<1> QED BY <1>1, <1>4, <1>5, <1>6, <1>7, <1>8 DEF Next, vars, listVars

\* The queues of pong callbacks.
LEMMA PingTyped ==
    ASSUME NEW q \in [Peer -> Seq(Callback)], NEW S, NEW cb \in Callback
    PROVE  Ping(q, S, cb) \in [Peer -> Seq(Callback)]
<1>1. \A p \in Peer : q[p] \in Seq(Callback)
  OBVIOUS
<1>2. \A p \in Peer : Append(q[p], cb) \in Seq(Callback)
  BY <1>1
<1> QED BY <1>1, <1>2 DEF Ping

LEMMA MempoolTyped ==
    ASSUME NEW q \in [Peer -> Seq(Callback)], NEW S, SendMempool(q, S)
    PROVE  QueuesOK'
<1>1. "mempool" \in Callback
  BY DEF Callback
<1>2. Ping(q, S, "mempool") \in [Peer -> Seq(Callback)]
  BY <1>1, PingTyped
<1> QED BY <1>2 DEF SendMempool, QueuesOK

LEMMA QueuesStep == QueuesOK /\ [Next]_vars => QueuesOK'
<1> SUFFICES ASSUME QueuesOK, [Next]_vars PROVE QueuesOK'
  OBVIOUS
<1>0. /\ pongs \in [Peer -> Seq(Callback)]
      /\ "inv" \in Callback /\ "getdata" \in Callback /\ "bloom" \in Callback
  BY DEF QueuesOK, Callback
<1>1. CASE UNCHANGED pongs
  BY <1>0, <1>1 DEF QueuesOK
<1>2. CASE CaughtUp
  <2>1. PICK S, T : SendMempool(Ping(pongs, S, "bloom"), T)
    BY <1>2 DEF CaughtUp, LoadMempools
  <2> DEFINE q == Ping(pongs, S, "bloom")
  <2>2. q \in [Peer -> Seq(Callback)]
    BY <1>0, PingTyped
  <2> HIDE DEF q
  <2>3. SendMempool(q, T)
    BY <2>1 DEF q
  <2> QED BY <2>2, <2>3, MempoolTyped
<1>3. ASSUME NEW p \in Peer, NEW d \in Peer, ConnectedChosen(p, d) PROVE QueuesOK'
  <2> DEFINE q == Ping(pongs, (Connected \cup {p}) \ {d}, "bloom")
             S == {d}
  <2>1. pongs' = pongs \/ SendMempool(q, S)
    BY <1>3 DEF ConnectedChosen
  <2>2. q \in [Peer -> Seq(Callback)]
    BY <1>0, PingTyped
  <2> HIDE DEF q, S
  <2> QED BY <1>1, <2>1, <2>2, MempoolTyped
<1>4. ASSUME NEW S, NEW cb \in {"inv", "bloom"}, pongs' = Ping(pongs, S, cb) PROVE QueuesOK'
  BY <1>0, <1>4, PingTyped DEF QueuesOK
<1>5. ASSUME NEW p \in Peer, NEW success, Called(p, success) PROVE QueuesOK'
  <2> DEFINE q == [pongs EXCEPT ![p] = Tail(pongs[p])]
             S == {p}
  <2>1. pongs[p] \in Seq(Callback) /\ pongs[p] # <<>>
    BY <1>0, <1>5 DEF Called
  <2>2. Tail(pongs[p]) \in Seq(Callback)
    BY <2>1
  <2>3. q \in [Peer -> Seq(Callback)]
    BY <1>0, <2>2
  <2>4. pongs' = q \/ RequestUnrelayedTx(p, q) \/ SendMempool(q, S)
    BY <1>5 DEF Called
  <2> HIDE DEF q, S
  <2>5. RequestUnrelayedTx(p, q) => pongs' = q \/ pongs' = Ping(q, S, "getdata")
    BY DEF RequestUnrelayedTx, S
  <2>6. Ping(q, S, "getdata") \in [Peer -> Seq(Callback)]
    BY <1>0, <2>3, PingTyped
  <2> QED BY <2>3, <2>4, <2>5, <2>6, MempoolTyped DEF QueuesOK
<1>6. ASSUME NEW t \in TX, PublishTx(t) PROVE QueuesOK'
  <2>1. \E S : pongs' = Ping(pongs, S, "inv")
    BY <1>6 DEF PublishTx
  <2> QED BY <1>4, <2>1
<1>7. ASSUME NEW p \in Peer, ConnectedBeside(p) PROVE QueuesOK'
  <2>1. pongs' = pongs \/ \E S : pongs' = Ping(pongs, S, "bloom")
    BY <1>7 DEF ConnectedBeside
  <2> QED BY <1>1, <1>4, <2>1
<1>8. CASE Unconfirm \/ Rescan \/ \E t \in TX : Confirm(t)
  BY <1>1, <1>8 DEF Unconfirm, Rescan, Confirm
<1>9. ASSUME NEW p \in Peer, \/ Connect(p) \/ Close(p)
                             \/ \E error \in {"none", "reset", "timeout"} : Disconnected(p, error)
                             \/ \E t \in TX : Message(p, t)
      PROVE  QueuesOK'
  BY <1>1, <1>9 DEF Connect, Close, Disconnected, Message, RelayedTx, HasTx, RequestedTx,
                    DataNotfound, RejectedTx
<1> QED BY <1>1, <1>2, <1>3, <1>5, <1>6, <1>7, <1>8, <1>9 DEF Next, Pong, Drain, vars
-----------------------------------------------------------------------------
(***************************************************************************)
(* What is kept of a peer.  Every step but a disconnection keeps the peers *)
(* of the list and adds only what is about one of them.                    *)
(***************************************************************************)
OnlyAdds ==
    /\ timer' \subseteq timer \cup InList' /\ synced' \subseteq synced \cup InList'
    /\ relays' \in [TX -> SUBSET Peer] /\ requests' \in [TX -> SUBSET Peer]
    /\ \A t \in TX : relays'[t] \subseteq relays[t] \cup InList'

LEMMA OnlyAddsKept ==
    ASSUME OnlyListed, InList \subseteq InList', OnlyAdds
    PROVE  OnlyListed'
<1>1. RelaysAreConnected'
  BY DEF OnlyListed, OnlyAdds, RelaysAreConnected
<1> QED BY <1>1 DEF OnlyListed, OnlyAdds

\* What the helpers do to the timers and the lists of peers.
LEMMA TimerHelpers ==
    ASSUME NEW p \in Peer, NEW t \in TX
    PROVE  /\ TimerAfter(p, t) \subseteq timer
           /\ \A tm, w : Rescheduled(tm, p, w) \subseteq tm \cup {p}
           /\ \A tm, S : PublishPendingTx(tm, S) \subseteq tm \cup S
           /\ SyncStopped => timer' \subseteq timer
BY DEF TimerAfter, Rescheduled, PublishPendingTx, SyncStopped

LEMMA ListHelpers ==
    ASSUME NEW list \in [TX -> SUBSET Peer], NEW t \in TX, NEW p \in Peer
    PROVE  /\ AddPeer(list, t, p) \in [TX -> SUBSET Peer]
           /\ RemovePeer(list, t, p) \in [TX -> SUBSET Peer]
           /\ \A u \in TX : /\ AddPeer(list, t, p)[u] \subseteq list[u] \cup {p}
                            /\ RemovePeer(list, t, p)[u] \subseteq list[u]
BY DEF AddPeer, RemovePeer

LEMMA MessageAdds ==
    ASSUME PeersOK, OnlyListed, NEW p \in Peer, NEW t \in TX, Message(p, t)
    PROVE  InList \subseteq InList' /\ OnlyAdds
<1>0. conn \in [Peer -> {"out", "joining", "open", "closing", "draining"}] /\ conn[p] = "open"
  BY DEF PeersOK, Message, RelayedTx, HasTx, RequestedTx, DataNotfound, RejectedTx
<1>1. conn' = conn \/ conn' = [conn EXCEPT ![p] = "closing"]
  BY DEF Message, RelayedTx, HasTx, RequestedTx, DataNotfound, RejectedTx, peerVars
<1>2. InList' = InList /\ p \in InList
  BY <1>0, <1>1 DEF InList
<1>3. relays \in [TX -> SUBSET Peer] /\ requests \in [TX -> SUBSET Peer]
  BY DEF OnlyListed
<1>4. /\ relays' \in {relays, AddPeer(relays, t, p), RemovePeer(relays, t, p)}
      /\ requests' \in {requests, RemovePeer(requests, t, p)}
      /\ synced' = synced
  BY DEF Message, RelayedTx, HasTx, RequestedTx, DataNotfound, RejectedTx
<1>5. timer' \subseteq timer \cup {p}
  <2>1. \/ timer' = timer \/ timer' = TimerAfter(p, t)
        \/ \E w : timer' = Rescheduled(TimerAfter(p, t), p, w)
    BY DEF Message, RelayedTx, HasTx, RequestedTx, DataNotfound, RejectedTx
  <2> DEFINE tm == TimerAfter(p, t)
  <2>2. tm \subseteq timer /\ \A w : Rescheduled(tm, p, w) \subseteq tm \cup {p}
    BY TimerHelpers
  <2> HIDE DEF tm
  <2>3. timer' = timer \/ timer' = tm \/ \E w : timer' = Rescheduled(tm, p, w)
    BY <2>1 DEF tm
  <2> QED BY <2>2, <2>3
<1>6. /\ relays' \in [TX -> SUBSET Peer] /\ requests' \in [TX -> SUBSET Peer]
      /\ \A u \in TX : relays'[u] \subseteq relays[u] \cup {p}
  BY <1>3, <1>4, ListHelpers
<1> QED BY <1>2, <1>4, <1>5, <1>6 DEF OnlyAdds

LEMMA CalledAdds ==
    ASSUME PeersOK, OnlyListed, NEW p \in Peer, NEW success, conn[p] # "out", Called(p, success)
    PROVE  InList \subseteq InList' /\ OnlyAdds
<1>1. InList' = InList /\ p \in InList /\ relays' = relays
  BY DEF Called, peerVars, InList
<1>2. timer' \subseteq timer
  BY DEF Called, SyncStopped
<1>3. synced' \subseteq synced \cup {p}
  BY DEF Called, GetdataDone, RequestUnrelayedTx
<1>4. requests' = requests \/ requests' = [t \in TX |-> IF t \in {x \in Unconfirmed : p \notin relays[x] \cup requests[x]}
                                                   THEN requests[t] \cup {p} ELSE requests[t]]
  BY DEF Called, RequestUnrelayedTx
<1>5. requests' \in [TX -> SUBSET Peer]
  BY <1>4 DEF OnlyListed
<1> QED BY <1>1, <1>2, <1>3, <1>5 DEF OnlyAdds, OnlyListed

LEMMA OnlyListedStep == PeersOK /\ OnlyListed /\ [Next]_vars => OnlyListed'
<1> SUFFICES ASSUME PeersOK, OnlyListed, [Next]_vars PROVE OnlyListed'
  OBVIOUS
<1>0. /\ conn \in [Peer -> {"out", "joining", "open", "closing", "draining"}]
      /\ relays \in [TX -> SUBSET Peer] /\ requests \in [TX -> SUBSET Peer]
      /\ Connected \subseteq InList
  BY DEF PeersOK, OnlyListed, Connected, InList
<1>1. ASSUME InList \subseteq InList', timer' \subseteq timer \cup InList', UNCHANGED <<synced, relays, requests>>
      PROVE  OnlyListed'
  BY <1>0, <1>1, OnlyAddsKept DEF OnlyAdds
<1>2. CASE UNCHANGED vars
  BY <1>1, <1>2 DEF vars, peerVars, listVars, InList
<1>3. CASE Unconfirm \/ \E t \in TX : Confirm(t)
  BY <1>1, <1>3 DEF Unconfirm, Confirm, peerVars, listVars, InList
<1>4. CASE Rescan
  BY <1>0, <1>1, <1>4 DEF Rescan, listVars, InList
<1>5. CASE CaughtUp
  <2>1. InList' = InList /\ UNCHANGED <<synced, relays, requests>>
    BY <1>5 DEF CaughtUp, InList, listVars
  <2>2. PICK reload \in BOOLEAN : LoadMempools(pongs, timer, downloadPeer, reload)
    BY <1>5 DEF CaughtUp
  <2>3. timer' \subseteq timer \cup Connected
    BY <2>2 DEF LoadMempools, PublishPendingTx
  <2> QED BY <1>0, <1>1, <2>1, <2>3
<1>6. ASSUME NEW t \in TX, PublishTx(t) PROVE OnlyListed'
  <2>1. InList' = InList /\ UNCHANGED <<synced, relays, requests>>
    BY <1>6 DEF PublishTx, InList, peerVars
  <2>2. timer' \subseteq timer \cup Connected
    BY <1>6 DEF PublishTx
  <2> QED BY <1>0, <1>1, <2>1, <2>2
<1>7. ASSUME NEW p \in Peer, Connect(p) \/ Close(p) PROVE OnlyListed'
  <2>1. InList \subseteq InList' /\ timer' = timer /\ UNCHANGED <<synced, relays, requests>>
    BY <1>0, <1>7 DEF Connect, Close, InList, listVars
  <2> QED BY <1>1, <2>1
<1>8. ASSUME NEW p \in Peer, ConnectedBeside(p) PROVE OnlyListed'
  <2>1. InList \subseteq InList' /\ p \in InList' /\ UNCHANGED <<synced, relays, requests>>
    BY <1>0, <1>8 DEF ConnectedBeside, InList, listVars
  <2>2. timer' \subseteq timer \cup {p}
    BY <1>8 DEF ConnectedBeside, PublishPendingTx
  <2> QED BY <1>1, <2>1, <2>2
<1>9. ASSUME NEW p \in Peer, NEW d \in Peer, ConnectedChosen(p, d) PROVE OnlyListed'
  <2>1. /\ InList \subseteq InList' /\ p \in InList' /\ UNCHANGED <<synced, relays, requests>>
        /\ d \in Connected \cup {p}
    BY <1>0, <1>9 DEF ConnectedChosen, InList, listVars
  <2>2. timer' \subseteq timer \cup Connected \cup {p, d}
    BY <1>9 DEF ConnectedChosen, PublishPendingTx
  <2> QED BY <1>0, <1>1, <2>1, <2>2
<1>10. ASSUME NEW p \in Peer, NEW error \in {"none", "reset", "timeout"}, Disconnected(p, error)
       PROVE  OnlyListed'
  <2>1. InList' = InList \ {p} /\ timer' = timer \ {p} /\ synced' = synced \ {p} /\ requests' = requests
        /\ relays' = Forget(relays, p)
    BY <1>0, <1>10 DEF Disconnected, InList
  <2>2. relays' \in [TX -> SUBSET Peer] /\ \A t \in TX : relays'[t] = relays[t] \ {p}
    BY <1>0, <2>1 DEF Forget
  <2> QED BY <2>1, <2>2 DEF OnlyListed, RelaysAreConnected
<1>11. ASSUME NEW p \in Peer, Pong(p) \/ Drain(p) PROVE OnlyListed'
  <2>1. InList \subseteq InList' /\ OnlyAdds
    BY <1>11, CalledAdds DEF Pong, Drain
  <2> QED BY <2>1, OnlyAddsKept
<1>12. ASSUME NEW p \in Peer, NEW t \in TX, Message(p, t) PROVE OnlyListed'
  <2>1. InList \subseteq InList' /\ OnlyAdds
    BY <1>12, MessageAdds
  <2> QED BY <2>1, OnlyAddsKept
<1> QED BY <1>2, <1>3, <1>4, <1>5, <1>6, <1>7, <1>8, <1>9, <1>10, <1>11, <1>12 DEF Next
-----------------------------------------------------------------------------
(***************************************************************************)
(* The results.                                                            *)
(***************************************************************************)
LEMMA InvAlways == Spec => []Inv
<1>1. Init => Inv
  BY InitInv
<1>2. Inv /\ [Next]_vars => Inv'
  <2> SUFFICES ASSUME Inv, [Next]_vars PROVE Inv'
    OBVIOUS
  <2> QED BY PeersStep, OnlyListedStep, QueuesStep, WalletStep, CallbacksStep DEF Inv
<1> QED BY <1>1, <1>2, PTL DEF Spec

\* Every variable keeps its type; above all, what the manager keeps of a peer (a
\* timeout, the flag of its answers) is about a peer that it holds, and a callback
\* that is pending belongs to an entry of publishedTx.
THEOREM PublishTyped == Spec => []TypeOK
<1>1. Inv => TypeOK
  BY InvTypeOK
<1> QED BY <1>1, InvAlways, PTL

\* The callback of a published transaction is called at most once, whichever of the
\* handlers of BRPeerManager.c comes first, and not while it is still pending.
THEOREM CallbackCorrect == Spec => []CallbackOnce
<1>1. Inv => CallbackOnce
  BY DEF Inv, CallbacksOK
<1> QED BY <1>1, InvAlways, PTL

\* The relay count that verifies a transaction counts connected peers only: no
\* handler adds a peer that has left, and _peerDisconnected takes it off each list.
THEOREM RelaysCorrect == Spec => []RelaysAreConnected
<1>1. Inv => RelaysAreConnected
  BY DEF Inv, OnlyListed
<1> QED BY <1>1, InvAlways, PTL
-----------------------------------------------------------------------------
\* A handler that answers for transaction t cancels the timeout of its peer p only
\* when it leaves no callback pending and no sync waits for p.
LEMMA AnswerKeepsTimeout ==
    ASSUME NEW p \in Peer, NEW t \in TX, Message(p, t), NEW q \in timer \ timer'
    PROVE  pending' = {} /\ ~ (syncing' /\ q = downloadPeer')
<1>1. /\ RelayedTx(p, t) \/ HasTx(p, t) \/ RequestedTx(p, t)
      /\ Tell({t}) /\ UNCHANGED <<syncing, downloadPeer>>
  BY DEF Message, RelayedTx, HasTx, RequestedTx, DataNotfound, RejectedTx, peerVars
<1>2. timer' = TimerAfter(p, t) \/ \E w : timer' = Rescheduled(TimerAfter(p, t), p, w)
  BY <1>1 DEF RelayedTx, HasTx, RequestedTx
<1>3. q \notin TimerAfter(p, t)
  <2>1. \A tm, w : tm \subseteq Rescheduled(tm, p, w)
    BY DEF Rescheduled
  <2> QED BY <1>2, <2>1
<1>4. NoneElsePending(t) /\ (~ syncing \/ p # downloadPeer) /\ q = p
  BY <1>3 DEF TimerAfter
<1> QED BY <1>1, <1>4 DEF Tell, NoneElsePending

\* What any step of the manager that cancels the timeout of a peer has seen to.
LEMMA TimeoutStep ==
    ASSUME PeersOK, [Next]_vars, NEW q \in timer \ timer', q \in InList'
    PROVE  pending' = {} /\ ~ (syncing' /\ q = downloadPeer')
<1>1. ASSUME timer \subseteq timer' PROVE FALSE
  BY <1>1
<1>2. CASE UNCHANGED vars
  BY <1>1, <1>2 DEF vars
<1>3. CASE Unconfirm \/ Rescan \/ \E t \in TX : Confirm(t)
  BY <1>1, <1>3 DEF Unconfirm, Rescan, Confirm
<1>4. CASE CaughtUp \/ \E t \in TX : PublishTx(t)
  BY <1>1, <1>4 DEF CaughtUp, LoadMempools, PublishPendingTx, PublishTx
<1>5. ASSUME NEW p \in Peer, \/ Connect(p) \/ ConnectedBeside(p) \/ Close(p)
                             \/ \E d \in Peer : ConnectedChosen(p, d)
      PROVE  FALSE
  BY <1>1, <1>5 DEF Connect, ConnectedBeside, Close, ConnectedChosen, PublishPendingTx
<1>6. ASSUME NEW p \in Peer, NEW error \in {"none", "reset", "timeout"}, Disconnected(p, error)
      PROVE  FALSE
  <2>1. timer' = timer \ {p} /\ conn' = [conn EXCEPT ![p] = "out"]
    BY <1>6 DEF Disconnected
  <2>2. q = p /\ conn'[p] # "out"
    BY <2>1 DEF InList
  <2>3. conn'[p] = "out"
    BY <2>1 DEF PeersOK
  <2> QED BY <2>2, <2>3
<1>7. ASSUME NEW p \in Peer, NEW success, Called(p, success)
      PROVE  pending' = {} /\ ~ (syncing' /\ q = downloadPeer')
  BY <1>1, <1>7 DEF Called, SyncStopped, peerVars
<1> QED BY <1>2, <1>3, <1>4, <1>5, <1>6, <1>7, AnswerKeepsTimeout DEF Next, Pong, Drain

\* Publishing and syncing share one timer per peer, and neither cancels it while the
\* other needs it: the timeout of a peer that stays goes only when no callback is
\* pending and the peer is not the download peer of a sync that goes on.
THEOREM TimeoutCorrect == Spec => TimeoutKept
<1>1. Inv /\ [Next]_vars =>
        [\A p \in timer \ timer' :
            p \in InList' => pending' = {} /\ ~ (syncing' /\ p = downloadPeer')]_vars
  BY TimeoutStep DEF Inv
<1> QED BY <1>1, InvAlways, PTL DEF Spec, TimeoutKept
=============================================================================
