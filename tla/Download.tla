------------------------------ MODULE Download ------------------------------
(***************************************************************************)
(* The download of blocks through a bloom filter: the messages of BRPeer.c *)
(* (inv, getblocks, getheaders, headers, getdata, merkleblock, tx, filter- *)
(* load, ping and pong) and what BRPeerManager.c makes of them, with the   *)
(* addresses of BRWallet.c.  The wallet generates addresses as they are    *)
(* used; the filter a peer has loaded matches those that existed when it   *)
(* was built; a peer leaves out of a merkleblock what its filter does not  *)
(* match.  So the filter is rebuilt in the middle of the stream of blocks, *)
(* and blocks that an old filter has matched are asked for again.          *)
(*                                                                         *)
(* There is one chain of blocks, named by height, and one chain of         *)
(* addresses 1, 2, ...; a transaction of the wallet is the address it      *)
(* pays.  Messages of a connection are answered in order.  An action is a  *)
(* message handled by a peer's thread, up to where it releases the         *)
(* manager's lock, or by the remote peer, which is external.  Forks,       *)
(* rescans and saved blocks are in PeerChain, failing connections in       *)
(* PeerSync.                                                               *)
(***************************************************************************)
EXTENDS Integers, Sequences, FiniteSets, SequencesExt

CONSTANTS
    Peer, None,
    Top,                    \* the height of the network's chain at the end
    Pays,                   \* Pays[h]: the wallet's transactions in block h, in order
    Floating,               \* those of them that are also relayed before their block
    Forgets,                \* do peers forget a transaction when it is in a block
    Time, Since, Drift,     \* Time[h]: the time stamp of block h; a week before earliestKeyTime; two hours
    Recent,                 \* the blocks that are less than a week old
    Gap, Spare,             \* the gap limit; the spare addresses a filter gets
    Window, HeaderWindow,   \* 500 hashes of blocks and 2000 headers in a message
    Worn, Far,              \* blocks at which the rate of false positives may be bad; 500: so far behind, a bad filter is rebuilt
    MaxKnown,               \* MAX_GETDATA_HASHES
    MaxConnectCount,        \* maxConnectCount
    Best,                   \* Best[p]: the height of p's chain at the start
    MaxFailures             \* bound of the model: connections to each peer that fail

Blocks == 1..Top
Txs == UNION {{Pays[h][i] : i \in DOMAIN Pays[h]} : h \in Blocks}

ASSUME ChainAssumption ==
    /\ Top \in Nat /\ Pays \in [Blocks -> Seq(Nat \ {0})] /\ Time \in [0..Top -> Nat]
    /\ Best \in [Peer -> 0..Top] /\ Floating \subseteq Txs /\ Recent \subseteq Blocks

ASSUME NumberAssumption ==
    /\ Gap \in Nat /\ Spare \in Nat /\ Window \in Nat \ {0} /\ HeaderWindow \in Nat \ {0}
    /\ MaxKnown \in Nat /\ MaxKnown >= 2
    /\ None \notin Peer \cup Nat

\* An address is paid once.
ASSUME PaidOnce ==
    \A g, h \in Blocks : \A i \in DOMAIN Pays[g], j \in DOMAIN Pays[h] :
        Pays[g][i] = Pays[h][j] => g = h

\* BIP 44: nobody is paid more than the gap limit beyond the addresses used before.
ASSUME GapAssumption ==
    \A h \in Blocks : \A i \in DOMAIN Pays[h] :
        Pays[h][i] <= Gap + Max({0} \cup {Pays[h][j] : j \in 1..(i - 1)}
            \cup UNION {{Pays[g][j] : j \in DOMAIN Pays[g]} : g \in 1..(h - 1)})

\* Nothing was paid to the wallet before it existed.
ASSUME CreationAssumption == \A h \in Blocks : Pays[h] # <<>> => Time[h] > Since + Drift

VARIABLES
    lastBlock, estimated,   \* lastBlock->height, estimatedHeight
    filter,                 \* the last address in bloomFilter, None when that is NULL
    orphans, lastOrphan,
    downloadPeer,
    generated,              \* the number of addresses in the wallet
    registered,             \* the wallet's transactions
    confirmed,              \* those that have their height
    ctx,                    \* ctx[p]: the BRPeerContext of p, see NewContext
    out, in,                \* messages to and from p
    remote,                 \* p's filter, and the block after which it announces its tip
    best,                   \* the height of p's chain
    failures,               \* the connections to each peer that have failed
    stray                   \* of the model: was the chain extended by a block that another filter had matched

manager == <<lastBlock, estimated, orphans, lastOrphan>>
wallet  == <<generated, registered, confirmed>>
vars    == <<manager, filter, downloadPeer, wallet, ctx, out, in, remote, best, failures, stray>>

-----------------------------------------------------------------------------
\* A block as _peerRelayedBlock gets it; for the model with the filter that the peer
\* has matched it with, which is None for a header.
Block(h, txs, matched) == [height |-> h, txs |-> txs, filter |-> matched]
IsHeader(b) == b.filter = None
NoBlock == Block(0, {}, None)

\* connected, is its socket open, last: the height in its version message; known:
\* knownBlockHashes, newest: lastBlockHash, block: currentBlock, missing:
\* currentBlockTxHashes, seen: knownTxHashSet, update: needsFilterUpdate and
\* PEER_FLAG_NEEDSUPDATE, relay: the blocks its thread has yet to relay.
NewContext(last) ==
    [connected |-> TRUE, open |-> TRUE, last |-> last, sentFilter |-> FALSE, known |-> <<>>,
     newest |-> 0, block |-> NoBlock, missing |-> {}, seen |-> {}, update |-> FALSE, relay |-> <<>>]
NoContext == [NewContext(0) EXCEPT !.connected = FALSE, !.open = FALSE]
NoRemote  == [filter |-> 0, continue |-> 0, told |-> {}]

Message(type, blocks, txs) == [type |-> type, blocks |-> blocks, txs |-> txs, call |-> <<>>]
GetBlocks(h)      == Message("getblocks", <<h>>, {})
GetHeaders(h)     == Message("getheaders", <<h>>, {})
FilterLoad(f)     == Message("filterload", <<f>>, {})
GetData(txs, hs)  == IF (txs = {} /\ hs = <<>>) \/ Cardinality(txs) + Len(hs) > MaxKnown THEN <<>>
                     ELSE <<Message("getdata", hs, txs)>>

\* A ping with its callback, which the pong brings back: the queue is in PeerSync.
Ping(callback, p) == [Message("ping", <<>>, {}) EXCEPT !.call = <<callback, p>>]

\* What is sent to each peer; a closed socket takes nothing.
Nothing   == [p \in Peer |-> <<>>]
To(p, ms) == [Nothing EXCEPT ![p] = ms]
Send(ms)  == out' = [p \in Peer |-> IF ctx'[p].open THEN out[p] \o ms[p] ELSE out[p]]

Connected(p) == ctx[p].connected /\ ctx[p].open
Used(txs)    == Max(txs \cup {0})
Larger(m, n) == IF m > n THEN m ELSE n

Init ==
    /\ lastBlock = 0 /\ estimated = 0 /\ orphans = {} /\ lastOrphan = 0
    /\ filter = None /\ downloadPeer = None
    /\ generated = Gap /\ registered = {} /\ confirmed = {}
    /\ ctx = [p \in Peer |-> NoContext]
    /\ out = Nothing /\ in = Nothing
    /\ remote = [p \in Peer |-> NoRemote]
    /\ best = Best /\ failures = [p \in Peer |-> 0] /\ stray = FALSE
-----------------------------------------------------------------------------
(* The bloom filter.                                                       *)

\* The addresses after BRWalletUnusedAddrs with the spare ones.
Built == Larger(generated, Used(registered) + Gap + Spare)

\* BRPeerManagerLoadBloomFilter, for the peers in ps.
LoadFilter(ps) ==
    IF ps = {} THEN UNCHANGED <<filter, generated>>
    ELSE generated' = Built /\ filter' = Built
Cleared(ps, set) == IF ps = {} THEN set ELSE {}
Loaded(p, ps) == IF p \in ps THEN <<FilterLoad(Built)>> ELSE <<>>

\* _BRPeerManagerUpdateFilter: the messages that it sends, and the peers that it marks.
UpdateStarts == downloadPeer # None /\ ~ ctx[downloadPeer].update
UpdatePing(p) ==
    IF UpdateStarts /\ p = downloadPeer THEN <<Ping("updateFilterPingDone", p)>> ELSE <<>>
Marked(c) ==
    IF UpdateStarts THEN [c EXCEPT ![downloadPeer].update = TRUE] ELSE c
-----------------------------------------------------------------------------
(* Connections.                                                            *)

\* The sockets of the peers in ps are shut by another thread; a thread may still
\* handle the message that it has read.
Shut(ps, c) == [p \in Peer |-> IF p \in ps THEN [c[p] EXCEPT !.open = FALSE] ELSE c[p]]
Closing(ps) ==
    \E late \in SUBSET ps :
        in' = [p \in Peer |-> IF p \notin ps THEN in[p]
                              ELSE IF p \in late /\ in[p] # <<>> THEN <<Head(in[p])>> ELSE <<>>]

\* _peerConnected, for a peer that is not to be the download peer.
ConnectAlso(p) ==
    /\ LET ps == IF lastBlock >= best[p] THEN {p} ELSE {}
       IN  /\ LoadFilter(ps)
           /\ orphans' = Cleared(ps, orphans)
           /\ lastOrphan' = IF ps = {} THEN lastOrphan ELSE 0
           /\ ctx' = [ctx EXCEPT ![p] = [NewContext(best[p]) EXCEPT !.sentFilter = ps # {}]]
           /\ Send(To(p, Loaded(p, ps)))
    /\ UNCHANGED <<lastBlock, estimated, downloadPeer, in>>

\* _peerConnected: q becomes the download peer, the former one is disconnected.
ConnectDownload(p, q) ==
    /\ LET c == [ctx EXCEPT ![p] = NewContext(best[p])]
           behind == lastBlock < c[q].last
           others == IF behind THEN {} ELSE {x \in Peer : c[x].connected /\ c[x].open} \ {downloadPeer, q}
           former == {downloadPeer} \ {None}
           request == IF Time[lastBlock] >= Since THEN GetBlocks(lastBlock) ELSE GetHeaders(lastBlock)
       IN  /\ \A x \in Peer : c[x].connected /\ c[x].open => c[x].last <= c[q].last
           /\ downloadPeer' = q
           /\ estimated' = c[q].last
           /\ LoadFilter({q})
           /\ orphans' = {} /\ lastOrphan' = 0
           /\ ctx' = [x \in Peer |-> IF x \in others \cup {q} THEN [c[x] EXCEPT !.sentFilter = TRUE]
                                     ELSE Shut(former, c)[x]]
           /\ Send([x \in Peer |-> Loaded(x, others \cup {q}) \o
                                   IF x = q /\ behind THEN <<request>> ELSE <<>>])
           /\ Closing(former)
    /\ UNCHANGED lastBlock

\* A connection is made and its handshake is done.
Connect(p) ==
    /\ ~ ctx[p].connected
    /\ Cardinality({q \in Peer : ctx[q].connected}) < MaxConnectCount
    /\ IF downloadPeer # None /\ (ctx[downloadPeer].last >= best[p] \/ lastBlock >= best[p])
         THEN ConnectAlso(p)
         ELSE \E q \in Peer : (q = p \/ Connected(q)) /\ ConnectDownload(p, q)
    /\ UNCHANGED <<registered, confirmed, remote, best, failures, stray>>

\* p's thread ends: _peerDisconnected.
Gone(p) ==
    /\ ctx' = [ctx EXCEPT ![p] = NoContext]
    /\ out' = [out EXCEPT ![p] = <<>>]
    /\ in' = [in EXCEPT ![p] = <<>>]
    /\ remote' = [remote EXCEPT ![p] = NoRemote]
    /\ downloadPeer' = IF downloadPeer = p THEN None ELSE downloadPeer
    /\ UNCHANGED <<manager, filter, wallet, best, stray>>

\* The socket has been shut, and nothing is left to be handled.
Disconnected(p) ==
    /\ ctx[p].connected /\ ~ ctx[p].open
    /\ in[p] = <<>> /\ ctx[p].relay = <<>>
    /\ Gone(p)
    /\ UNCHANGED failures

\* The connection is lost.
Fail(p) ==
    /\ Connected(p) /\ ctx[p].relay = <<>>
    /\ failures[p] < MaxFailures[p] /\ failures' = [failures EXCEPT ![p] = @ + 1]
    /\ Gone(p)

\* Nothing comes in any more from the download peer before the chain is downloaded:
\* the time it was given last runs out.  The code has no timer left when the sync was
\* declared done by the mempool of another peer (BRPeerManager.c:218 from :559) or when
\* a transaction arrived with syncStartHeight 0 (:942): then the download may hang here.
Timeout(p) ==
    /\ p = downloadPeer /\ Connected(p)
    /\ lastBlock < estimated
    /\ out[p] = <<>> /\ in[p] = <<>> /\ ctx[p].relay = <<>>
    /\ Gone(p)
    /\ UNCHANGED failures

\* A handler has refused a message: the connection ends with EPROTO.
Refuse(p) ==
    /\ ctx' = [ctx EXCEPT ![p].open = FALSE]
    /\ in' = [in EXCEPT ![p] = <<>>]
    /\ UNCHANGED <<manager, filter, downloadPeer, wallet, out>>
-----------------------------------------------------------------------------
(* Messages from peer p, handled by its thread.                            *)

Received(p) == in' = [in EXCEPT ![p] = Tail(in[p])]

\* At most MaxKnown hashes are kept; the first third of n goes at a time.
Trimmed(hs) ==
    LET left[n \in 0..Len(hs)] == IF n <= MaxKnown THEN n ELSE left[n - n \div 3]
    IN  SubSeq(hs, Len(hs) - left[Len(hs)] + 1, Len(hs))

\* "non-standard inv": fewer hashes than the peer's height promises.
NonStandard(p, count) ==
    /\ p = downloadPeer /\ lastBlock > 0
    /\ 2 < count /\ count < Window
    /\ lastBlock + Len(ctx[p].known) + count < ctx[p].last

\* Blocks are not asked for with a filter that is about to be replaced.
Asked(p, hs) == IF ctx[p].update THEN <<>> ELSE hs

\* _BRPeerAcceptInvMessage
Inv(p, m) ==
    LET c      == ctx[p]
        single == m.blocks = <<c.newest>>
        hs     == IF ~ c.sentFilter \/ single THEN <<>> ELSE m.blocks
        asked  == Asked(p, hs)
        more   == IF Len(asked) >= Window THEN <<GetBlocks(asked[Len(asked)])>> ELSE <<>>
    IN  IF NonStandard(p, Len(m.blocks)) THEN Refuse(p)
        ELSE /\ ctx' = [ctx EXCEPT ![p].newest = IF Len(hs) = 1 THEN hs[1] ELSE c.newest,
                                   ![p].known = Trimmed(c.known \o hs),
                                   ![p].seen = c.seen \cup m.txs]
             /\ Send(To(p, GetData(m.txs \ c.seen, asked) \o more))
             /\ Received(p)
             /\ UNCHANGED <<manager, filter, downloadPeer, wallet>>

IsNew(h) == Time[h] + Drift >= Since

\* The last header that is too old, after which blocks are asked for.
Start(hs) == hs[Min({i \in 2..Len(hs) : IsNew(hs[i])} \cup {Len(hs) + 1}) - 1]

\* _BRPeerAcceptHeadersMessage: when the headers get near to the wallet's creation,
\* blocks are asked for from there on; the first header is never looked at.
Headers(p, m) ==
    LET hs     == m.blocks
        near   == hs # <<>> /\ IsNew(hs[Len(hs)])
        next   == IF near THEN GetBlocks(Start(hs)) ELSE GetHeaders(hs[Len(hs)])
    IN  IF ~ near /\ Len(hs) < HeaderWindow THEN Refuse(p)
        ELSE /\ ctx' = [ctx EXCEPT ![p].relay = [i \in DOMAIN hs |-> Block(hs[i], {}, None)]]
             /\ Send(To(p, <<next>>))
             /\ Received(p)
             /\ UNCHANGED <<manager, filter, downloadPeer, wallet>>

\* The transactions of a merkleblock that are still to come.
Awaited(p, txs) == txs \ ctx[p].seen

\* _BRPeerAcceptMerkleblockMessage; the second of m.blocks is the filter.
MerkleBlock(p, m) ==
    LET b       == Block(m.blocks[1], m.txs, m.blocks[2])
        missing == Awaited(p, m.txs)
    IN  /\ ctx' = [ctx EXCEPT ![p].missing = missing,
                              ![p].block = IF missing = {} THEN NoBlock ELSE b,
                              ![p].relay = IF missing = {} THEN <<b>> ELSE <<>>]
        /\ Received(p)
        /\ UNCHANGED <<manager, filter, downloadPeer, wallet, out>>

\* A mutant: the filter is compared with the addresses in use only.
IsOutgrownLate(txs) == filter # None /\ Used(txs) > filter

\* _peerRelayedTx: an address of the next <gap limit> unused ones is not in the filter.
IsOutgrown(txs) == filter # None /\ Used(txs) + Gap > filter

\* A mutant: the block stays after it was relayed.
CollectedKept(c, missing) ==
    IF c.block # NoBlock /\ missing = {} THEN [c EXCEPT !.missing = {}, !.relay = <<c.block>>]
    ELSE [c EXCEPT !.missing = missing]

\* A mutant: looks whether something is missing before the transaction is struck off.
CollectedBefore(c, missing) ==
    IF c.block # NoBlock /\ c.missing = {}
      THEN [c EXCEPT !.missing = {}, !.block = NoBlock, !.relay = <<c.block>>]
      ELSE [c EXCEPT !.missing = missing]

\* The block is relayed when the last of its transactions has come.
Collected(c, missing) ==
    IF c.block # NoBlock /\ missing = {}
      THEN [c EXCEPT !.missing = {}, !.block = NoBlock, !.relay = <<c.block>>]
      ELSE [c EXCEPT !.missing = missing]

\* _BRPeerAcceptTxMessage with _peerRelayedTx: the transaction is registered, and
\* completes the merkleblock if it was the last that is missing.
Tx(p, m) ==
    LET c        == ctx[p]
        txs      == registered \cup {t \in m.txs : t <= generated}
        outgrown == txs # registered /\ IsOutgrown(txs)
        missing  == c.missing \ m.txs
        collect  == [ctx EXCEPT ![p] = Collected(c, missing)]
    IN  /\ registered' = txs
        /\ generated' = Larger(generated, Used(txs) + Gap)
        /\ filter' = IF outgrown THEN None ELSE filter
        /\ ctx' = IF outgrown THEN Marked(collect) ELSE collect
        /\ Send([x \in Peer |-> IF outgrown THEN UpdatePing(x) ELSE <<>>])
        /\ Received(p)
        /\ UNCHANGED <<manager, downloadPeer, confirmed>>
-----------------------------------------------------------------------------
(* Pongs: the callbacks of the manager.                                    *)

\* _updateFilterPingDone: while the chain is downloaded only the download peer gets
\* the new filter.
UpdateFilterPingDone(p, m) ==
    LET syncing == lastBlock < estimated
        ps      == IF syncing THEN {downloadPeer} \ {None} ELSE {q \in Peer : Connected(q)}
        info(q) == IF syncing THEN m.call[2] ELSE q
    IN  /\ IF ps = {} THEN filter' = None /\ UNCHANGED generated ELSE LoadFilter(ps)
        /\ orphans' = Cleared(ps, orphans)
        /\ lastOrphan' = IF ps = {} THEN lastOrphan ELSE 0
        /\ ctx' = [q \in Peer |-> IF q \in ps THEN [ctx[q] EXCEPT !.sentFilter = TRUE] ELSE ctx[q]]
        /\ Send([q \in Peer |-> IF q \in ps
                                  THEN Loaded(q, ps) \o <<Ping("updateFilterLoadDone", info(q))>>
                                  ELSE <<>>])
        /\ Received(p)
        /\ UNCHANGED <<lastBlock, estimated, downloadPeer, registered, confirmed>>

\* BRPeerRerequestBlocks: the hashes from the last one that is h on.
From(hs, h) ==
    LET is == {i \in DOMAIN hs : hs[i] = h}
    IN  IF is = {} THEN <<>> ELSE SubSeq(hs, Max(is), Len(hs))

\* _updateFilterLoadDone: blocks are asked for again while the chain is downloaded.
\* (Without a download peer the process dies, see PeerSync.)
UpdateFilterLoadDone(p, m) ==
    LET peer  == m.call[2]
        again == From(ctx[downloadPeer].known, lastBlock)
    IN  /\ IF lastBlock < estimated
             THEN /\ downloadPeer # None
                  /\ ctx' = [ctx EXCEPT ![peer].update = FALSE,
                                        ![downloadPeer].known = IF again = <<>> THEN @ ELSE again]
                  /\ Send(To(downloadPeer, GetData({}, again) \o
                                           <<Ping("updateFilterRerequestDone", peer)>>))
             ELSE ctx' = [ctx EXCEPT ![peer].update = FALSE] /\ UNCHANGED out
        /\ Received(p)
        /\ UNCHANGED <<manager, filter, downloadPeer, wallet>>

\* _updateFilterRerequestDone
UpdateFilterRerequestDone(p, m) ==
    LET peer == m.call[2]
    IN  /\ UNCHANGED ctx
        /\ IF ctx[peer].update THEN UNCHANGED out ELSE Send(To(peer, <<GetBlocks(lastBlock)>>))
        /\ Received(p)
        /\ UNCHANGED <<manager, filter, downloadPeer, wallet>>

\* A message other than tx ends the collection of a merkleblock.
Receive(p) ==
    /\ ctx[p].connected /\ ctx[p].relay = <<>> /\ in[p] # <<>>
    /\ LET m == Head(in[p])
       IN  IF ctx[p].block # NoBlock /\ m.type # "tx" THEN Refuse(p)
           ELSE \/ m.type = "inv" /\ Inv(p, m)
                \/ m.type = "headers" /\ Headers(p, m)
                \/ m.type = "merkleblock" /\ MerkleBlock(p, m)
                \/ m.type = "tx" /\ Tx(p, m)
                \/ m.call # <<>> /\ \/ m.call[1] = "updateFilterPingDone" /\ UpdateFilterPingDone(p, m)
                                    \/ m.call[1] = "updateFilterLoadDone" /\ UpdateFilterLoadDone(p, m)
                                    \/ m.call[1] = "updateFilterRerequestDone" /\ UpdateFilterRerequestDone(p, m)
    /\ UNCHANGED <<remote, best, failures, stray>>
-----------------------------------------------------------------------------
(* _peerRelayedBlock, for the first of the blocks that p's thread relays.  *)

\* The rate of false positives may have become bad at this block.
MayBeWorn(p, b) == {FALSE} \cup {p = downloadPeer /\ ~ IsHeader(b) /\ b.height \in Worn}

\* The filter is rebuilt while the chain is far behind.
Rebuilt(p, worn) == worn /\ lastBlock + Far < ctx[p].last /\ ~ ctx[p].update
RebuildPing(p, worn) == IF Rebuilt(p, worn) THEN <<Ping("updateFilterPingDone", p)>> ELSE <<>>

\* The thread has relayed its block; next are the orphans that it goes on with.
Relayed(p, worn, next) ==
    [ctx EXCEPT ![p].relay = next \o Tail(@), ![p].update = @ \/ Rebuilt(p, worn)]

Ignored(b) ==
    \/ IsHeader(b) /\ Time[b.height] > Since + Drift
    \/ filter = None
    \/ b.height - 1 > lastBlock /\ b.height \notin Recent

\* A header that is too new, an orphan that is too old, or any block while the filter
\* is being replaced ("potentially incomplete").
Ignore(p, b, worn) ==
    /\ Ignored(b)
    /\ ctx' = Relayed(p, worn, <<>>)
    /\ Send(To(p, RebuildPing(p, worn)))
    /\ UNCHANGED <<manager, filter, wallet, stray>>

\* The blocks before an orphan are asked for, unless that was done for the one before
\* it or the chain is being downloaded.
KeepOrphan(p, b, worn) ==
    /\ ~ Ignored(b) /\ b.height - 1 > lastBlock
    /\ orphans' = {o \in orphans : o.height # b.height} \cup {b}
    /\ lastOrphan' = b.height
    /\ ctx' = Relayed(p, worn, <<>>)
    /\ LET asks == lastBlock >= ctx[p].last /\ lastOrphan \notin {b.height - 1}
       IN  Send(To(p, RebuildPing(p, worn) \o IF asks THEN <<GetBlocks(lastBlock)>> ELSE <<>>))
    /\ UNCHANGED <<lastBlock, estimated, filter, wallet, stray>>

OrphanAfter(h, set) ==
    LET is == {o \in set : o.height = h + 1}
    IN  IF is = {} THEN <<>> ELSE <<CHOOSE o \in is : TRUE>>

Confirm(b) == confirmed' = confirmed \cup (b.txs \cap registered)

\* The block extends the chain; when the chain is complete, the other peers, and the
\* download peer if its filter is bad, get filters (_BRPeerManagerLoadMempools).
Extend(p, b, worn) ==
    /\ ~ Ignored(b) /\ b.height = lastBlock + 1
    /\ lastBlock' = b.height
    /\ estimated' = Larger(estimated, b.height)
    /\ Confirm(b)
    /\ stray' = (stray \/ b.filter \notin {None, filter})
    /\ LET ps   == IF b.height # estimated THEN {}
                   ELSE {q \in Peer : Connected(q) /\ (q = downloadPeer => worn)}
           left == Cleared(ps, orphans)
           c    == Relayed(p, worn, OrphanAfter(b.height, left))
       IN  /\ LoadFilter(ps)
           /\ orphans' = {o \in left : o.height # b.height + 1}
           /\ lastOrphan' = IF ps = {} THEN lastOrphan ELSE 0
           /\ ctx' = [q \in Peer |-> IF q \in ps THEN [c[q] EXCEPT !.sentFilter = TRUE] ELSE c[q]]
           /\ Send([q \in Peer |-> (IF q = p THEN RebuildPing(p, worn) ELSE <<>>) \o Loaded(q, ps)])
    /\ UNCHANGED registered

\* The block is in the chain already: its transactions get their height.
Repeat(p, b, worn) ==
    /\ ~ Ignored(b) /\ b.height <= lastBlock
    /\ Confirm(b)
    /\ estimated' = Larger(estimated, b.height)
    /\ orphans' = {o \in orphans : o.height # b.height + 1}
    /\ ctx' = Relayed(p, worn, OrphanAfter(b.height, orphans))
    /\ Send(To(p, RebuildPing(p, worn)))
    /\ UNCHANGED <<lastBlock, lastOrphan, filter, generated, registered, stray>>

RelayBlock(p) ==
    /\ ctx[p].connected /\ ctx[p].relay # <<>>
    /\ LET b == Head(ctx[p].relay)
       IN  \E worn \in MayBeWorn(p, b) :
               Ignore(p, b, worn) \/ KeepOrphan(p, b, worn) \/ Extend(p, b, worn) \/ Repeat(p, b, worn)
    /\ UNCHANGED <<downloadPeer, in, remote, best, failures>>
-----------------------------------------------------------------------------
(* The remote peers.                                                       *)

BlockOf(t) == CHOOSE h \in Blocks : \E i \in DOMAIN Pays[h] : Pays[h][i] = t
Line(h, n) == [i \in 1..n |-> h + i]
Reply(type, blocks, txs) == Message(type, blocks, txs)

\* A block: what the filter f matches of it, transaction after transaction.
Matched(h, f) == {t \in Range(Pays[h]) : t <= f}
Payments(h, f) ==
    FlattenSeq([i \in DOMAIN Pays[h] |->
        IF Pays[h][i] <= f THEN <<Reply("tx", <<>>, {Pays[h][i]})>> ELSE <<>>])
Filtered(p, h) ==
    LET f == remote[p].filter
    IN  <<Reply("merkleblock", <<h, f>>, Matched(h, f))>> \o Payments(h, f)
            \o IF h = remote[p].continue THEN <<Reply("inv", <<best[p]>>, {})>> ELSE <<>>

\* The transaction of a getdata, if p still has it: p announces one at a time.
Relays(p, txs) == {t \in txs : best[p] < BlockOf(t) \/ ~ Forgets}

Replies(p, m) ==
    LET n(window) == Min({window, best[p] - m.blocks[1]})
    IN  CASE m.type = "getblocks" ->
                IF n(Window) > 0 THEN <<Reply("inv", Line(m.blocks[1], n(Window)), {})>> ELSE <<>>
          [] m.type = "getheaders" ->
                <<Reply("headers", Line(m.blocks[1], Larger(0, n(HeaderWindow))), {})>>
          [] m.type = "getdata" ->
                (IF Relays(p, m.txs) = {} THEN <<>> ELSE <<Reply("tx", <<>>, Relays(p, m.txs))>>)
                    \o FlattenSeq([i \in DOMAIN m.blocks |-> Filtered(p, m.blocks[i])])
          [] m.type = "ping" -> <<[m EXCEPT !.type = "pong"]>>
          [] OTHER -> <<>>

\* p answers the first message that has reached it.
Answer(p) ==
    /\ Connected(p) /\ out[p] # <<>>
    /\ LET m == Head(out[p])
           full == m.type = "getblocks" /\ best[p] - m.blocks[1] >= Window
       IN  /\ in' = [in EXCEPT ![p] = @ \o Replies(p, m)]
           /\ remote' = [remote EXCEPT
                ![p].filter = IF m.type = "filterload" THEN m.blocks[1] ELSE @,
                ![p].continue = CASE full -> m.blocks[1] + Window
                                  [] m.type = "getdata" /\ @ \in Range(m.blocks) -> 0
                                  [] OTHER -> @]
    /\ out' = [out EXCEPT ![p] = Tail(@)]
    /\ UNCHANGED <<manager, filter, downloadPeer, wallet, ctx, best, failures, stray>>

Says(p, m) == in' = [in EXCEPT ![p] = IF Connected(p) THEN Append(@, m) ELSE @]

\* p's chain grows, and p announces its new tip.
Grow(p) ==
    /\ best[p] < Top
    /\ best' = [best EXCEPT ![p] = @ + 1]
    /\ Says(p, Reply("inv", <<best[p] + 1>>, {}))
    /\ UNCHANGED <<manager, filter, downloadPeer, wallet, ctx, out, remote, failures, stray>>

\* p announces a transaction that its filter matches.
Announce(p) ==
    /\ Connected(p)
    /\ \E t \in Floating \ remote[p].told :
        /\ t <= remote[p].filter /\ best[p] < BlockOf(t)
        /\ remote' = [remote EXCEPT ![p].told = @ \cup {t}]
        /\ Says(p, Reply("inv", <<>>, {t}))
    /\ UNCHANGED <<manager, filter, downloadPeer, wallet, ctx, out, best, failures, stray>>
-----------------------------------------------------------------------------
Next ==
    \E p \in Peer :
        \/ Connect(p) \/ Disconnected(p) \/ Fail(p) \/ Timeout(p)
        \/ Receive(p) \/ RelayBlock(p)
        \/ Answer(p) \/ Grow(p) \/ Announce(p)

Spec == Init /\ [][Next]_vars

\* Threads and peers go on, connections are made again, and times run out: the downloads
\* in which nobody cancels the timer (see Timeout) and in which the manager does not give
\* up after MAX_CONNECT_FAILURES.
Progress ==
    \E p \in Peer :
        Connect(p) \/ Disconnected(p) \/ Timeout(p) \/ Receive(p) \/ RelayBlock(p) \/ Answer(p)
Fairness == WF_vars(Progress)
-----------------------------------------------------------------------------
BlockType == [height : 0..Top, txs : SUBSET Txs, filter : Nat \cup {None}]

TypeOK ==
    /\ lastBlock \in 0..Top /\ estimated \in 0..Top
    /\ filter \in Nat \cup {None} /\ generated \in Nat
    /\ orphans \subseteq BlockType /\ lastOrphan \in 0..Top
    /\ downloadPeer \in Peer \cup {None}
    /\ registered \subseteq Txs /\ confirmed \subseteq registered
    /\ \A p \in Peer :
        /\ ctx[p].relay \in Seq(BlockType) /\ ctx[p].block \in BlockType
        /\ ctx[p].missing \subseteq ctx[p].block.txs
        /\ ctx[p].missing = {} => ctx[p].block = NoBlock

\* Every payment to the wallet in a block of the chain is registered and has its height.
AllRegistered ==
    \A h \in 1..lastBlock : \A i \in DOMAIN Pays[h] : Pays[h][i] \in registered \cap confirmed

\* No payment is missed, however the filter was replaced in between, as long as the
\* blocks that extend the chain were matched with the filter that bloomFilter is: the
\* manager looks only whether there is one (BRPeerManager.c:1192), see DownloadClaims.
NoTxMissed == ~ stray => AllRegistered

\* A download that started ends at the height that the download peer had, whatever
\* was dropped and asked for again, as long as its timer is not cancelled and the
\* manager goes on connecting (Progress).
DownloadEnds == <>[](lastBlock >= estimated)
=============================================================================
