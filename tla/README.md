# A verification development for the Yenten Android wallet

The application is an SPV (simplified payment verification) wallet: an Android
program in Java around *breadwallet-core*, a C library that keeps the wallet's
transactions, talks to peers of the Bitcoin-like network, follows the chain of
block headers and asks peers for the transactions a bloom filter matches. The
logic that is hard to get right is in the C library; that is what this
development is about. Paths below are relative to
`src/app/src/main/jni/breadwallet-core/` unless they start with `src/`.

- [1. Inventory](#1-inventory)
- [2. The plan](#2-the-plan)
- [3. What is modelled](#3-what-is-modelled)
- [4. What the runs check](#4-what-the-runs-check)
- [5. What is proved](#5-what-is-proved)
- [6. What the code does not keep](#6-what-the-code-does-not-keep)
- [7. What is not modelled](#7-what-is-not-modelled)

## 1. Inventory

### Threads, locks and how the parts meet

```
 UI / Java ──► BRWallet  (wallet->lock)          one lock per wallet
     ▲            ▲
     │ callbacks  │ register / update / remove / unconfirm
     │            │
 BRPeerManager (manager->lock) ◄── callbacks ── BRPeer (one thread per peer)
     │ saveBlocks / savePeers / syncStarted / syncStopped / txStatusUpdate
     ▼
 Java managers ──► SQLite rows ──► BRWalletNew at the next start
```

One thread runs for each connected peer; it calls back into the peer manager,
which takes its own lock and calls the wallet while holding it. The UI thread
calls the wallet directly and the manager's Connect, Disconnect, Rescan and
PublishTx. The wallet's callbacks (`balanceChanged`, `txAdded`, `txUpdated`,
`txDeleted`) are made after its lock is released and end in an executor that
writes the rows of the store.

### Components

**Wallet transaction book** (`BRWallet.c`). State: `allTx` (every transaction
object, with those of other people that are kept while unconfirmed),
`transactions` (the wallet's own, sorted by height), the address chains, and
what is derived from the book by `_BRWalletUpdateBalance`: `utxos`,
`spentOutputs`, `invalidTx`, `pendingTx`, `usedAddrs`, `balance`, `totalSent`,
`totalReceived`, `balanceHist`. Operations: New, UnusedAddrs,
RegisterTransaction, UpdateTransactions, SetTxUnconfirmedAfter,
RemoveTransaction, and queries. Hard: every order of arrival, confirmation,
reorganisation and removal of transactions that conflict with or depend on each
other; a recursive removal that releases the lock between its calls; a store
read back in another order after a restart. Correct when: the book is sorted
and without duplicates; of two spends of one output at most one counts; what is
offered for spending belongs to a valid transaction and to the wallet; the
unsigned balance is the sum of the unspent outputs and never wraps; a
reorganisation leaves nothing confirmed above it; a removal takes dependents
first.

**Coin selection** (`BRWalletCreateTxForOutputs`, `BRWallet.c:565-660`). Pure on
a snapshot of the wallet; correct when inputs = outputs + fee + change, the fee
covers the size, and no output is taken twice. Creating, signing and registering
are three separate critical sections.

**Chain of blocks** (`BRPeerManager.c:1140-1363` and around). State: `blocks`,
`orphans`, `checkpoints`, `lastBlock`, `lastOrphan`. Operations: a relayed
merkleblock extends the chain, is an orphan, joins a fork, or makes a fork the
longest chain (then the wallet's transactions above the join point are
unconfirmed and confirmed again from the tip down); rescan; restart from saved
headers. Hard: freed blocks that `lastBlock`, `lastOrphan` or the orphan set
still name; forks longer than what is kept in memory; the next orphan that is
handled after the lock was released. Correct when: `lastBlock` is in `blocks`
and has the greatest height seen; heights along `prevBlock` decrease by one; the
heights in the wallet are those of blocks of the main chain.

**Connections and sync** (`BRPeerManager.c:545-885, 1582-1714`). State:
`connectedPeers`, `downloadPeer`, `isConnected`, `connectFailureCount`,
`misbehavinCount`, `syncStartHeight`, `dnsThreadCount`. Operations: Connect,
`_peerConnected`, `_peerDisconnected`, the chained ping and mempool callbacks,
Disconnect, Rescan. Hard: the lock is released around callbacks in the middle
of Connect and FindPeers; Disconnect waits for threads it has asked to stop;
retries. Correct when: the download peer is connected; every `syncStarted` is
followed by one `syncStopped`; Disconnect ends.

**Publishing and relays** (`BRPeerManager.c:450-543, 917-1085, 1404-1433,
1821-1876`). State: `publishedTx` with callbacks, `publishedTxHashes`,
`txRelays`, `txRequests`. Hard: a publish timeout that races a late relay; a
transaction nobody relays is removed only when all peers were asked. Correct
when: each publish callback is called exactly once; a transaction that a
connected peer relayed is not removed.

**Peer protocol** (`BRPeer.c`). State: handshake flags, FIFO of pong callbacks,
mempool callback and deadline, the block hashes that were announced, the
merkleblock being collected. Hard: pongs are matched by order alone; the filter
is outgrown in the middle of the stream of blocks, which are then thrown away
and requested again; a peer is replaced while its thread works off a message.
Correct when: each callback is called once, no payment in a block of the chain
is missed, and the download ends.

**Transaction store** (`BtcBchTransactionDataStore.java`,
`WalletBitcoinManager.java`). Rows written by an executor from the wallet's
callbacks; `createWalletRetry` deletes all rows when BRWalletNew refuses them.
Hard: crash between a callback and its row; rows older than the saved blocks.

**Replicated key-value store** (`ReplicatedKVStore.java`,
`RemoteKVStore.java`). Versions of each key, local and remote; last write wins.
Hard: writes during a sync, conflicts, errors mapped to "unknown". Correct when:
no local write is lost without a newer one, and a sync leaves both sides equal.

**Ethereum light node** (`ethereum/`). State: all transactions of the node, the
sorted list of each wallet, the nonce of the account. Operations: create, sign,
submit, and the announcements of a JSON-RPC service that is polled. Hard:
answers arrive late and in any order, on several threads; a transaction has no
hash until its submission is answered; sorting in place. Correct when: no
transaction is held twice, lists are in order, what is in a block is shown.

**The rest**: Bloom filter and BRSet (data structures); keys, addresses,
encodings, serialisation (byte strings); JNI glue; Java managers; PIN and key
store; platform API. `PROJECT.json` lists each with its files and status.

The hazards of all of these, each at its line, are listed under `hazards` in
`PROJECT.json`, with the properties that are about them; where none is, the note
says whether a formula of a `…Claims` module states it and is refuted.

## 2. The plan

Modules, in order of importance; all of them are written:

1. **Wallet**, its abstract specification **TxBook**, and its proofs.
2. **PeerChain**, which refines **HeaderTree**.
3. **PeerSync**, **Publish**, **Download**: the peer manager and the peers seen
   from three sides, connections, transactions and blocks. They are not composed
   into one module: each keeps, as nondeterministic choices, what the others
   model (a connection may fail at any time in Publish and Download; a block may
   ask for a new filter at any time in PeerSync).
4. **KVStore**, **CoinSelection**, **LightNode**.

Proofs, in the order of the modules: Wallet and its refinement, PeerChain,
PeerSync, Publish, KVStore, CoinSelection, LightNode, Download (section 5).

Left for later: WalletStore (the executor that writes the wallet's callbacks to
rows, a crash in between, and the restart, composed with TxBook); the parsing of
messages byte by byte.

## 3. What is modelled

### Wallet.tla

| Wallet | BRWallet.c |
|---|---|
| `allTx`, `transactions`, `height`, `time`, `blockHeight` | the sets and arrays of `struct BRWalletStruct` (36-50); `height` and `time` are the fields of the transaction objects |
| `chain[c]` | `array_count(externalChain / internalChain)`; address `<<c, k>>` is the k-th key of that chain |
| `utxos`, `spentOutputs`, `invalidTx`, `pendingTx`, `usedAddrs`, `balance`, `totalSent`, `totalReceived`, `balanceHist` | the fields that `_BRWalletUpdateBalance` derives |
| `scan`, `prevBalance` | the locals `i` and `prevBalance` of the scan, and the index of the search for dependents |
| `pc`, `call`, `removing` | where the call in progress is, its arguments and locals, and the C stack of nested removals |
| `reported`, `callbacks` | the balance last given to `balanceChanged`; the callbacks of the last step |
| `InsertPos`, `InsertTx`, `After`, `TxIsAscending`, `LaterOnChain` | `_BRWalletInsertTx`, `_BRWalletTxCompare`, `_BRWalletTxIsAscending`, `_txChainIndex` (60-119) |
| `ScanInvalid`, `ScanPending`, `ScanCounted`, `ScanDone` | one iteration of the loop of `_BRWalletUpdateBalance` (168-240), by its outcome, and its end |
| `LoadRow` … `LoadFailed` | `BRWalletNew` (271-292) and, for `LoadFailed`, `createWalletRetry` |
| `RegisterTransaction`, `RegisterForeign`, `ReplaceExternal`, `ReplaceInternal`, `RegisterDone` | `BRWalletRegisterTransaction` (716-758) |
| `UpdateTransactions`, `UpdateNothing`, `UpdateOwn`, `UpdateForeign`, `UpdateBalance`, `UpdateKeepBalance`, `UpdateDone` | `BRWalletUpdateTransactions` (932-973) |
| `SetTxUnconfirmedAfter` | `BRWalletSetTxUnconfirmedAfter` (975-997) |
| `RemoveTransaction`, `RemoveBegin`, `CollectDependent`, `RemoveDependents`, `RemoveTop`, `RemoveDone` | `BRWalletRemoveTransaction` (760-825), recursion included |
| `UiUnusedAddrs` | `BRWalletUnusedAddrs` called by the UI thread whenever the wallet's lock is free |

*Granularity.* One iteration of a loop is one step. The functions that change
the book are called with the manager's lock held, so one of them is in progress
at a time; the wallet's lock is released between their critical sections, and
there the UI thread can extend a chain of addresses and the clock can advance.

*Insertion* is stated by what the insertion sort does: `InsertPos(…, p)` says
that the sort, moving from the end while the element compares greater, stops at
p. The comparison is not a total order, so this is not "sort by key"; the
recursion over parents (`AscendingOver`) is a recursive function, so that the
module can be proved about.

*The arithmetic.* Amounts appear only through `Value`, a function from sets of
outputs to sums with `ValueAssumption` (sums of disjoint sets add up). Balances
are integers in the model and `uint64_t` in the code; `BalanceIsUtxoValue`,
with the type of `Value`, says the balance is never negative, so the code's
subtraction never wraps.

*The environment.* Three assumptions about the callers are guards of the model:

- `RegisterTransaction` is given unconfirmed transactions (both callers,
  `_peerRelayedTx` and `PublishTx`, give them so).
- `BlockCanHold` (a rule of the network, external): a block that confirms a set of transactions holds no two that
  spend one output, none that conflicts with a confirmed one, and none below
  the block of a confirmed transaction it spends from. That is what the chain
  rules give; a *parent* may be unconfirmed, because after a reorganisation
  heights are given from the tip down (`BRPeerManager.c:1306-1321`).
- `RemoveTransaction` takes any transaction of `allTx` that is unconfirmed: its
  caller walks a list it read before (`BRPeerManager.c:473-497`), of which
  earlier removals may have taken members out of the book.

The values of `Rows` are what a store may hold when the process starts.

### TxBook.tla

The book as a function from registered transactions to heights, changed by
Load, Open, Drop (before it is open), Add, Confirm, Reorg and Remove, each
atomic. `Wallet!IsTxBook` maps the arrays of Wallet to it. It says that a call
of many steps, and a removal with nested calls between which the lock is
released, look like single operations; that a registration is always
unconfirmed; that confirmations are undone only by a reorganisation, which takes
out exactly what is above its height; and that a transaction is removed only
when nothing unconfirmed spends from it.

### PeerChain.tla and HeaderTree.tla

| PeerChain | BRPeerManager.c |
|---|---|
| `blocks`, `orphans`, `lastBlock`, `estimatedHeight` | the fields of the manager; a block is a model value with `Prev`, `Height`, `Txs`, and is held or not |
| `filter` | whether `bloomFilter` is not NULL |
| `heights` | the heights that `BRWalletUpdateTransactions` and `BRWalletSetTxUnconfirmedAfter` have given to the wallet's transactions |
| `thread[p]` | what the thread of p still has to do after it released the lock: `saveBlocks`, and the orphan it goes on with |
| `saved` | the rows of `MerkleBlockDataSource` |
| `HandleBlock` with `Orphaned`, `Invalid`, `ExtendsMain`, `AlreadyHeld`, `MinedDuringRescan`, `OldFork`, `ShorterFork`, `LongerFork` | `_peerRelayedBlock` (1140-1363), one disjunct per outcome |
| `DifficultyOK`, `Pruned` | `_BRPeerManagerVerifyBlock` (1087-1138) |
| `SaveBlocks` | the callback, `WalletBitcoinManager.saveBlocks` and `putMerkleBlocks` |
| `FreeFilter`, `LoadBloomFilter`, `SelectDownloadPeer` | the places that replace or drop the filter and with it the orphans |
| `Rescan`, `Restart`, `NewManager` | `BRPeerManagerRescan`, `BRPeerManagerNew` from the saved rows |

A step is a region under the manager's lock. `lastOrphan` is a field of
Download; here it would only be a stale pointer that is compared.

**HeaderTree** is the promise: a tip that only moves to a valid header, up along
the tree or to a strictly higher branch, and anywhere when the program resumes
(restart or rescan). `PeerChain!IsHeaderTree` maps `lastBlock` to the tip.

### PeerSync.tla

| PeerSync | code |
|---|---|
| `peer[p].th`, `.shut`, `.error`, `.timer` | the thread of p (`_peerThreadRoutine`), its socket, error and disconnect time |
| `peer[p].pongs`, `.mempool`, `.needsUpdate` | the queue of pong callbacks with their peer, the mempool request, `PEER_FLAG_NEEDSUPDATE` |
| `downloadPeer`, `failures`, `syncing`, `height`, `estimated`, `filter`, `peers` | `downloadPeer` (`isConnected` is that it is not None), `connectFailureCount`, `syncStartHeight > 0`, heights, `bloomFilter != NULL`, `peers` |
| `calls`, `ConnectEnter`, `ConnectBegun`, `ConnectFound` | calls of BRPeerManagerConnect, split where the lock is released: before `syncStarted`, before the DNS lookup |
| `PeerConnected`, `Close`, `Drain`, `Disconnected` | `_peerConnected`; the end of the thread, its callbacks told of failure, `_peerDisconnected` |
| `Pong` with `FilterPingDone`, `FilterLoadDone`, `RerequestDone`, `BloomDone`, `MempoolDone` | the callbacks of 369-447 and 545-594 |
| `Block`, `RelayedTx` | what `_peerRelayedBlock` and `_peerRelayedTx` change here |
| `waiting`, Disconnect, Rescan, network up and down | the calls of the application |

### Publish.tla

`pending` (callbacks of `publishedTx`), `published`, `relays`, `requests`,
`registered`, `confirmed`, `verified`, `known`, `freed`, with the timers and pong
queues of peers; actions for `BRPeerManagerPublishTx` and its inv, `_peerRelayedTx`,
`_peerHasTx`, `_peerRejectedTx`, `_peerRequestedTx`, `_peerDataNotfound`,
`_requestUnrelayedTxGetdataDone`, `_mempoolDone`, the confirmation and unconfirmation of transactions, the
publish timeout and the end of a connection. `told` counts the calls of each
callback.

### Download.tla

| Download | code |
|---|---|
| `ctx[p]` | `BRPeerContext`: `knownBlockHashes`, `lastBlockHash`, `currentBlock` and its missing transactions, `knownTxHashSet`, `sentFilter`, `needsFilterUpdate` |
| `in[p]`, `out[p]` | the messages of a connection, answered in order; a ping carries its callback |
| `Receive` with `Inv`, `Headers`, `MerkleBlock`, `Tx` and the three pong callbacks | `_BRPeerAcceptMessage` and its handlers; `_peerRelayedTx`; 369-447 of the manager |
| `RelayBlock` with `Ignore`, `KeepOrphan`, `Extend`, `Repeat` | `_peerRelayedBlock` on a chain without forks |
| `Connect`, `Disconnected`, `Fail`, `Timeout` | `_peerConnected`, `_peerDisconnected`, the errors of the thread |
| `generated`, `filter` | the addresses of the wallet and the last one that the filter matches |
| `Answer`, `Grow`, `Announce` | the remote peer (external): what a full node answers, per protocol |

`stray` is a variable of the model only: it records that the chain was extended
by a block that its peer had matched with another filter than `bloomFilter`. For
this a block carries its filter, of which the code knows nothing.

### KVStore.tla

The table of each device (the row of the highest version, its `remote` version,
`deleted` flag and time), the server with every accepted entry, `syncRunning`,
and per thread the place in `syncAllKeys` or `_syncKey`. `set`, `delete`, `get`
of a row that does not decrypt, `syncKey`, `syncAllKeys`, every answer of the
server, lost answers and restarts are actions; each request to the server is a
step of its own, as no lock is held over it. `deleteAllKVs`
(`ReplicatedKVStore.java:318`), which empties the table so that version numbers
start from 1 again, is not an action: only the tests of the repository call it
(`KVStoreTests.java`). What is checked and proved of the store is about tables that
are never emptied: after that a version number would no longer tell which row is
meant.

### CoinSelection.tla

`BRWalletCreateTxForOutputs` on a changing UTXO set by several threads: the loop
over the outputs (`Enough`, `Transaction`), the fee by size (`Due`), the smallest output,
the recursion to a smaller request (`Smaller`, a stack of calls, with the lock
released in between) and the test after it. Inputs that a registered transaction
spends leave the set in its order (`Without`).

### LightNode.tla

The transactions of the node, the sorted list of each wallet, the nonce, the
submissions and the polled answers of a JSON-RPC service (external, with a chain
of blocks that may exchange its last two transactions); creating, signing (three
steps without a lock), submitting, announcements by nonce or hash. The identifier
of a transaction is its position in `txs`, as it is in the node's array; `pc` and
`held` are parallel to it and say how far the thread that sends it has come.
Transactions of others have a hash from `ForeignHash`, those the node submits have
their identifier for a hash.

### Claims and instances

`WalletClaims`, `SyncClaims`, `PublishClaims`, `DownloadClaims`, `CoinClaims`,
`KVClaims` and `LightClaims` hold sentences of comments, headers or assertions,
as formulas, that some behaviour of the code breaks (section 6). Each `MC…`
module is the instance of one component for TLC; MCWallet has several.

## 4. What the runs check

| run | instance | properties | states |
|---|---|---|---|
| `wallet_spend` | a payment `a`, its spend `b` with change, a double spend `c` that pays the wallet; two heights, two timestamps | `TypeOK`, `BookIsSorted`, `NoDoubleSpend`, `UtxosAreSpendable`, `BalanceIsUtxoValue`, `ReorgIsComplete`, `IsTxBook` | 606 000 |
| `wallet_family` | a transaction with two levels of dependents, of which the last depends on both; one locked until a height, one replace-by-fee, one locked until a time that passes; a store that is refused, an address chain that grows | `BookIsHeld`, `UtxosAreSpendable`, `CallsReturn` | 558 000 |
| `peer_chain` | eight headers, two branches with a bad header on one, intervals of two blocks, two checkpoints; two peers; one rescan or restart | `TypeOK`, `TipIsVerifiable`, `TipIsHighest`, `NoOrphanExtendsTip`, `HeightsAreMainChain`, `IsHeaderTree`, `CatchesUp` | 93 000 |
| `peer_sync` | two peers, one a block ahead; one connect call at a time, one failure, two events from outside | `TypeOK`, `DownloadPeerServes`, `UpdateIsUnderWay`, `SyncIsServed`, `UpdateEnds` | 814 000 |
| `publish` | two peers, three transactions: stored, to be sent, of others; five events | `TypeOK`, `CallbackOnce`, `RelaysAreConnected`, `TimeoutKept` | 1 389 000 |
| `download` | five blocks, payments in three of them, gap limit 2; peers of heights 5 and 4, one connection fails | `TypeOK`, `NoTxMissed`, `DownloadEnds` | 421 000 |
| `kv_store` | two devices with clocks that differ, one key, two values, three syncing threads, two syncs | `TypeOK`, `RecordedIsRemote`, `RunningIsASync`, `KeepsNewer` | 1 001 000 |
| `coin_selection` | two senders, four coins, five requests, two fees | `TypeOK`, `DraftIsBalanced`, `DueFalls` | 1 390 000 |
| `light_node` | two transactions of the user, two of the past, one of another device; one exchange of blocks | `TypeOK`, `BlockedAreInOrder`, `HashesDiffer`, `ShownAtLast` | 465 000 |
| `claim_rescan`, `claim_smaller`, `claim_filter` | the instances of `peer_chain`, `coin_selection`, `download` | one claim each, violated | – |

Each passing run takes one to three minutes with two workers.

The properties, and the hazard each is about:

- `BookIsSorted`: the scans from the end of the book in SetTxUnconfirmedAfter
  and RemoveTransaction stop at the first older transaction. The sort uses a
  comparison that is not transitive (dependency and address position break ties
  among equal heights), and UpdateTransactions re-inserts one element at a time
  while others still have old heights.
- `NoDoubleSpend`, `UtxosAreSpendable`, `BalanceIsUtxoValue`: the scan is one
  pass over an order that may list a child before its parent.
- `ReorgIsComplete`: what SetTxUnconfirmedAfter needs the order for.
- `BookIsHeld`: the book holds no freed transaction.
- `IsTxBook`: refinement, as above.
- `CallsReturn`: the recursion of BRWalletRemoveTransaction, which takes a new
  snapshot of dependents at each level after releasing the lock, ends.
- `TipIsVerifiable`: pruning, a reorganisation, the rows that are saved and a
  restart from them leave what the next difficulty transition needs: the walk
  along `prevBlock` from the last block meets a transition before it falls off
  the end.
- `TipIsHighest`, `NoOrphanExtendsTip`: no longer branch is held without being
  the main chain, although orphans are handled after the lock was released.
- `HeightsAreMainChain`: after forks and reorganisations the wallet has the
  heights of the main chain.
- `CatchesUp`: with filters dropped, orphans cleared and restarts, a sync ends at
  the height that the peers reported and the manager believes in. It does not say
  more: in the instance d5 lies above the reported height 4, and if d5 is freed
  while the filter is replaced at the tip, the code does not ask for it again
  (`StaysAtTip`, section 6).
- `DownloadPeerServes`: the download peer is a connection that is alive or being
  closed, and it has a filter or an update that brings one. `UpdateIsUnderWay`
  and `UpdateEnds`: a peer marked for a filter update has a callback on its way
  and loses the mark, or no later update would start. `SyncIsServed`: a sync
  that started has a peer, a thread or a call that goes on with it.
- `CallbackOnce`, `RelaysAreConnected`, `TimeoutKept`: a relay, a request, a
  rejection, a timeout and the end of a connection race each other for the
  callback and the timer.
- `NoTxMissed`: the filter is outgrown while blocks it matched are on their way;
  whatever is thrown away and asked for again, every payment in a block of the
  chain is registered with its height, until the chain is extended by a block that
  another filter than `bloomFilter` had matched (`claim_filter`). So the check for
  NULL is enough as long as the only filter is the one that the peer has. `DownloadEnds`: all of
  this ends, as long as the timer of the download is not cancelled (see *Fairness*).
- `RecordedIsRemote`, `RunningIsASync`, `KeepsNewer`: a sync asks the server
  without a lock, while the table, the server and other syncs go on.
- `DraftIsBalanced`, `DueFalls`: inputs, outputs, fee and change agree, through
  the recursion, which asks for less each time.
- `HashesDiffer`: an announcement can come before the answer that tells the hash
  of the submission. `BlockedAreInOrder`: the list is sorted by an insertion that
  looks at neighbours, and its keys change in place. `ShownAtLast`: a late answer
  takes a transaction out of its block, the next poll puts it back.

*Bounds and why they are enough.* Wallet: three transactions are enough for each
relation the code distinguishes (parent and child, conflict, two paths from one
ancestor, a child of a conflicting or pending transaction); two block heights
distinguish "same block", "earlier", "later", unconfirmed is a third value;
`MaxIndex = 2` gives each chain one address inside the gap limit and one beyond
it; timestamps matter only to "already up to date". PeerChain: intervals of two
blocks put a transition on the fork, on each side of it and beyond, and five
heights let a branch win after another has been the main chain. PeerSync,
Publish: with two peers there is a download peer and another, and each can
become the other; `MaxPongs = 0` allows a peer further requests only when its
pongs are answered, while the callbacks chain through three pings. Download:
window, gap limit and spare addresses are small, so that every payment may
outgrow the filter; `Spare >= Gap`, as in the code (100 and 10), which keeps a
filter that is just being loaded from being outgrown by the next payment.
KVStore: two versions on either side suffice for older, equal and newer.
CoinSelection: sizes leave room for two inputs with one output or one input with
two, so each way out of the recursion is taken.

*Bounds that cut behaviours* are constants of the modules: `MaxEvents`,
`MaxPongs`, `MaxCalls`, `MaxHeight`, `MaxResumes`, `MaxQueue`, `MaxFailures`,
`MaxTime`, `MaxVersion`, `MaxRemote`, `MaxSyncs`, `MaxSends`, `MaxReorgs`, each a
guard of the actions it bounds.

*Deadlock* is not checked: in each of these systems everybody may have nothing
left to do, and the bounds of the environment are used up at some time.

*Fairness.*

- Wallet: weak fairness of the steps of the call in progress. A thread inside
  the wallet holds no other lock it could wait for except the manager's, which
  it already has, and the wallet's lock is held for finite time by others.
  Nothing is assumed about calls being made.
- PeerChain: weak fairness of threads that finish what they hold (`Background`)
  and of connections, strong fairness of the relay of the next block of the longest
  chain while `lastBlock` is below `estimatedHeight` and a filter is loaded. Only
  then does the code repeat its requests: after a filter update
  (`BRPeerManager.c:380-385`), to a new download peer (787-796), after a timeout.
  Ignored blocks may come between two of them, hence strong. At the tip nothing is
  assumed, since `_updateFilterLoadDone` then sends only `mempool`. Assumed of the
  surroundings: connections are made again, that is, the sync does not fail
  `MAX_CONNECT_FAILURES` times in a row and its timer is not cancelled (next but
  one), and a peer that has the chain is asked at last.
- PeerSync: weak fairness of the thread of each peer, which runs on its own. For
  `Pong` that is an assumption about the remote peer: it answers pings, or the
  connection is lost. While syncing a timer of the manager would end a connection
  on which nothing arrives; at the tip none is set, and a peer that keeps its
  socket open and never answers keeps an update waiting.
- Download: weak fairness of `Progress`: threads and peers go on, connections
  are made again, timers run out (`PROTOCOL_TIMEOUT`, set by each block). It is
  one formula for all peers, so it does not assume that one particular peer is
  ever chosen. Growth of the chain and failures are not part of it. The model's
  `Timeout` is possible whenever the download peer has nothing more to say before
  the chain is complete. The code can lose that timer: `_BRPeerManagerSyncStopped`
  cancels it (218) when the mempool of another peer is done (556-559), and so does
  a transaction that arrives with `syncStartHeight` 0 (942); and after
  `MAX_CONNECT_FAILURES` nobody connects again. `DownloadEnds` is about the
  downloads in which neither happens; `NoTxMissed` does not depend on it.
- LightNode: weak fairness of the poll (every 15 seconds) and of the handling of
  its answers.
- KVStore, Publish, CoinSelection: none is used.

*Symmetry* is used in `kv_store` (threads of one device, values) and `publish`
(peers), which have no liveness properties.

*Mutants.* Each property of each passing run has a mutant: an operator of the
module, marked as one, that replaces the operator of the code by a plausible bug
(insertion at the end, UTXO set not cleared, strict instead of weak comparison,
an update flag that stays, a filter compared with the used addresses only, …),
with which TLC finds the property violated.

## 5. What is proved

TLAPS checks the proofs for every value of the constants that the named ASSUMEs
of the modules allow; TLC evaluates the ASSUMEs in the runs.

| theorem | module | states |
|---|---|---|
| `TypeCorrect` | WalletProofs | `Spec => []TypeOK` |
| `HeldCorrect` | WalletProofs | `BookIsHeld` |
| `SortedCorrect` | WalletProofs | `BookIsSorted` |
| `ReorgCorrect` | WalletProofs | `ReorgIsComplete` |
| `NoDoubleSpendCorrect` | WalletProofs | `NoDoubleSpend` |
| `UtxosCorrect` | WalletProofs | `UtxosAreSpendable` |
| `BalanceCorrect` | WalletProofs | `BalanceIsUtxoValue` |
| `BookCorrect` | WalletProofs | `IsTxBook`, the refinement of TxBook |
| `StoreTyped` | KVStoreProofs | `TypeOK` |
| `RecordedVersion` | KVStoreProofs | `RecordedIsRemote` |
| `NewerWins` | KVStoreProofs | `KeepsNewer`, an action property |
| `FlagIsReset` | KVStoreProofs | `RunningIsASync` |
| `PublishTyped` | PublishProofs | `TypeOK` |
| `CallbackCorrect` | PublishProofs | `CallbackOnce` |
| `RelaysCorrect` | PublishProofs | `RelaysAreConnected` |
| `TimeoutCorrect` | PublishProofs | `TimeoutKept`, an action property |
| `ChainTypeCorrect` | PeerChainProofs | `TypeOK` |
| `VerifiableCorrect` | PeerChainProofs | `TipIsVerifiable` |
| `HighestCorrect` | PeerChainProofs | `TipIsHighest` |
| `OrphansCorrect` | PeerChainProofs | `NoOrphanExtendsTip` |
| `HeightsCorrect` | PeerChainProofs | `HeightsAreMainChain`, until the first rescan |
| `ChainCorrect` | PeerChainProofs | `IsHeaderTree`, the refinement of HeaderTree, until the first rescan or restart |
| `SyncTyped` | PeerSyncProofs | `TypeOK` |
| `ServesCorrect` | PeerSyncProofs | `DownloadPeerServes` |
| `UpdateCorrect` | PeerSyncProofs | `UpdateIsUnderWay` |
| `SyncServedCorrect` | PeerSyncProofs | `SyncIsServed` |
| `NodeTyped` | LightNodeProofs | `TypeOK` |
| `BlockedInOrder` | LightNodeProofs | `BlockedAreInOrder` |
| `HashesAreDifferent` | LightNodeProofs | `HashesDiffer` |
| `CallsTyped` | CoinSelectionProofs | `TypeOK` |
| `RecursionEnds` | CoinSelectionProofs | `DueFalls` |
| `DraftsBalance` | CoinSelectionProofs | `DraftIsBalanced` |
| `DownloadTyped` | DownloadProofs | `TypeOK` |
| `DownloadCorrect` | DownloadProofs | `NoTxMissed` |

The theorems about Wallet hold for every set of transactions, inputs, outputs and
amounts, every height, gap limit and store; all but the first assume `StoreBelongs`.

*Types* (WalletProofs). `TypeOK` is not inductive. A read of
`transactions[scan]` is typed only if scan is a position,
`removing[Len(removing)]` only if the stack is not empty, and
`Deleted(call.tx, …)` only if a removal is in progress; those are facts about
control. The inductive invariant is `TypeInv == TypeOK /\ Control`, where
`Control` says at which `pc` the stack of removals is non-empty, which operation
is in progress, where `scan` is within the book, and what kind of value the
call's locals hold. So the theorem also says that no step reads an array of the
wallet outside its bounds.

*The assumption on the store.* BRWalletNew verifies that the first stored
transaction belongs to the wallet and takes the others on trust.
`StoreBelongs` says that when this check succeeds all of them do; a store whose
first row fails is refused, and the assumption says nothing of it. Without it
`BookIsHeld` is false (instance `stored` of MCWallet), and the freed transaction could
disturb everything that is derived from the book, so the theorems have the form
`Spec /\ []StoreBelongs => …`. In the instances of the passing runs the store is
empty (`wallet_spend`) or has a row that does not belong (`wallet_family`).

*The book* (WalletProofs). The three parts of
`OrderInv == BookIsHeld /\ BookIsSorted /\ Belongs` need each other.
A transaction of the book is not freed because UpdateTransactions frees only
what `ContainsTx` does not recognise; every transaction of the book is
recognised (`Belongs`) and stays so, because chains of addresses only grow and a
freed transaction, having no output of the wallet, was nobody's recognised
parent (`ContainsKept`). The order is kept although the comparison of the
insertion sort is not transitive: it never contradicts the heights
(`AfterHeight`), and this is all that the sort needs, since it looks at its left
neighbour when it stops and has looked at all on its right (`InsertSorted`).

*The scan* (WalletProofs). `LedgerInv` speaks of the transactions the scan
has reached (`Processed`), all of the book between two scans. Four facts carry
each other: only reached transactions are marked invalid or pending; the inputs
of every reached transaction that is not invalid are in `spentOutputs`; each
output in `utxos` is one of the wallet's own, of a counted transaction, and not
in `spentOutputs`; two reached transactions that are not invalid and spend one
output are both confirmed. With them `Balanced` follows from the additivity of
`Value` alone. The derived state goes stale between two scans only in one
direction: UpdateTransactions can change heights and leave the ledger as it is,
but it never makes a confirmed transaction unconfirmed (`Retiming`).

*The refinement* (WalletProofs). Every step of Wallet is one operation
of TxBook or a stutter. What is left to prove is about removals:
`RemovalInv` says that everything on the stack of nested calls is unconfirmed,
and that a search that has collected nothing has passed over no dependent. The
search stops at the first transaction with a lower height; by the order of the
book, what it did not reach is confirmed.

*The key-value store* (KVStoreProofs). The theorems hold for every number of
devices, keys, values and syncing threads, all clocks and bounds, with each thread
belonging to one device. A sync asks the server without a lock, so what it
remembers of the table may be old when it uses it. What carries the proof is that
a version, of the table or of the server, never changes its contents
(`LocalGrows`, `ServerGrows`): `ThreadInv` says, for each place in `_syncKey`, of
which entry of the server the remembered value is and how its time compares with
the remembered row, and such a fact stays true whatever others do.
`RecordedIsRemote` is a conjunct of `Inv`; `KeepsNewer` follows from the part of
`ThreadInv` about the write after a download, and from the test that the row has
still the version that was read. `RunningIsASync` is an invariant of its own.

*Publishing* (PublishProofs). Any peers and transactions, any number of
connections and events. `Inv` has a part for each variable that is shared: no
timer, relay or request is kept of a peer that has gone (`OnlyListed`); what is
pending is listed, and what was never listed was never answered for
(`CallbacksOK`), which is needed because a callback is stored only when the
transaction enters the list. `TimeoutKept` is proved of every step: a timer stops
only in steps that find nothing pending and no sync of that peer.

*The chain* (PeerChainProofs). Any tree of headers, peers and checkpoints. Assumed
of the constants: a child is one higher than its parent, and blocks with one parent
have one height (`TreeAssumption`); every checkpoint is at a transition, as
`BRChainParams.h:57` demands, and an interval is longer than one block
(`CheckpointAssumption`). `TipIsVerifiable` is not inductive: a branch that
becomes the main chain must be verifiable before. `Sound` says it of every held
block at or above the last transition, with the fact that makes pruning harmless,
that no held block but a checkpoint is higher than the last one. The rows that a
thread still has to save, those in a queue and those stored each contain a
transition (`RowsInv`), so that a restart begins verifiable. All of it until the
first rescan, as the properties say.

*The heights and HeaderTree* (PeerChainProofs). These two say more and need more of
the network, `NetworkAssumption`, of which MCPeerChain lets TLC evaluate that
its instance has it: an abandoned branch of valid blocks is shorter than an interval (the
code frees what is further back), the checkpoints are on one line, the difficulty looks
back less than an interval (24 of 2016), and a transaction is in one block of a
branch and in none before the wallet existed. Without the first, a walk of a
reorganisation meets a block that was freed (section 6). `Rooted` is the strengthening: every held
block is on the line of the checkpoints below it, and each of its ancestors is held down
to the last of these checkpoints or to one interval before the latest transition
(`IsKept`). What a verification frees, even the one of a block that is then
refused, is below that (`PruningIsDeep`), so a walk to the join finds all blocks
(`LongerForkReplaces`) and the difficulty of a new tip is verified in full
(`TipIsValid`). Every step is then a `ChainStep`, from which the heights
(`StepKeepsHeights`) and the step of HeaderTree (`TreeStep`) follow. After a rescan or restart the
lower part of the chain may have been freed, and both are checked by TLC only.

*Connections and sync* (PeerSyncProofs). Any peers, heights, limits and numbers of
threads in BRPeerManagerConnect. An update of the filter is spread over three
things that different threads change: the mark of the download peer, the filter,
and a callback in a queue. `HandInv` ties them together: only the download peer,
while its socket is open, can have a mark, and then its queue, or the thread that
has just taken a callback from it, has one that names it; and while a
"filterLoad" callback names the download peer there is a filter, so that clearing
the mark never leaves a download peer with neither. `DownloadPeerServes` and
`UpdateIsUnderWay` are two halves of this, and neither is inductive without the other
(a peer that was shut may keep its mark for ever, hence the condition on the
socket). Of the many steps of a peer that neither take callbacks nor set marks
it is enough that the peer goes on (`Grows`): no callback is lost, no "filterLoad"
and no mark appears, and a shut socket stays shut. The replaced download
peer is shut in the step that replaces it (`ChosenPeers`), so that its unfinished
update binds nobody; a peer that is freed takes its name out of all queues
(`FreedPeers`). `SyncIsServed` needs only the count of failures beside the peers
and threads, and is carried along as `SyncInv`.

*The light node* (LightNodeProofs). Any kinds of wallets, history, number of
sends, of answers under way and of reorganisations. Assumed: hashes of others are
no identifiers of ours (`ForeignAssumption`). Of a list (`Good`): each transaction
of its kind once, those in blocks in order. The insertion compares the new one
with neighbours in a list that may be unsorted; it stops behind the last one that it is
not less than, so every one behind it is less ordered than the new one, and the order of those in blocks holds
(`InsertedIsGood`); a transaction is taken out before its place changes
(`ListsMove`). For `HashesDiffer` the invariant follows what the service knows:
what carries an identifier for a hash was sent by this node with the nonce it
still has (`Ours`), in every block, submission and answer, however old. So a
transaction of the node that an answer names is found by its hash or, when the
answer to the submission is late, by its nonce (`NotKnown`).

*Coin selection* (CoinSelectionProofs). Any senders and coins, all amounts, requests,
fees and sizes. `Total` and `Without` are recursive functions; what they compute
is proved by induction over positions, from the least number of a set (`UpTo`):
what a sum is of a sequence with one element more, with one less, or in another
order (`SameWorth`). The last is needed since the fee of a transaction is
computed from the set of its inputs, and they were taken in the order of
the UTXO set. `Stack` says of the nested calls that each but the newest was short
of funds for its own request: the loop looks at every input for whether it is
enough, so that the inputs before the one that is too much were not enough
(`LastInputFacts`), and what is missing is above 0. This bounds the recursion
(`DueFalls`), and it is why a call drops what the nested call built: only the
outermost call can hand out a transaction, and that one was built for the whole
request (`DraftIsBalanced`).

*The download* (DownloadProofs). Any chain, payments, peers of any height, windows,
gap limit and spare addresses, any failures. Assumed of the constants, beside their types (`ChainAssumption`,
`NumberAssumption`): an address is paid once (`PaidOnce`), nobody is paid more than
the gap limit beyond the addresses used before (`GapAssumption`, BIP 44), nothing
was paid to the wallet before it existed (`CreationAssumption`), and peers still have a
transaction that they announced when they are asked for it (`~ Forgets`; otherwise the
invariant is false, section 6). `Spare >= Gap` is not needed. There are two
halves. The filter: when everything up to the last block is registered and
`bloomFilter` is a gap limit ahead of what is used (`FilterIsAhead`), it matches all that the
next block pays (`FilterMatchesAll`), so the chain may grow by a block that this
filter has matched. The messages: a peer relays a block only when the
transactions it lists have been registered, but one that was announced in an inv
is not waited for. `Connections` therefore speaks of the order of what is under way:
an announced transaction is in a block that nobody has spoken of yet (`Ahead`),
and one that is known but not registered is requested, or arrives, before its block
is (`SeenComes`). Requests are answered in order, so an answer keeps this
order (`AnswersBring`); so does each handler, each with a lemma for what it
takes from the queue and one for what it sends. The library's `FlattenSeq` and
the trimming of known blocks (`Trimmed`) are recursive functions of numbers; what they
yield is found by induction over positions (`UpTo`).

Only model-checked:

- `CallsReturn`, `CatchesUp`, `UpdateEnds`, `DownloadEnds`, `ShownAtLast`:
  liveness under fairness, which this prover does not handle.
- `HeightsAreMainChain` and `IsHeaderTree` after a rescan or restart: true in the
  instance of `peer_chain`, not for every tree (section 6).
- What a recursive operator computes for every input (`AscendingOver`,
  `IsValid`). A recursive function over numbers, as `Total`, can be proved about;
  the library's theorems of induction, whose premise is an operator, cannot be
  used, and the modules with those operators have no proofs.

## 6. What the code does not keep

Three runs show a disagreement between a comment and the code (details in
`PROJECT.json`, `findings`):

- `claim_rescan`: a block mined during a rescan is to be set aside, but it is
  verified before, and verification may free `lastBlock`
  (`BRPeerManager.c:1226`, 1112, 1276).
- `claim_smaller`: a smaller transaction, built because the first was too large,
  is freed by the test that follows (`BRWallet.c:607-646`).
- `claim_filter`: a block that an outgrown filter has matched is accepted from
  the thread of a download peer that has just been replaced, and a payment is
  missed (`BRPeerManager.c:1192`, `BRPeer.c:415-436`). There is one `bloomFilter`
  for all peers, so the same happens without any failure when a peer connects
  beside the download peer whose filter was outgrown, before the block is relayed
  (`Pays == <<<<>>, <<2>>, <<4, 6, 8>>>>`, both peers of height 2), and with one
  peer at the tip, where a worn filter is replaced while the next block, matched
  with the old one, is on its way (`Worn = {3}` and payments 4, 6, 8 in block 3 and
  1, 3, 10, 12 in block 4).

The formulas of the Claims modules below are refuted by TLC on the instances of
the MC modules, and have no run of their own.

*Wallet* (WalletClaims; instances `spend`, `pair`, `stored` and `family`):

- `UnspentAreUnspent`: the outputs a pending transaction spends are offered for
  spending when it is the newest.
- `BalanceExcludesInvalid`: a transaction that arrives before its invalid
  parent is counted, since the scan meets the child first.
- `HistoryMatchesOrder`: `balanceHist` goes by position and is not recomputed
  when UpdateTransactions moves a transaction.
- `FutureLockIsPending`: UpdateTransactions with TX_UNCONFIRMED raises
  `wallet->blockHeight` to INT32_MAX, after which no height lock is in the future.
- `AssociatedCanBeAdded`: a removed transaction that comes back is never added.
- `BalanceIsReported`: UpdateTransactions and SetTxUnconfirmedAfter recompute
  the balance and do not call `balanceChanged`.
- `KnownInvalidIsSilent`: the user is notified of the removal of a double spend
  that was known to be invalid, since the test runs after the scan that forgot it.
- `DeletedOnce`: with two paths to one dependent, it is removed twice and
  `txDeleted` is called twice.
- `UsedAddressIsUsed`: the addresses a pending or invalid transaction pays are
  not marked as used, so they can be handed out again.
- `BookIsHeld` without `StoreBelongs`: a stored transaction that no generated
  address knows is freed when it is confirmed again, while the book points to it.

*Chain.* Beside `claim_rescan`, seen while modelling: a fork block relayed twice
after a restart from few rows walks off the end (1260-1262 with a NULL block); a
restart from a saved transition of the losing branch makes the reorganisation
walk meet NULL, and the transactions of the new branch stay unconfirmed (1306);
a restart keeps heights that belong to a lost branch (hence the guard
`restarts = 0` of `HeightsAreMainChain`). Before any restart too: a fork block
that is still held, but lies below what was pruned of the main chain, and is
relayed again, makes the walk of 1260 fall off the main chain, and
BRMerkleBlockEq reads the NULL it ends with. The instance of `peer_chain` has no
fork as deep as that; `HeightsAreMainChain` and `IsHeaderTree` are checked within
that bound, and proved for every tree that keeps it (`ForksAreShort`). The `saveBlocks` of two threads can replace newer rows by older ones, and use pointers after the
lock was released.

*Sync* (SyncClaims):

- `SuccessIsCaughtUp`: the mempool of a peer with a shorter chain that connected
  beside the download peer ends the sync with success (545-569).
- `SyncIsAlwaysServed`: Disconnect sets `connectFailureCount` to its maximum; a
  connection that fails afterwards counts beyond it, and the test for equality
  that would report `syncStopped` fails (825, 844-847).
- `HandlersReturn`: `_updateFilterLoadDone` reads the download peer, which may
  be NULL by then, and callbacks name peers that were freed.
- `DownloadIsSought`: after Rescan disconnects the download peer, a second peer
  that is connected keeps its slot and none is selected (1701).
- `WaitsForClosing`: Disconnect waits for a peer that it has not closed, because
  its socket was not open yet.

Also: peers that break the protocol or are unfit are connected again without
limit; when the thread of a peer cannot be created (`BRPeer.c:1155-1168`), its status
is set to disconnected, but the call of the `disconnected` callback is commented out,
so the peer keeps its slot in `connectedPeers` for ever and nobody counts the failure
(PeerSync leaves this failure of the operating system out: `OpenSocket` always has a
thread); the reconnect by a thread clears the failures after Disconnect (1661);
`syncStopped` is called after the lock was released and may come after a newer
`syncStarted`; the mempool "already sent" case leaves the sync unfinished.

*Publishing* (PublishClaims):

- `PublishedIsHeld`: an unconfirmed parent of other people, kept in
  `publishedTx`, is freed by the wallet when it confirms (226-239,
  `BRWallet.c:964`).
- `RelayedIsKept`: a removal takes dependents with it, although a peer relays
  them or they are being published (449, 480-497).

Also: a callback may wait with no timer that guards it (1836); publishing a
transaction that is listed already loses its callback (227); `txRequests` is not
cleaned when a peer goes; RejectedTx does not call the callback.

*Download* (DownloadClaims):

- `MissedIsFound`: what `claim_filter` misses is not found later either, when
  the new download peer, which was asked for the blocks, fails (instance with
  `MaxFailures <- FirstFails`).
- `StaysAtTip`: a new block at the tip that is dropped while the filter is
  replaced (1192) is not asked for again: `_updateFilterLoadDone` requests blocks only
  while `lastBlock` is below `estimatedHeight` (380-388). So `CatchesUp` and
  `DownloadEnds` stop at the height that was reported. Refuted when there is one
  peer (`MaxConnectCount = 1`, the fixed-peer mode); another block or connection
  makes it good.
- `DownloadEnds` with `Time <- GapTime`: of a message of headers the first is
  never looked at (`BRPeer.c:468-476`), so blocks are requested from after it even
  when it is new enough; where more than two hours lie between it and the block
  before, the manager ignores it as a header that is too new
  (`BRPeerManager.c:1188`), and all later blocks are orphans.

Also: a transaction known from an inv is not waited for (`BRPeer.c:723`), so when
the peer has forgotten it by the time it is asked for (`Forgets = TRUE`, which no
run sets), its block is relayed first and it is registered without its height; an
inv of the single hash that is `lastBlockHash` is never asked for again; `_BRPeerManagerLoadMempools` clears a new block that was set aside as an
orphan during the sync.

*Coins* (CoinClaims): `DraftsAreDisjoint` (two transactions created before either
is registered spend the same outputs); `CallHasOutputs` (a request of one output
that is dropped leaves none, and `outputs[outCount - 1]` is read). Also: a fee of
0 becomes 1 satoshi (569); the last output can be dropped without the caller
being told; BRWalletMaxOutputAmount uses the wallet's fee, not the user's.

*Key-value store* (KVClaims): `MatchingIsEqual` (484-485: equal versions do not
imply equal contents, as a fetched row keeps the local `deleted`, 587),
`SyncIsAlone`, `TheirsIsOlder`. Also: RemoteKVStore maps every failure to unknown,
and a row that does not decrypt is deleted, and its deletion replicated (265-269).

*Light node* (LightClaims): `ListingIsWallet` (positions in one wallet are
returned as identifiers of transactions, `BREthereumLightNode.c:787`);
`IndexIsFound`, `NonceIsNext`, `BlockedStays`, `ShownAsItself` (transactions of a
second device with the same key: nonces collide, an assertion fails, a
transaction is shown as another). Also: answers with an error are not looked at,
failed submissions are never told to the node.

## 7. What is not modelled

- *Within the modelled parts.* Memory management except where a freed object
  is still named; BRWalletSetFeePerKb, the fee filter, SetFixedPeer,
  `deleteAllKVs` of the key-value store, peer addresses (addr, getaddr) and the
  saved list of peers; a thread that cannot be created; false positives of filters
  except for what their rate triggers; the fields of a block beyond links, height,
  time and target; balances, gas, listeners and LES of Ethereum.
- *Byte strings.* Keys, addresses, mnemonics, encodings, cryptography, the
  serialisation of transactions, payment requests and messages: their logic is
  arithmetic over bytes, without state, out of a model checker's reach. They are
  most of the lines of the repository (word lists, yescrypt, payment protocol,
  JNI), which is why the map covers a small share of them.
- *Bloom filter and BRSet*: data structures, taken as mathematical sets.
- *JNI glue*: copies arguments.
- *Wallet managers, PIN, platform API and web server*: user interface and HTTP
  around the core; their calls into it are the application's actions of
  PeerSync, Publish and LightNode.
- *Transaction store*: the rows are inputs of Wallet and, for blocks, part of
  PeerChain; the executor that writes rows of transactions is left out.
