----------------------------- MODULE PeerChain ------------------------------
(***************************************************************************)
(* The chain of blocks of the peer manager: BRPeerManager.c               *)
(* (_peerRelayedBlock and what it calls), and the store of blocks.        *)
(*                                                                         *)
(* Every connected peer has a thread.  A thread handles a relayed block    *)
(* under the manager's lock; after it has released the lock it hands the   *)
(* blocks to save to the application, and then handles the orphan that     *)
(* the block made connectable.  Other threads run between those steps.     *)
(*                                                                         *)
(* Heights are a property of the tree (height = height of the parent + 1), *)
(* so Height is a constant.  A handler that reads a block after it was     *)
(* freed, or through a NULL pointer, does not return: the process stops.   *)
(***************************************************************************)
EXTENDS Integers, Sequences, FiniteSets, FiniteSetsExt

CONSTANTS
    Block, Prev, Height,        \* the tree of block hashes: Prev[b] is not a Block for the genesis block
    Tx, Txs,                    \* Txs[b]: the wallet's transactions that the filter matches in b
    Interval,                   \* BLOCK_DIFFICULTY_INTERVAL
    Checkpoints,                \* blocks that are checkpoints
    StartBlock,                 \* the checkpoint that suits the wallet's creation time
    BadTarget,                  \* blocks whose target differs from the one their ancestors give
    Past,                       \* ancestors that the difficulty average needs (nPastBlocks)
    Peer, PeerLast,             \* PeerLast[p]: the last block height that peer p reported
    Relays,                     \* Relays[p]: the blocks that peer p may relay
    TX_UNCONFIRMED,
    MaxResumes,                 \* bound of the model: restarts and rescans
    MaxQueue                    \* bound of the model: calls in queue

VARIABLES
    blocks,             \* manager->blocks
    orphans,            \* manager->orphans, indexed by prevBlock
    lastBlock,          \* manager->lastBlock
    estimatedHeight,    \* manager->estimatedHeight
    filter,             \* is there a bloom filter (manager->bloomFilter)
    heights,            \* blockHeight of the wallet's transactions
    thread,             \* thread[p]: what p's thread does after it releases the lock
    queue,              \* calls of saveBlocks that the application's executor has not run
    saved,              \* rows of the block store
    running,            \* FALSE after a handler has dereferenced NULL
    restarts, rescans

vars == <<blocks, orphans, lastBlock, estimatedHeight, filter, heights, thread,
          queue, saved, running, restarts, rescans>>

\* A block is one higher than its parent; blocks with one parent have one height.
TreeAssumption ==
    /\ Height \in [Block -> Nat]
    /\ \A b \in Block : Prev[b] \in Block => Height[b] = Height[Prev[b]] + 1
    /\ \A b, c \in Block : Prev[b] = Prev[c] => Height[b] = Height[c]

\* Checkpoints "must be at difficulty transition boundaries" (BRChainParams.h);
\* an interval of one block would leave no block to free.
CheckpointAssumption ==
    /\ Interval \in Nat /\ Interval > 1
    /\ Checkpoints \subseteq Block /\ \A c \in Checkpoints : Height[c] % Interval = 0
    /\ StartBlock \in Checkpoints

PeerAssumption ==
    /\ PeerLast \in [Peer -> Nat] /\ Relays \in [Peer -> SUBSET Block]
    /\ MaxResumes \in Nat

ASSUME TreeAssumption
ASSUME CheckpointAssumption
ASSUME PeerAssumption

-----------------------------------------------------------------------------
ClosedUnderPrev == {S \in SUBSET Block : \A d \in S : Prev[d] \in Block => Prev[d] \in S}

\* b and its ancestors.
Line == [b \in Block |-> {c \in Block : \A S \in ClosedUnderPrev : b \in S => c \in S}]

IsTransition(b) == Height[b] % Interval = 0
LastCheckpoint  == Max({Height[c] : c \in Checkpoints})
Idle            == [save |-> {}, next |-> {}]

\* What repeated BRSetGet(S, &b->prevBlock) visits, starting at b.
Walk(S, b) ==
    {c \in Line[b] : \A d \in Line[b] : Height[d] >= Height[c] => d \in S \cup {b}}

\* Mutant: siblings stay.
AddOrphanBeside(b) == orphans \cup {b}

\* BRSetAdd on a set indexed by prevBlock replaces the sibling.
AddOrphan(b) == {o \in orphans : Prev[o] # Prev[b]} \cup {b}

Confirm(h, S) ==
    [t \in Tx |-> IF \E b \in S : t \in Txs[b]
                  THEN Height[CHOOSE b \in S : t \in Txs[b]] ELSE h[t]]
\* Mutant: a transaction just above the join stays confirmed.
UnconfirmAfterNext(h, n) == [t \in Tx |-> IF h[t] > n + 1 THEN TX_UNCONFIRMED ELSE h[t]]
UnconfirmAfter(h, n) == [t \in Tx |-> IF h[t] > n THEN TX_UNCONFIRMED ELSE h[t]]

-----------------------------------------------------------------------------
\* _BRPeerManagerVerifyBlock, for a block whose parent is held.

\* The previous transition of a transition block, if the walk from b comes to it.
PrevTransition(b) == {t \in Line[b] : Height[t] = Height[b] - Interval /\ t \in Walk(blocks, b)}
HasTransition(b)  == IsTransition(b) => PrevTransition(b) # {}

\* Mutant: frees the blocks of the interval that ends as well.
PrunedNow(b) ==
    {c \in Walk(blocks, b) \ {b} : IsTransition(b) /\ HasTransition(b) /\ ~IsTransition(c)}

\* "free up some memory": what is below the previous transition, but for transitions.
Pruned(b) ==
    IF IsTransition(b)
    THEN UNION {{c \in Walk(blocks, t) : ~IsTransition(c)} : t \in PrevTransition(b)}
    ELSE {}

\* Mutant: the first block with enough ancestors is not verified.
DifficultyOKLate(b) == b \in BadTarget => Height[b] - 1 <= LastCheckpoint + Past + 1

\* verifyDifficulty, on what pruning left: it passes when it cannot verify.
DifficultyOK(b) ==
    \/ b \notin BadTarget
    \/ Height[b] - 1 <= LastCheckpoint + Past
    \/ Cardinality(Walk(blocks \ Pruned(b), b)) <= Past

VerifyBlock(b) ==
    /\ HasTransition(b)
    /\ DifficultyOK(b)
    /\ \A c \in Checkpoints : Height[c] = Height[b] => c = b

-----------------------------------------------------------------------------
(* What the network promises.  The code relies on it where it frees blocks *)
(* and walks back from a new block; HeightsAreMainChain and IsHeaderTree   *)
(* hold as long as it is kept.                                             *)

\* Blocks that the code accepts when it holds enough of their ancestors.
ValidBlock ==
    {b \in Block : /\ b \in BadTarget => Height[b] - 1 <= LastCheckpoint + Past
                   /\ \A c \in Checkpoints : Height[c] = Height[b] => c = b}

\* The checkpoints are on one chain, and the difficulty looks back less than an
\* interval (24 of 2016 blocks).
CheckpointsAreOneLine ==
    /\ Past \in Nat /\ Past <= Interval
    /\ \E last \in Checkpoints : Checkpoints \subseteq Line[last]

\* A valid branch is abandoned before it is an interval long: blocks that are further
\* back are freed.
ForksAreShort ==
    \A b, c \in ValidBlock :
        Height[c] <= Height[b] => \E j \in Line[b] \cap Line[c] : Height[j] > Height[c] - Interval

\* A transaction is in one block of a chain, and in none before the wallet existed.
TxsAreNew ==
    /\ Txs \in [Block -> SUBSET Tx]
    /\ \A b \in Block : \A c, d \in Line[b] : Txs[c] \cap Txs[d] # {} => c = d
    /\ \A b \in Line[StartBlock] : Txs[b] = {}

NetworkAssumption == CheckpointsAreOneLine /\ ForksAreShort /\ TxsAreNew

-----------------------------------------------------------------------------
\* The blocks to save: n of them, down from b, cut so that they start at a transition.
ToSave(held, b, n) ==
    LET walked == {c \in Walk(held, b) : Height[c] > Height[b] - n}
    IN  {c \in walked : \E t \in walked : IsTransition(t) /\ Height[t] <= Height[c]}
WholeInterval(b) == (Height[b] % Interval) + Interval + 1

\* Mutant: the next orphan is left in the set.
FinishNoNext(p, b, others, save) ==
    /\ estimatedHeight' = Max({estimatedHeight, Height[b]})
    /\ orphans' = others
    /\ thread' = [thread EXCEPT ![p] = [save |-> save, next |-> {}]]
    /\ UNCHANGED <<filter, queue, saved, restarts, rescans>>

\* The end of _peerRelayedBlock for a block that was kept with a known height.
Finish(p, b, others, save) ==
    LET next == {o \in others : Prev[o] = b}
    IN  /\ estimatedHeight' = Max({estimatedHeight, Height[b]})
        /\ orphans' = others \ next
        /\ thread' = [thread EXCEPT ![p] = [save |-> save, next |-> next]]
        /\ UNCHANGED <<filter, queue, saved, restarts, rescans>>

\* The end of _peerRelayedBlock for a block that was freed, or whose height is unknown.
FinishNoBlock(p) ==
    /\ thread' = [thread EXCEPT ![p] = Idle]
    /\ UNCHANGED <<estimatedHeight, filter, queue, saved, restarts, rescans>>

-----------------------------------------------------------------------------
\* The branches of _peerRelayedBlock, in the order of the code.
HasPrev(b) == Prev[b] \in blocks

\* A filter update is pending: the block may be incomplete and is freed.
FilterPending(p, b) ==
    /\ ~filter
    /\ FinishNoBlock(p)
    /\ UNCHANGED <<blocks, orphans, lastBlock, heights, running>>

\* The parent is unknown: the block is an orphan, or is ignored because it is old.
\* Orphans that came from the store know their height.
Orphaned(p, b) ==
    /\ filter
    /\ ~HasPrev(b)
    /\ \/ FinishNoBlock(p) /\ orphans' \in {orphans, AddOrphan(b)}
       \/ restarts > 0 /\ Finish(p, b, AddOrphan(b), {})
    /\ UNCHANGED <<blocks, lastBlock, heights, running>>

Invalid(p, b) ==
    /\ ~VerifyBlock(b)
    /\ blocks' = blocks \ Pruned(b)
    /\ FinishNoBlock(p)
    /\ UNCHANGED <<orphans, lastBlock, heights, running>>

\* The branches for a verified block: manager->blocks is now Kept(b).
Kept(b) == blocks \ Pruned(b)

\* New block extends the main chain.
ExtendsMain(p, b) ==
    /\ Prev[b] = lastBlock
    /\ blocks' = Kept(b) \cup {b}
    /\ lastBlock' = b
    /\ heights' = Confirm(heights, {b})
    /\ Finish(p, b, orphans,
              CASE Height[b] = estimatedHeight -> ToSave(blocks', b, WholeInterval(b))
                [] Height[b] # estimatedHeight /\ IsTransition(b) -> {b}
                [] OTHER -> {})
    /\ UNCHANGED running

\* The walk from lastBlock down to the height of b: does it pass b, or fall off
\* at a block that is not held (the result is NULL, which is dereferenced)?
OnMain(b)    == b \in Walk(Kept(b), lastBlock)
FallsOff(b)  == \A c \in Walk(Kept(b), lastBlock) : Height[c] > Height[b]

AlreadyHeld(p, b) ==
    /\ Prev[b] # lastBlock
    /\ b \in Kept(b)
    /\ blocks' = Kept(b)
    /\ running' = ~FallsOff(b)
    /\ heights' = IF OnMain(b) THEN Confirm(heights, {b}) ELSE heights
    /\ Finish(p, b, orphans, {})
    /\ UNCHANGED lastBlock

NotHeld(b) == Prev[b] # lastBlock /\ b \notin Kept(b)

\* Mutant: a block right above the last one counts as mined during a rescan.
IsAheadByOne(p, b) == Height[lastBlock] < PeerLast[p] /\ Height[b] > Height[lastBlock]

\* Special case, new block mined during rescan: an orphan until the rescan has caught up.
IsAhead(p, b) == Height[lastBlock] < PeerLast[p] /\ Height[b] > Height[lastBlock] + 1

MinedDuringRescan(p, b) ==
    /\ NotHeld(b)
    /\ IsAhead(p, b)
    /\ blocks' = Kept(b)
    /\ Finish(p, b, AddOrphan(b), {})
    /\ UNCHANGED <<lastBlock, heights, running>>

OldFork(p, b) ==
    /\ NotHeld(b)
    /\ ~IsAhead(p, b)
    /\ Height[b] <= LastCheckpoint
    /\ blocks' = Kept(b)
    /\ FinishNoBlock(p)
    /\ UNCHANGED <<orphans, lastBlock, heights, running>>

IsFork(p, b) == NotHeld(b) /\ ~IsAhead(p, b) /\ Height[b] > LastCheckpoint

\* Mutant: a fork that is longer by one is only stored.
ShorterForkByOne(p, b) ==
    /\ IsFork(p, b)
    /\ Height[b] <= Height[lastBlock] + 1
    /\ blocks' = Kept(b) \cup {b}
    /\ Finish(p, b, orphans, {})
    /\ UNCHANGED <<lastBlock, heights, running>>

ShorterFork(p, b) ==
    /\ IsFork(p, b)
    /\ Height[b] <= Height[lastBlock]
    /\ blocks' = Kept(b) \cup {b}
    /\ Finish(p, b, orphans, {})
    /\ UNCHANGED <<lastBlock, heights, running>>

\* The height where the branches of b and of lastBlock join.
JoinHeight(b) == Max({Height[c] : c \in Line[b] \cap Line[lastBlock]})

\* The highest block of c's branch, down to the join, that is not held.
Gap(b, c) ==
    Max({-1} \cup {Height[d] : d \in {e \in Line[c] \ (Kept(b) \cup {b}) : Height[e] >= JoinHeight(b)}})

\* The two walks go down in step, the one from b first.  If that one falls off,
\* b is NULL and its height is read.  If the other one does, no transaction of
\* the new chain is given a height.
LongerFork(p, b) ==
    LET gap == Gap(b, lastBlock)
    IN  /\ IsFork(p, b)
        /\ Height[b] > Height[lastBlock]
        /\ blocks' = Kept(b) \cup {b}
        /\ lastBlock' = b
        /\ running' = (Gap(b, b) = -1 \/ Gap(b, b) < gap)
        /\ heights' = IF gap = -1
                      THEN Confirm(UnconfirmAfter(heights, JoinHeight(b)), Line[b] \ Line[lastBlock])
                      ELSE UnconfirmAfter(heights, gap)
        /\ Finish(p, b, orphans,
                  IF Height[b] = estimatedHeight THEN ToSave(blocks', b, WholeInterval(b)) ELSE {})

HandleBlock(p, b) ==
    /\ running
    /\ lastBlock \in blocks     \* else the handler reads freed memory
    /\ \/ FilterPending(p, b)
       \/ Orphaned(p, b)
       \/ filter /\ HasPrev(b) /\ Invalid(p, b)
       \/ /\ filter /\ HasPrev(b) /\ VerifyBlock(b)
          /\ \/ ExtendsMain(p, b)
             \/ AlreadyHeld(p, b)
             \/ MinedDuringRescan(p, b)
             \/ OldFork(p, b)
             \/ ShorterFork(p, b)
             \/ LongerFork(p, b)

-----------------------------------------------------------------------------
\* A peer relays a block; its thread is not busy with another one.
RelayedBlock(p) == thread[p] = Idle /\ \E b \in Relays[p] : HandleBlock(p, b)

\* The call for the next orphan, after the blocks to save have been handed over.
RelayedNext(p) == thread[p].save = {} /\ \E b \in thread[p].next : HandleBlock(p, b)

\* The saveBlocks callback: replace is true when there are several blocks.
SaveBlocks(p) ==
    LET rows == thread[p].save
    IN  /\ running
        /\ rows # {}
        /\ Len(queue) < MaxQueue
        /\ queue' = Append(queue, [rows |-> rows, replace |-> Cardinality(rows) > 1])
        /\ thread' = [thread EXCEPT ![p].save = {}]
        /\ UNCHANGED <<blocks, orphans, lastBlock, estimatedHeight, filter, heights, saved,
                       running, restarts, rescans>>

\* The executor of the wallet manager: deleteAllBlocks and putMerkleBlocks are
\* two transactions of the database.
DeleteBlocks ==
    /\ running
    /\ queue # <<>> /\ Head(queue).replace
    /\ saved' = {}
    /\ queue' = [queue EXCEPT ![1].replace = FALSE]
    /\ UNCHANGED <<blocks, orphans, lastBlock, estimatedHeight, filter, heights, thread,
                   running, restarts, rescans>>

PutBlocks ==
    /\ running
    /\ queue # <<>> /\ ~Head(queue).replace
    /\ saved' = saved \cup Head(queue).rows
    /\ queue' = Tail(queue)
    /\ UNCHANGED <<blocks, orphans, lastBlock, estimatedHeight, filter, heights, thread,
                   running, restarts, rescans>>

\* _updateFilterPingDone: the filter is freed before a new one is loaded to the
\* connected peers, and stays NULL while there is none.
FreeFilter ==
    /\ running /\ filter
    /\ filter' = FALSE
    /\ UNCHANGED <<blocks, orphans, lastBlock, estimatedHeight, heights, thread, queue, saved,
                   running, restarts, rescans>>

\* _BRPeerManagerLoadBloomFilter, after a first download peer: it clears the orphans.
LoadBloomFilter ==
    /\ running
    /\ estimatedHeight > 0
    /\ filter' = TRUE
    /\ orphans' = {}
    /\ UNCHANGED <<blocks, lastBlock, estimatedHeight, heights, thread, queue, saved,
                   running, restarts, rescans>>

\* _peerConnected selects p as the download peer.
SelectDownloadPeer(p) ==
    /\ running
    /\ filter' = TRUE
    /\ orphans' = {}
    /\ estimatedHeight' = PeerLast[p]
    /\ UNCHANGED <<blocks, lastBlock, heights, thread, queue, saved, running, restarts, rescans>>

Rescan ==
    /\ running
    /\ restarts + rescans < MaxResumes
    /\ lastBlock' = StartBlock
    /\ rescans' = rescans + 1
    /\ UNCHANGED <<blocks, orphans, estimatedHeight, filter, heights, thread, queue, saved,
                   running, restarts>>

\* BRPeerManagerNew with the stored rows O (one for each parent): the chain that
\* starts at a highest stored transition; the other rows stay orphans.
NewManager(O) ==
    LET starts == {b \in O : IsTransition(b)}
    IN  \/ /\ starts = {}
           /\ blocks' = Checkpoints /\ orphans' = O /\ lastBlock' = StartBlock
        \/ \E start \in starts, top \in O :
              LET chain == {b \in O : start \in Walk(O, b)}
              IN  /\ \A c \in starts : Height[c] <= Height[start]
                  /\ top \in chain /\ \A c \in chain : Height[c] <= Height[top]
                  /\ blocks' = Checkpoints \cup chain /\ orphans' = O \ chain /\ lastBlock' = top

\* The process ends at any moment and starts again.
Restart ==
    /\ restarts + rescans < MaxResumes
    /\ \E O \in SUBSET saved :
        /\ \A b \in saved : \E o \in O : Prev[o] = Prev[b]
        /\ \A o, q \in O : Prev[o] = Prev[q] => o = q
        /\ NewManager(O)
    /\ estimatedHeight' = 0
    /\ filter' = FALSE
    /\ thread' = [p \in Peer |-> Idle]
    /\ queue' = <<>>
    /\ running' = TRUE
    /\ restarts' = restarts + 1
    /\ UNCHANGED <<heights, saved, rescans>>

-----------------------------------------------------------------------------
Init ==
    /\ blocks = Checkpoints
    /\ orphans = {}
    /\ lastBlock = StartBlock
    /\ estimatedHeight = 0
    /\ filter = FALSE
    /\ heights = [t \in Tx |-> TX_UNCONFIRMED]
    /\ thread = [p \in Peer |-> Idle]
    /\ queue = <<>>
    /\ saved = {}
    /\ running = TRUE
    /\ restarts = 0
    /\ rescans = 0

Next ==
    \/ \E p \in Peer : RelayedBlock(p) \/ RelayedNext(p) \/ SaveBlocks(p) \/ SelectDownloadPeer(p)
    \/ DeleteBlocks \/ PutBlocks
    \/ FreeFilter \/ LoadBloomFilter
    \/ Rescan
    \/ Restart

Spec == Init /\ [][Next]_vars

\* The first block that a download peer has for the locators of lastBlock and that
\* takes the chain further.
NextBlock(best) ==
    LET ahead == {b \in Line[best] \ Line[lastBlock] : b \notin blocks \/ Prev[b] = lastBlock}
    IN  {b \in ahead : \A c \in ahead : Height[b] <= Height[c]}

\* A peer relays the next block of its chain while the manager is syncing.  At the tip
\* nothing is asked for: _updateFilterLoadDone then sends mempool only.
Download(best) ==
    /\ filter
    /\ Height[lastBlock] < estimatedHeight
    /\ \E p \in Peer : thread[p] = Idle /\ \E b \in NextBlock(best) \cap Relays[p] : HandleBlock(p, b)
Background ==
    \/ DeleteBlocks \/ PutBlocks
    \/ \E p \in Peer : RelayedNext(p) \/ SaveBlocks(p)
Connect == ~filter /\ \E p \in Peer : SelectDownloadPeer(p)

\* The threads and the executor do not all stop; a filter is loaded when there is none;
\* and while lastBlock is below estimatedHeight, the blocks after it are asked for again
\* after each filter update (BRPeerManager.c:380-385), by each new download peer
\* (:787-796) and after each timeout, so that a peer that has them relays one at last while
\* a filter is loaded.  This assumes that connections are made again: that the sync does
\* not fail MAX_CONNECT_FAILURES times in a row, and that nothing cancels its timer.
Fairness(best) == WF_vars(Background) /\ WF_vars(Connect) /\ SF_vars(Download(best))

-----------------------------------------------------------------------------
TypeOK ==
    /\ blocks \subseteq Block /\ orphans \subseteq Block /\ lastBlock \in Block
    /\ \A o, q \in orphans : Prev[o] = Prev[q] => o = q
    /\ estimatedHeight \in Nat
    /\ filter \in BOOLEAN /\ running \in BOOLEAN
    /\ heights \in [Tx -> {Height[b] : b \in Block} \cup {TX_UNCONFIRMED}]
    /\ thread \in [Peer -> [save : SUBSET Block, next : SUBSET Block]]
    /\ \A p \in Peer : Cardinality(thread[p].next) <= 1
    /\ saved \subseteq Block
    /\ restarts \in 0..MaxResumes /\ rescans \in 0..MaxResumes

\* The block that VerifyBlock will look for at the next transition is held, with
\* everything between: pruning, reorganisations, the rows that are saved and a
\* restart from them never make the manager refuse an honest chain.
TipIsVerifiable ==
    rescans = 0 =>
        /\ lastBlock \in blocks
        /\ \E t \in Walk(blocks, lastBlock) :
              IsTransition(t) /\ Height[t] > Height[lastBlock] - Interval

\* No block that is held is higher than the last one, checkpoints excepted: a
\* longer branch is never held without being the main chain.
TipIsHighest ==
    rescans = 0 => \A b \in blocks \ Checkpoints : Height[b] <= Height[lastBlock]

\* A block that could extend the main chain is not forgotten among the orphans.
NoOrphanExtendsTip == rescans = 0 => \A o \in orphans : Prev[o] # lastBlock

\* Before the first restart, the wallet's transactions have the heights of the main
\* chain, and (before the first rescan) the others are unconfirmed.
HeightsAreMainChain ==
    restarts = 0 =>
        /\ \A b \in Line[lastBlock] : \A t \in Txs[b] : heights[t] = Height[b]
        /\ rescans = 0 =>
             \A t \in Tx : heights[t] # TX_UNCONFIRMED => \E b \in Line[lastBlock] : t \in Txs[b]

\* The handlers never leave lastBlock pointing to a block that was freed: a block
\* mined during a rescan is put aside until the rescan has caught up.
LastBlockIsHeld == lastBlock \in blocks

Tree == INSTANCE HeaderTree WITH
            tip <- lastBlock,
            resumed <- restarts + rescans,
            Valid <- ValidBlock

\* The chain is the one HeaderTree describes.
IsHeaderTree == Tree!Spec
=============================================================================
