-------------------------- MODULE PeerChainProofs ---------------------------
(***************************************************************************)
(* Proofs about PeerChain, for every tree of blocks, every set of peers    *)
(* and checkpoints and every interval.                                     *)
(*                                                                         *)
(* What makes TipIsVerifiable inductive is that it holds of every recent   *)
(* block, not only of the last one: of each one that is at or above the    *)
(* last transition.  A branch that becomes the main chain is recent when   *)
(* it does, and pruning frees only blocks below the last transition,       *)
(* because no block that is held is higher than the last one.              *)
(*                                                                         *)
(* The heights of transactions, and with them the refinement of HeaderTree,*)
(* need short forks besides: then the walks of a reorganisation stay among *)
(* the blocks that no verification has freed.                              *)
(***************************************************************************)
EXTENDS PeerChain, TLAPS, FiniteSetTheorems

-----------------------------------------------------------------------------
(* Multiples of the interval. *)

LEMMA IntervalIsNat == Interval \in Nat /\ Interval > 1
  BY CheckpointAssumption DEF CheckpointAssumption

LEMMA MultipleStep ==
    ASSUME NEW n \in Nat
    PROVE  (n + Interval) % Interval = n % Interval
<1> DEFINE q == n \div Interval
           r == n % Interval
<1>1. n = Interval * q + r /\ q \in Int /\ r \in 0..(Interval - 1)
  BY IntervalIsNat
<1> HIDE DEF q, r
<1>2. n + Interval = Interval * (q + 1) + r
  BY <1>1, IntervalIsNat
<1>3. (Interval * (q + 1) + r) % Interval = r
  BY <1>1, IntervalIsNat
<1> QED
  BY <1>1, <1>2, <1>3 DEF r

\* Two transitions less than an interval apart are at one height.
LEMMA TransitionOrder ==
    ASSUME NEW m \in Nat, NEW n \in Nat, m % Interval = 0, n % Interval = 0, m < n + Interval
    PROVE  m <= n
<1> DEFINE q == m \div Interval
           r == n \div Interval
<1>1. m = Interval * q /\ n = Interval * r /\ q \in Int /\ r \in Int
  BY IntervalIsNat
<1> HIDE DEF q, r
<1>2. CASE q <= r
  BY <1>1, <1>2, IntervalIsNat
<1>3. CASE q >= r + 1
  BY <1>1, <1>3, IntervalIsNat
<1> QED
  BY <1>1, <1>2, <1>3

-----------------------------------------------------------------------------
(* Ancestors. *)

LEMMA LineHolds ==
    ASSUME NEW b \in Block
    PROVE  /\ b \in Line[b] /\ Line[b] \subseteq Block
           /\ \A d \in Line[b] : Prev[d] \in Block => Prev[d] \in Line[b]
  BY DEF Line, ClosedUnderPrev

LEMMA LineLeast ==
    ASSUME NEW b \in Block, NEW S, b \in S,
           \A d \in Line[b] : d \in S /\ Prev[d] \in Block => Prev[d] \in S
    PROVE  Line[b] \subseteq S
<1> DEFINE T == Line[b] \cap S
<1>1. T \in ClosedUnderPrev /\ b \in T
  BY LineHolds DEF ClosedUnderPrev
<1> HIDE DEF T
<1>2. \A c \in Line[b] : c \in T
  BY <1>1 DEF Line
<1> QED
  BY <1>2 DEF T

\* The line of a child is the child and the line of its parent.
LEMMA LineOfChild ==
    ASSUME NEW b \in Block, Prev[b] \in Block
    PROVE  Line[b] = {b} \cup Line[Prev[b]]
<1>1. Line[b] \subseteq {b} \cup Line[Prev[b]]
  <2> DEFINE S == {b} \cup Line[Prev[b]]
  <2>1. \A d \in Line[b] : d \in S /\ Prev[d] \in Block => Prev[d] \in S
    BY LineHolds
  <2>2. b \in S
    OBVIOUS
  <2> HIDE DEF S
  <2>3. Line[b] \subseteq S
    BY <2>1, <2>2, LineLeast
  <2> QED
    BY <2>3 DEF S
<1>2. Line[Prev[b]] \subseteq Line[b]
  <2>1. \A d \in Line[Prev[b]] : d \in Line[b] /\ Prev[d] \in Block => Prev[d] \in Line[b]
    BY LineHolds
  <2>2. Prev[b] \in Line[b]
    BY LineHolds
  <2> QED
    BY <2>1, <2>2, LineLeast
<1> QED
  BY <1>1, <1>2, LineHolds

LEMMA HeightsAreNat == \A b \in Block : Height[b] \in Nat
  BY TreeAssumption DEF TreeAssumption

\* An ancestor is lower.
LEMMA LineIsBelow ==
    ASSUME NEW b \in Block, NEW d \in Line[b]
    PROVE  Height[d] <= Height[b] /\ (Height[d] = Height[b] => d = b)
<1> DEFINE S == {c \in Block : c = b \/ Height[c] < Height[b]}
<1>1. \A c \in Line[b] : c \in S /\ Prev[c] \in Block => Prev[c] \in S
  BY TreeAssumption, HeightsAreNat DEF TreeAssumption
<1>2. Line[b] \subseteq S
  BY <1>1, LineLeast
<1> QED
  BY <1>2, HeightsAreNat

\* The ancestors of a block are on one line.
LEMMA LineIsOrdered ==
    ASSUME NEW b \in Block, NEW c \in Line[b], NEW d \in Line[b], Height[d] <= Height[c]
    PROVE  d \in Line[c]
<1> DEFINE S == {e \in Block : \A f \in Line[b] : Height[f] <= Height[e] => f \in Line[e]}
<1>1. b \in S
  OBVIOUS
<1>2. ASSUME NEW e \in Line[b], e \in S, Prev[e] \in Block
      PROVE  Prev[e] \in S
  <2> SUFFICES ASSUME NEW f \in Line[b], Height[f] <= Height[Prev[e]]
               PROVE  f \in Line[Prev[e]]
    BY <1>2
  <2>1. e \in Block /\ f \in Block
    BY LineHolds
  <2>2. Height[f] < Height[e]
    BY <1>2, <2>1, TreeAssumption, HeightsAreNat DEF TreeAssumption
  <2>3. f \in Line[e]
    BY <1>2, <2>1, <2>2, HeightsAreNat
  <2> QED
    BY <1>2, <2>1, <2>2, <2>3, LineOfChild, HeightsAreNat
<1>3. \A e \in Line[b] : e \in S /\ Prev[e] \in Block => Prev[e] \in S
  BY <1>2
<1>4. Line[b] \subseteq S
  <2> HIDE DEF S
  <2> QED
    BY <1>1, <1>3, LineLeast
<1> QED
  BY <1>4

\* A line has a block at every height in between.
LEMMA LineIsDense ==
    ASSUME NEW b \in Block, NEW d \in Line[b], NEW h \in Nat,
           Height[d] <= h, h <= Height[b]
    PROVE  \E c \in Line[b] : Height[c] = h
<1> SUFFICES ASSUME \A c \in Line[b] : Height[c] # h
             PROVE  FALSE
  OBVIOUS
<1> DEFINE S == {c \in Block : Height[c] > h}
<1>1. b \in S
  BY LineHolds, HeightsAreNat
<1>2. \A c \in Line[b] : c \in S /\ Prev[c] \in Block => Prev[c] \in S
  BY LineHolds, TreeAssumption, HeightsAreNat DEF TreeAssumption
<1>3. Line[b] \subseteq S
  <2> HIDE DEF S
  <2> QED
    BY <1>1, <1>2, LineLeast
<1> QED
  BY <1>3, LineHolds, HeightsAreNat

-----------------------------------------------------------------------------
(* The type invariant. *)

Call == [rows : SUBSET Block, replace : BOOLEAN]
OnePerParent(O) == \A o, q \in O : Prev[o] = Prev[q] => o = q
KnownHeights == {Height[b] : b \in Block} \cup {TX_UNCONFIRMED}

ChainTyped ==
    /\ blocks \subseteq Block /\ lastBlock \in Block
    /\ heights \in [Tx -> KnownHeights]
    /\ running \in BOOLEAN

RestTyped ==
    /\ orphans \subseteq Block /\ OnePerParent(orphans)
    /\ estimatedHeight \in Nat
    /\ filter \in BOOLEAN
    /\ thread \in [Peer -> [save : SUBSET Block, next : SUBSET Block]]
    /\ \A r \in Peer : \A x, y \in thread[r].next : x = y
    /\ queue \in Seq(Call)
    /\ saved \subseteq Block
    /\ restarts \in 0..MaxResumes /\ rescans \in 0..MaxResumes

TypeInv == ChainTyped /\ RestTyped

LEMMA AtMostOneElement ==
    ASSUME NEW S, \A x, y \in S : x = y
    PROVE  Cardinality(S) <= 1
<1>1. CASE S = {}
  BY <1>1, FS_EmptySet
<1>2. CASE S # {}
  <2>1. PICK x \in S : TRUE
    BY <1>2
  <2>2. S = {x}
    BY <2>1
  <2>3. Cardinality({x}) = 1
    BY FS_Singleton
  <2> QED
    BY <2>2, <2>3
<1> QED
  BY <1>1, <1>2

LEMMA TypeInvImpliesTypeOK == TypeInv => TypeOK
<1> SUFFICES ASSUME TypeInv PROVE TypeOK
  OBVIOUS
<1>1. \A r \in Peer : Cardinality(thread[r].next) <= 1
  BY AtMostOneElement DEF TypeInv, RestTyped
<1> QED
  BY <1>1 DEF TypeInv, ChainTyped, RestTyped, TypeOK, OnePerParent, KnownHeights

LEMMA IdleTyped == Idle \in [save : SUBSET Block, next : SUBSET Block] /\ Idle.next = {} /\ Idle.save = {}
  BY DEF Idle

LEMMA Higher ==
    ASSUME NEW n \in Nat, NEW h \in Nat
    PROVE  Max({n, h}) \in Nat
<1>1. \E x \in {n, h} : \A y \in {n, h} : x >= y
  OBVIOUS
<1> QED
  BY <1>1 DEF Max

LEMMA FinishNoBlockTyped ==
    ASSUME TypeInv, NEW p \in Peer, FinishNoBlock(p), orphans' \subseteq Block, OnePerParent(orphans)'
    PROVE  RestTyped'
<1>1. thread' \in [Peer -> [save : SUBSET Block, next : SUBSET Block]]
  BY IdleTyped DEF TypeInv, RestTyped, FinishNoBlock
<1>2. \A r \in Peer : \A x, y \in thread'[r].next : x = y
  <2> TAKE r \in Peer
  <2>1. CASE r = p
    BY <2>1, IdleTyped DEF TypeInv, RestTyped, FinishNoBlock
  <2>2. CASE r # p
    BY <2>2 DEF TypeInv, RestTyped, FinishNoBlock
  <2> QED
    BY <2>1, <2>2
<1> QED
  BY <1>1, <1>2 DEF TypeInv, RestTyped, FinishNoBlock

LEMMA FinishTyped ==
    ASSUME TypeInv, NEW p \in Peer, NEW b \in Block, NEW others, NEW save,
           others \subseteq Block, OnePerParent(others), save \subseteq Block,
           Finish(p, b, others, save)
    PROVE  RestTyped'
<1> DEFINE next == {o \in others : Prev[o] = b}
           job  == [save |-> save, next |-> next]
<1>1. job \in [save : SUBSET Block, next : SUBSET Block] /\ \A x, y \in job.next : x = y
  BY DEF OnePerParent
<1>2. thread' = [thread EXCEPT ![p] = job] /\ orphans' = others \ next
  BY DEF Finish
<1> HIDE DEF job
<1>3. thread' \in [Peer -> [save : SUBSET Block, next : SUBSET Block]]
  BY <1>1, <1>2 DEF TypeInv, RestTyped
<1>4. \A r \in Peer : \A x, y \in thread'[r].next : x = y
  <2> TAKE r \in Peer
  <2>1. CASE r = p
    BY <1>1, <1>2, <2>1 DEF TypeInv, RestTyped
  <2>2. CASE r # p
    BY <1>2, <2>2 DEF TypeInv, RestTyped
  <2> QED
    BY <2>1, <2>2
<1>5. estimatedHeight' \in Nat
  BY Higher, HeightsAreNat DEF TypeInv, RestTyped, Finish
<1>6. orphans' \subseteq Block /\ OnePerParent(orphans)'
  BY <1>2 DEF OnePerParent
<1> QED
  BY <1>3, <1>4, <1>5, <1>6 DEF TypeInv, RestTyped, Finish

LEMMA AddOrphanTyped ==
    ASSUME TypeInv, NEW b \in Block
    PROVE  AddOrphan(b) \subseteq Block /\ OnePerParent(AddOrphan(b))
  BY DEF TypeInv, RestTyped, AddOrphan, OnePerParent

LEMMA ConfirmTyped ==
    ASSUME NEW h \in [Tx -> KnownHeights], NEW S, S \subseteq Block
    PROVE  Confirm(h, S) \in [Tx -> KnownHeights]
<1> SUFFICES ASSUME NEW t \in Tx
             PROVE  (IF \E b \in S : t \in Txs[b]
                     THEN Height[CHOOSE b \in S : t \in Txs[b]] ELSE h[t]) \in KnownHeights
  BY DEF Confirm
<1> QED
  BY DEF KnownHeights

LEMMA UnconfirmTyped ==
    ASSUME NEW h \in [Tx -> KnownHeights], NEW n
    PROVE  UnconfirmAfter(h, n) \in [Tx -> KnownHeights]
  BY DEF UnconfirmAfter, KnownHeights

LEMMA ToSaveTyped ==
    ASSUME NEW S, NEW b \in Block, NEW n
    PROVE  ToSave(S, b, n) \subseteq Block
  BY LineHolds DEF ToSave, Walk

LEMMA HandleBlockTyped ==
    ASSUME TypeInv, NEW p \in Peer, NEW b \in Block, HandleBlock(p, b)
    PROVE  TypeInv'
<1> USE DEF TypeInv
<1>1. CASE FilterPending(p, b)
  <2>1. orphans' \subseteq Block /\ OnePerParent(orphans)'
    BY <1>1 DEF FilterPending, RestTyped, OnePerParent
  <2>2. RestTyped'
    BY <1>1, <2>1, FinishNoBlockTyped DEF FilterPending
  <2> QED
    BY <1>1, <2>2 DEF FilterPending, ChainTyped
<1>2. CASE Orphaned(p, b)
  <2>1. RestTyped'
    <3>1. CASE FinishNoBlock(p) /\ orphans' \in {orphans, AddOrphan(b)}
      <4>1. orphans' \subseteq Block /\ OnePerParent(orphans)'
        BY <3>1, AddOrphanTyped DEF RestTyped, OnePerParent
      <4> QED
        BY <3>1, <4>1, FinishNoBlockTyped
    <3>2. CASE Finish(p, b, AddOrphan(b), {})
      BY <3>2, AddOrphanTyped, FinishTyped
    <3> QED
      BY <1>2, <3>1, <3>2 DEF Orphaned
  <2> QED
    BY <1>2, <2>1 DEF Orphaned, ChainTyped
<1>3. ASSUME FinishNoBlock(p), orphans' = orphans PROVE RestTyped'
  <2>1. orphans' \subseteq Block /\ OnePerParent(orphans)'
    BY <1>3 DEF RestTyped, OnePerParent
  <2> QED
    BY <1>3, <2>1, FinishNoBlockTyped
<1>4. ASSUME NEW save, save \subseteq Block, Finish(p, b, orphans, save) PROVE RestTyped'
  BY <1>4, FinishTyped DEF RestTyped
<1>5. Kept(b) \subseteq Block /\ Kept(b) \cup {b} \subseteq Block
  BY DEF Kept, ChainTyped
<1>6. CASE Invalid(p, b)
  <2>1. RestTyped'
    BY <1>3, <1>6 DEF Invalid
  <2> QED
    BY <1>6, <2>1 DEF Invalid, ChainTyped
<1>7. CASE ExtendsMain(p, b)
  <2> DEFINE save == CASE Height[b] = estimatedHeight -> ToSave(blocks', b, WholeInterval(b))
                       [] Height[b] # estimatedHeight /\ IsTransition(b) -> {b}
                       [] OTHER -> {}
  <2>1. save \subseteq Block
    BY ToSaveTyped
  <2>2. Finish(p, b, orphans, save)
    BY <1>7 DEF ExtendsMain
  <2> HIDE DEF save
  <2>3. RestTyped'
    BY <1>4, <2>1, <2>2
  <2>4. heights' \in [Tx -> KnownHeights]
    BY <1>7, ConfirmTyped DEF ExtendsMain, ChainTyped
  <2> QED
    BY <1>5, <1>7, <2>3, <2>4 DEF ExtendsMain, ChainTyped
<1>8. CASE AlreadyHeld(p, b)
  <2>1. RestTyped'
    BY <1>4, <1>8 DEF AlreadyHeld
  <2>2. heights' \in [Tx -> KnownHeights]
    BY <1>8, ConfirmTyped DEF AlreadyHeld, ChainTyped
  <2>3. running' \in BOOLEAN
    BY <1>8 DEF AlreadyHeld
  <2> QED
    BY <1>5, <1>8, <2>1, <2>2, <2>3 DEF AlreadyHeld, ChainTyped
<1>9. CASE MinedDuringRescan(p, b)
  <2>1. RestTyped'
    BY <1>9, AddOrphanTyped, FinishTyped DEF MinedDuringRescan
  <2> QED
    BY <1>5, <1>9, <2>1 DEF MinedDuringRescan, ChainTyped
<1>10. CASE OldFork(p, b)
  <2>1. RestTyped'
    BY <1>3, <1>10 DEF OldFork
  <2> QED
    BY <1>5, <1>10, <2>1 DEF OldFork, ChainTyped
<1>11. CASE ShorterFork(p, b)
  <2>1. RestTyped'
    BY <1>4, <1>11 DEF ShorterFork
  <2> QED
    BY <1>5, <1>11, <2>1 DEF ShorterFork, ChainTyped
<1>12. CASE LongerFork(p, b)
  <2> DEFINE save == IF Height[b] = estimatedHeight THEN ToSave(blocks', b, WholeInterval(b)) ELSE {}
             gap  == Gap(b, lastBlock)
             join == JoinHeight(b)
             new  == Line[b] \ Line[lastBlock]
  <2>1. save \subseteq Block
    BY ToSaveTyped
  <2>2. Finish(p, b, orphans, save)
    BY <1>12 DEF LongerFork
  <2>3. new \subseteq Block
    BY LineHolds
  <2>4. /\ heights' = IF gap = -1 THEN Confirm(UnconfirmAfter(heights, join), new)
                     ELSE UnconfirmAfter(heights, gap)
        /\ running' \in BOOLEAN
    BY <1>12 DEF LongerFork
  <2> HIDE DEF save, gap, join, new
  <2>5. RestTyped'
    BY <1>4, <2>1, <2>2
  <2>6. heights' \in [Tx -> KnownHeights]
    BY <2>3, <2>4, ConfirmTyped, UnconfirmTyped DEF ChainTyped
  <2> QED
    BY <1>5, <1>12, <2>4, <2>5, <2>6 DEF LongerFork, ChainTyped
<1> QED
  BY <1>1, <1>2, <1>6, <1>7, <1>8, <1>9, <1>10, <1>11, <1>12 DEF HandleBlock

LEMMA RestartTyped ==
    ASSUME TypeInv, Restart
    PROVE  TypeInv'
<1> USE DEF TypeInv
<1>1. PICK O \in SUBSET saved : OnePerParent(O) /\ NewManager(O)
  BY DEF Restart, OnePerParent
<1>2. O \subseteq Block
  BY DEF RestTyped
<1>3. blocks' \subseteq Block /\ lastBlock' \in Block /\ orphans' \subseteq O
  BY <1>1, <1>2, CheckpointAssumption DEF NewManager, CheckpointAssumption
<1>4. orphans' \subseteq Block /\ OnePerParent(orphans)'
  BY <1>1, <1>2, <1>3 DEF OnePerParent
<1>5. ChainTyped'
  BY <1>3 DEF Restart, ChainTyped
<1>6. /\ thread' \in [Peer -> [save : SUBSET Block, next : SUBSET Block]]
      /\ \A r \in Peer : \A x, y \in thread'[r].next : x = y
  BY IdleTyped DEF Restart
<1>7. queue' \in Seq(Call) /\ restarts' \in 0..MaxResumes /\ rescans' \in 0..MaxResumes
  BY PeerAssumption DEF Restart, RestTyped, PeerAssumption
<1> QED
  BY <1>4, <1>5, <1>6, <1>7 DEF Restart, RestTyped

LEMMA SaveBlocksTyped ==
    ASSUME TypeInv, NEW p \in Peer, SaveBlocks(p)
    PROVE  TypeInv'
<1> USE DEF TypeInv
<1>1. /\ thread' \in [Peer -> [save : SUBSET Block, next : SUBSET Block]]
      /\ \A r \in Peer : thread'[r].next = thread[r].next
  BY DEF SaveBlocks, RestTyped
<1> DEFINE call == [rows |-> thread[p].save, replace |-> Cardinality(thread[p].save) > 1]
<1>2. call \in Call
  BY DEF Call, RestTyped
<1>3. queue' = Append(queue, call)
  BY DEF SaveBlocks
<1> HIDE DEF call
<1>4. queue' \in Seq(Call)
  BY <1>2, <1>3 DEF RestTyped
<1>5. RestTyped'
  BY <1>1, <1>4 DEF SaveBlocks, RestTyped, OnePerParent
<1> QED
  BY <1>5 DEF SaveBlocks, ChainTyped

\* The executor takes the first call to pieces.
LEMMA FirstCall ==
    ASSUME NEW q \in Seq(Call), q # <<>>
    PROVE  /\ Head(q) = q[1] /\ q[1] \in Call /\ q[1].rows \subseteq Block
           /\ Tail(q) \in Seq(Call)
           /\ \A i \in 1..Len(Tail(q)) : Tail(q)[i] = q[i + 1] /\ i + 1 \in 1..Len(q)
           /\ [q EXCEPT ![1].replace = FALSE] \in Seq(Call)
           /\ Len([q EXCEPT ![1].replace = FALSE]) = Len(q)
           /\ \A i \in 1..Len(q) : [q EXCEPT ![1].replace = FALSE][i].rows = q[i].rows
<1>1. Head(q) = q[1] /\ 1 \in 1..Len(q) /\ q[1] \in Call
  OBVIOUS
<1>2. q[1].rows \subseteq Block
  BY <1>1 DEF Call
<1>3. /\ Tail(q) \in Seq(Call)
      /\ \A i \in 1..Len(Tail(q)) : Tail(q)[i] = q[i + 1] /\ i + 1 \in 1..Len(q)
  OBVIOUS
<1> DEFINE c == [q[1] EXCEPT !.replace = FALSE]
<1>4. c \in Call /\ c.rows = q[1].rows
  BY <1>1 DEF Call
<1>5. [q EXCEPT ![1].replace = FALSE] = [q EXCEPT ![1] = c]
  OBVIOUS
<1> HIDE DEF c
<1>6. /\ [q EXCEPT ![1] = c] \in Seq(Call)
      /\ Len([q EXCEPT ![1] = c]) = Len(q)
      /\ \A i \in 1..Len(q) : [q EXCEPT ![1] = c][i].rows = q[i].rows
  BY <1>1, <1>4
<1> QED
  BY <1>1, <1>2, <1>3, <1>5, <1>6

LEMMA TypeInvStep ==
    ASSUME TypeInv, [Next]_vars
    PROVE  TypeInv'
<1> USE DEF TypeInv
<1>1. CASE UNCHANGED vars
  BY <1>1 DEF vars, ChainTyped, RestTyped, OnePerParent
<1>2. ASSUME NEW p \in Peer, NEW b, HandleBlock(p, b), b \in Relays[p] \/ b \in thread[p].next
      PROVE  TypeInv'
  <2>1. b \in Block
    BY <1>2, PeerAssumption DEF PeerAssumption, RestTyped
  <2> QED
    BY <1>2, <2>1, HandleBlockTyped
<1>3. ASSUME NEW p \in Peer, SelectDownloadPeer(p)
      PROVE  TypeInv'
  BY <1>3, PeerAssumption DEF SelectDownloadPeer, PeerAssumption, ChainTyped, RestTyped, OnePerParent
<1>4. CASE DeleteBlocks
  <2>1. queue' \in Seq(Call)
    BY <1>4, FirstCall DEF DeleteBlocks, RestTyped
  <2> QED
    BY <1>4, <2>1 DEF DeleteBlocks, ChainTyped, RestTyped, OnePerParent
<1>5. CASE PutBlocks
  <2>1. queue' \in Seq(Call) /\ saved' \subseteq Block
    BY <1>5, FirstCall DEF PutBlocks, RestTyped
  <2> QED
    BY <1>5, <2>1 DEF PutBlocks, ChainTyped, RestTyped, OnePerParent
<1>6. CASE FreeFilter \/ LoadBloomFilter
  BY <1>6 DEF FreeFilter, LoadBloomFilter, ChainTyped, RestTyped, OnePerParent
<1>7. CASE Rescan
  BY <1>7, CheckpointAssumption, PeerAssumption
     DEF Rescan, CheckpointAssumption, PeerAssumption, ChainTyped, RestTyped, OnePerParent
<1> QED
  BY <1>1, <1>2, <1>3, <1>4, <1>5, <1>6, <1>7, SaveBlocksTyped, RestartTyped
     DEF Next, RelayedBlock, RelayedNext

LEMMA TypeInvInit == Init => TypeInv
<1> SUFFICES ASSUME Init PROVE TypeInv
  OBVIOUS
<1>1. ChainTyped
  BY CheckpointAssumption DEF Init, CheckpointAssumption, ChainTyped, KnownHeights
<1>2. /\ thread \in [Peer -> [save : SUBSET Block, next : SUBSET Block]]
      /\ \A r \in Peer : \A x, y \in thread[r].next : x = y
  BY IdleTyped DEF Init
<1>3. queue \in Seq(Call) /\ restarts \in 0..MaxResumes /\ rescans \in 0..MaxResumes
  BY PeerAssumption DEF Init, PeerAssumption
<1>4. RestTyped
  BY <1>2, <1>3 DEF Init, RestTyped, OnePerParent
<1> QED
  BY <1>1, <1>4 DEF TypeInv

\* Every variable of the manager, of its threads, of the calls on their way and of
\* the store has its type, the set of orphans holds one block for each parent, and
\* a thread has at most one orphan to go on with.
THEOREM ChainTypeCorrect == Spec => []TypeOK
<1>1. Spec => []TypeInv
  BY TypeInvInit, TypeInvStep, PTL DEF Spec
<1> QED
  BY <1>1, TypeInvImpliesTypeOK, PTL

-----------------------------------------------------------------------------
(* The rows of the store. *)

HasStart(S) == S # {} => \E t \in S : IsTransition(t)

\* What is saved, or on its way, starts at a transition.
RowsInv ==
    /\ \A r \in Peer : HasStart(thread[r].save)
    /\ \A i \in 1..Len(queue) : HasStart(queue[i].rows)
    /\ HasStart(saved)

LEMMA ToSaveStarts ==
    ASSUME NEW S, NEW b \in Block, NEW n
    PROVE  HasStart(ToSave(S, b, n))
<1> DEFINE walked == {c \in Walk(S, b) : Height[c] > Height[b] - n}
<1>1. ToSave(S, b, n) = {c \in walked : \E t \in walked : IsTransition(t) /\ Height[t] <= Height[c]}
  BY DEF ToSave
<1>2. walked \subseteq Block
  BY LineHolds DEF Walk
<1> HIDE DEF walked
<1> SUFFICES ASSUME NEW c \in ToSave(S, b, n)
             PROVE  \E t \in ToSave(S, b, n) : IsTransition(t)
  BY DEF HasStart
<1>3. PICK t \in walked : IsTransition(t)
  BY <1>1
<1>4. Height[t] <= Height[t]
  BY <1>2, HeightsAreNat
<1>5. t \in ToSave(S, b, n)
  BY <1>1, <1>3, <1>4
<1> QED
  BY <1>3, <1>5

LEMMA HandleBlockRows ==
    ASSUME TypeInv, RowsInv, NEW p \in Peer, NEW b \in Block, HandleBlock(p, b)
    PROVE  RowsInv'
<1> DEFINE job(save, next) == [save |-> save, next |-> next]
<1>1. ASSUME NEW save, NEW next, HasStart(save), thread' = [thread EXCEPT ![p] = job(save, next)],
             UNCHANGED <<queue, saved>>
      PROVE  RowsInv'
  <2> SUFFICES ASSUME NEW r \in Peer PROVE HasStart(thread'[r].save)
    BY <1>1 DEF RowsInv, HasStart, IsTransition
  <2>1. CASE r = p
    BY <1>1, <2>1 DEF TypeInv, RestTyped
  <2>2. CASE r # p
    BY <1>1, <2>2 DEF TypeInv, RestTyped, RowsInv
  <2> QED
    BY <2>1, <2>2
<1>2. HasStart({})
  BY DEF HasStart
<1>3. ASSUME FinishNoBlock(p) PROVE RowsInv'
  <2>1. thread' = [thread EXCEPT ![p] = job({}, {})] /\ UNCHANGED <<queue, saved>>
    BY <1>3 DEF FinishNoBlock, Idle
  <2> HIDE DEF job
  <2> QED
    BY <1>1, <1>2, <2>1
<1>4. ASSUME NEW others, NEW save, HasStart(save), Finish(p, b, others, save) PROVE RowsInv'
  <2> DEFINE next == {o \in others : Prev[o] = b}
  <2>1. thread' = [thread EXCEPT ![p] = job(save, next)] /\ UNCHANGED <<queue, saved>>
    BY <1>4 DEF Finish
  <2> HIDE DEF job, next
  <2> QED
    BY <1>1, <1>4, <2>1
<1>5. CASE ExtendsMain(p, b)
  <2> DEFINE save == CASE Height[b] = estimatedHeight -> ToSave(blocks', b, WholeInterval(b))
                       [] Height[b] # estimatedHeight /\ IsTransition(b) -> {b}
                       [] OTHER -> {}
  <2>1. HasStart(save)
    <3>1. HasStart(ToSave(blocks', b, WholeInterval(b)))
      BY ToSaveStarts
    <3>2. IsTransition(b) => HasStart({b})
      BY DEF HasStart
    <3> QED
      BY <1>2, <3>1, <3>2
  <2>2. Finish(p, b, orphans, save)
    BY <1>5 DEF ExtendsMain
  <2> HIDE DEF save
  <2> QED
    BY <1>4, <2>1, <2>2
<1>6. CASE LongerFork(p, b)
  <2> DEFINE save == IF Height[b] = estimatedHeight THEN ToSave(blocks', b, WholeInterval(b)) ELSE {}
  <2>1. HasStart(save)
    BY <1>2, ToSaveStarts
  <2>2. Finish(p, b, orphans, save)
    BY <1>6 DEF LongerFork
  <2> HIDE DEF save
  <2> QED
    BY <1>4, <2>1, <2>2
<1>7. CASE FilterPending(p, b) \/ Orphaned(p, b) \/ Invalid(p, b) \/ OldFork(p, b)
  BY <1>2, <1>3, <1>4, <1>7 DEF FilterPending, Orphaned, Invalid, OldFork
<1>8. CASE AlreadyHeld(p, b) \/ MinedDuringRescan(p, b) \/ ShorterFork(p, b)
  BY <1>2, <1>4, <1>8 DEF AlreadyHeld, MinedDuringRescan, ShorterFork
<1> QED
  BY <1>5, <1>6, <1>7, <1>8 DEF HandleBlock

LEMMA RowsInvStep ==
    ASSUME TypeInv, RowsInv, [Next]_vars
    PROVE  RowsInv'
<1>1. ASSUME UNCHANGED <<thread, queue, saved>> PROVE RowsInv'
  BY <1>1 DEF RowsInv, HasStart, IsTransition
<1>2. ASSUME NEW p \in Peer, NEW b, HandleBlock(p, b), b \in Relays[p] \/ b \in thread[p].next
      PROVE  RowsInv'
  <2>1. b \in Block
    BY <1>2, PeerAssumption DEF PeerAssumption, TypeInv, RestTyped
  <2> QED
    BY <1>2, <2>1, HandleBlockRows
<1>3. ASSUME NEW p \in Peer, SaveBlocks(p)
      PROVE  RowsInv'
  <2>1. \A r \in Peer : HasStart(thread'[r].save)
    <3> TAKE r \in Peer
    <3>1. thread'[r].save = IF r = p THEN {} ELSE thread[r].save
      BY <1>3 DEF SaveBlocks, TypeInv, RestTyped
    <3> QED
      BY <3>1 DEF RowsInv, HasStart
  <2> DEFINE call == [rows |-> thread[p].save, replace |-> Cardinality(thread[p].save) > 1]
  <2>2. call.rows = thread[p].save /\ queue' = Append(queue, call)
    BY <1>3 DEF SaveBlocks
  <2>3. call \in Call
    BY DEF Call, TypeInv, RestTyped
  <2> HIDE DEF call
  <2>4. \A i \in 1..Len(queue') : queue'[i] = IF i = Len(queue) + 1 THEN call ELSE queue[i]
    BY <2>2, <2>3 DEF TypeInv, RestTyped
  <2>5. \A i \in 1..Len(queue') : i = Len(queue) + 1 \/ i \in 1..Len(queue)
    BY <2>2, <2>3 DEF TypeInv, RestTyped
  <2>6. \A i \in 1..Len(queue') : HasStart(queue'[i].rows)
    BY <2>2, <2>4, <2>5 DEF RowsInv
  <2> QED
    BY <1>3, <2>1, <2>6 DEF SaveBlocks, RowsInv, HasStart, IsTransition
<1>4. CASE DeleteBlocks
  <2> DEFINE left == [queue EXCEPT ![1].replace = FALSE]
  <2>1. queue \in Seq(Call) /\ queue # <<>> /\ queue' = left
    BY <1>4 DEF DeleteBlocks, TypeInv, RestTyped
  <2>2. Len(left) = Len(queue) /\ \A i \in 1..Len(queue) : left[i].rows = queue[i].rows
    BY <2>1, FirstCall
  <2> HIDE DEF left
  <2>3. \A i \in 1..Len(queue') : HasStart(queue'[i].rows)
    BY <2>1, <2>2 DEF RowsInv
  <2> QED
    BY <1>4, <2>3 DEF DeleteBlocks, RowsInv, HasStart, IsTransition
<1>5. CASE PutBlocks
  <2>1. queue \in Seq(Call) /\ queue # <<>> /\ queue' = Tail(queue)
    BY <1>5 DEF PutBlocks, TypeInv, RestTyped
  <2>2. \A i \in 1..Len(Tail(queue)) : Tail(queue)[i] = queue[i + 1] /\ i + 1 \in 1..Len(queue)
    BY <2>1, FirstCall
  <2>3. \A i \in 1..Len(queue') : HasStart(queue'[i].rows)
    BY <2>1, <2>2 DEF RowsInv
  <2>4. 1 \in 1..Len(queue) /\ Head(queue) = queue[1]
    BY <1>5 DEF PutBlocks, TypeInv, RestTyped
  <2>5. HasStart(Head(queue).rows) /\ HasStart(saved)
    BY <2>4 DEF RowsInv
  <2>6. HasStart(saved')
    BY <1>5, <2>5 DEF PutBlocks, HasStart
  <2> QED
    BY <1>5, <2>3, <2>6 DEF PutBlocks, RowsInv, HasStart, IsTransition
<1>6. CASE Restart
  <2>1. \A r \in Peer : HasStart(thread'[r].save)
    BY <1>6, IdleTyped DEF Restart, HasStart
  <2>2. Len(queue') = 0 /\ saved' = saved
    BY <1>6 DEF Restart
  <2> QED
    BY <2>1, <2>2 DEF RowsInv, HasStart, IsTransition
<1>7. ASSUME NEW p \in Peer, SelectDownloadPeer(p) PROVE RowsInv'
  BY <1>1, <1>7 DEF SelectDownloadPeer
<1>8. CASE FreeFilter \/ LoadBloomFilter \/ Rescan \/ UNCHANGED vars
  BY <1>1, <1>8 DEF FreeFilter, LoadBloomFilter, Rescan, vars
<1> QED
  BY <1>2, <1>3, <1>4, <1>5, <1>6, <1>7, <1>8 DEF Next, RelayedBlock, RelayedNext

-----------------------------------------------------------------------------
(* The blocks that are held. *)

\* c is not below the last transition of a chain that ends with last.
Recent(c, last) == \A h \in Nat : h % Interval = 0 /\ h <= Height[last] => h <= Height[c]

\* The transition before c and the blocks from there to c are in S.
Verifiable(S, c) == \E t \in Walk(S, c) : IsTransition(t) /\ Height[c] < Height[t] + Interval

Sound(S, last) ==
    /\ last \in S
    /\ \A c \in S \ Checkpoints : Height[c] <= Height[last]
    /\ \A c \in S : Recent(c, last) => Verifiable(S, c)

ChainInv ==
    rescans = 0 =>
        /\ Sound(blocks, lastBlock)
        /\ \A o \in orphans : Prev[o] # lastBlock

LEMMA WalkStep ==
    ASSUME NEW S, NEW b \in Block, Prev[b] \in S, Prev[b] \in Block, NEW t \in Walk(S, Prev[b])
    PROVE  t \in Walk(S, b)
  BY LineOfChild DEF Walk

LEMMA WalkIsLine ==
    ASSUME NEW S, NEW b \in Block, NEW t \in Walk(S, b)
    PROVE  t \in Line[b] /\ t \in Block /\ Height[t] <= Height[b]
  BY LineHolds, LineIsBelow DEF Walk

LEMMA WalkStarts ==
    ASSUME NEW S, NEW b \in Block
    PROVE  b \in Walk(S, b)
  BY LineHolds, LineIsBelow, HeightsAreNat DEF Walk

LEMMA TransitionIsVerifiable ==
    ASSUME NEW S, NEW b \in Block, IsTransition(b)
    PROVE  Verifiable(S, b)
  BY WalkStarts, HeightsAreNat, IntervalIsNat DEF Verifiable

\* Freeing blocks below a transition of the main chain.
LEMMA FreeingIsSound ==
    ASSUME NEW S, S \subseteq Block, NEW last, Sound(S, last), NEW P,
           \A c \in P : \E h \in Nat : h % Interval = 0 /\ h <= Height[last] /\ Height[c] < h
    PROVE  Sound(S \ P, last)
<1>1. last \in S \ P
  BY HeightsAreNat DEF Sound
<1>2. ASSUME NEW c \in S \ P, Recent(c, last)
      PROVE  Verifiable(S \ P, c)
  <2>1. PICK t \in Walk(S, c) : IsTransition(t) /\ Height[c] < Height[t] + Interval
    BY <1>2 DEF Sound, Verifiable
  <2>2. c \in Block /\ t \in Block /\ t \in Line[c]
    BY WalkIsLine
  <2>3. ASSUME NEW d \in Line[c], Height[d] >= Height[t]
        PROVE  d \in (S \ P) \cup {c}
    <3>1. d \in S \cup {c}
      BY <2>1, <2>3 DEF Walk
    <3>2. ASSUME d \in P PROVE FALSE
      <4>1. PICK h \in Nat : h % Interval = 0 /\ h <= Height[last] /\ Height[d] < h
        BY <3>2
      <4>2. h <= Height[c]
        BY <1>2, <4>1 DEF Recent
      <4>3. h < Height[t] + Interval
        BY <2>1, <2>2, <4>2, HeightsAreNat, IntervalIsNat
      <4>4. h <= Height[t]
        BY <2>1, <2>2, <4>1, <4>3, TransitionOrder, HeightsAreNat DEF IsTransition
      <4>5. d \in Block
        BY <2>2, LineHolds
      <4> QED
        BY <2>2, <2>3, <4>1, <4>4, <4>5, HeightsAreNat
    <3> QED
      BY <3>1, <3>2
  <2>4. t \in Walk(S \ P, c)
    BY <2>2, <2>3 DEF Walk
  <2> QED
    BY <2>1, <2>4 DEF Verifiable
<1> QED
  BY <1>1, <1>2 DEF Sound

\* Adding a block whose parent is held, on the main chain or on a branch that is
\* not longer.
LEMMA AddingIsSound ==
    ASSUME NEW S, S \subseteq Block, NEW last, Sound(S, last), NEW b \in Block, NEW top,
           IsTransition(b) \/ Prev[b] \in S,
           \/ top = last /\ Height[b] <= Height[last]
           \/ top = b /\ Height[b] > Height[last]
    PROVE  Sound(S \cup {b}, top)
<1>1. last \in Block /\ top \in Block /\ top \in S \cup {b} /\ Height[last] <= Height[top]
  BY HeightsAreNat DEF Sound
<1>2. \A c \in (S \cup {b}) \ Checkpoints : Height[c] <= Height[top]
  BY <1>1, HeightsAreNat DEF Sound
<1>3. ASSUME NEW c \in S, Recent(c, top) PROVE Verifiable(S, c)
  <2>1. Recent(c, last)
    BY <1>1, <1>3, HeightsAreNat DEF Recent
  <2> QED
    BY <2>1 DEF Sound
<1>4. ASSUME NEW c \in Block, Verifiable(S, c) PROVE Verifiable(S \cup {b}, c)
  BY <1>4 DEF Verifiable, Walk
<1>5. ASSUME Recent(b, top) PROVE Verifiable(S \cup {b}, b)
  <2>1. CASE IsTransition(b)
    BY <2>1, TransitionIsVerifiable
  <2>2. CASE ~IsTransition(b) /\ Prev[b] \in S
    <3>1. Prev[b] \in Block /\ Height[b] = Height[Prev[b]] + 1
      BY <2>2, TreeAssumption DEF TreeAssumption
    <3>2. Recent(Prev[b], top)
      <4> SUFFICES ASSUME NEW h \in Nat, h % Interval = 0, h <= Height[top]
                   PROVE  h <= Height[Prev[b]]
        BY DEF Recent
      <4>1. h <= Height[b] /\ h # Height[b]
        BY <1>5, <2>2 DEF Recent, IsTransition
      <4> QED
        BY <3>1, <4>1, HeightsAreNat
    <3>3. PICK t \in Walk(S, Prev[b]) : IsTransition(t) /\ Height[Prev[b]] < Height[t] + Interval
      BY <1>3, <2>2, <3>2 DEF Verifiable
    <3>4. t \in Walk(S, b) /\ t \in Block
      BY <2>2, <3>1, <3>3, WalkStep, WalkIsLine
    <3>5. (Height[t] + Interval) % Interval = 0
      BY <3>3, <3>4, MultipleStep, HeightsAreNat DEF IsTransition
    <3>6. Height[b] < Height[t] + Interval
      <4>1. Height[b] # Height[t] + Interval
        BY <2>2, <3>5 DEF IsTransition
      <4> QED
        BY <3>1, <3>3, <3>4, <4>1, HeightsAreNat, IntervalIsNat
    <3> QED
      BY <1>4, <3>3, <3>4, <3>6 DEF Verifiable
  <2> QED
    BY <2>1, <2>2
<1> QED
  BY <1>1, <1>2, <1>3, <1>4, <1>5 DEF Sound

\* What a verification frees is below a transition of the main chain.
LEMMA PruningIsLow ==
    ASSUME TypeInv, Sound(blocks, lastBlock), NEW b \in Block, Prev[b] \in blocks, NEW c \in Pruned(b)
    PROVE  \E h \in Nat : h % Interval = 0 /\ h <= Height[lastBlock] /\ Height[c] < h
<1>1. IsTransition(b)
  BY DEF Pruned
<1>2. PICK t \in PrevTransition(b) : c \in Walk(blocks, t) /\ ~IsTransition(c)
  BY <1>1 DEF Pruned
<1>3. t \in Block /\ Height[t] = Height[b] - Interval
  BY <1>2, LineHolds DEF PrevTransition
<1>4. Height[t] \in Nat /\ Height[t] % Interval = 0
  BY <1>1, <1>3, MultipleStep, HeightsAreNat, IntervalIsNat DEF IsTransition
<1>5. Height[c] < Height[t]
  <2>1. c \in Line[t] /\ c \in Block /\ c # t
    BY <1>2, <1>3, <1>4, WalkIsLine DEF IsTransition
  <2> QED
    BY <1>3, <2>1, LineIsBelow, HeightsAreNat
<1>6. Height[t] <= Height[lastBlock]
  <2>1. Prev[b] \in Block /\ Height[b] = Height[Prev[b]] + 1
    BY TreeAssumption DEF TypeInv, ChainTyped, TreeAssumption
  <2>2. Prev[b] \notin Checkpoints
    <3>1. SUFFICES ASSUME Height[Prev[b]] % Interval = 0 PROVE FALSE
      BY CheckpointAssumption DEF CheckpointAssumption
    <3>2. Height[b] <= Height[Prev[b]]
      BY <1>1, <2>1, <3>1, TransitionOrder, HeightsAreNat, IntervalIsNat DEF IsTransition
    <3> QED
      BY <2>1, <3>2, HeightsAreNat
  <2>3. Height[Prev[b]] <= Height[lastBlock]
    BY <2>2 DEF Sound
  <2> QED
    BY <1>3, <2>1, <2>3, HeightsAreNat, IntervalIsNat DEF TypeInv, ChainTyped
<1> QED
  BY <1>4, <1>5, <1>6

\* What a relayed block does to the blocks that are held, to the last one and to
\* the orphans.
LEMMA HandleBlockEffect ==
    ASSUME TypeInv, NEW p \in Peer, NEW b \in Block, HandleBlock(p, b)
    PROVE  /\ lastBlock \in blocks
           /\ \/ UNCHANGED <<blocks, lastBlock>>
              \/ Prev[b] \in blocks /\ blocks' = Kept(b) /\ lastBlock' = lastBlock
              \/ /\ Prev[b] \in blocks /\ blocks' = Kept(b) \cup {b}
                 /\ \/ lastBlock' = lastBlock /\ Height[b] <= Height[lastBlock]
                    \/ lastBlock' = b /\ Height[b] > Height[lastBlock]
           /\ \/ lastBlock' = lastBlock /\ orphans' \subseteq orphans
              \/ lastBlock' = lastBlock /\ orphans' \subseteq orphans \cup {b} /\ Prev[b] # lastBlock
              \/ \A o \in orphans' : Prev[o] # lastBlock'
           /\ UNCHANGED rescans
<1>1. CASE FilterPending(p, b)
  BY <1>1 DEF HandleBlock, FilterPending, FinishNoBlock
<1>2. CASE Orphaned(p, b)
  BY <1>2 DEF HandleBlock, Orphaned, HasPrev, FinishNoBlock, Finish, AddOrphan
<1>3. CASE HasPrev(b) /\ Invalid(p, b)
  BY <1>3 DEF HandleBlock, HasPrev, Invalid, Kept, FinishNoBlock
<1>4. CASE HasPrev(b) /\ ExtendsMain(p, b)
  <2>1. Height[b] > Height[lastBlock]
    BY <1>4, TreeAssumption, HeightsAreNat DEF ExtendsMain, TypeInv, ChainTyped, TreeAssumption
  <2>2. \A o \in orphans' : Prev[o] # b
    BY <1>4 DEF ExtendsMain, Finish
  <2> QED
    BY <1>4, <2>1, <2>2 DEF HandleBlock, HasPrev, ExtendsMain, Finish
<1>5. CASE HasPrev(b) /\ AlreadyHeld(p, b)
  BY <1>5 DEF HandleBlock, HasPrev, AlreadyHeld, Finish
<1>6. CASE HasPrev(b) /\ MinedDuringRescan(p, b)
  BY <1>6 DEF HandleBlock, HasPrev, MinedDuringRescan, NotHeld, Finish, AddOrphan
<1>7. CASE HasPrev(b) /\ OldFork(p, b)
  BY <1>7 DEF HandleBlock, HasPrev, OldFork, FinishNoBlock
<1>8. CASE HasPrev(b) /\ ShorterFork(p, b)
  BY <1>8 DEF HandleBlock, HasPrev, ShorterFork, Finish
<1>9. CASE HasPrev(b) /\ LongerFork(p, b)
  <2>1. \A o \in orphans' : Prev[o] # b
    BY <1>9 DEF LongerFork, Finish
  <2> QED
    BY <1>9, <2>1 DEF HandleBlock, HasPrev, LongerFork, Finish
<1> QED
  BY <1>1, <1>2, <1>3, <1>4, <1>5, <1>6, <1>7, <1>8, <1>9 DEF HandleBlock

LEMMA HandleBlockSound ==
    ASSUME TypeInv, ChainInv, NEW p \in Peer, NEW b \in Block, HandleBlock(p, b)
    PROVE  ChainInv'
<1>1. rescans' = rescans
  BY HandleBlockEffect
<1> SUFFICES ASSUME rescans = 0
             PROVE  Sound(blocks', lastBlock') /\ \A o \in orphans' : Prev[o] # lastBlock'
  BY <1>1 DEF ChainInv, Sound, Verifiable, Walk, Recent, IsTransition
<1>2. Sound(blocks, lastBlock) /\ \A o \in orphans : Prev[o] # lastBlock
  BY DEF ChainInv
<1>3. blocks \subseteq Block /\ lastBlock \in Block
  BY DEF TypeInv, ChainTyped
<1>4. ASSUME Prev[b] \in blocks PROVE Sound(Kept(b), lastBlock)
  <2>1. \A c \in Pruned(b) : \E h \in Nat : h % Interval = 0 /\ h <= Height[lastBlock] /\ Height[c] < h
    BY <1>2, <1>4, PruningIsLow
  <2> QED
    BY <1>2, <1>3, <2>1, FreeingIsSound DEF Kept
<1>5. ASSUME NEW top, Prev[b] \in blocks,
             \/ top = lastBlock /\ Height[b] <= Height[lastBlock]
             \/ top = b /\ Height[b] > Height[lastBlock]
      PROVE  Sound(Kept(b) \cup {b}, top)
  <2>1. IsTransition(b) \/ Prev[b] \in Kept(b)
    BY <1>5 DEF Kept, Pruned
  <2>2. Kept(b) \subseteq Block
    BY <1>3 DEF Kept
  <2>3. Sound(Kept(b), lastBlock)
    BY <1>4, <1>5
  <2> HIDE DEF Kept
  <2> QED
    BY <1>5, <2>1, <2>2, <2>3, AddingIsSound
<1>6. Sound(blocks', lastBlock')
  BY <1>2, <1>4, <1>5, HandleBlockEffect
<1>7. \A o \in orphans' : Prev[o] # lastBlock'
  BY <1>2, HandleBlockEffect
<1> QED
  BY <1>6, <1>7

\* A restart takes up the rows from a highest transition on.
LEMMA RestartIsSound ==
    ASSUME TypeInv, RowsInv, Restart
    PROVE  ChainInv'
<1>1. PICK O \in SUBSET saved : NewManager(O) /\ \A b \in saved : \E o \in O : Prev[o] = Prev[b]
  BY DEF Restart
<1>2. O \subseteq Block
  BY DEF TypeInv, RestTyped
<1>3. Checkpoints \subseteq Block /\ StartBlock \in Checkpoints /\ \A c \in Checkpoints : IsTransition(c)
  BY CheckpointAssumption DEF CheckpointAssumption, IsTransition
<1> DEFINE starts == {b \in O : IsTransition(b)}
<1> SUFFICES Sound(blocks', lastBlock') /\ \A o \in orphans' : Prev[o] # lastBlock'
  BY DEF ChainInv, Sound, Verifiable, Walk, Recent, IsTransition
<1>4. CASE starts = {} /\ blocks' = Checkpoints /\ orphans' = O /\ lastBlock' = StartBlock
  <2>1. O = {}
    <3> SUFFICES ASSUME O # {} PROVE FALSE
      OBVIOUS
    <3>1. PICK t \in saved : IsTransition(t)
      BY DEF RowsInv, HasStart
    <3>2. PICK o \in O : Prev[o] = Prev[t]
      BY <1>1, <3>1
    <3>3. Height[o] = Height[t]
      BY <1>2, <3>1, <3>2, TreeAssumption DEF TypeInv, RestTyped, TreeAssumption
    <3> QED
      BY <1>4, <3>1, <3>2, <3>3 DEF IsTransition
  <2>2. \A c \in Checkpoints : Verifiable(Checkpoints, c)
    BY <1>3, TransitionIsVerifiable
  <2> QED
    BY <1>3, <1>4, <2>1, <2>2 DEF Sound
<1>5. ASSUME NEW start \in starts, NEW top \in O,
             \A c \in starts : Height[c] <= Height[start],
             NEW chain, chain = {b \in O : start \in Walk(O, b)},
             top \in chain, \A c \in chain : Height[c] <= Height[top],
             blocks' = Checkpoints \cup chain, orphans' = O \ chain, lastBlock' = top
      PROVE  Sound(blocks', lastBlock') /\ \A o \in orphans' : Prev[o] # lastBlock'
  <2>1. start \in Block /\ top \in Block /\ chain \subseteq Block /\ IsTransition(start)
    BY <1>2, <1>5
  <2>2. ASSUME NEW c \in chain, NEW d \in Line[c], Height[d] >= Height[start]
        PROVE  d \in chain
    <3>1. c \in O /\ c \in Block /\ start \in Walk(O, c) /\ d \in Block
      BY <1>5, <2>1, LineHolds
    <3>2. \A e \in Line[c] : Height[e] >= Height[start] => e \in O
      BY <3>1 DEF Walk
    <3>3. start \in Line[d]
      BY <2>1, <2>2, <3>1, WalkIsLine, LineIsOrdered, HeightsAreNat
    <3>4. \A e \in Line[d] : e \in Line[c]
      <4>1. \A e \in Line[c] : e \in Line[c] /\ Prev[e] \in Block => Prev[e] \in Line[c]
        BY <3>1, LineHolds
      <4>2. \A e \in Line[d] : e \in Line[c] /\ Prev[e] \in Block => Prev[e] \in Line[c]
        BY <3>1, LineHolds
      <4> QED
        BY <2>2, <3>1, <4>2, LineLeast
    <3>5. start \in Walk(O, d)
      BY <3>2, <3>3, <3>4 DEF Walk
    <3> QED
      BY <1>5, <2>2, <3>2, <3>5
  <2>3. ASSUME NEW c \in chain PROVE Verifiable(blocks', c)
    <3>1. c \in Block /\ start \in Line[c]
      BY <1>5, <2>1, WalkIsLine
    <3>2. start \in Walk(blocks', c)
      BY <1>5, <2>2, <3>1 DEF Walk
    <3>3. Height[c] < Height[start] + Interval
      <4> SUFFICES ASSUME Height[start] + Interval <= Height[c] PROVE FALSE
        BY <2>1, <3>1, HeightsAreNat, IntervalIsNat
      <4> DEFINE h == Height[start] + Interval
      <4>0. Height[start] \in Nat /\ Height[start] % Interval = 0
        BY <2>1, HeightsAreNat DEF IsTransition
      <4>1. h \in Nat /\ h % Interval = 0 /\ Height[start] <= h /\ h # Height[start]
        <5>1. (Height[start] + Interval) % Interval = 0
          BY <4>0, MultipleStep
        <5> QED
          BY <4>0, <5>1, IntervalIsNat
      <4>2. h <= Height[c]
        OBVIOUS
      <4> HIDE DEF h
      <4>3. PICK d \in Line[c] : Height[d] = h
        BY <3>1, <4>1, <4>2, LineIsDense
      <4>4. d \in chain
        BY <2>2, <4>1, <4>3
      <4>5. d \in starts
        BY <1>5, <4>1, <4>3, <4>4 DEF IsTransition
      <4> QED
        BY <1>5, <2>1, <4>1, <4>3, <4>5, HeightsAreNat
    <3> QED
      BY <2>1, <3>2, <3>3 DEF Verifiable
  <2>4. \A c \in Checkpoints : Verifiable(blocks', c)
    BY <1>3, TransitionIsVerifiable
  <2>5. Sound(blocks', lastBlock')
    BY <1>5, <2>3, <2>4 DEF Sound
  <2>6. ASSUME NEW o \in orphans', Prev[o] = top PROVE FALSE
    <3>1. o \in O /\ o \notin chain /\ o \in Block
      BY <1>2, <1>5, <2>6
    <3>2. start \in Walk(O, top) /\ Height[o] = Height[top] + 1
      BY <1>5, <2>1, <2>6, <3>1, TreeAssumption DEF TreeAssumption
    <3>3. start \in Walk(O, o)
      BY <2>1, <2>6, <3>1, <3>2, WalkStep
    <3> QED
      BY <1>5, <3>1, <3>3
  <2> QED
    BY <1>5, <2>5, <2>6
<1> QED
  BY <1>1, <1>4, <1>5 DEF NewManager

LEMMA ChainInvStep ==
    ASSUME TypeInv, RowsInv, ChainInv, [Next]_vars
    PROVE  ChainInv'
<1>1. ASSUME UNCHANGED <<blocks, lastBlock, rescans>>, orphans' \subseteq orphans PROVE ChainInv'
  BY <1>1 DEF ChainInv, Sound, Verifiable, Walk, Recent, IsTransition
<1>2. ASSUME NEW p \in Peer, NEW b, HandleBlock(p, b), b \in Relays[p] \/ b \in thread[p].next
      PROVE  ChainInv'
  <2>1. b \in Block
    BY <1>2, PeerAssumption DEF PeerAssumption, TypeInv, RestTyped
  <2> QED
    BY <1>2, <2>1, HandleBlockSound
<1>3. ASSUME NEW p \in Peer, SelectDownloadPeer(p) \/ SaveBlocks(p) PROVE ChainInv'
  BY <1>1, <1>3 DEF SelectDownloadPeer, SaveBlocks
<1>4. CASE DeleteBlocks \/ PutBlocks \/ FreeFilter \/ LoadBloomFilter \/ UNCHANGED vars
  BY <1>1, <1>4 DEF DeleteBlocks, PutBlocks, FreeFilter, LoadBloomFilter, vars
<1>5. CASE Rescan
  <2>1. rescans' # 0
    BY <1>5 DEF Rescan, TypeInv, RestTyped
  <2> QED
    BY <2>1 DEF ChainInv
<1> QED
  BY <1>2, <1>3, <1>4, <1>5, RestartIsSound DEF Next, RelayedBlock, RelayedNext

Inv == TypeInv /\ RowsInv /\ ChainInv

LEMMA InvInit == Init => Inv
<1> SUFFICES ASSUME Init PROVE Inv
  OBVIOUS
<1>1. RowsInv
  BY IdleTyped DEF Init, RowsInv, HasStart
<1>2. Checkpoints \subseteq Block /\ StartBlock \in Checkpoints /\ \A c \in Checkpoints : IsTransition(c)
  BY CheckpointAssumption DEF CheckpointAssumption, IsTransition
<1>3. \A c \in Checkpoints : Verifiable(Checkpoints, c)
  BY <1>2, TransitionIsVerifiable
<1>4. ChainInv
  BY <1>2, <1>3 DEF Init, ChainInv, Sound
<1> QED
  BY <1>1, <1>4, TypeInvInit DEF Inv

LEMMA InvHolds == Spec => []Inv
<1>1. Inv /\ [Next]_vars => Inv'
  BY TypeInvStep, RowsInvStep, ChainInvStep DEF Inv
<1> QED
  BY <1>1, InvInit, PTL DEF Spec

\* After any number of reorganisations, verifications that free blocks, partial saves and
\* restarts from what was saved, the manager can verify the block at the next
\* transition, as long as no rescan has moved the last block back.
THEOREM VerifiableCorrect == Spec => []TipIsVerifiable
<1>1. Inv => TipIsVerifiable
  <2> SUFFICES ASSUME Inv, rescans = 0
               PROVE  /\ lastBlock \in blocks
                      /\ \E t \in Walk(blocks, lastBlock) :
                            IsTransition(t) /\ Height[t] > Height[lastBlock] - Interval
    BY DEF TipIsVerifiable
  <2>1. lastBlock \in blocks /\ lastBlock \in Block
    BY DEF Inv, ChainInv, Sound, TypeInv, ChainTyped
  <2>2. Recent(lastBlock, lastBlock)
    BY DEF Recent
  <2>3. PICK t \in Walk(blocks, lastBlock) :
          IsTransition(t) /\ Height[lastBlock] < Height[t] + Interval
    BY <2>1, <2>2 DEF Inv, ChainInv, Sound, Verifiable
  <2>4. Height[t] > Height[lastBlock] - Interval
    BY <2>1, <2>3, WalkIsLine, HeightsAreNat, IntervalIsNat
  <2> QED
    BY <2>1, <2>3, <2>4
<1> QED
  BY <1>1, InvHolds, PTL

\* No block that is held is higher than the last one, checkpoints excepted.
THEOREM HighestCorrect == Spec => []TipIsHighest
<1>1. Inv => TipIsHighest
  BY DEF Inv, ChainInv, Sound, TipIsHighest
<1> QED
  BY <1>1, InvHolds, PTL

\* No orphan waits for the last block, whichever thread handles which block first.
THEOREM OrphansCorrect == Spec => []NoOrphanExtendsTip
<1>1. Inv => NoOrphanExtendsTip
  BY DEF Inv, ChainInv, NoOrphanExtendsTip
<1> QED
  BY <1>1, InvHolds, PTL

-----------------------------------------------------------------------------
(* The branch of the last block, while the network keeps what it promises. *)

LEMMA LeastNumber ==
    ASSUME NEW S \in SUBSET Nat, S # {}
    PROVE  \E x \in S : \A y \in S : x <= y
<1>1. PICK x \in S : \A y \in S : <<y, x>> \notin OpToRel(<, Nat)
  BY NatLessThanWellFounded, WFMin
<1>2. \A y \in S : ~(y < x)
  BY <1>1 DEF OpToRel
<1> QED
  BY <1>2

LEMMA MaxIsElement ==
    ASSUME NEW n \in Nat, NEW S \in SUBSET (0..n), S # {}
    PROVE  Max(S) \in S /\ \A y \in S : y <= Max(S)
<1> DEFINE T == {n - x : x \in S}
<1>1. T \in SUBSET Nat /\ T # {}
  <2>1. \A x \in S : n - x \in Nat
    OBVIOUS
  <2>2. \A v \in T : v \in Nat
    BY <2>1
  <2>3. PICK x \in S : TRUE
    OBVIOUS
  <2>4. n - x \in T
    BY <2>3
  <2> QED
    BY <2>2, <2>4
<1>2. PICK u \in T : \A v \in T : u <= v
  BY <1>1, LeastNumber
<1>3. PICK x \in S : u = n - x
  BY <1>2
<1>4. \A y \in S : x >= y
  <2> TAKE y \in S
  <2>1. n - y \in T
    OBVIOUS
  <2>2. n - x <= n - y
    BY <1>2, <1>3, <2>1
  <2> QED
    BY <2>2
<1> QED
  BY <1>3, <1>4 DEF Max

LEMMA LineIsTransitive ==
    ASSUME NEW b \in Block, NEW c \in Line[b]
    PROVE  Line[c] \subseteq Line[b]
<1>1. c \in Block
  BY LineHolds
<1>2. \A d \in Line[c] : d \in Line[b] /\ Prev[d] \in Block => Prev[d] \in Line[b]
  BY LineHolds
<1> QED
  BY <1>1, <1>2, LineLeast

\* The last checkpoint is above the others.
LEMMA CheckpointLine ==
    ASSUME CheckpointsAreOneLine
    PROVE  /\ LastCheckpoint \in Nat
           /\ \A k \in Checkpoints : Height[k] <= LastCheckpoint
           /\ \E k \in Checkpoints : Height[k] = LastCheckpoint
           /\ \A k, m \in Checkpoints : Height[k] <= Height[m] => k \in Line[m]
<1>1. PICK last \in Checkpoints : Checkpoints \subseteq Line[last]
  BY DEF CheckpointsAreOneLine
<1>2. last \in Block /\ Checkpoints \subseteq Block /\ Height[last] \in Nat
  BY CheckpointAssumption, HeightsAreNat DEF CheckpointAssumption
<1> DEFINE S == {Height[k] : k \in Checkpoints}
<1>3. \A k \in Checkpoints : Height[k] \in 0..Height[last]
  BY <1>1, <1>2, LineIsBelow, HeightsAreNat
<1>4. S \in SUBSET (0..Height[last]) /\ S # {}
  BY <1>3
<1>5. Max(S) \in S /\ \A y \in S : y <= Max(S)
  <2> HIDE DEF S
  <2> QED
    BY <1>2, <1>4, MaxIsElement
<1>6. LastCheckpoint = Max(S)
  BY DEF LastCheckpoint
<1>7. \A k, m \in Checkpoints : Height[k] <= Height[m] => k \in Line[m]
  BY <1>1, <1>2, LineIsOrdered
<1>8. LastCheckpoint \in S /\ \A k \in Checkpoints : Height[k] <= LastCheckpoint
  BY <1>5, <1>6
<1>9. LastCheckpoint \in Nat /\ \E k \in Checkpoints : Height[k] = LastCheckpoint
  BY <1>8, <1>2, <1>3
<1> QED
  BY <1>7, <1>8, <1>9

\* Two branches join at the highest block that they share.
LEMMA BranchesJoin ==
    ASSUME NEW b \in Block, lastBlock \in Block, Line[b] \cap Line[lastBlock] # {}
    PROVE  \E j \in Line[b] \cap Line[lastBlock] :
              /\ Height[j] = JoinHeight(b)
              /\ \A c \in Line[b] \cap Line[lastBlock] : Height[c] <= Height[j]
              /\ Line[b] \cap Line[lastBlock] = Line[j]
<1> DEFINE both == Line[b] \cap Line[lastBlock]
           S == {Height[c] : c \in both}
<1>1. \A c \in both : c \in Block /\ Height[c] \in 0..Height[b]
  BY LineHolds, LineIsBelow, HeightsAreNat
<1>2. S \in SUBSET (0..Height[b]) /\ S # {} /\ Height[b] \in Nat
  BY <1>1, HeightsAreNat
<1>3. Max(S) \in S /\ \A y \in S : y <= Max(S)
  <2> HIDE DEF S
  <2> QED
    BY <1>2, MaxIsElement
<1>4. JoinHeight(b) = Max(S)
  BY DEF JoinHeight
<1>5. PICK j \in both : Height[j] = Max(S)
  BY <1>3
<1>6. \A c \in both : Height[c] <= Height[j]
  BY <1>3, <1>5
<1>7. both \subseteq Line[j]
  BY <1>6, LineIsOrdered
<1>8. Line[j] \subseteq both
  BY <1>5, LineIsTransitive
<1> QED
  BY <1>4, <1>5, <1>6, <1>7, <1>8

\* A line of which the upper part is held has as many blocks as heights.
LEMMA WalkIsLong ==
    ASSUME NEW S, NEW b \in Block, NEW n \in Nat, NEW low \in Line[b],
           Height[low] + n <= Height[b],
           \A d \in Line[b] : Height[b] <= Height[d] + n => d \in S \cup {b}
    PROVE  Cardinality(Walk(S, b)) \in Nat /\ Cardinality(Walk(S, b)) > n
<1>1. Height[b] \in Nat /\ Height[low] \in Nat /\ \A c \in Line[b] : c \in Block /\ Height[c] \in Nat
  BY LineHolds, HeightsAreNat
<1> DEFINE W == Walk(S, b)
           g == [c \in W |-> Height[c]]
           f == [i \in 0..n |-> CHOOSE c \in Line[b] : Height[c] = Height[b] - i]
<1>2. W \subseteq Line[b]
  BY DEF Walk
<1>3. IsFiniteSet(W)
  <2>1. \A c, d \in Line[b] : Height[c] = Height[d] => c = d
    <3> SUFFICES ASSUME NEW c \in Line[b], NEW d \in Line[b], Height[c] = Height[d]
                 PROVE  c = d
      OBVIOUS
    <3>1. d \in Line[c]
      BY <1>1, LineIsOrdered
    <3> QED
      BY <1>1, <3>1, LineIsBelow
  <2>2. \A c \in W : Height[c] \in 0..Height[b]
    BY <1>1, <1>2, LineIsBelow
  <2>3. g \in Injection(W, 0..Height[b])
    BY <1>2, <2>1, <2>2 DEF Injection, IsInjective
  <2>4. IsFiniteSet(0..Height[b])
    <3> DEFINE m == Height[b]
    <3>1. 0 \in Int /\ m \in Int
      BY <1>1
    <3> HIDE DEF m
    <3>2. IsFiniteSet(0..m)
      BY <3>1, FS_Interval
    <3> QED
      BY <3>2 DEF m
  <2> QED
    BY <2>3, <2>4, FS_Injection
<1>4. \A i \in 0..n : f[i] \in Line[b] /\ Height[f[i]] = Height[b] - i
  <2> TAKE i \in 0..n
  <2>1. Height[b] - i \in Nat /\ Height[low] <= Height[b] - i /\ Height[b] - i <= Height[b]
    BY <1>1
  <2>2. \E c \in Line[b] : Height[c] = Height[b] - i
    BY <2>1, LineIsDense
  <2> QED
    BY <2>2
<1>5. \A i \in 0..n : f[i] \in W
  <2> TAKE i \in 0..n
  <2>1. \A d \in Line[b] : Height[d] >= Height[f[i]] => d \in S \cup {b}
    BY <1>1, <1>4
  <2> QED
    BY <1>4, <2>1 DEF Walk
<1>6. f \in Injection(0..n, W)
  <2>1. \A i, k \in 0..n : f[i] = f[k] => i = k
    BY <1>1, <1>4
  <2>2. f \in [0..n -> W]
    BY <1>5
  <2> HIDE DEF f
  <2> QED
    BY <2>1, <2>2 DEF Injection, IsInjective
<1>7. Cardinality(0..n) <= Cardinality(W)
  <2> HIDE DEF f, W
  <2> QED
    BY <1>3, <1>6, FS_Injection
<1>8. Cardinality(0..n) = n + 1
  BY FS_Interval
<1>9. Cardinality(W) \in Nat
  <2> HIDE DEF W
  <2> QED
    BY <1>3, FS_CardinalityType
<1> QED
  BY <1>7, <1>8, <1>9

\* d is an ancestor of c that has to be held: no checkpoint lies between them, and no
\* verification has freed it yet, not even one of a block that follows height n.
IsKept(d, c, n) ==
    /\ \A k \in Checkpoints : Height[k] <= Height[c] => Height[k] <= Height[d]
    /\ \A h \in Nat : h % Interval = 0 /\ h <= n + 1 => h <= Height[d] + Interval

\* The blocks of S lie on the line of the checkpoints, and so much of their lines is in S.
Rooted(S, n) ==
    /\ \A c \in S : \A k \in Checkpoints : Height[k] <= Height[c] => k \in Line[c]
    /\ \A c \in S : \A d \in Line[c] : IsKept(d, c, n) => d \in S

\* The heights h are those of the branch of last.
BranchHeights(h, last) ==
    /\ \A c \in Line[last] : \A t \in Txs[c] : h[t] = Height[c]
    /\ \A t \in Tx : h[t] # TX_UNCONFIRMED => \E c \in Line[last] : t \in Txs[c]

BranchInv ==
    restarts + rescans = 0 =>
        /\ lastBlock \in ValidBlock
        /\ Rooted(blocks, Height[lastBlock])
        /\ BranchHeights(heights, lastBlock)

\* The only steps that the chain takes.
Extends(b) == Prev[b] = lastBlock /\ heights' = Confirm(heights, {b})
Replaces(b) ==
    /\ Height[b] > Height[lastBlock]
    /\ \E j \in Line[lastBlock] \cap Line[b] :
          /\ Line[b] \cap Line[lastBlock] = Line[j]
          /\ heights' = Confirm(UnconfirmAfter(heights, Height[j]), Line[b] \ Line[j])
ChainStep ==
    \/ UNCHANGED <<lastBlock, heights>>
    \/ lastBlock' \in ValidBlock /\ (Extends(lastBlock') \/ Replaces(lastBlock'))

\* What a verification frees is below what is kept.
LEMMA PruningIsDeep ==
    ASSUME TypeInv, Sound(blocks, lastBlock), NEW b \in Block, Prev[b] \in blocks,
           NEW c \in Block, NEW d \in Pruned(b)
    PROVE  ~ IsKept(d, c, Height[lastBlock])
<1>1. IsTransition(b)
  BY DEF Pruned
<1>2. PICK t \in PrevTransition(b) : d \in Walk(blocks, t) /\ ~IsTransition(d)
  BY <1>1 DEF Pruned
<1>3. t \in Block /\ Height[t] = Height[b] - Interval
  BY <1>2, LineHolds DEF PrevTransition
<1>4. Height[t] \in Nat /\ Height[t] % Interval = 0
  BY <1>1, <1>3, MultipleStep, HeightsAreNat, IntervalIsNat DEF IsTransition
<1>5. Height[d] < Height[t] /\ Height[d] \in Nat
  <2>1. d \in Line[t] /\ d \in Block /\ d # t
    BY <1>2, <1>3, <1>4, WalkIsLine DEF IsTransition
  <2> QED
    BY <1>3, <2>1, LineIsBelow, HeightsAreNat
<1>6. Height[b] <= Height[lastBlock] + 1
  <2>1. Prev[b] \in Block /\ Height[b] = Height[Prev[b]] + 1
    BY TreeAssumption DEF TypeInv, ChainTyped, TreeAssumption
  <2>2. Prev[b] \notin Checkpoints
    <3>1. SUFFICES ASSUME Height[Prev[b]] % Interval = 0 PROVE FALSE
      BY CheckpointAssumption DEF CheckpointAssumption
    <3>2. Height[b] <= Height[Prev[b]]
      BY <1>1, <2>1, <3>1, TransitionOrder, HeightsAreNat, IntervalIsNat DEF IsTransition
    <3> QED
      BY <2>1, <3>2, HeightsAreNat
  <2>3. Height[Prev[b]] <= Height[lastBlock]
    BY <2>2 DEF Sound
  <2> QED
    BY <2>1, <2>3, HeightsAreNat DEF TypeInv, ChainTyped
<1>7. Height[b] \in Nat /\ Height[b] % Interval = 0 /\ ~ (Height[b] <= Height[d] + Interval)
  BY <1>1, <1>3, <1>4, <1>5, HeightsAreNat, IntervalIsNat DEF IsTransition
<1> QED
  BY <1>6, <1>7 DEF IsKept

\* Verifying a block leaves the others rooted.
LEMMA FreeingIsRooted ==
    ASSUME TypeInv, Sound(blocks, lastBlock), Rooted(blocks, Height[lastBlock]),
           NEW b \in Block, Prev[b] \in blocks
    PROVE  Rooted(Kept(b), Height[lastBlock])
<1>1. ASSUME NEW c \in Kept(b), NEW d \in Line[c], IsKept(d, c, Height[lastBlock])
      PROVE  d \in Kept(b)
  <2>1. c \in blocks /\ c \in Block
    BY DEF Kept, TypeInv, ChainTyped
  <2>2. d \in blocks
    BY <1>1, <2>1 DEF Rooted
  <2>3. d \notin Pruned(b)
    BY <1>1, <2>1, PruningIsDeep
  <2> QED
    BY <2>2, <2>3 DEF Kept
<1> QED
  BY <1>1 DEF Rooted, Kept

\* So does adding it, whether it becomes the last block or not.
LEMMA AddingIsRooted ==
    ASSUME TypeInv, Sound(blocks, lastBlock), Rooted(blocks, Height[lastBlock]),
           NEW b \in Block, Prev[b] \in blocks,
           \A c \in Checkpoints : Height[c] = Height[b] => c = b,
           NEW n \in Nat, n >= Height[lastBlock]
    PROVE  Rooted(Kept(b) \cup {b}, n)
<1> DEFINE a == Prev[b]
           last == Height[lastBlock]
<1>1. a \in Block /\ a \in blocks /\ Height[b] = Height[a] + 1 /\ Line[b] = {b} \cup Line[a]
  BY TreeAssumption, LineOfChild DEF TypeInv, ChainTyped, TreeAssumption
<1>2. last \in Nat /\ Height[a] \in Nat /\ Height[b] \in Nat /\ n \in Nat /\ n >= last
  BY <1>1, HeightsAreNat DEF TypeInv, ChainTyped
<1>3. \A k \in Checkpoints : Height[k] \in Nat
  BY HeightsAreNat, CheckpointAssumption DEF CheckpointAssumption
<1>4. Rooted(Kept(b), last)
  BY FreeingIsRooted
<1> HIDE DEF a, last
<1>5. \A d, c \in Block : IsKept(d, c, n) => IsKept(d, c, last)
  BY <1>2 DEF IsKept
<1>6. \A d \in Block : IsKept(d, b, n) => IsKept(d, a, n)
  BY <1>1, <1>2, <1>3 DEF IsKept
<1>7. ASSUME NEW k \in Checkpoints, Height[k] <= Height[b]
      PROVE  k \in Line[b]
  <2>1. CASE Height[k] = Height[b]
    BY <2>1, LineHolds
  <2>2. CASE Height[k] # Height[b]
    <3>1. Height[k] <= Height[a]
      BY <1>1, <1>2, <1>3, <1>7, <2>2
    <3>2. k \in Line[a]
      BY <1>1, <3>1 DEF Rooted
    <3> QED
      BY <1>1, <3>2
  <2> QED
    BY <2>1, <2>2
<1>8. ASSUME NEW d \in Line[b], IsKept(d, b, n)
      PROVE  d \in Kept(b) \cup {b}
  <2>1. CASE d \in Line[a]
    <3>1. d \in Block
      BY <1>1, <2>1, LineHolds
    <3>2. IsKept(d, a, last)
      BY <1>1, <1>5, <1>6, <1>8, <3>1
    <3>3. d \in blocks
      BY <1>1, <2>1, <3>2 DEF Rooted, last
    <3>4. d \notin Pruned(b)
      BY <1>1, <3>2, PruningIsDeep DEF last
    <3> QED
      BY <3>3, <3>4 DEF Kept
  <2> QED
    BY <1>1, <2>1
<1>9. ASSUME NEW c \in Kept(b), NEW d \in Line[c], IsKept(d, c, n)
      PROVE  d \in Kept(b)
  <2>1. c \in Block /\ d \in Block
    BY LineHolds DEF Kept, TypeInv, ChainTyped
  <2>2. IsKept(d, c, last)
    BY <1>5, <1>9, <2>1
  <2> QED
    BY <1>4, <1>9, <2>2 DEF Rooted
<1> QED
  BY <1>4, <1>7, <1>8, <1>9 DEF Rooted

\* A block above the last one has enough ancestors for its difficulty to be verified.
LEMMA TipIsValid ==
    ASSUME TypeInv, Sound(blocks, lastBlock), Rooted(blocks, Height[lastBlock]),
           CheckpointsAreOneLine,
           NEW b \in Block, Prev[b] \in blocks, VerifyBlock(b), Height[b] > Height[lastBlock]
    PROVE  b \in ValidBlock
<1>1. \A c \in Checkpoints : Height[c] = Height[b] => c = b
  BY DEF VerifyBlock
<1> SUFFICES ASSUME b \in BadTarget, ~(Height[b] - 1 <= LastCheckpoint + Past) PROVE FALSE
  BY <1>1 DEF ValidBlock
<1>2. Height[b] \in Nat /\ Height[lastBlock] \in Nat /\ LastCheckpoint \in Nat /\ Past \in Nat
      /\ Past <= Interval
  BY HeightsAreNat, CheckpointLine DEF TypeInv, ChainTyped, CheckpointsAreOneLine
<1>3. Rooted(Kept(b) \cup {b}, Height[lastBlock])
  BY <1>1, <1>2, AddingIsRooted
<1>4. PICK low \in Checkpoints : Height[low] = LastCheckpoint
  BY CheckpointLine
<1>5. low \in Line[b]
  BY <1>2, <1>3, <1>4 DEF Rooted
<1>6. Height[low] + Past <= Height[b]
  BY <1>2, <1>4
<1>7. ASSUME NEW d \in Line[b], Height[b] <= Height[d] + Past
      PROVE  d \in Kept(b) \cup {b}
  <2>1. Height[d] \in Nat
    BY LineHolds, HeightsAreNat
  <2>2. \A k \in Checkpoints : Height[k] \in Nat /\ Height[k] <= LastCheckpoint
    BY CheckpointLine, HeightsAreNat, CheckpointAssumption DEF CheckpointAssumption
  <2>3. \A k \in Checkpoints : Height[k] <= Height[d]
    BY <1>2, <1>7, <2>1, <2>2
  <2>4. \A h \in Nat : h <= Height[lastBlock] + 1 => h <= Height[d] + Interval
    BY <1>2, <1>7, <2>1, IntervalIsNat
  <2>5. IsKept(d, b, Height[lastBlock])
    BY <2>3, <2>4 DEF IsKept
  <2> QED
    BY <1>3, <2>5 DEF Rooted
<1>8. Cardinality(Walk(Kept(b), b)) \in Nat /\ Cardinality(Walk(Kept(b), b)) > Past
  <2> HIDE DEF Kept
  <2> QED
    BY <1>2, <1>5, <1>6, <1>7, WalkIsLong
<1>9. Cardinality(Walk(Kept(b), b)) <= Past
  BY DEF VerifyBlock, DifficultyOK, Kept
<1> QED
  BY <1>2, <1>8, <1>9

\* A longer branch takes the place of what is above the join, and the walk to the join
\* does not come to a block that was freed.
LEMMA LongerForkReplaces ==
    ASSUME TypeInv, Sound(blocks, lastBlock), Rooted(blocks, Height[lastBlock]),
           ForksAreShort, lastBlock \in ValidBlock,
           NEW p, NEW b \in ValidBlock, Prev[b] \in blocks, LongerFork(p, b)
    PROVE  Replaces(b)
<1>1. b \in Block /\ lastBlock \in Block /\ lastBlock \in blocks /\ Height[b] > Height[lastBlock]
  BY DEF TypeInv, ChainTyped, ValidBlock, Sound, LongerFork
<1>2. Height[b] \in Nat /\ Height[lastBlock] \in Nat
  BY <1>1, HeightsAreNat
<1>3. PICK i \in Line[b] \cap Line[lastBlock] : Height[i] > Height[lastBlock] - Interval
  BY <1>2, <1>1 DEF ForksAreShort
<1>4. PICK j \in Line[b] \cap Line[lastBlock] :
          /\ Height[j] = JoinHeight(b)
          /\ \A c \in Line[b] \cap Line[lastBlock] : Height[c] <= Height[j]
          /\ Line[b] \cap Line[lastBlock] = Line[j]
  BY <1>1, <1>3, BranchesJoin
<1>5. i \in Block /\ j \in Block /\ Height[i] \in Nat /\ Height[j] \in Nat
  BY <1>1, LineHolds, HeightsAreNat
<1>6. Height[j] > Height[lastBlock] - Interval
  BY <1>2, <1>3, <1>4, <1>5, IntervalIsNat
<1>7. \A k \in Checkpoints : Height[k] \in Nat /\ (Height[k] <= Height[lastBlock] => Height[k] <= Height[j])
  <2> TAKE k \in Checkpoints
  <2>1. Height[k] \in Nat
    BY HeightsAreNat, CheckpointAssumption DEF CheckpointAssumption
  <2> SUFFICES ASSUME Height[k] <= Height[lastBlock] PROVE Height[k] <= Height[j]
    BY <2>1
  <2>2. k \in Line[lastBlock]
    BY <1>1 DEF Rooted
  <2>3. Rooted(Kept(b) \cup {b}, Height[lastBlock])
    BY <1>1, <1>2, AddingIsRooted DEF ValidBlock
  <2>4. Height[k] <= Height[b]
    BY <1>1, <1>2, <2>1
  <2>5. k \in Line[b]
    BY <2>3, <2>4 DEF Rooted
  <2> QED
    BY <1>4, <2>2, <2>5
<1>8. ASSUME NEW e \in Line[lastBlock], Height[e] >= Height[j]
      PROVE  e \in Kept(b)
  <2>1. e \in Block /\ Height[e] \in Nat
    BY <1>1, LineHolds, HeightsAreNat
  <2>2. \A k \in Checkpoints : Height[k] <= Height[lastBlock] => Height[k] <= Height[e]
    BY <1>5, <1>7, <1>8, <2>1
  <2>3. \A h \in Nat : h <= Height[lastBlock] + 1 => h <= Height[e] + Interval
    BY <1>2, <1>5, <1>6, <1>8, <2>1, IntervalIsNat
  <2>4. IsKept(e, lastBlock, Height[lastBlock])
    BY <2>2, <2>3 DEF IsKept
  <2>5. e \in blocks
    BY <1>1, <2>4 DEF Rooted
  <2>6. e \notin Pruned(b)
    BY <1>1, <2>4, PruningIsDeep
  <2> QED
    BY <2>5, <2>6 DEF Kept
<1>9. Gap(b, lastBlock) = -1
  <2> DEFINE M == {e \in Line[lastBlock] \ (Kept(b) \cup {b}) : Height[e] >= JoinHeight(b)}
  <2>1. M = {}
    BY <1>4, <1>8
  <2>2. {-1} \cup {Height[e] : e \in M} = {-1}
    BY <2>1
  <2>3. Max({-1}) = -1
    BY DEF Max
  <2>4. Gap(b, lastBlock) = Max({-1} \cup {Height[e] : e \in M})
    BY DEF Gap
  <2> QED
    BY <2>2, <2>3, <2>4
<1>10. heights' = Confirm(UnconfirmAfter(heights, JoinHeight(b)), Line[b] \ Line[lastBlock])
  BY <1>9 DEF LongerFork
<1>11. Line[b] \ Line[lastBlock] = Line[b] \ Line[j]
  BY <1>4
<1> QED
  BY <1>1, <1>4, <1>10, <1>11 DEF Replaces

\* What blocks of one line do to the heights of their transactions.
LEMMA ConfirmOf ==
    ASSUME TxsAreNew, NEW h, NEW x \in Block, NEW S, S \subseteq Line[x], NEW t \in Tx
    PROVE  /\ \A c \in S : t \in Txs[c] => Confirm(h, S)[t] = Height[c]
           /\ (\A c \in S : t \notin Txs[c]) => Confirm(h, S)[t] = h[t]
<1>1. \A c, d \in S : t \in Txs[c] /\ t \in Txs[d] => c = d
  BY DEF TxsAreNew
<1>2. Confirm(h, S)[t] = IF \E c \in S : t \in Txs[c] THEN Height[CHOOSE c \in S : t \in Txs[c]] ELSE h[t]
  BY DEF Confirm
<1> QED
  BY <1>1, <1>2

\* Every step of the chain gives the transactions the heights of the new branch.
LEMMA StepKeepsHeights ==
    ASSUME TypeInv, TxsAreNew, BranchHeights(heights, lastBlock), ChainStep
    PROVE  BranchHeights(heights', lastBlock')
<1>1. lastBlock \in Block /\ heights \in [Tx -> KnownHeights]
  BY DEF TypeInv, ChainTyped
<1>2. \A c \in Block : Txs[c] \subseteq Tx
  BY DEF TxsAreNew
<1>3. CASE UNCHANGED <<lastBlock, heights>>
  BY <1>3
<1>4. CASE lastBlock' \in ValidBlock /\ Extends(lastBlock')
  <2> DEFINE b == lastBlock'
  <2>1. b \in Block /\ Prev[b] = lastBlock /\ heights' = Confirm(heights, {b})
    BY <1>4 DEF ValidBlock, Extends
  <2> HIDE DEF b
  <2>2. Line[b] = {b} \cup Line[lastBlock] /\ b \in Line[b] /\ Line[b] \subseteq Block
    BY <1>1, <2>1, LineOfChild, LineHolds
  <2>3. b \notin Line[lastBlock]
    BY <1>1, <2>1, LineIsBelow, TreeAssumption, HeightsAreNat DEF TreeAssumption
  <2>4. ASSUME NEW t \in Tx
        PROVE  /\ t \in Txs[b] => heights'[t] = Height[b]
               /\ t \notin Txs[b] => heights'[t] = heights[t]
    BY <2>1, <2>2, ConfirmOf
  <2>5. ASSUME NEW c \in Line[b], NEW t \in Txs[c] PROVE heights'[t] = Height[c]
    <3>1. t \in Tx
      BY <1>2, <2>2
    <3>2. CASE c = b
      BY <2>4, <3>1, <3>2
    <3>3. CASE c \in Line[lastBlock]
      <4>1. t \notin Txs[b]
        BY <2>1, <2>2, <2>3, <2>5, <3>3 DEF TxsAreNew
      <4> QED
        BY <2>4, <3>1, <3>3, <4>1 DEF BranchHeights
    <3> QED
      BY <2>2, <3>2, <3>3
  <2>6. ASSUME NEW t \in Tx, heights'[t] # TX_UNCONFIRMED PROVE \E c \in Line[b] : t \in Txs[c]
    BY <2>2, <2>4, <2>6 DEF BranchHeights
  <2> QED
    BY <2>5, <2>6 DEF BranchHeights, b
<1>5. CASE lastBlock' \in ValidBlock /\ Replaces(lastBlock')
  <2> DEFINE b == lastBlock'
  <2>1. PICK j \in Line[lastBlock] \cap Line[b] :
          /\ Line[b] \cap Line[lastBlock] = Line[j]
          /\ heights' = Confirm(UnconfirmAfter(heights, Height[j]), Line[b] \ Line[j])
    BY <1>5 DEF Replaces
  <2>2. b \in Block
    BY <1>5 DEF ValidBlock
  <2> HIDE DEF b
  <2>3. j \in Block /\ Height[j] \in Nat /\ Line[b] \subseteq Block /\ Line[lastBlock] \subseteq Block
    BY <1>1, <2>2, LineHolds, HeightsAreNat
  <2> DEFINE u == UnconfirmAfter(heights, Height[j])
  <2>4. \A t \in Tx : u[t] = IF heights[t] > Height[j] THEN TX_UNCONFIRMED ELSE heights[t]
    BY DEF UnconfirmAfter
  <2> HIDE DEF u
  <2>5. ASSUME NEW t \in Tx
        PROVE  /\ \A c \in Line[b] \ Line[j] : t \in Txs[c] => heights'[t] = Height[c]
               /\ (\A c \in Line[b] \ Line[j] : t \notin Txs[c]) => heights'[t] = u[t]
    <3> DEFINE T == Line[b] \ Line[j]
    <3>1. T \subseteq Line[b]
      OBVIOUS
    <3>2. heights' = Confirm(u, T)
      BY <2>1 DEF u
    <3> HIDE DEF T
    <3>3. /\ \A c \in T : t \in Txs[c] => heights'[t] = Height[c]
          /\ (\A c \in T : t \notin Txs[c]) => heights'[t] = u[t]
      BY <2>2, <3>1, <3>2, ConfirmOf
    <3> QED
      BY <3>3 DEF T
  <2>6. ASSUME NEW c \in Line[b], NEW t \in Txs[c] PROVE heights'[t] = Height[c]
    <3>1. t \in Tx
      BY <1>2, <2>3
    <3>2. CASE c \notin Line[j]
      BY <2>5, <3>1, <3>2
    <3>3. CASE c \in Line[j]
      <4>1. \A d \in Line[b] \ Line[j] : t \notin Txs[d]
        BY <2>2, <2>6, <3>3 DEF TxsAreNew
      <4>2. heights'[t] = u[t]
        BY <2>5, <3>1, <4>1
      <4>3. heights[t] = Height[c] /\ Height[c] <= Height[j] /\ Height[c] \in Nat
        BY <2>1, <2>3, <3>3, LineIsBelow, HeightsAreNat DEF BranchHeights
      <4> QED
        BY <2>3, <2>4, <3>1, <4>2, <4>3
    <3> QED
      BY <3>2, <3>3
  <2>7. ASSUME NEW t \in Tx, heights'[t] # TX_UNCONFIRMED PROVE \E c \in Line[b] : t \in Txs[c]
    <3> SUFFICES ASSUME \A c \in Line[b] : t \notin Txs[c] PROVE FALSE
      OBVIOUS
    <3>1. heights'[t] = u[t]
      BY <2>5
    <3>2. heights[t] # TX_UNCONFIRMED /\ ~(heights[t] > Height[j])
      BY <2>4, <2>7, <3>1
    <3>3. PICK c \in Line[lastBlock] : t \in Txs[c]
      BY <3>2 DEF BranchHeights
    <3>4. heights[t] = Height[c] /\ c \in Block /\ Height[c] \in Nat
      BY <2>3, <3>3, HeightsAreNat DEF BranchHeights
    <3>5. c \in Line[j]
      BY <1>1, <2>1, <2>3, <3>2, <3>4, LineIsOrdered
    <3> QED
      BY <2>1, <3>3, <3>5
  <2> QED
    BY <2>6, <2>7 DEF BranchHeights, b
<1> QED
  BY <1>3, <1>4, <1>5 DEF ChainStep

\* A relayed block.
LEMMA HandleBlockBranch ==
    ASSUME TypeInv, ChainInv, BranchInv, NetworkAssumption,
           restarts + rescans = 0, NEW p \in Peer, NEW b \in Block, HandleBlock(p, b)
    PROVE  /\ ChainStep
           /\ Rooted(blocks', Height[lastBlock'])
           /\ UNCHANGED <<restarts, rescans>>
<1>1. /\ lastBlock \in ValidBlock
      /\ Rooted(blocks, Height[lastBlock])
      /\ BranchHeights(heights, lastBlock)
  BY DEF BranchInv
<1>2. Sound(blocks, lastBlock)
  BY DEF ChainInv, TypeInv, RestTyped
<1>3. lastBlock \in Block /\ heights \in [Tx -> KnownHeights] /\ Height[lastBlock] \in Nat
  BY HeightsAreNat DEF TypeInv, ChainTyped
<1>4. CheckpointsAreOneLine /\ ForksAreShort /\ TxsAreNew
  BY DEF NetworkAssumption
<1>5. CASE FilterPending(p, b) \/ Orphaned(p, b)
  BY <1>1, <1>5 DEF FilterPending, Orphaned, FinishNoBlock, Finish, ChainStep
<1>6. ASSUME HasPrev(b), blocks' = Kept(b), UNCHANGED <<lastBlock, heights, restarts, rescans>>
      PROVE  /\ ChainStep /\ Rooted(blocks', Height[lastBlock'])
             /\ UNCHANGED <<restarts, rescans>>
  BY <1>1, <1>2, <1>6, FreeingIsRooted DEF ChainStep, HasPrev
<1>7. CASE HasPrev(b) /\ Invalid(p, b)
  BY <1>6, <1>7 DEF Invalid, FinishNoBlock, Kept
<1>8. CASE HasPrev(b) /\ (MinedDuringRescan(p, b) \/ OldFork(p, b))
  BY <1>6, <1>8 DEF MinedDuringRescan, OldFork, FinishNoBlock, Finish
<1>9. CASE HasPrev(b) /\ AlreadyHeld(p, b)
  <2>1. ASSUME OnMain(b) PROVE Confirm(heights, {b}) = heights
    <3>1. b \in Line[lastBlock]
      BY <2>1 DEF OnMain, Walk
    <3>2. {b} \subseteq Line[lastBlock]
      BY <3>1
    <3>3. \A t \in Tx : Confirm(heights, {b})[t] = heights[t]
      BY <1>1, <1>3, <1>4, <3>1, <3>2, ConfirmOf DEF BranchHeights
    <3>4. Confirm(heights, {b}) = [t \in Tx |-> Confirm(heights, {b})[t]]
      BY DEF Confirm
    <3>5. heights = [t \in Tx |-> heights[t]]
      BY <1>3
    <3> QED
      BY <3>3, <3>4, <3>5
  <2>2. UNCHANGED <<lastBlock, heights, restarts, rescans>> /\ blocks' = Kept(b)
    BY <1>9, <2>1 DEF AlreadyHeld, Finish
  <2> QED
    BY <1>6, <1>9, <2>2
<1>10. ASSUME HasPrev(b), VerifyBlock(b), NEW n \in Nat, n >= Height[lastBlock]
       PROVE  Rooted(Kept(b) \cup {b}, n)
  BY <1>1, <1>2, <1>10, AddingIsRooted DEF HasPrev, VerifyBlock
<1>11. CASE HasPrev(b) /\ VerifyBlock(b) /\ ShorterFork(p, b)
  <2>1. UNCHANGED <<lastBlock, heights, restarts, rescans>> /\ blocks' = Kept(b) \cup {b}
    BY <1>11 DEF ShorterFork, Finish
  <2>2. Rooted(Kept(b) \cup {b}, Height[lastBlock])
    BY <1>1, <1>2, <1>3, <1>11, AddingIsRooted DEF HasPrev, VerifyBlock
  <2> QED
    BY <2>1, <2>2 DEF ChainStep
<1>12. ASSUME HasPrev(b), VerifyBlock(b), Height[b] > Height[lastBlock]
       PROVE  b \in ValidBlock /\ Rooted(Kept(b) \cup {b}, Height[b])
  <2>1. Height[b] \in Nat /\ Height[b] >= Height[lastBlock]
    BY <1>3, <1>12, HeightsAreNat
  <2>2. Rooted(Kept(b) \cup {b}, Height[b])
    BY <1>10, <1>12, <2>1
  <2> QED
    BY <1>1, <1>2, <1>4, <1>12, <2>2, TipIsValid DEF HasPrev
<1>13. CASE HasPrev(b) /\ VerifyBlock(b) /\ ExtendsMain(p, b)
  <2>1. Height[b] > Height[lastBlock]
    BY <1>3, <1>13, TreeAssumption, HeightsAreNat DEF ExtendsMain, TreeAssumption
  <2>2. /\ lastBlock' = b /\ blocks' = Kept(b) \cup {b} /\ Extends(b)
        /\ UNCHANGED <<restarts, rescans>>
    BY <1>13 DEF ExtendsMain, Finish, Extends
  <2> QED
    BY <1>12, <1>13, <2>1, <2>2 DEF ChainStep
<1>14. CASE HasPrev(b) /\ VerifyBlock(b) /\ LongerFork(p, b)
  <2>1. /\ Height[b] > Height[lastBlock] /\ lastBlock' = b /\ blocks' = Kept(b) \cup {b}
        /\ UNCHANGED <<restarts, rescans>>
    BY <1>14 DEF LongerFork, Finish
  <2>2. Replaces(b)
    BY <1>1, <1>2, <1>4, <1>12, <1>14, <2>1, LongerForkReplaces DEF HasPrev
  <2> QED
    BY <1>12, <1>14, <2>1, <2>2 DEF ChainStep
<1> QED
  BY <1>5, <1>7, <1>8, <1>9, <1>11, <1>13, <1>14 DEF HandleBlock

\* Every step before the first rescan or restart is one of the chain.
LEMMA NextBranch ==
    ASSUME Inv, BranchInv, NetworkAssumption, [Next]_vars,
           restarts + rescans = 0, (restarts + rescans = 0)'
    PROVE  ChainStep /\ BranchInv'
<1>1. TypeInv /\ ChainInv
  BY DEF Inv
<1>2. ChainStep /\ Rooted(blocks', Height[lastBlock'])
  <2>1. ASSUME UNCHANGED <<blocks, lastBlock, heights>>
        PROVE  ChainStep /\ Rooted(blocks', Height[lastBlock'])
    BY <2>1 DEF ChainStep, BranchInv
  <2>2. ASSUME NEW p \in Peer, NEW b, HandleBlock(p, b), b \in Relays[p] \/ b \in thread[p].next
        PROVE  ChainStep /\ Rooted(blocks', Height[lastBlock'])
    <3>1. b \in Block
      BY <1>1, <2>2, PeerAssumption DEF PeerAssumption, TypeInv, RestTyped
    <3> QED
      BY <1>1, <2>2, <3>1, HandleBlockBranch
  <2>3. ASSUME NEW p \in Peer, SelectDownloadPeer(p) \/ SaveBlocks(p)
        PROVE  ChainStep /\ Rooted(blocks', Height[lastBlock'])
    BY <2>1, <2>3 DEF SelectDownloadPeer, SaveBlocks
  <2>4. CASE DeleteBlocks \/ PutBlocks \/ FreeFilter \/ LoadBloomFilter \/ UNCHANGED vars
    BY <2>1, <2>4 DEF DeleteBlocks, PutBlocks, FreeFilter, LoadBloomFilter, vars
  <2>5. CASE Rescan \/ Restart
    <3>1. restarts \in Nat /\ rescans \in Nat
      BY <1>1 DEF TypeInv, RestTyped
    <3>2. (restarts + rescans)' = restarts + rescans + 1
      BY <2>5, <3>1 DEF Rescan, Restart
    <3> QED
      BY <3>2
  <2> QED
    BY <2>2, <2>3, <2>4, <2>5 DEF Next, RelayedBlock, RelayedNext
<1>3. BranchHeights(heights', lastBlock')
  BY <1>1, <1>2, StepKeepsHeights DEF BranchInv, NetworkAssumption
<1>4. lastBlock' \in ValidBlock
  BY <1>2 DEF ChainStep, BranchInv
<1> QED
  BY <1>2, <1>3, <1>4 DEF BranchInv, Rooted, BranchHeights, IsKept, ValidBlock

LEMMA BranchInvInit ==
    ASSUME Init, NetworkAssumption
    PROVE  BranchInv
<1>1. /\ Checkpoints \subseteq Block /\ StartBlock \in Checkpoints
      /\ \A k \in Checkpoints : Height[k] \in Nat
  BY CheckpointAssumption, HeightsAreNat DEF CheckpointAssumption
<1>2. CheckpointsAreOneLine /\ TxsAreNew /\ Past \in Nat
  BY DEF NetworkAssumption, CheckpointsAreOneLine
<1>3. \A k, m \in Checkpoints : Height[k] <= Height[m] => k \in Line[m]
  BY <1>2, CheckpointLine
<1>4. StartBlock \in ValidBlock
  <2>1. Height[StartBlock] <= LastCheckpoint /\ LastCheckpoint \in Nat
    BY <1>1, <1>2, CheckpointLine
  <2>2. Height[StartBlock] - 1 <= LastCheckpoint + Past
    BY <1>1, <1>2, <2>1
  <2>3. \A c \in Checkpoints : Height[c] = Height[StartBlock] => c = StartBlock
    <3> TAKE c \in Checkpoints
    <3> SUFFICES ASSUME Height[c] = Height[StartBlock] PROVE c = StartBlock
      OBVIOUS
    <3>1. c \in Line[StartBlock] /\ StartBlock \in Block
      BY <1>1, <1>3
    <3> QED
      BY <3>1, LineIsBelow
  <2> QED
    BY <1>1, <2>2, <2>3 DEF ValidBlock
<1>5. Rooted(Checkpoints, Height[StartBlock])
  <2>1. ASSUME NEW c \in Checkpoints, NEW d \in Line[c], IsKept(d, c, Height[StartBlock])
        PROVE  d \in Checkpoints
    <3>1. Height[c] <= Height[d]
      BY <1>1, <2>1 DEF IsKept
    <3>2. c \in Block /\ d \in Block /\ Height[d] \in Nat /\ Height[d] <= Height[c]
      BY <1>1, LineHolds, LineIsBelow, HeightsAreNat
    <3> QED
      BY <1>1, <3>1, <3>2, LineIsBelow
  <2> QED
    BY <1>3, <2>1 DEF Rooted
<1>6. BranchHeights(heights, StartBlock)
  BY <1>2 DEF Init, BranchHeights, TxsAreNew
<1> QED
  BY <1>4, <1>5, <1>6 DEF Init, BranchInv

\* The count of rescans and restarts does not fall.
LEMMA ResumesStay ==
    ASSUME TypeInv, [Next]_vars, (restarts + rescans = 0)'
    PROVE  restarts + rescans = 0
<1>1. restarts \in Nat /\ rescans \in Nat
  BY DEF TypeInv, RestTyped
<1>2. ASSUME NEW p, NEW b, HandleBlock(p, b) PROVE UNCHANGED <<restarts, rescans>>
  BY <1>2 DEF HandleBlock, FilterPending, Orphaned, Invalid, ExtendsMain, AlreadyHeld,
              MinedDuringRescan, OldFork, ShorterFork, LongerFork, Finish, FinishNoBlock
<1>3. CASE Rescan \/ Restart
  <2>1. (restarts + rescans)' = restarts + rescans + 1
    BY <1>1, <1>3 DEF Rescan, Restart
  <2> QED
    BY <1>1, <2>1
<1>4. ASSUME UNCHANGED <<restarts, rescans>> PROVE restarts + rescans = 0
  BY <1>4
<1> QED
  BY <1>2, <1>3, <1>4 DEF Next, RelayedBlock, RelayedNext, SaveBlocks, SelectDownloadPeer,
                          DeleteBlocks, PutBlocks, FreeFilter, LoadBloomFilter, vars

LEMMA BranchInvHolds == ASSUME NetworkAssumption PROVE Spec => [](Inv /\ BranchInv)
<1>1. Init => Inv /\ BranchInv
  BY InvInit, BranchInvInit
<1>2. Inv /\ BranchInv /\ [Next]_vars => BranchInv'
  <2> SUFFICES ASSUME Inv, BranchInv, [Next]_vars PROVE BranchInv'
    OBVIOUS
  <2>1. CASE (restarts + rescans = 0)'
    BY <2>1, NextBranch, ResumesStay DEF Inv
  <2>2. CASE ~(restarts + rescans = 0)'
    BY <2>2 DEF BranchInv
  <2> QED
    BY <2>1, <2>2
<1>3. Inv /\ [Next]_vars => Inv'
  BY TypeInvStep, RowsInvStep, ChainInvStep DEF Inv
<1> QED
  BY <1>1, <1>2, <1>3, PTL DEF Spec

\* The transactions of the wallet have the heights of the main chain and the others
\* are unconfirmed, after forks, reorganisations and verifications that free blocks
\* in any order, until the first rescan or restart.
THEOREM HeightsCorrect ==
    ASSUME NetworkAssumption
    PROVE  Spec => [](rescans = 0 => HeightsAreMainChain)
<1>1. Inv /\ BranchInv => (rescans = 0 => HeightsAreMainChain)
  BY DEF BranchInv, BranchHeights, HeightsAreMainChain
<1> QED
  BY <1>1, BranchInvHolds, PTL

-----------------------------------------------------------------------------
(* The chain implements HeaderTree. *)

\* The recursive line of HeaderTree is the least set that is closed under Prev.
LEMMA TreeLine == Tree!Line = Line
<1> DEFINE D(f) == f = [b \in Block |-> {b} \cup (IF Prev[b] \in Block THEN f[Prev[b]] ELSE {})]
           g == CHOOSE f : D(f)
<1>1. Tree!Line = [b \in Block |-> g[b]]
  BY DEF Tree!Line
<1>2. \A b \in Block : Prev[b] \notin Block => Line[b] = {b}
  <2> TAKE b \in Block
  <2> SUFFICES ASSUME Prev[b] \notin Block PROVE Line[b] = {b}
    OBVIOUS
  <2>1. Line[b] \subseteq {b}
    BY LineLeast
  <2> QED
    BY <2>1, LineHolds
<1>3. \A b \in Block : Line[b] = {b} \cup (IF Prev[b] \in Block THEN Line[Prev[b]] ELSE {})
  BY <1>2, LineOfChild
<1>4. D(Line)
  <2>1. Line = [b \in Block |-> Line[b]]
    BY DEF Line
  <2>2. [b \in Block |-> Line[b]]
          = [b \in Block |-> {b} \cup (IF Prev[b] \in Block THEN Line[Prev[b]] ELSE {})]
    BY <1>3
  <2> QED
    BY <2>1, <2>2
<1>5. D(g)
  BY <1>4
<1>6. \A b \in Block : g[b] = {b} \cup (IF Prev[b] \in Block THEN g[Prev[b]] ELSE {})
  BY <1>5
<1> HIDE DEF g
<1>7. \A b \in Block : g[b] = Line[b]
  <2> DEFINE T == {Height[b] : b \in {c \in Block : g[c] # Line[c]}}
  <2> SUFFICES ASSUME T # {} PROVE FALSE
    OBVIOUS
  <2>1. T \in SUBSET Nat
    BY HeightsAreNat
  <2>2. PICK n \in T : \A m \in T : n <= m
    <3> HIDE DEF T
    <3> QED
      BY <2>1, LeastNumber
  <2>3. PICK b \in Block : g[b] # Line[b] /\ Height[b] = n
    BY <2>2
  <2>4. Prev[b] \in Block /\ g[Prev[b]] # Line[Prev[b]]
    BY <1>3, <1>6, <2>3
  <2>5. Height[Prev[b]] \in T /\ Height[b] = Height[Prev[b]] + 1
    BY <2>4, TreeAssumption DEF TreeAssumption
  <2>6. n <= Height[Prev[b]]
    BY <2>2, <2>5
  <2> HIDE DEF T
  <2> QED
    BY <2>3, <2>4, <2>5, <2>6, HeightsAreNat
<1>8. Line = [b \in Block |-> Line[b]]
  BY DEF Line
<1> QED
  BY <1>1, <1>7, <1>8

LEMMA TreeConfirms ==
    ASSUME NEW h, NEW S, NEW n
    PROVE  Tree!Confirmed(h, S) = Confirm(h, S) /\ Tree!UnconfirmedAfter(h, n) = UnconfirmAfter(h, n)
  BY DEF Tree!Confirmed, Confirm, Tree!UnconfirmedAfter, UnconfirmAfter

LEMMA TreeInit == Init => Tree!Init
  BY CheckpointAssumption DEF Init, Tree!Init, CheckpointAssumption

LEMMA TreeStep ==
    ASSUME ChainStep, restarts + rescans = 0, (restarts + rescans = 0)'
    PROVE  [Tree!Next]_(Tree!vars)
<1>1. UNCHANGED (restarts + rescans)
  OBVIOUS
<1>2. CASE UNCHANGED <<lastBlock, heights>>
  BY <1>1, <1>2 DEF Tree!vars
<1>3. CASE lastBlock' \in ValidBlock /\ Extends(lastBlock')
  <2>1. Tree!Extend
    BY <1>1, <1>3, TreeConfirms DEF Tree!Extend, Extends
  <2> QED
    BY <2>1 DEF Tree!Next
<1>4. CASE lastBlock' \in ValidBlock /\ Replaces(lastBlock')
  <2>1. Tree!Reorganise
    BY <1>1, <1>4, TreeConfirms, TreeLine DEF Tree!Reorganise, Replaces
  <2> QED
    BY <2>1 DEF Tree!Next
<1> QED
  BY <1>2, <1>3, <1>4 DEF ChainStep

\* Whatever threads, orphans, verifications and reorganisations do, the wallet sees the chain of
\* HeaderTree: a tip that moves to a child or to a higher block of another branch,
\* with the heights that follow it, until the first rescan or restart.
THEOREM ChainCorrect ==
    ASSUME NetworkAssumption
    PROVE  Spec /\ [](restarts + rescans = 0) => IsHeaderTree
<1>1. ASSUME Inv, BranchInv, [Next]_vars, restarts + rescans = 0, (restarts + rescans = 0)'
      PROVE  [Tree!Next]_(Tree!vars)
  BY <1>1, NextBranch, TreeStep
<1>2. Inv /\ BranchInv /\ [Next]_vars /\ restarts + rescans = 0 /\ (restarts + rescans = 0)'
        => [Tree!Next]_(Tree!vars)
  BY <1>1
<1> QED
  BY <1>2, TreeInit, BranchInvHolds, PTL DEF Spec, IsHeaderTree, Tree!Spec

=============================================================================
