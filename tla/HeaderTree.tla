----------------------------- MODULE HeaderTree -----------------------------
(***************************************************************************)
(* What the chain of blocks promises to the wallet, without saying how the *)
(* blocks arrive: there is a tip in the tree of valid blocks, it moves to a *)
(* child or to a higher block of another branch, and the height of every   *)
(* transaction follows the branch of the tip.                              *)
(***************************************************************************)
EXTENDS Integers, FiniteSets

CONSTANTS
    Block,              \* hashes of blocks
    Prev,               \* Prev[b]: the parent of b, which is not a Block for the first one
    Height,             \* Height[b]
    Txs,                \* Txs[b]: the wallet's transactions in b
    Tx,                 \* transactions of the wallet
    Valid,              \* blocks that pass verification
    TX_UNCONFIRMED      \* the height of a transaction that is in no block

VARIABLES
    tip,                \* the last block of the main chain
    heights,            \* heights[t]: the height of transaction t
    resumed             \* how often the chain was taken up elsewhere

vars == <<tip, heights, resumed>>

\* The blocks from the first one to b.
Line ==
    LET line[b \in Block] == {b} \cup (IF Prev[b] \in Block THEN line[Prev[b]] ELSE {})
    IN  [b \in Block |-> line[b]]

\* The heights after the blocks of S have confirmed their transactions.
Confirmed(h, S) ==
    [t \in Tx |-> IF \E b \in S : t \in Txs[b]
                  THEN Height[CHOOSE b \in S : t \in Txs[b]] ELSE h[t]]

\* The heights after every transaction above height n has been unconfirmed.
UnconfirmedAfter(h, n) == [t \in Tx |-> IF h[t] > n THEN TX_UNCONFIRMED ELSE h[t]]

Init == tip \in Block /\ heights = [t \in Tx |-> TX_UNCONFIRMED] /\ resumed = 0

Extend ==
    /\ tip' \in Valid
    /\ Prev[tip'] = tip
    /\ heights' = Confirmed(heights, {tip'})
    /\ UNCHANGED resumed

\* A longer branch replaces the blocks above the join.
Reorganise ==
    /\ tip' \in Valid
    /\ Height[tip'] > Height[tip]
    /\ \E join \in Line[tip] \cap Line[tip'] :
          /\ Line[tip'] \cap Line[tip] = Line[join]
          /\ heights' = Confirmed(UnconfirmedAfter(heights, Height[join]), Line[tip'] \ Line[join])
    /\ UNCHANGED resumed

\* A restart or a rescan takes the chain up at another block; the transactions
\* keep their heights.
Resume == tip' \in Block /\ resumed' = resumed + 1 /\ UNCHANGED heights

\* After that, a block of the main chain may be relayed again.
ConfirmAgain ==
    /\ resumed > 0
    /\ \E b \in Line[tip] : heights' = Confirmed(heights, {b})
    /\ UNCHANGED <<tip, resumed>>

Next == Extend \/ Reorganise \/ Resume \/ ConfirmAgain
Spec == Init /\ [][Next]_vars
=============================================================================
