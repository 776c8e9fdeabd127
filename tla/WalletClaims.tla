---------------------------- MODULE WalletClaims ----------------------------
(***************************************************************************)
(* Sentences of BRWallet.c's comments about the wallet, as formulas over   *)
(* Wallet.  The code does not keep any of them: README.md says for each    *)
(* which sequence of legal calls breaks it.                                *)
(***************************************************************************)
EXTENDS Wallet

Idle == pc = "idle"

\* "check the entire UTXO set against the entire spent output set" (:229): an
\* output offered for spending is not spent by a transaction of the wallet.
UnspentAreUnspent == Idle => utxos \cap spentOutputs = {}

\* "current wallet balance, not including transactions known to be invalid"
\* (:381): the outputs in the balance belong to valid transactions.
BalanceExcludesInvalid == Idle => \A o \in utxos : IsValid(o[1])

\* "historical wallet balance after the given transaction" (:1067), where no
\* transaction of the wallet is invalid or pending.
HistoryMatchesOrder ==
    Idle /\ invalidTx = {} /\ pendingTx = {} =>
        \A k \in 1..Len(transactions) :
            LET upTo == {transactions[i] : i \in 1..k}
            IN  BalanceAfterTx(transactions[k]) =
                    Value[UNION {OwnOutputs(t) : t \in upTo} \ UNION {Inputs[t] : t \in upTo}]

\* "true if tx cannot be immediately spent" (:873): a transaction of the wallet
\* that is locked until a height no block has reached is pending.
FutureLockIsPending ==
    Idle => \A t \in Registered :
        /\ height[t] = TX_UNCONFIRMED
        /\ t \in NonFinal
        /\ LockTime[t] < TX_MAX_LOCK_HEIGHT
        /\ \A h \in Heights : LockTime[t] > h + 1
        => IsPending(t)

\* "adds a transaction to the wallet, or returns false if it isn't associated
\* with the wallet" (:716): as long as a transaction that is associated with the
\* wallet is not in the book, giving it to the wallet adds it.  (It is not added,
\* and true is returned, when allTx holds it.)
AssociatedCanBeAdded ==
    Idle => \A t \in TX : ContainsTx(allTx, t) /\ t \notin Registered => t \notin allTx

\* "called when the wallet balance changes" (:296), for balanceChanged.
BalanceIsReported == Idle => reported = balance

\* "and it wasn't already known to be invalid, notify user" (:806): the user is
\* not told of the removal of a double spend.
KnownInvalidIsSilent == [][RemoveDone /\ call.wasInvalid => ~ callbacks'[1].notifyUser]_vars

\* "called when a previously added transaction is removed from the wallet"
\* (:300): only for a transaction that is still in it.
DeletedOnce == [][RemoveTop => Top \in Registered]_vars

\* "true if the address was previously used as an output in any wallet
\* transaction" (:537).
UsedAddressIsUsed ==
    Idle => \A t \in Registered : {AddrOf[o] : o \in OutputsOf(t)} \subseteq usedAddrs
=============================================================================
