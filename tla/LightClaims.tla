---------------------------- MODULE LightClaims ----------------------------
(***************************************************************************)
(* What comments, assertions and names around the light node say of it,    *)
(* and the code does not keep.                                             *)
(***************************************************************************)
EXTENDS LightNode

LOCAL INSTANCE Functions

\* BREthereumLightNode.h:494, "Returns a -1 terminated array of transaction
\* identifiers": those of the wallet (lightNodeWalletGetTransactions).
ListingIsWallet ==
    \A k \in Kind : Range(GetTransactions(k)) = Range(lists[k])

\* BREthereumWallet.c:520, "assert (-1 != index)": an announcement finds its
\* transaction in the wallet it belongs to (walletUpdateTransactionSorted).
IndexIsFound == ~aborted

\* BREthereumAccount.c:97, "The NEXT nonce value": no transaction that the
\* node holds has that nonce or a later one (addressGetThenIncrementNonce).
NonceIsNext ==
    \A t \in DOMAIN txs : txs[t].nonce # NotAssigned /\ txs[t].hash = t
        => txs[t].nonce < nonce

\* BREthereumLightNode.c:1164, "we ensure that the transactions happen in
\* order": a transaction in a block does not become a submission again.
BlockedStays ==
    [][\A t \in DOMAIN txs : txs[t].status = "blocked" => txs'[t].status = "blocked"]_vars

\* A transaction in a block is shown as itself: an answer about another with
\* its nonce does not give it a place (lightNodeLookupTransactionByNonce).
ShownAsItself ==
    \A t \in DOMAIN txs : \A i \in DOMAIN chain :
        (pc[t] = "sent" /\ txs[t].status = "blocked" /\ txs[t].place = i /\ reorgs = 0)
            => chain[i].hash = t
=============================================================================
