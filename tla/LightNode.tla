----------------------------- MODULE LightNode -----------------------------
(***************************************************************************)
(* The Ethereum light node of breadwallet-core (BREthereumLightNode.c, with *)
(* the wallets, transactions and nonce of BREthereumWallet.c,              *)
(* BREthereumTransaction.c and BREthereumAccount.c) over a JSON-RPC        *)
(* service.  A background thread of the node asks for every transaction of *)
(* the account again and again; the answers arrive on a pool of threads of *)
(* the application, so two of them can be worked off side by side, and in  *)
(* between come the answers to submissions.  A transaction of the user is  *)
(* known by its nonce alone until the answer to its submission, or never,  *)
(* gives it a hash.                                                        *)
(*                                                                         *)
(* The lock of the node makes every announcement one step.  Signing takes  *)
(* no lock: it is three steps.  A transaction identifier is an index of `txs'.   *)
(* The place of a transaction, its block number and its index there, is    *)
(* its position in `chain', the blocks the service has seen.               *)
(***************************************************************************)
EXTENDS Integers, Sequences, FiniteSets, SequencesExt

CONSTANTS
    Kind,       \* what a wallet holds: ether or one token (a wallet of each)
    Unknown,    \* the kind of a call of a contract that is no token
    Past,       \* the transactions in blocks at the start, in order
    Others,     \* transactions that others, or other devices, send later
    ForeignHash,\* the hashes of those
    NoHash,
    NotAssigned,\* TRANSACTION_NONCE_IS_NOT_ASSIGNED, above every nonce
    Answer,     \* the answers to getTransactions that can be under way
    MaxSends,   \* bound: transactions the user creates
    MaxReorgs   \* bound: exchanges of the last two transactions of the chain

\* Transactions of others and of other devices; their hashes are not identifiers.
Foreign == [hash : ForeignHash, own : BOOLEAN, kind : Kind \cup {Unknown}, nonce : Nat]

ForeignAssumption ==
    /\ Past \in Seq(Foreign) /\ Others \subseteq Foreign
    /\ \A h \in ForeignHash : h \notin Nat /\ h # NoHash
    /\ NoHash \notin Nat /\ NotAssigned \in Nat

ASSUME ForeignAssumption

Status == {"created", "signed", "submitted", "blocked"}

VARIABLES
    txs,        \* node->transactions
    lists,      \* the transactions of each wallet, by identifier
    nonce,      \* the next nonce of the account's address
    pc,         \* how far the thread that sends each transaction has come
    held,       \* the nonce that thread has read and not yet stored
    chain,      \* the service: the account's transactions in blocks
    pool,       \* the service: submissions accepted
    hashes,     \* submissions whose answer, a hash, is under way
    answers,    \* what is left to announce of each answer
    reorgs,     \* how often the chain has changed its order
    aborted     \* an assertion has failed

node == <<txs, lists, nonce>>
service == <<chain, pool, reorgs>>
vars == <<txs, lists, nonce, pc, held, chain, pool, hashes, answers, reorgs,
          aborted>>

-----------------------------------------------------------------------------
(* A wallet keeps its transactions in order. *)

\* transactionCompare is ETHEREUM_COMPARISON_LT.
Less(s, t) ==
    \/ s.status = "blocked" /\ (t.status = "blocked" => s.place < t.place)
    \/ s.status # "blocked" /\ t.status # "blocked" /\ s.nonce < t.nonce

\* walletInsertTransactionSorted: from the end, past all that t is less than.
Inserted(list, t, book) ==
    LET before == {i \in DOMAIN list : ~Less(book[t], book[list[i]])}
    IN  InsertAt(list, Max(before \cup {0}) + 1, t)

UpdatedInPlace(list, i, book) == list                            \* mutant

InsertedAgain(list, i, book) == Inserted(list, list[i], book)    \* mutant

\* walletUpdateTransactionSorted: take the one at index i out, put it in again.
Updated(list, i, book) == Inserted(RemoveAt(list, i), list[i], book)

-----------------------------------------------------------------------------
(* The transaction an announcement is about. *)

WithHash(h) == {t \in DOMAIN txs : txs[t].hash = h}

WithNonce(n) == {t \in DOMAIN txs : txs[t].hash = NoHash /\ txs[t].nonce = n}

KnownByHash(e) == WithHash(e.hash)                               \* mutant

\* By hash; one of ours also by its nonce, if we hold it without a hash.
Known(e) ==
    IF WithHash(e.hash) # {} \/ ~e.own THEN WithHash(e.hash)
    ELSE WithNonce(e.nonce)

-----------------------------------------------------------------------------
(* Announcements, each on a thread of the application. *)

\* The account has sent up to this nonce, from this device or another.
NextNonce(e) == IF e.own /\ e.nonce >= nonce THEN e.nonce + 1 ELSE nonce

PutInBlock(s, place) == [s EXCEPT !.status = "blocked", !.place = place]

BlockedOnce(i, e) ==                                             \* mutant
    LET t    == lists[e.kind][i]
        book == [txs EXCEPT ![t] = PutInBlock(@, e.place)]
    IN  IF txs[t].status = "blocked" THEN UNCHANGED <<txs, lists>>
        ELSE /\ txs' = book
             /\ lists' = [lists EXCEPT ![e.kind] = Updated(@, i, book)]

\* walletTransactionBlocked, for the transaction at index i; no hash is set here.
Blocked(i, e) ==
    LET t    == lists[e.kind][i]
        book == [txs EXCEPT ![t] = PutInBlock(@, e.place)]
    IN  /\ txs' = book
        /\ lists' = [lists EXCEPT ![e.kind] = Updated(@, i, book)]

\* A transaction the node did not have passes through submitted to blocked.
New(e) ==
    LET t == Len(txs) + 1
        book == Append(txs, [nonce |-> e.nonce, hash |-> e.hash,
                             kind |-> e.kind, status |-> "blocked",
                             place |-> e.place])
    IN  /\ txs' = book
        /\ lists' = [lists EXCEPT ![e.kind] = Inserted(@, t, book)]
        /\ pc' = Append(pc, "none") /\ held' = Append(held, NotAssigned)

\* lightNodeAnnounceTransaction.  The assertion in
\* walletUpdateTransactionSorted fails for a transaction of another wallet.
AnnounceTransaction(a) ==
    /\ ~aborted /\ answers[a] # <<>>
    /\ answers' = [answers EXCEPT ![a] = Tail(@)]
    /\ LET e == Head(answers[a])
           known == Known(e)
       IN  /\ nonce' = NextNonce(e)
           /\ \/ e.kind = Unknown /\ UNCHANGED <<txs, lists, pc, held, aborted>>
              \/ e.kind # Unknown /\ known = {} /\ New(e) /\ UNCHANGED aborted
              \/ /\ e.kind # Unknown /\ known # {} /\ UNCHANGED <<pc, held>>
                 /\ \/ \E i \in DOMAIN lists[e.kind] :
                          lists[e.kind][i] = Min(known) /\ Blocked(i, e) /\ UNCHANGED aborted
                    \/ /\ Min(known) \notin Range(lists[e.kind])
                       /\ aborted' = TRUE /\ UNCHANGED <<txs, lists>>
    /\ UNCHANGED <<hashes, service>>

\* lightNodeAnnounceSubmitTransaction: whatever the status was.
AnnounceSubmitTransaction(t) ==
    /\ ~aborted /\ t \in hashes
    /\ hashes' = hashes \ {t}
    /\ txs' = [txs EXCEPT ![t].status = "submitted", ![t].hash = t]
    /\ UNCHANGED <<lists, nonce, pc, held, answers, service, aborted>>

-----------------------------------------------------------------------------
(* The user sends a transaction: create, sign and submit. *)

CreateTransaction(k) ==
    /\ ~aborted /\ Cardinality({t \in DOMAIN pc : pc[t] # "none"}) < MaxSends
    /\ LET t == Len(txs) + 1
           book == Append(txs, [nonce |-> NotAssigned, hash |-> NoHash,
                                kind |-> k, status |-> "created", place |-> 0])
       IN  /\ txs' = book
           /\ lists' = [lists EXCEPT ![k] = Inserted(@, t, book)]
    /\ pc' = Append(pc, "created") /\ held' = Append(held, NotAssigned)
    /\ UNCHANGED <<nonce, hashes, answers, service, aborted>>

\* walletSignTransaction: address->nonce++ reads the nonce ...
ReadNonce(t) ==
    /\ ~aborted /\ pc[t] = "created"
    /\ pc' = [pc EXCEPT ![t] = "read"]
    /\ held' = [held EXCEPT ![t] = nonce]
    /\ UNCHANGED <<node, hashes, answers, service, aborted>>

\* ... and stores it; without the lock an announcement can come between.
TakeNonce(t) ==
    /\ ~aborted /\ pc[t] = "read"
    /\ pc' = [pc EXCEPT ![t] = "numbered"]
    /\ nonce' = held[t] + 1
    /\ txs' = [txs EXCEPT ![t].nonce = held[t]]
    /\ held' = [held EXCEPT ![t] = NotAssigned]
    /\ UNCHANGED <<lists, hashes, answers, service, aborted>>

\* The nonces the account has used, or has promised to the service.
Used == {chain[i].nonce : i \in {j \in DOMAIN chain : chain[j].own}}
           \cup {txs[t].nonce : t \in pool}

\* transactionSign, and lightNodeWalletSubmitTransaction, which the thread
\* calls next: the service answers with the hash, or with an error, of which
\* the node is not told.
SubmitTransaction(t) ==
    /\ ~aborted /\ pc[t] = "numbered"
    /\ pc' = [pc EXCEPT ![t] = "sent"]
    /\ txs' = [txs EXCEPT ![t].status = "signed"]
    /\ IF txs[t].nonce \in Used
       THEN UNCHANGED <<pool, hashes>>
       ELSE pool' = pool \cup {t} /\ hashes' = hashes \cup {t}
    /\ UNCHANGED <<lists, nonce, held, answers, chain, reorgs, aborted>>

-----------------------------------------------------------------------------
(* The service. *)

OwnCount == Cardinality({i \in DOMAIN chain : chain[i].own})

\* A submission is put in a block: own nonces come in order.
Mine(t) ==
    /\ t \in pool /\ txs[t].nonce = OwnCount
    /\ pool' = pool \ {t}
    /\ chain' = Append(chain, [hash |-> t, own |-> TRUE, kind |-> txs[t].kind,
                               nonce |-> txs[t].nonce])
    /\ UNCHANGED <<node, pc, held, hashes, answers, reorgs, aborted>>

\* A transaction of another account, or of another device with our key.
MineOther(e) ==
    /\ \A i \in DOMAIN chain : chain[i].hash # e.hash
    /\ chain' = Append(chain, [e EXCEPT !.nonce = IF e.own THEN OwnCount ELSE 0])
    /\ UNCHANGED <<node, pc, held, pool, hashes, answers, reorgs, aborted>>

\* The last two transactions change places, which two of ours cannot.
Reorg ==
    /\ reorgs < MaxReorgs /\ Len(chain) > 1
    /\ LET n == Len(chain)
       IN  /\ ~(chain[n].own /\ chain[n - 1].own)
           /\ chain' = [chain EXCEPT ![n] = chain[n - 1], ![n - 1] = chain[n]]
    /\ reorgs' = reorgs + 1
    /\ UNCHANGED <<node, pc, held, pool, hashes, answers, aborted>>

\* The node's thread asks, and the service answers with what it has now.
UpdateTransactions(a) ==
    /\ ~aborted /\ answers[a] = <<>> /\ chain # <<>>
    /\ answers' = [answers EXCEPT ![a] =
          [i \in DOMAIN chain |->
              [hash |-> chain[i].hash, own |-> chain[i].own,
               kind |-> chain[i].kind, nonce |-> chain[i].nonce, place |-> i]]]
    /\ UNCHANGED <<node, pc, held, hashes, service, aborted>>

-----------------------------------------------------------------------------
(* Listing. *)

\* lightNodeWalletGetTransactions: assignToTransactions stores the position
\* in the wallet, which the application takes for an identifier.
GetTransactions(k) == [i \in DOMAIN lists[k] |-> i]

-----------------------------------------------------------------------------
Init ==
    /\ txs = <<>>
    /\ lists = [k \in Kind |-> <<>>]
    /\ nonce = 0
    /\ pc = <<>>
    /\ held = <<>>
    /\ chain = Past
    /\ pool = {}
    /\ hashes = {}
    /\ answers = [a \in Answer |-> <<>>]
    /\ reorgs = 0
    /\ aborted = FALSE

Next ==
    \/ \E a \in Answer : UpdateTransactions(a) \/ AnnounceTransaction(a)
    \/ \E k \in Kind : CreateTransaction(k)
    \/ \E t \in DOMAIN txs :
          \/ ReadNonce(t) \/ TakeNonce(t) \/ SubmitTransaction(t)
          \/ AnnounceSubmitTransaction(t) \/ Mine(t)
    \/ \E e \in Others : MineOther(e)
    \/ Reorg

Spec == Init /\ [][Next]_vars

\* The node asks every PTHREAD_SLEEP_SECONDS, and an answer that has arrived
\* is worked off by the thread it arrived on.
Fairness ==
    \A a \in Answer : WF_vars(UpdateTransactions(a) \/ AnnounceTransaction(a))

FairSpec == Spec /\ Fairness

-----------------------------------------------------------------------------
(* Properties. *)

\* Every transaction of the node is in the list of one wallet, the one of its
\* kind, and there once (lightNodeWalletCreateTransaction and
\* lightNodeAnnounceTransaction insert, walletUpdateTransactionSorted moves).
TypeOK ==
    /\ \A t \in DOMAIN txs :
          /\ txs[t].nonce \in Nat /\ txs[t].status \in Status
          /\ txs[t].place \in Nat /\ txs[t].kind \in Kind
    /\ \A k \in Kind :
          /\ Range(lists[k]) = {t \in DOMAIN txs : txs[t].kind = k}
          /\ \A i, j \in DOMAIN lists[k] : lists[k][i] = lists[k][j] => i = j
    /\ nonce \in Nat
    /\ pc \in Seq({"none", "created", "read", "numbered", "sent"}) /\ Len(pc) = Len(txs)
    /\ held \in Seq(Nat) /\ Len(held) = Len(txs)
    /\ pool \subseteq DOMAIN txs /\ hashes \subseteq DOMAIN txs
    /\ aborted \in BOOLEAN

\* The transactions of a wallet that are in blocks are listed in the order of
\* the blocks, though others stand between them: walletInsertTransactionSorted
\* compares neighbours of a list that signing and late answers leave unsorted.
BlockedAreInOrder ==
    \A k \in Kind : \A i, j \in DOMAIN lists[k] :
        LET s == txs[lists[k][i]]
            t == txs[lists[k][j]]
        IN  i < j /\ s.status = "blocked" /\ t.status = "blocked"
                => s.place <= t.place

\* No transaction is held twice: the announcement of a submission in a block
\* may come before the answer that gives the submission its hash
\* (lightNodeLookupTransactionByNonce).
HashesDiffer ==
    \A s, t \in DOMAIN txs :
        txs[s].hash = txs[t].hash => s = t \/ txs[s].hash = NoHash

\* Some transaction of the wallet is shown in the place of each in a block.
AllShown ==
    \A i \in DOMAIN chain : chain[i].kind # Unknown =>
        \E t \in Range(lists[chain[i].kind]) :
            txs[t].status = "blocked" /\ txs[t].place = i

\* What is in a block is at last shown there, in the wallet it belongs to:
\* stale answers, late hashes and a changed order are made good by the next
\* round of lightNodeThreadRoutine.
ShownAtLast == <>[](aborted \/ AllShown)
=============================================================================
