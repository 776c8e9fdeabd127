---------------------------- MODULE WalletProofs ----------------------------
(***************************************************************************)
(* Proofs about Wallet, for every set of transactions and every value of   *)
(* the other constants: the types; the order and the members of the        *)
(* wallet's book; what the wallet derives from its book (the double        *)
(* spends, the outputs it can spend, and the balance); and that Wallet     *)
(* implements TxBook.                                                      *)
(*                                                                         *)
(* BookIsHeld and what follows from it hold for a store of which every row *)
(* belongs to the wallet, once its addresses have been generated, or the   *)
(* first does not (StoreBelongs).  The code verifies only the first row    *)
(* and refuses the store if it fails; without the assumption BookIsHeld is *)
(* false.                                                                  *)
(***************************************************************************)
EXTENDS Wallet, SequenceTheorems, TLAPS

-----------------------------------------------------------------------------
(***************************************************************************)
(* The list operations of the book.                                        *)
(***************************************************************************)
\* Inserting at a position makes room for one element and moves the later ones.
LEMMA InsertTxSeq ==
    ASSUME NEW S, NEW s \in Seq(S), NEW p \in 1..(Len(s) + 1), NEW t \in S
    PROVE  /\ InsertTx(s, p, t) \in Seq(S)
           /\ Len(InsertTx(s, p, t)) = Len(s) + 1
           /\ \A k \in 1..(Len(s) + 1) :
                 InsertTx(s, p, t)[k] = IF k < p THEN s[k] ELSE IF k = p THEN t ELSE s[k - 1]
<1> DEFINE n == Len(s) + 1
           f == [k \in 1..n |-> IF k < p THEN s[k] ELSE IF k = p THEN t ELSE s[k - 1]]
<1>1. n \in Nat
  OBVIOUS
<1>2. f \in [1..n -> S]
  <2> SUFFICES ASSUME NEW k \in 1..n
               PROVE  (IF k < p THEN s[k] ELSE IF k = p THEN t ELSE s[k - 1]) \in S
    OBVIOUS
  <2>1. k < p => k \in 1..Len(s)
    OBVIOUS
  <2>2. k > p => k - 1 \in 1..Len(s)
    OBVIOUS
  <2>3. \A i \in 1..Len(s) : s[i] \in S
    OBVIOUS
  <2> QED BY <2>1, <2>2, <2>3
<1>3. f \in Seq(S) /\ Len(f) = n
  BY <1>1, <1>2
<1> QED BY <1>3 DEF InsertTx

\* Removing a position moves the later elements back.
LEMMA RemoveTxSeq ==
    ASSUME NEW S, NEW s \in Seq(S), NEW p \in 1..Len(s)
    PROVE  /\ RemoveTx(s, p) \in Seq(S)
           /\ Len(RemoveTx(s, p)) = Len(s) - 1
           /\ \A k \in 1..(Len(s) - 1) :
                 RemoveTx(s, p)[k] = IF k < p THEN s[k] ELSE s[k + 1]
<1> DEFINE n == Len(s) - 1
           f == [k \in 1..n |-> IF k < p THEN s[k] ELSE s[k + 1]]
<1>1. n \in Nat
  OBVIOUS
<1>2. f \in [1..n -> S]
  OBVIOUS
<1>3. f \in Seq(S) /\ Len(f) = n
  BY <1>1, <1>2
<1> QED BY <1>3 DEF RemoveTx

\* The stack of calls without the innermost one.
LEMMA FrontSeq ==
    ASSUME NEW S, NEW s \in Seq(S), s # <<>>
    PROVE  /\ SubSeq(s, 1, Len(s) - 1) \in Seq(S)
           /\ Len(SubSeq(s, 1, Len(s) - 1)) = Len(s) - 1
           /\ \A k \in 1..(Len(s) - 1) : SubSeq(s, 1, Len(s) - 1)[k] = s[k]
<1>1. Len(s) \in Nat \ {0} /\ Len(s) - 1 \in Nat
  OBVIOUS
<1>2. \A k \in 1..(Len(s) - 1) : s[k] \in S
  OBVIOUS
<1> DEFINE n == Len(s) - 1
<1> HIDE DEF n
<1>3. /\ SubSeq(s, 1, n) \in Seq(S)
      /\ Len(SubSeq(s, 1, n)) = IF 1 <= n THEN n - 1 + 1 ELSE 0
      /\ \A k \in 1..(n - 1 + 1) : SubSeq(s, 1, n)[k] = s[1 + k - 1]
  BY <1>1, <1>2, SubSeqProperties DEF n
<1>4. /\ SubSeq(s, 1, n) \in Seq(S)
      /\ Len(SubSeq(s, 1, n)) = n
      /\ \A k \in 1..n : SubSeq(s, 1, n)[k] = s[k]
  <2>0. n \in Nat
    BY <1>1 DEF n
  <2>1. n - 1 + 1 = n /\ (IF 1 <= n THEN n - 1 + 1 ELSE 0) = n
    BY <2>0
  <2>2. \A k \in 1..n : 1 + k - 1 = k
    OBVIOUS
  <2> QED BY <1>3, <2>1, <2>2
<1> QED BY <1>4 DEF n
-----------------------------------------------------------------------------
(***************************************************************************)
(* Type correctness.  TypeOK is not inductive: the types of call.tx, of    *)
(* Top and of the elements that the loops read depend on where the call    *)
(* is, which Control says.                                                 *)
(***************************************************************************)
LoadPcs == {"load", "loadInternal", "loaded", "verify"}

Control ==
    /\ pc \in LoadPcs => call.op = "new"
    /\ pc = "idle" => call.op = "none"
    /\ pc \in {"external", "internal"} => call.op = "register"
    /\ pc = "update" => call.op = "update"
    /\ pc \in {"remove", "collect"} => call.op = "remove"
    /\ pc = "notify" => call.op \in {"register", "update", "remove"}
    /\ pc = "balance" => call.op \in {"new", "register", "update", "remove"}
    /\ call.op = "update" => call.height \in AnyHeight
    /\ call.op = "remove" => removing # <<>>
    /\ pc = "collect" => scan <= Len(transactions)
    /\ pc = "balance" => scan \in 1..(Len(transactions) + 1)

TypeInv == TypeOK /\ Control

\* The records that call takes.
LEMMA NoCallType ==
    /\ NoCall \in Calls
    /\ NoCall.op = "none" /\ NoCall.hashes = <<>> /\ NoCall.todo = {}
BY BoundsAssumption DEF NoCall, Calls

LEMMA NewCall ==
    /\ [NoCall EXCEPT !.op = "new"] \in Calls
    /\ [NoCall EXCEPT !.op = "new"].op = "new"
<1>1. \A r \in Calls : [r EXCEPT !.op = "new"] \in Calls /\ [r EXCEPT !.op = "new"].op = "new"
  BY DEF Calls
<1> QED BY <1>1, NoCallType

LEMMA RemoveCall ==
    /\ [NoCall EXCEPT !.op = "remove"] \in Calls
    /\ [NoCall EXCEPT !.op = "remove"].op = "remove"
<1>1. \A r \in Calls : /\ [r EXCEPT !.op = "remove"] \in Calls
                       /\ [r EXCEPT !.op = "remove"].op = "remove"
  BY DEF Calls
<1> QED BY <1>1, NoCallType

CallRegister(t)     == [NoCall EXCEPT !.op = "register", !.tx = t]
CallUpdate(S, h, s) == [NoCall EXCEPT !.op = "update", !.todo = S, !.height = h, !.time = s]
CallReorg(q)        ==
    [NoCall EXCEPT !.op = "update", !.hashes = q, !.height = TX_UNCONFIRMED]

LEMMA RegisterCall ==
    ASSUME NEW t \in TX
    PROVE  CallRegister(t) \in Calls /\ CallRegister(t).op = "register"
<1>1. \A r \in Calls : /\ [r EXCEPT !.op = "register", !.tx = t] \in Calls
                       /\ [r EXCEPT !.op = "register", !.tx = t].op = "register"
  BY DEF Calls
<1> QED BY <1>1, NoCallType DEF CallRegister

LEMMA UpdateCall ==
    ASSUME NEW S \in SUBSET TX, NEW h \in AnyHeight, NEW s \in Times
    PROVE  /\ CallUpdate(S, h, s) \in Calls
           /\ CallUpdate(S, h, s).op = "update"
           /\ CallUpdate(S, h, s).todo = S
           /\ CallUpdate(S, h, s).height = h
<1>1. \A r \in Calls :
         /\ [r EXCEPT !.op = "update", !.todo = S, !.height = h, !.time = s] \in Calls
         /\ [r EXCEPT !.op = "update", !.todo = S, !.height = h, !.time = s].op = "update"
         /\ [r EXCEPT !.op = "update", !.todo = S, !.height = h, !.time = s].todo = S
         /\ [r EXCEPT !.op = "update", !.todo = S, !.height = h, !.time = s].height = h
  BY DEF Calls
<1> QED BY <1>1, NoCallType DEF CallUpdate

LEMMA ReorgCall ==
    ASSUME NEW q \in Seq(TX)
    PROVE  /\ CallReorg(q) \in Calls
           /\ CallReorg(q).op = "update"
           /\ CallReorg(q).todo = {}
           /\ CallReorg(q).height = TX_UNCONFIRMED
<1>1. \A r \in Calls :
         /\ [r EXCEPT !.op = "update", !.hashes = q, !.height = TX_UNCONFIRMED] \in Calls
         /\ [r EXCEPT !.op = "update", !.hashes = q, !.height = TX_UNCONFIRMED].op = "update"
         /\ [r EXCEPT !.op = "update", !.hashes = q, !.height = TX_UNCONFIRMED].todo = r.todo
         /\ [r EXCEPT !.op = "update", !.hashes = q, !.height = TX_UNCONFIRMED].height
                = TX_UNCONFIRMED
  BY DEF Calls, AnyHeight
<1> QED BY <1>1, NoCallType DEF CallReorg

LEMMA TypeInit == Init => TypeInv
<1> SUFFICES ASSUME Init PROVE TypeInv
  OBVIOUS
<1>1. height \in [TX -> AnyHeight] /\ time \in [TX -> Times] /\ chain \in [Chains -> Nat]
  BY BoundsAssumption DEF Init, AnyHeight
<1>2. call \in Calls /\ call.op = "new"
  BY NewCall DEF Init
<1>3. toLoad \in Seq(Row)
  BY RowsAssumption DEF Init
<1> QED BY <1>1, <1>2, <1>3 DEF Init, TypeInv, TypeOK, Control, LoadPcs

\* What an update of some fields of call changes.
WithHashes(r, q)    == [r EXCEPT !.hashes = q]
WithTodo(r, T)      == [r EXCEPT !.todo = T]
WithUpdated(r, T, q, b) == [r EXCEPT !.todo = T, !.hashes = q, !.needsUpdate = b]
WithTop(r, t, b)    == [r EXCEPT !.tx = t, !.wasInvalid = b]

LEMMA HashesCall ==
    ASSUME NEW r \in Calls, NEW q \in Seq(TX)
    PROVE  /\ WithHashes(r, q) \in Calls
           /\ WithHashes(r, q).op = r.op
           /\ WithHashes(r, q).height = r.height
           /\ WithHashes(r, q).hashes = q
BY DEF Calls, WithHashes

LEMMA TodoCall ==
    ASSUME NEW r \in Calls, NEW T \in SUBSET TX
    PROVE  /\ WithTodo(r, T) \in Calls
           /\ WithTodo(r, T).op = r.op
           /\ WithTodo(r, T).height = r.height
           /\ WithTodo(r, T).todo = T
BY DEF Calls, WithTodo

LEMMA UpdatedCall ==
    ASSUME NEW r \in Calls, NEW T \in SUBSET TX, NEW q \in Seq(TX), NEW b \in BOOLEAN
    PROVE  /\ WithUpdated(r, T, q, b) \in Calls
           /\ WithUpdated(r, T, q, b).op = r.op
           /\ WithUpdated(r, T, q, b).height = r.height
           /\ WithUpdated(r, T, q, b).todo = T
BY DEF Calls, WithUpdated

LEMMA TopCall ==
    ASSUME NEW r \in Calls, NEW t \in TX, NEW b \in BOOLEAN
    PROVE  /\ WithTop(r, t, b) \in Calls
           /\ WithTop(r, t, b).op = r.op
           /\ WithTop(r, t, b).height = r.height
           /\ WithTop(r, t, b).tx = t
BY DEF Calls, WithTop

LEMMA CallFields ==
    ASSUME NEW r \in Calls
    PROVE  /\ r.hashes \in Seq(TX)
           /\ r.todo \subseteq TX
           /\ r.height \in AnyHeight \cup {0}
           /\ r.time \in Times
           /\ r.needsUpdate \in BOOLEAN
BY DEF Calls

LEMMA Heights0 ==
    /\ AnyHeight \subseteq Nat
    /\ TX_UNCONFIRMED \in AnyHeight
    /\ \A h \in AnyHeight : h <= TX_UNCONFIRMED
BY BoundsAssumption DEF AnyHeight

\* BRWalletUnusedAddrs only makes a chain longer.
LEMMA UnusedAddrsGrows ==
    ASSUME chain \in [Chains -> Nat], NEW c \in Chains, NEW gap \in Nat, UnusedAddrs(c, gap)
    PROVE  /\ chain' \in [Chains -> Nat]
           /\ \A k \in Chains : chain[k] <= chain'[k]
BY BoundsAssumption DEF UnusedAddrs

LEMMA OwnOutputsType ==
    ASSUME NEW t \in TX
    PROVE  OutputsOf(t) \subseteq Coins /\ OwnOutputs(t) \subseteq OutputsOf(t)
BY DEF OutputsOf, Coins, OwnOutputs

PaidTo(t) == {AddrOf[o] : o \in OutputsOf(t)}

LEMMA PaidToType ==
    ASSUME NEW t \in TX
    PROVE  PaidTo(t) \subseteq Address
BY OwnOutputsType, TransactionsAssumption DEF PaidTo

\* Where every scan starts.
LEMMA StartBalanceType ==
    ASSUME StartBalance
    PROVE  /\ utxos' = {} /\ invalidTx' = {} /\ pendingTx' = {} /\ usedAddrs' = {}
           /\ spentOutputs' = {}
           /\ balance' = 0 /\ totalSent' = 0 /\ totalReceived' = 0 /\ balanceHist' = <<>>
           /\ scan' = 1 /\ prevBalance' = 0 /\ pc' = "balance"
BY DEF StartBalance

LEMMA TypeStep == TypeInv /\ [Next]_vars => TypeInv'
<1> SUFFICES ASSUME TypeInv, [Next]_vars PROVE TypeInv'
  OBVIOUS
<1> USE Heights0 DEF TypeInv, TypeOK, Control, LoadPcs
<1>1. CASE LoadRow
  <2> DEFINE row == Head(toLoad)
  <2>1. row \in Row /\ toLoad' \in Seq(Row)
    BY <1>1 DEF LoadRow
  <2>2. row.tx \in TX /\ row.height \in AnyHeight /\ row.time \in Times
    BY <2>1 DEF Row, AnyHeight
  <2>3. call' \in Calls /\ call'.op = call.op
    <3> DEFINE q == <<row.tx>>
    <3>1. q \in Seq(TX)
      BY <2>2
    <3>2. call' = call \/ call' = WithHashes(call, q)
      BY <1>1, Zenon DEF LoadRow, WithHashes
    <3> HIDE DEF q, TypeOK
    <3>3. call \in Calls
      BY DEF TypeOK
    <3> QED BY <3>1, <3>2, <3>3, HashesCall
  <2>4. /\ allTx' \subseteq TX /\ height' \in [TX -> AnyHeight] /\ time' \in [TX -> Times]
        /\ blockHeight' = blockHeight
    <3>1. \/ UNCHANGED <<allTx, height, time, blockHeight>>
          \/ /\ allTx' = allTx \cup {row.tx}
             /\ height' = [height EXCEPT ![row.tx] = row.height]
             /\ time' = [time EXCEPT ![row.tx] = row.time]
             /\ blockHeight' = blockHeight
      BY <1>1 DEF LoadRow, book
    <3> QED BY <2>2, <3>1
  <2>5. transactions' \in Seq(TX)
    <3>1. \/ transactions' = transactions
          \/ \E p \in 1..(Len(transactions) + 1) :
                transactions' = InsertTx(transactions, p, row.tx)
      BY <1>1 DEF LoadRow, book
    <3> QED BY <2>2, <3>1, InsertTxSeq
  <2>6. usedAddrs' \subseteq Address
    <3>1. \/ usedAddrs' = usedAddrs
          \/ usedAddrs' = usedAddrs \cup PaidTo(row.tx)
      BY <1>1 DEF LoadRow, PaidTo
    <3> QED BY <3>1, <2>2, PaidToType
  <2>7. /\ pc = "load" /\ pc' = pc
        /\ UNCHANGED <<chain, utxos, pendingTx, invalidTx, balance, totalSent, totalReceived,
                       balanceHist, now, removing, scan, prevBalance, reported>>
    BY <1>1 DEF LoadRow, loop
  <2> QED BY <2>1, <2>3, <2>4, <2>5, <2>6, <2>7
<1>2. CASE LoadExternal \/ LoadInternal
  <2>1. \A c \in Chains : GapLimit[c] \in Nat
    BY BoundsAssumption
  <2>2. chain' \in [Chains -> Nat]
    BY <1>2, <2>1, UnusedAddrsGrows DEF LoadExternal, LoadInternal, LoadChain, Chains
  <2> QED BY <1>2, <2>2 DEF LoadExternal, LoadInternal, LoadChain, book, ledger, loop
<1>3. CASE LoadBalance
  BY <1>3, StartBalanceType DEF LoadBalance, book
<1>4. CASE LoadDone
  BY <1>4, NoCallType DEF LoadDone, book, ledger, loop
<1>5. CASE LoadFailed
  <2>1. height' \in [TX -> AnyHeight] /\ time' \in [TX -> Times] /\ chain' \in [Chains -> Nat]
    BY <1>5, BoundsAssumption DEF LoadFailed
  <2> QED BY <1>5, <2>1, NewCall DEF LoadFailed, loop
<1>6. CASE ScanInvalid \/ ScanPending
  <2>1. ScannedTx \in TX /\ scan \in 1..Len(transactions)
    BY <1>6 DEF ScanInvalid, ScanPending, Scanning, ScannedTx
  <2>2. /\ balanceHist' = Append(balanceHist, balance) /\ scan' = scan + 1
        /\ pc = "balance"
        /\ UNCHANGED <<book, chain, utxos, usedAddrs, balance, totalSent, totalReceived,
                       now, pc, call, removing, toLoad, prevBalance, reported>>
    BY <1>6 DEF ScanInvalid, ScanPending, Scanning, Skip
  <2>3. invalidTx' \subseteq TX /\ pendingTx' \subseteq TX
    BY <1>6, <2>1 DEF ScanInvalid, ScanPending
  <2>4. balanceHist' \in Seq(Int)
    BY <2>2
  <2> QED BY <2>1, <2>2, <2>3, <2>4 DEF book
<1>7. CASE ScanCounted
  <2> DEFINE t     == ScannedTx
             spent == spentOutputs \cup Inputs[t]
             total == balance + Value[OwnOutputs(t)]
                              - Value[(utxos \cup OwnOutputs(t)) \cap spent]
  <2>1. t \in TX /\ scan \in 1..Len(transactions)
    BY <1>7 DEF ScanCounted, Scanning, ScannedTx
  <2>2. total \in Int
    <3>1. OwnOutputs(t) \in SUBSET Coins /\ (utxos \cup OwnOutputs(t)) \cap spent \in SUBSET Coins
      BY <2>1, OwnOutputsType
    <3>2. /\ Value[OwnOutputs(t)] \in Nat
          /\ Value[(utxos \cup OwnOutputs(t)) \cap spent] \in Nat
      BY <3>1, ValueAssumption
    <3> QED BY <3>2
  <2>3. /\ balance' = total /\ prevBalance' = total
        /\ totalReceived' = totalReceived + Rise(prevBalance, total)
        /\ totalSent' = totalSent + Rise(total, prevBalance)
        /\ balanceHist' = Append(balanceHist, total)
    BY <1>7 DEF ScanCounted
  <2>4. Rise(prevBalance, total) \in Nat /\ Rise(total, prevBalance) \in Nat
    BY <2>2 DEF Rise
  <2>5. utxos' \subseteq Coins /\ usedAddrs' \subseteq Address
    <3>1. /\ utxos' = (utxos \cup OwnOutputs(t)) \ spent
          /\ usedAddrs' = usedAddrs \cup PaidTo(t)
      BY <1>7 DEF ScanCounted, PaidTo
    <3> QED BY <3>1, <2>1, OwnOutputsType, PaidToType
  <2>6. /\ pc' = pc /\ scan' = scan + 1 /\ pc = "balance"
        /\ UNCHANGED <<book, chain, invalidTx, pendingTx, now, call, removing, toLoad, reported>>
    BY <1>7 DEF ScanCounted, Scanning
  <2> HIDE DEF t, spent, total
  <2>7. balanceHist' \in Seq(Int) /\ totalReceived' \in Nat /\ totalSent' \in Nat
    <3>1. balanceHist \in Seq(Int) /\ totalReceived \in Nat /\ totalSent \in Nat
      OBVIOUS
    <3> HIDE DEF TypeInv, TypeOK, Control
    <3>2. balanceHist' \in Seq(Int)
      BY <2>2, <2>3, <3>1
    <3>3. totalReceived' \in Nat /\ totalSent' \in Nat
      BY <2>3, <2>4, <3>1
    <3> QED BY <3>2, <3>3
  <2>8. balance' \in Int /\ prevBalance' \in Int
    BY <2>2, <2>3
  <2>9. scan' \in 1..(Len(transactions') + 1) /\ scan' \in Nat
    BY <2>1, <2>6 DEF book
  <2> QED BY <2>5, <2>6, <2>7, <2>8, <2>9 DEF book
<1>8. CASE ScanDone
  <2>1. /\ pc = "balance" /\ scan' = 0 /\ prevBalance' = 0
        /\ UNCHANGED <<allTx, transactions, height, time, blockHeight, chain, ledger, now,
                       call, removing, toLoad, reported>>
    BY <1>8 DEF ScanDone, book
  <2>2. \/ pc' = "verify" /\ call.op = "new"
        \/ pc' = "external" /\ call.op = "register"
        \/ pc' = "notify" /\ call.op \in {"update", "remove"}
    BY <1>8, <2>1 DEF ScanDone
  <2> QED BY <2>1, <2>2 DEF ledger
<1>9. ASSUME NEW t \in TX, NEW s \in Times, RegisterTransaction(t, s)
      PROVE  TypeInv'
  <2>1. /\ allTx' \subseteq TX /\ height' \in [TX -> AnyHeight] /\ time' \in [TX -> Times]
    BY <1>9 DEF RegisterTransaction
  <2>2. transactions' \in Seq(TX)
    <3>1. PICK p \in 1..(Len(transactions) + 1) : transactions' = InsertTx(transactions, p, t)
      BY <1>9 DEF RegisterTransaction
    <3> QED BY <3>1, InsertTxSeq
  <2>3. call' \in Calls /\ call'.op = "register"
    <3>1. call' = CallRegister(t)
      BY <1>9, Zenon DEF RegisterTransaction, CallRegister
    <3> QED BY <3>1, RegisterCall
  <2>4. /\ StartBalance
        /\ UNCHANGED <<blockHeight, chain, now, removing, toLoad, reported>>
    BY <1>9 DEF RegisterTransaction
  <2>5. Len(transactions') \in Nat
    BY <2>2
  <2> HIDE DEF StartBalance
  <2> QED BY <2>1, <2>2, <2>3, <2>4, <2>5, StartBalanceType
<1>10. ASSUME NEW t \in TX, NEW s \in Times, RegisterForeign(t, s)
       PROVE  TypeInv'
  BY <1>10 DEF RegisterForeign, ledger, loop
<1>11. CASE ReplaceExternal \/ ReplaceInternal
  <2>1. \A c \in Chains : GapLimit[c] \in Nat
    BY BoundsAssumption
  <2>2. chain' \in [Chains -> Nat]
    BY <1>11, <2>1, UnusedAddrsGrows DEF ReplaceExternal, ReplaceInternal, ReplaceUsed, Chains
  <2> QED BY <1>11, <2>2 DEF ReplaceExternal, ReplaceInternal, ReplaceUsed, book, ledger, loop
<1>12. CASE RegisterDone
  BY <1>12, NoCallType DEF RegisterDone, book, ledger, loop
<1>13. ASSUME NEW S \in SUBSET TX, NEW h \in AnyHeight, NEW s \in Times,
              UpdateTransactions(S, h, s)
       PROVE  TypeInv'
  <2>1. call' \in Calls /\ call'.op = "update" /\ call'.height = h
    <3>1. call' = CallUpdate(S, h, s)
      BY <1>13, Zenon DEF UpdateTransactions, CallUpdate
    <3> QED BY <3>1, UpdateCall
  <2>2. /\ blockHeight' \in AnyHeight \cup {0} /\ pc' = "update"
        /\ UNCHANGED <<allTx, transactions, height, time, chain, ledger, now, removing, toLoad,
                       loop, reported>>
    BY <1>13 DEF UpdateTransactions
  <2> QED BY <2>1, <2>2 DEF ledger, loop
<1>14. ASSUME NEW t \in TX, UpdateNothing(t)
       PROVE  TypeInv'
  <2>1. call' \in Calls /\ call'.op = call.op /\ call'.height = call.height
    <3>1. call' = WithTodo(call, call.todo \ {t})
      BY <1>14, Zenon DEF UpdateNothing, WithTodo
    <3> QED BY <3>1, TodoCall, CallFields
  <2> QED BY <1>14, <2>1 DEF UpdateNothing, book, ledger, loop
<1>15. ASSUME NEW t \in TX, UpdateOwn(t)
       PROVE  TypeInv'
  <2>1. /\ pc = "update" /\ call.op = "update"
        /\ height' = [height EXCEPT ![t] = call.height]
        /\ time' = [time EXCEPT ![t] = call.time]
        /\ UNCHANGED <<allTx, blockHeight, chain, ledger, now, pc, removing, toLoad, loop,
                       reported>>
    BY <1>15 DEF UpdateOwn, Updating
  <2>2. height' \in [TX -> AnyHeight] /\ time' \in [TX -> Times]
    BY <2>1, CallFields
  <2>3. call' \in Calls /\ call'.op = call.op /\ call'.height = call.height
    <3> DEFINE T == call.todo \ {t}
               q == Append(call.hashes, t)
               b == call.needsUpdate \/ t \in pendingTx \/ t \in invalidTx
    <3>1. T \in SUBSET TX /\ q \in Seq(TX)
      BY CallFields
    <3>2. b \in BOOLEAN
      BY CallFields
    <3>3. call' = WithUpdated(call, T, q, b)
      BY <1>15, Zenon DEF UpdateOwn, WithUpdated
    <3>4. call \in Calls
      OBVIOUS
    <3> HIDE DEF T, q, b
    <3> QED BY <3>1, <3>2, <3>3, <3>4, UpdatedCall
  <2>4. transactions' \in Seq(TX)
    <3>1. CASE UNCHANGED transactions
      BY <3>1
    <3>2. ASSUME NEW k \in 1..Len(transactions), NEW p \in 1..Len(transactions),
                 transactions' = InsertTx(RemoveTx(transactions, k), p, t)
          PROVE  transactions' \in Seq(TX)
      <4>1. /\ RemoveTx(transactions, k) \in Seq(TX)
            /\ Len(RemoveTx(transactions, k)) = Len(transactions) - 1
        BY RemoveTxSeq
      <4> QED BY <3>2, <4>1, InsertTxSeq
    <3> QED BY <1>15, <3>1, <3>2 DEF UpdateOwn
  <2> QED BY <2>1, <2>2, <2>3, <2>4 DEF ledger, loop
<1>16. ASSUME NEW t \in TX, UpdateForeign(t)
       PROVE  TypeInv'
  <2>1. call' \in Calls /\ call'.op = call.op /\ call'.height = call.height
    <3>1. call' = WithTodo(call, call.todo \ {t})
      BY <1>16, Zenon DEF UpdateForeign, WithTodo
    <3> QED BY <3>1, TodoCall, CallFields
  <2>2. height' \in [TX -> AnyHeight] /\ time' \in [TX -> Times] /\ allTx' \subseteq TX
    BY <1>16, BoundsAssumption, CallFields DEF UpdateForeign
  <2> QED BY <1>16, <2>1, <2>2 DEF UpdateForeign, ledger, loop
<1>17. CASE UpdateBalance
  BY <1>17, StartBalanceType DEF UpdateBalance, book
<1>18. CASE UpdateKeepBalance
  BY <1>18 DEF UpdateKeepBalance, book, ledger, loop
<1>19. CASE UpdateDone
  BY <1>19, NoCallType DEF UpdateDone, book, ledger, loop
<1>20. ASSUME NEW h \in Heights \cup {0}, SetTxUnconfirmedAfter(h)
       PROVE  TypeInv'
  <2>1. PICK i \in 0..Len(transactions) :
            /\ blockHeight' = h
            /\ height' = [t \in TX |->
                            IF \E k \in (i + 1)..Len(transactions) : transactions[k] = t
                            THEN TX_UNCONFIRMED ELSE height[t]]
            /\ call' = CallReorg(SubSeq(transactions, i + 1, Len(transactions)))
            /\ \/ StartBalance
               \/ pc' = "notify" /\ UNCHANGED <<ledger, loop>>
            /\ UNCHANGED <<allTx, transactions, time, chain, now, removing, toLoad, reported>>
    BY <1>20 DEF SetTxUnconfirmedAfter, CallReorg
  <2>2. SubSeq(transactions, i + 1, Len(transactions)) \in Seq(TX)
    OBVIOUS
  <2>3. call' \in Calls /\ call'.op = "update" /\ call'.height = TX_UNCONFIRMED
    BY <2>1, <2>2, ReorgCall
  <2>4. height' \in [TX -> AnyHeight] /\ blockHeight' \in AnyHeight \cup {0}
    BY <2>1 DEF AnyHeight
  <2>5. CASE StartBalance
    BY <2>1, <2>3, <2>4, <2>5, StartBalanceType
  <2>6. CASE pc' = "notify" /\ UNCHANGED <<ledger, loop>>
    BY <2>1, <2>3, <2>4, <2>6 DEF ledger, loop
  <2> QED BY <2>1, <2>5, <2>6
<1>21. ASSUME NEW t \in TX, RemoveTransaction(t)
       PROVE  TypeInv'
  BY <1>21, RemoveCall DEF RemoveTransaction, book, ledger, loop
<1>22. CASE RemoveBegin
  <2>1. call' \in Calls /\ call'.op = call.op
    <3>1. call' = WithHashes(call, <<>>)
      BY <1>22, Zenon DEF RemoveBegin, WithHashes
    <3>2. \A q \in Seq(TX) : /\ WithHashes(call, q) \in Calls
                            /\ WithHashes(call, q).op = call.op
      BY HashesCall
    <3>3. <<>> \in Seq(TX)
      OBVIOUS
    <3> QED BY <3>1, <3>2, <3>3, Zenon
  <2>2. /\ pc = "remove" /\ pc' = "collect" /\ scan' = Len(transactions)
        /\ UNCHANGED <<allTx, transactions, height, time, blockHeight, chain, ledger, now,
                       removing, toLoad, prevBalance, reported>>
    BY <1>22 DEF RemoveBegin, book
  <2>3. scan' \in Nat
    BY <2>2
  <2> QED BY <2>1, <2>2, <2>3 DEF ledger
<1>23. CASE CollectDependent
  <2>1. transactions[scan] \in TX
    <3>1. pc = "collect" /\ scan > 0
      BY <1>23 DEF CollectDependent, Collecting
    <3>2. scan \in 1..Len(transactions)
      BY <3>1
    <3> QED BY <3>2
  <2>2. call' \in Calls /\ call'.op = call.op
    <3> DEFINE q == Append(call.hashes, transactions[scan])
    <3>1. call' = call \/ call' = WithHashes(call, q)
      BY <1>23, Zenon DEF CollectDependent, WithHashes
    <3>2. q \in Seq(TX) /\ call \in Calls
      BY <2>1, CallFields
    <3> HIDE DEF q
    <3> QED BY <3>1, <3>2, HashesCall
  <2>3. /\ pc = "collect" /\ scan > 0 /\ scan' = scan - 1
        /\ UNCHANGED <<book, chain, ledger, now, pc, removing, toLoad, prevBalance, reported>>
    BY <1>23 DEF CollectDependent, Collecting
  <2> QED BY <2>2, <2>3 DEF book, ledger
<1>24. CASE RemoveDependents
  <2>1. call.hashes \in Seq(TX)
    BY DEF Calls
  <2>2. removing' \in Seq(TX) /\ removing' # <<>>
    BY <1>24, <2>1 DEF RemoveDependents
  <2> QED BY <1>24, <2>2 DEF RemoveDependents, Collected, book, ledger
<1>25. CASE RemoveTop
  <2>1. Top \in TX
    BY <1>25 DEF RemoveTop, Collected, Top
  <2>2. call' \in Calls /\ call'.op = call.op
    <3>1. call' = WithTop(call, Top, Top \in invalidTx)
      BY <1>25, Zenon DEF RemoveTop, WithTop
    <3>2. call \in Calls /\ (Top \in invalidTx) \in BOOLEAN
      OBVIOUS
    <3> QED BY <2>1, <3>1, <3>2, TopCall
  <2>3. transactions' \in Seq(TX) /\ Len(transactions') \in Nat
    <3>1. \/ transactions' = transactions
          \/ \E k \in 1..Len(transactions) : transactions' = RemoveTx(transactions, k)
      BY <1>25 DEF RemoveTop
    <3> QED BY <3>1, RemoveTxSeq
  <2>4. /\ pc = "collect" /\ StartBalance
        /\ UNCHANGED <<allTx, height, time, blockHeight, chain, now, removing, toLoad, reported>>
    BY <1>25 DEF RemoveTop, Collected
  <2> HIDE DEF StartBalance
  <2> QED BY <2>2, <2>3, <2>4, StartBalanceType
<1>26. CASE RemoveDone
  <2>1. pc = "notify" /\ call.op = "remove" /\ removing' = SubSeq(removing, 1, Len(removing) - 1)
    BY <1>26 DEF RemoveDone
  <2>2. removing \in Seq(TX) /\ removing # <<>>
    BY <2>1
  <2>3. removing' \in Seq(TX) /\ Len(removing') = Len(removing) - 1
    BY <2>1, <2>2, FrontSeq
  <2>4. Len(removing) # 1 => removing' # <<>>
    BY <2>2, <2>3
  <2> QED BY <1>26, <2>1, <2>3, <2>4, NoCallType, RemoveCall DEF RemoveDone, book, ledger, loop
<1>27. CASE Tick
  BY <1>27 DEF Tick, book, ledger, loop
<1>28. ASSUME NEW c \in Chains, NEW gap \in UiGaps, UiUnusedAddrs(c, gap)
       PROVE  TypeInv'
  <2>1. chain' \in [Chains -> Nat]
    BY <1>28, UnusedAddrsGrows, BoundsAssumption DEF UiUnusedAddrs
  <2> QED BY <1>28, <2>1 DEF UiUnusedAddrs, book, ledger, loop
<1>29. CASE UNCHANGED vars
  BY <1>29 DEF vars, book, ledger, loop
<1> QED
  BY <1>1, <1>2, <1>3, <1>4, <1>5, <1>6, <1>7, <1>8, <1>9, <1>10, <1>11, <1>12, <1>13, <1>14,
     <1>15, <1>16, <1>17, <1>18, <1>19, <1>20, <1>21, <1>22, <1>23, <1>24, <1>25, <1>26, <1>27,
     <1>28, <1>29
     DEF Next, Load, Scan, Register, Update, Reorg, Remove

\* Every variable keeps the type the C structure gives it, and every read that
\* a step makes is within bounds.
THEOREM TypeCorrect == Spec => []TypeOK
<1>1. Spec => []TypeInv
  BY TypeInit, TypeStep, PTL DEF Spec
<1>2. TypeInv => TypeOK
  BY DEF TypeInv
<1> QED BY <1>1, <1>2, PTL

-----------------------------------------------------------------------------
(***************************************************************************)
(* The book.                                                               *)
(***************************************************************************)
StoreBelongs ==
    pc = "verify" /\ FirstRowIsOwn => \A t \in Registered : ContainsTx(allTx, t)

-----------------------------------------------------------------------------
(***************************************************************************)
(* Lists sorted by height.                                                 *)
(***************************************************************************)
Elements(s) == {s[k] : k \in 1..Len(s)}

SortedBy(s, ht) ==
    \A i, j \in 1..Len(s) : i < j => s[i] # s[j] /\ ht[s[i]] <= ht[s[j]]

\* _BRWalletTxCompare is not a total order, but it never contradicts the heights.
LEMMA AfterHeight ==
    ASSUME NEW all, NEW ht \in [TX -> Nat], NEW t \in TX, NEW u \in TX
    PROVE  /\ After(all, ht, t, u) => ht[u] <= ht[t]
           /\ ~ After(all, ht, t, u) => ht[t] <= ht[u]
<1>1. ht[t] \in Nat /\ ht[u] \in Nat
  OBVIOUS
<1>2. /\ ht[t] # ht[u] => (TxIsAscending(all, ht, t, u) <=> ht[t] > ht[u])
      /\ ht[t] # ht[u] => (TxIsAscending(all, ht, u, t) <=> ht[u] > ht[t])
  BY DEF TxIsAscending
<1>3. After(all, ht, t, u) <=> \/ TxIsAscending(all, ht, t, u)
                               \/ ~ TxIsAscending(all, ht, u, t) /\ LaterOnChain(t, u)
  BY DEF After
<1> QED BY <1>1, <1>2, <1>3

\* So the insertion sort keeps a sorted list sorted.
CanInsert(all, ht, s, t, p) ==
    /\ ht \in [TX -> Nat] /\ s \in Seq(TX) /\ SortedBy(s, ht)
    /\ t \in TX /\ t \notin Elements(s)
    /\ p \in 1..(Len(s) + 1) /\ InsertPos(all, ht, s, t, p)

LEMMA InsertSorted ==
    ASSUME NEW all, NEW ht, NEW s, NEW t, NEW p, CanInsert(all, ht, s, t, p)
    PROVE  /\ SortedBy(InsertTx(s, p, t), ht)
           /\ Elements(InsertTx(s, p, t)) = Elements(s) \cup {t}
<1>a. /\ ht \in [TX -> Nat] /\ s \in Seq(TX) /\ t \in TX /\ p \in 1..(Len(s) + 1)
      /\ SortedBy(s, ht) /\ t \notin Elements(s) /\ InsertPos(all, ht, s, t, p)
  BY DEF CanInsert
<1> USE <1>a
<1> DEFINE r == InsertTx(s, p, t)
<1>1. /\ r \in Seq(TX)
      /\ Len(r) = Len(s) + 1
      /\ \A k \in 1..(Len(s) + 1) : r[k] = IF k < p THEN s[k] ELSE IF k = p THEN t ELSE s[k - 1]
  <2>1. /\ InsertTx(s, p, t) \in Seq(TX)
        /\ Len(InsertTx(s, p, t)) = Len(s) + 1
        /\ \A k \in 1..(Len(s) + 1) : InsertTx(s, p, t)[k] =
                IF k < p THEN s[k] ELSE IF k = p THEN t ELSE s[k - 1]
    BY InsertTxSeq
  <2> QED BY <2>1
<1>2. \A k \in 1..Len(s) : s[k] \in TX /\ s[k] # t
  BY DEF Elements
<1>3. \A k \in 1..Len(s) : k < p => ht[s[k]] <= ht[t]
  <2> SUFFICES ASSUME NEW k \in 1..Len(s), k < p PROVE ht[s[k]] <= ht[t]
    OBVIOUS
  <2>1. p - 1 \in 1..Len(s) /\ p > 1
    OBVIOUS
  <2>2. ht[s[p - 1]] <= ht[t]
    BY <2>1, <1>2, AfterHeight DEF InsertPos
  <2>3. ht[s[k]] <= ht[s[p - 1]]
    <3>1. CASE k = p - 1
      <4>1. ht[s[k]] \in Nat
        BY <1>2
      <4> QED BY <3>1, <4>1
    <3>2. CASE k < p - 1
      BY <2>1, <3>2 DEF SortedBy
    <3> QED BY <2>1, <3>1, <3>2
  <2>4. ht[s[k]] \in Nat /\ ht[s[p - 1]] \in Nat /\ ht[t] \in Nat
    BY <2>1, <1>2
  <2> QED BY <2>2, <2>3, <2>4
<1>4. \A k \in 1..Len(s) : p <= k => ht[t] <= ht[s[k]]
  BY <1>2, AfterHeight DEF InsertPos
<1>5. SortedBy(r, ht)
  <2> SUFFICES ASSUME NEW i \in 1..(Len(s) + 1), NEW j \in 1..(Len(s) + 1), i < j
               PROVE  r[i] # r[j] /\ ht[r[i]] <= ht[r[j]]
    BY <1>1 DEF SortedBy
  <2> HIDE DEF r
  <2>1. CASE j < p
    <3>1. r[i] = s[i] /\ r[j] = s[j] /\ i \in 1..Len(s) /\ j \in 1..Len(s)
      <4>1. i < p /\ i \in 1..Len(s) /\ j \in 1..Len(s)
        BY <2>1
      <4> QED BY <1>1, <2>1, <4>1
    <3> QED BY <3>1 DEF SortedBy
  <2>2. CASE j = p
    <3>1. r[i] = s[i] /\ r[j] = t /\ i \in 1..Len(s)
      BY <1>1, <2>2
    <3> QED BY <3>1, <1>2, <1>3, <2>2
  <2>3. CASE i < p /\ p < j
    <3>1. /\ r[i] = s[i] /\ r[j] = s[j - 1]
          /\ i \in 1..Len(s) /\ j - 1 \in 1..Len(s) /\ i < j - 1
      <4>1. i \in 1..Len(s) /\ j - 1 \in 1..Len(s) /\ i < j - 1 /\ ~ (j < p) /\ j # p
        BY <2>3
      <4> QED BY <1>1, <2>3, <4>1
    <3> QED BY <3>1 DEF SortedBy
  <2>4. CASE i = p
    <3>1. r[i] = t /\ r[j] = s[j - 1] /\ j - 1 \in 1..Len(s) /\ p <= j - 1
      <4>1. j - 1 \in 1..Len(s) /\ p <= j - 1 /\ ~ (j < p) /\ j # p /\ ~ (i < p)
        BY <2>4
      <4> QED BY <1>1, <2>4, <4>1
    <3> QED BY <3>1, <1>2, <1>4
  <2>5. CASE p < i
    <3>1. r[i] = s[i - 1] /\ r[j] = s[j - 1] /\ i - 1 \in 1..Len(s) /\ j - 1 \in 1..Len(s)
      <4>1. i - 1 \in 1..Len(s) /\ j - 1 \in 1..Len(s) /\ ~ (i < p) /\ i # p
            /\ ~ (j < p) /\ j # p
        BY <2>5
      <4> QED BY <1>1, <4>1
    <3>2. i - 1 < j - 1
      OBVIOUS
    <3> QED BY <3>1, <3>2 DEF SortedBy
  <2> QED BY <2>1, <2>2, <2>3, <2>4, <2>5
<1>6. Elements(r) = Elements(s) \cup {t}
  <2> HIDE DEF r
  <2>1. ASSUME NEW k \in 1..Len(r) PROVE r[k] \in Elements(s) \cup {t}
    <3>1. r[k] = t \/ (k \in 1..Len(s) /\ r[k] = s[k]) \/ (k - 1 \in 1..Len(s) /\ r[k] = s[k - 1])
      BY <1>1
    <3> QED BY <3>1 DEF Elements
  <2>2. t = r[p] /\ p \in 1..Len(r)
    BY <1>1
  <2>3. ASSUME NEW k \in 1..Len(s) PROVE \E m \in 1..Len(r) : s[k] = r[m]
    <3>1. CASE k < p
      <4>1. k \in 1..Len(r) /\ r[k] = s[k]
        BY <3>1, <1>1
      <4> QED BY <4>1
    <3>2. CASE p <= k
      <4>1. PICK m \in 1..(Len(s) + 1) : m = k + 1
        OBVIOUS
      <4>2. ~ (m < p) /\ m # p /\ m - 1 = k
        BY <3>2, <4>1
      <4>3. r[m] = s[k]
        BY <1>1, <4>2
      <4> QED BY <1>1, <4>3
    <3> QED BY <3>1, <3>2
  <2> QED BY <2>1, <2>2, <2>3 DEF Elements
<1> QED BY <1>1, <1>5, <1>6

LEMMA RemoveSorted ==
    ASSUME NEW ht, NEW s \in Seq(TX), SortedBy(s, ht), NEW p \in 1..Len(s)
    PROVE  /\ RemoveTx(s, p) \in Seq(TX)
           /\ Len(RemoveTx(s, p)) = Len(s) - 1
           /\ SortedBy(RemoveTx(s, p), ht)
           /\ Elements(RemoveTx(s, p)) = Elements(s) \ {s[p]}
<1> DEFINE r == RemoveTx(s, p)
<1>1. /\ r \in Seq(TX)
      /\ Len(r) = Len(s) - 1
      /\ \A k \in 1..(Len(s) - 1) : r[k] = IF k < p THEN s[k] ELSE s[k + 1]
  BY RemoveTxSeq
<1> HIDE DEF r
<1>2. SortedBy(r, ht)
  <2> SUFFICES ASSUME NEW i \in 1..(Len(s) - 1), NEW j \in 1..(Len(s) - 1), i < j
               PROVE  r[i] # r[j] /\ ht[r[i]] <= ht[r[j]]
    BY <1>1 DEF SortedBy
  <2>1. \E m, n \in 1..Len(s) : m < n /\ r[i] = s[m] /\ r[j] = s[n]
    <3>1. CASE j < p
      <4>1. /\ r[i] = s[i] /\ r[j] = s[j]
            /\ i \in 1..Len(s) /\ j \in 1..Len(s)
        BY <3>1, <1>1
      <4> QED BY <4>1
    <3>2. CASE i < p /\ p <= j
      <4>1. r[i] = s[i] /\ r[j] = s[j + 1] /\ i < j + 1 /\ i \in 1..Len(s) /\ j + 1 \in 1..Len(s)
        BY <3>2, <1>1
      <4> QED BY <4>1
    <3>3. CASE p <= i
      <4>1. /\ r[i] = s[i + 1] /\ r[j] = s[j + 1] /\ i + 1 < j + 1
            /\ i + 1 \in 1..Len(s) /\ j + 1 \in 1..Len(s)
        BY <3>3, <1>1
      <4> QED BY <4>1
    <3> QED BY <3>1, <3>2, <3>3
  <2> QED BY <2>1 DEF SortedBy
<1>3. Elements(r) = Elements(s) \ {s[p]}
  <2>1. ASSUME NEW k \in 1..Len(r) PROVE r[k] \in Elements(s) \ {s[p]}
    <3>1. \E m \in 1..Len(s) : m # p /\ r[k] = s[m]
      <4>1. CASE k < p
        BY <4>1, <1>1
      <4>2. CASE p <= k
        <5>1. k + 1 \in 1..Len(s) /\ k + 1 # p /\ r[k] = s[k + 1]
          BY <4>2, <1>1
        <5> QED BY <5>1
      <4> QED BY <4>1, <4>2
    <3>2. \A m \in 1..Len(s) : m # p => s[m] # s[p]
      BY DEF SortedBy
    <3> QED BY <3>1, <3>2 DEF Elements
  <2>2. ASSUME NEW m \in 1..Len(s), m # p PROVE \E k \in 1..Len(r) : s[m] = r[k]
    <3>1. CASE m < p
      BY <3>1, <1>1
    <3>2. CASE p < m
      <4>1. m - 1 \in 1..Len(r) /\ r[m - 1] = s[m]
        BY <3>2, <1>1
      <4> QED BY <4>1
    <3> QED BY <2>2, <3>1, <3>2
  <2> QED BY <2>1, <2>2 DEF Elements
<1> QED BY <1>1, <1>2, <1>3 DEF r

\* Only the heights of its elements matter.
LEMMA SameHeights ==
    ASSUME NEW ht, NEW ht2, NEW s, SortedBy(s, ht), \A t \in Elements(s) : ht2[t] = ht[t]
    PROVE  SortedBy(s, ht2)
BY DEF SortedBy, Elements
-----------------------------------------------------------------------------
(***************************************************************************)
(* The members and the order of the book.  A transaction of the book is    *)
(* never freed because the wallet's addresses know it (Belongs), and they  *)
(* go on knowing it because chains only grow and no transaction with       *)
(* outputs of the wallet is freed.                                         *)
(***************************************************************************)
Belongs == call.op # "new" => \A t \in Registered : ContainsTx(allTx, t)

OrderInv == BookIsHeld /\ BookIsSorted /\ Belongs

LEMMA RegisteredElements == Registered = Elements(transactions)
BY DEF Registered, Elements

LEMMA SortedBook == BookIsSorted <=> SortedBy(transactions, height)
BY DEF BookIsSorted, SortedBy

LEMMA ChainGrows ==
    ASSUME chain \in [Chains -> Nat], chain' \in [Chains -> Nat],
           \A k \in Chains : chain[k] <= chain'[k]
    PROVE  AllAddrs \subseteq AllAddrs'
<1> SUFFICES ASSUME NEW c \in Chains, NEW k \in 1..chain[c]
             PROVE  <<c, k>> \in {c} \X (1..chain'[c])
  BY DEF AllAddrs
<1> QED OBVIOUS

LEMMA ContainsKept ==
    ASSUME AllAddrs \subseteq AllAddrs',
           \A u \in allTx \ allTx' : OwnOutputs(u) = {},
           NEW t \in TX, ContainsTx(allTx, t)
    PROVE  ContainsTx(allTx, t)'
<1>1. \A u : OwnOutputs(u) \subseteq OwnOutputs(u)'
  BY DEF OwnOutputs
<1>2. ASSUME NEW o \in OwnInputs(allTx, t) PROVE o \in OwnInputs(allTx, t)'
  <2>1. o \in Inputs[t] /\ o[1] \in allTx /\ o \in OutputsOf(o[1]) /\ AddrOf[o] \in AllAddrs
    BY <1>2 DEF OwnInputs
  <2>2. o \in OwnOutputs(o[1])
    BY <2>1 DEF OwnOutputs
  <2>3. o[1] \in allTx'
    BY <2>1, <2>2
  <2> QED BY <2>1, <2>3 DEF OwnInputs
<1> QED BY <1>1, <1>2 DEF ContainsTx

\* A step that leaves the book alone.
LEMMA FrozenBook ==
    ASSUME UNCHANGED <<allTx, transactions, height>>, transactions \in Seq(TX),
           AllAddrs \subseteq AllAddrs', OrderInv,
           \/ call'.op = "new"
           \/ \A t \in Registered : ContainsTx(allTx, t)
    PROVE  OrderInv'
<1>1. BookIsHeld' /\ BookIsSorted' /\ Registered' = Registered
  BY DEF OrderInv, BookIsHeld, BookIsSorted, Registered
<1>2. Registered \subseteq TX
  BY DEF Registered
<1>3. ASSUME \A t \in Registered : ContainsTx(allTx, t)
      PROVE  \A t \in Registered' : ContainsTx(allTx, t)'
  BY <1>1, <1>2, <1>3, ContainsKept
<1> QED BY <1>1, <1>3 DEF OrderInv, Belongs

LEMMA OrderInit == Init => OrderInv
<1> SUFFICES ASSUME Init PROVE OrderInv
  OBVIOUS
<1>1. transactions = <<>> /\ call.op = "new"
  BY NewCall DEF Init
<1> QED BY <1>1 DEF OrderInv, BookIsHeld, BookIsSorted, Belongs, Registered

\* Removing and inserting again keeps the members and the order.
LEMMA UpdateOwnBook ==
    ASSUME TypeInv, OrderInv, NEW t \in TX, UpdateOwn(t), height' \in [TX -> Nat]
    PROVE  SortedBy(transactions', height') /\ Registered' = Registered
<1>a. /\ transactions \in Seq(TX) /\ height \in [TX -> AnyHeight]
      /\ SortedBy(transactions, height) /\ Registered = Elements(transactions)
  BY SortedBook, RegisteredElements DEF TypeInv, TypeOK, OrderInv
<1>1. height' = [height EXCEPT ![t] = call.height]
  BY DEF UpdateOwn
<1>2. /\ SortedBy(transactions', height')
      /\ Elements(transactions') = Elements(transactions)
  <2>1. CASE t \notin Registered /\ UNCHANGED transactions
    <3>1. SortedBy(transactions, height')
      <4>1. \A u \in Elements(transactions) : height'[u] = height[u]
        BY <1>1, <2>1, <1>a, RegisteredElements
      <4> QED BY <4>1, <1>a, SameHeights
    <3> QED BY <2>1, <3>1
  <2>2. ASSUME NEW k \in 1..Len(transactions), NEW p \in 1..Len(transactions),
               transactions[k] = t,
               InsertPos(allTx, height', RemoveTx(transactions, k), t, p),
               transactions' = InsertTx(RemoveTx(transactions, k), p, t)
        PROVE  /\ SortedBy(transactions', height')
               /\ Elements(transactions') = Elements(transactions)
    <3> DEFINE rest == RemoveTx(transactions, k)
    <3>1. /\ rest \in Seq(TX) /\ Len(rest) = Len(transactions) - 1
          /\ SortedBy(rest, height)
          /\ Elements(rest) = Elements(transactions) \ {t}
      BY <2>2, <1>a, RemoveSorted
    <3> HIDE DEF rest
    <3>2. SortedBy(rest, height')
      <4>1. \A u \in Elements(rest) : height'[u] = height[u]
        BY <1>1, <3>1, <1>a, RegisteredElements
      <4> QED BY <3>1, <4>1, SameHeights
    <3>3. p \in 1..(Len(rest) + 1) /\ t \notin Elements(rest)
      BY <3>1, <1>a
    <3>4. /\ SortedBy(InsertTx(rest, p, t), height')
          /\ Elements(InsertTx(rest, p, t)) = Elements(rest) \cup {t}
      <4>1. InsertPos(allTx, height', rest, t, p)
        BY <2>2 DEF rest
      <4>2. height' \in [TX -> Nat] /\ rest \in Seq(TX)
        BY <3>1
      <4>3. CanInsert(allTx, height', rest, t, p)
        BY <4>1, <4>2, <3>2, <3>3 DEF CanInsert
      <4> QED BY <4>3, InsertSorted
    <3>5. t \in Elements(transactions)
      BY <2>2 DEF Elements
    <3> QED BY <2>2, <3>1, <3>4, <3>5 DEF rest
  <2> QED BY <2>1, <2>2 DEF UpdateOwn
<1> QED BY <1>a, <1>2 DEF Registered, Elements

LEMMA UpdateOwnMembers ==
    ASSUME TypeInv, OrderInv, NEW t \in TX, UpdateOwn(t)
    PROVE  Registered' = Registered
<1>1. height' \in [TX -> Nat]
  <2>1. call.height \in AnyHeight /\ height \in [TX -> AnyHeight]
    BY DEF UpdateOwn, Updating, TypeInv, TypeOK, Control
  <2>2. height' = [height EXCEPT ![t] = call.height]
    BY DEF UpdateOwn
  <2>3. AnyHeight \subseteq Nat
    BY Heights0
  <2> QED BY <2>1, <2>2, <2>3
<1> QED BY <1>1, UpdateOwnBook

LEMMA OrderStep == TypeInv /\ OrderInv /\ StoreBelongs /\ [Next]_vars => OrderInv'
<1> SUFFICES ASSUME TypeInv, OrderInv, StoreBelongs, [Next]_vars PROVE OrderInv'
  OBVIOUS
<1>a. /\ allTx \subseteq TX /\ transactions \in Seq(TX)
      /\ height \in [TX -> AnyHeight] /\ chain \in [Chains -> Nat]
      /\ Registered \subseteq allTx /\ Registered \subseteq TX
      /\ SortedBy(transactions, height)
  BY SortedBook DEF TypeInv, TypeOK, OrderInv, BookIsHeld
<1>b. /\ chain' \in [Chains -> Nat]
      /\ height' \in [TX -> AnyHeight] /\ height' \in [TX -> Nat]
  <2>1. TypeInv'
    BY TypeStep
  <2> QED BY <2>1, Heights0 DEF TypeInv, TypeOK
<1>c. \A t \in Registered : call.op # "new" => ContainsTx(allTx, t)
  BY DEF OrderInv, Belongs
<1>d. UNCHANGED chain => AllAddrs \subseteq AllAddrs'
  BY DEF AllAddrs
<1>e. pc \in LoadPcs => call.op = "new"
  BY DEF TypeInv, Control
<1>1. CASE LoadRow
  <2> DEFINE row == Head(toLoad)
  <2>1. row.tx \in TX /\ row.height \in AnyHeight
    <3>1. toLoad \in Seq(Row) /\ toLoad # <<>>
      BY <1>1 DEF LoadRow, TypeInv, TypeOK
    <3>2. row \in Row
      BY <3>1
    <3> QED BY <3>2 DEF Row, AnyHeight
  <2>2. call'.op = "new"
    <3>1. call.op = "new"
      BY <1>1, <1>e DEF LoadRow, LoadPcs
    <3> DEFINE q == <<row.tx>>
    <3>2. q \in Seq(TX) /\ call \in Calls
      BY <2>1 DEF TypeInv, TypeOK
    <3>3. call' = call \/ call' = WithHashes(call, q)
      BY <1>1, Zenon DEF LoadRow, WithHashes
    <3> HIDE DEF q
    <3> QED BY <3>1, <3>2, <3>3, HashesCall
  <2>3. CASE UNCHANGED book
    <3>1. AllAddrs \subseteq AllAddrs'
      BY <1>1, <1>d DEF LoadRow
    <3> QED BY <2>2, <2>3, <3>1, <1>a, FrozenBook DEF book
  <2>4. CASE row.tx \notin allTx
    <3>1. PICK p \in 1..(Len(transactions) + 1) :
              /\ InsertPos(allTx', height', transactions, row.tx, p)
              /\ transactions' = InsertTx(transactions, p, row.tx)
      BY <1>1, <2>4 DEF LoadRow
    <3>2. /\ allTx' = allTx \cup {row.tx}
          /\ height' = [height EXCEPT ![row.tx] = row.height]
      BY <1>1, <2>4 DEF LoadRow
    <3>3. row.tx \notin Elements(transactions)
      BY <2>4, <1>a, RegisteredElements
    <3>4. SortedBy(transactions, height')
      <4>1. \A u \in Elements(transactions) : u \in TX /\ u # row.tx
        BY <3>3, <1>a, RegisteredElements
      <4>2. \A u \in Elements(transactions) : height'[u] = height[u]
        BY <3>2, <4>1, <1>a
      <4> QED BY <4>2, <1>a, SameHeights
    <3>5. /\ SortedBy(transactions', height')
          /\ Elements(transactions') = Elements(transactions) \cup {row.tx}
      <4>1. CanInsert(allTx', height', transactions, row.tx, p)
        BY <2>1, <3>1, <3>3, <3>4, <1>a, <1>b DEF CanInsert
      <4> QED BY <3>1, <4>1, InsertSorted
    <3>6. BookIsSorted'
      BY <3>5 DEF BookIsSorted, SortedBy
    <3>7. Registered' = Registered \cup {row.tx}
      BY <3>5, RegisteredElements DEF Registered, Elements
    <3> QED BY <2>2, <3>2, <3>6, <3>7, <1>a DEF OrderInv, BookIsHeld, Belongs
  <2> QED BY <1>1, <2>3, <2>4 DEF LoadRow, book
<1>2. CASE LoadExternal \/ LoadInternal
  <2>1. /\ UNCHANGED <<allTx, transactions, height, call>>
        /\ \E c \in Chains : UnusedAddrs(c, GapLimit[c])
        /\ pc \in LoadPcs
    BY <1>2 DEF LoadExternal, LoadInternal, LoadChain, book, Chains, LoadPcs
  <2>2. \A c \in Chains : GapLimit[c] \in Nat
    BY BoundsAssumption
  <2>3. AllAddrs \subseteq AllAddrs'
    BY <2>1, <2>2, <1>a, <1>b, UnusedAddrsGrows, ChainGrows
  <2> QED BY <2>1, <2>3, <1>a, <1>e, FrozenBook
<1>3. CASE LoadDone
  <2>1. /\ UNCHANGED <<allTx, transactions, height, chain>>
        /\ \A t \in Registered : ContainsTx(allTx, t)
    BY <1>3 DEF LoadDone, book, StoreBelongs
  <2> QED BY <2>1, <1>a, <1>d, FrozenBook
<1>4. CASE LoadFailed
  <2>1. transactions' = <<>> /\ call'.op = "new"
    BY <1>4, NewCall DEF LoadFailed
  <2> QED BY <2>1 DEF OrderInv, BookIsHeld, BookIsSorted, Belongs, Registered
<1>5. ASSUME NEW t \in TX, NEW s \in Times, RegisterTransaction(t, s)
      PROVE  OrderInv'
  <2>1. /\ pc = "idle" /\ t \notin allTx /\ ContainsTx(allTx, t)
        /\ allTx' = allTx \cup {t}
        /\ height' = [height EXCEPT ![t] = TX_UNCONFIRMED]
        /\ UNCHANGED chain
    BY <1>5 DEF RegisterTransaction
  <2>2. PICK p \in 1..(Len(transactions) + 1) :
            /\ InsertPos(allTx \cup {t}, height', transactions, t, p)
            /\ transactions' = InsertTx(transactions, p, t)
    BY <1>5 DEF RegisterTransaction
  <2>3. t \notin Elements(transactions)
    BY <2>1, <1>a, RegisteredElements
  <2>4. SortedBy(transactions, height')
    <3>1. \A u \in Elements(transactions) : u \in TX /\ u # t
      BY <2>3, <1>a, RegisteredElements
    <3>2. \A u \in Elements(transactions) : height'[u] = height[u]
      BY <2>1, <3>1, <1>a
    <3> QED BY <3>2, <1>a, SameHeights
  <2>5. /\ SortedBy(transactions', height')
        /\ Elements(transactions') = Elements(transactions) \cup {t}
    <3> DEFINE all == allTx \cup {t}
    <3>1. InsertPos(all, height', transactions, t, p)
      BY <2>2
    <3> HIDE DEF all
    <3>2. /\ SortedBy(InsertTx(transactions, p, t), height')
          /\ Elements(InsertTx(transactions, p, t)) = Elements(transactions) \cup {t}
      <4>1. /\ transactions \in Seq(TX) /\ height' \in [TX -> Nat]
            /\ SortedBy(transactions, height') /\ t \notin Elements(transactions)
            /\ p \in 1..(Len(transactions) + 1)
        BY <2>3, <2>4, <1>a, <1>b
      <4>2. CanInsert(all, height', transactions, t, p)
        BY <4>1, <3>1 DEF CanInsert
      <4> QED BY <4>2, InsertSorted
    <3> QED BY <2>2, <3>2
  <2>6. BookIsSorted'
    BY <2>5 DEF BookIsSorted, SortedBy
  <2>7. Registered' = Registered \cup {t}
    BY <2>5, RegisteredElements DEF Registered, Elements
  <2>8. \A u \in Registered' : ContainsTx(allTx, u)'
    <3>1. call.op # "new"
      BY <2>1 DEF TypeInv, Control
    <3>2. \A u \in Registered \cup {t} : u \in TX /\ ContainsTx(allTx, u)
      BY <2>1, <3>1, <1>a, <1>c
    <3>3. AllAddrs \subseteq AllAddrs' /\ allTx \ allTx' = {}
      BY <2>1, <1>d
    <3> QED BY <2>7, <3>2, <3>3, ContainsKept
  <2> QED BY <2>1, <2>6, <2>7, <2>8, <1>a DEF OrderInv, BookIsHeld, Belongs
<1>6. ASSUME NEW t \in TX, NEW s \in Times, RegisterForeign(t, s)
      PROVE  OrderInv'
  <2>1. /\ pc = "idle" /\ t \notin allTx
        /\ allTx' = allTx \cup {t}
        /\ height' = [height EXCEPT ![t] = TX_UNCONFIRMED]
        /\ UNCHANGED <<transactions, chain>>
    BY <1>6 DEF RegisterForeign
  <2>2. t \notin Elements(transactions)
    BY <2>1, <1>a, RegisteredElements
  <2>3. SortedBy(transactions, height')
    <3>1. \A u \in Elements(transactions) : u \in TX /\ u # t
      BY <2>2, <1>a, RegisteredElements
    <3>2. \A u \in Elements(transactions) : height'[u] = height[u]
      BY <2>1, <3>1, <1>a
    <3> QED BY <3>2, <1>a, SameHeights
  <2>4. BookIsSorted' /\ Registered' = Registered
    BY <2>1, <2>3 DEF BookIsSorted, SortedBy, Registered
  <2>5. \A u \in Registered' : ContainsTx(allTx, u)'
    <3>1. call.op # "new"
      BY <2>1 DEF TypeInv, Control
    <3>2. AllAddrs \subseteq AllAddrs' /\ allTx \ allTx' = {}
      BY <2>1, <1>d
    <3> QED BY <2>4, <3>1, <3>2, <1>a, <1>c, ContainsKept
  <2> QED BY <2>1, <2>4, <2>5, <1>a DEF OrderInv, BookIsHeld, Belongs
<1>7. ASSUME NEW t \in TX, UpdateOwn(t)
      PROVE  OrderInv'
  <2>1. /\ pc = "update" /\ height' = [height EXCEPT ![t] = call.height]
        /\ UNCHANGED <<allTx, chain>>
    BY <1>7 DEF UpdateOwn, Updating
  <2>2. SortedBy(transactions', height') /\ Registered' = Registered
    BY <1>7, <1>b, UpdateOwnBook
  <2>3. BookIsSorted' /\ Registered' = Registered
    BY <2>2 DEF BookIsSorted, SortedBy
  <2>4. \A u \in Registered' : ContainsTx(allTx, u)'
    <3>1. call.op # "new"
      BY <2>1 DEF TypeInv, Control
    <3>2. AllAddrs \subseteq AllAddrs' /\ allTx \ allTx' = {}
      BY <2>1, <1>d
    <3> QED BY <2>3, <3>1, <3>2, <1>a, <1>c, ContainsKept
  <2> QED BY <2>1, <2>3, <2>4, <1>a DEF OrderInv, BookIsHeld, Belongs
<1>8. ASSUME NEW t \in TX, UpdateForeign(t)
      PROVE  OrderInv'
  <2>1. /\ pc = "update" /\ ~ ContainsTx(allTx, t)
        /\ allTx \ allTx' \subseteq {t} /\ allTx \ {t} \subseteq allTx'
        /\ height' = [height EXCEPT ![t] = TX_UNCONFIRMED]
        /\ UNCHANGED <<transactions, chain>>
    BY <1>8 DEF UpdateForeign, Updating, IsForeign
  <2>2. call.op # "new"
    BY <2>1 DEF TypeInv, Control
  <2>3. t \notin Registered
    BY <2>1, <2>2, <1>c
  <2>4. SortedBy(transactions, height')
    <3>1. \A u \in Elements(transactions) : height'[u] = height[u]
      BY <2>1, <2>3, <1>a, RegisteredElements
    <3> QED BY <3>1, <1>a, SameHeights
  <2>5. BookIsSorted' /\ Registered' = Registered
    BY <2>1, <2>4 DEF BookIsSorted, SortedBy, Registered
  <2>6. \A u \in allTx \ allTx' : OwnOutputs(u) = {}
    BY <2>1 DEF ContainsTx
  <2>7. \A u \in Registered' : ContainsTx(allTx, u)'
    BY <2>1, <2>2, <2>5, <2>6, <1>a, <1>c, <1>d, ContainsKept
  <2>8. Registered' \subseteq allTx'
    BY <2>1, <2>3, <2>5, <1>a
  <2> QED BY <2>5, <2>7, <2>8 DEF OrderInv, BookIsHeld, Belongs
<1>9. ASSUME NEW h \in Heights \cup {0}, SetTxUnconfirmedAfter(h)
      PROVE  OrderInv'
  <2>1. /\ pc = "idle" /\ UNCHANGED <<allTx, transactions, chain>>
    BY <1>9 DEF SetTxUnconfirmedAfter
  <2>2. PICK i \in 0..Len(transactions) :
            height' = [t \in TX |->
                          IF \E k \in (i + 1)..Len(transactions) : transactions[k] = t
                          THEN TX_UNCONFIRMED ELSE height[t]]
    BY <1>9 DEF SetTxUnconfirmedAfter
  <2>3. SortedBy(transactions, height')
    <3> SUFFICES ASSUME NEW j \in 1..Len(transactions), NEW k \in 1..Len(transactions), j < k
                 PROVE  /\ transactions[j] # transactions[k]
                        /\ height'[transactions[j]] <= height'[transactions[k]]
      BY DEF SortedBy
    <3>1. /\ transactions[j] \in TX /\ transactions[k] \in TX
          /\ transactions[j] # transactions[k]
          /\ height[transactions[j]] <= height[transactions[k]]
      BY <1>a DEF SortedBy
    <3>2. CASE k > i
      <4>1. height'[transactions[k]] = TX_UNCONFIRMED
        BY <2>2, <3>1, <3>2
      <4>2. height'[transactions[j]] \in AnyHeight
        BY <3>1, <1>b
      <4> QED BY <3>1, <4>1, <4>2, Heights0
    <3>3. CASE k <= i
      <4>1. \A m \in (i + 1)..Len(transactions) :
                transactions[m] # transactions[j] /\ transactions[m] # transactions[k]
        BY <3>3, <1>a DEF SortedBy
      <4>2. /\ height'[transactions[j]] = height[transactions[j]]
            /\ height'[transactions[k]] = height[transactions[k]]
        BY <2>2, <3>1, <4>1
      <4> QED BY <3>1, <4>2
    <3> QED BY <3>2, <3>3
  <2>4. BookIsSorted' /\ Registered' = Registered
    BY <2>1, <2>3 DEF BookIsSorted, SortedBy, Registered
  <2>5. \A u \in Registered' : ContainsTx(allTx, u)'
    <3>1. call.op # "new"
      BY <2>1 DEF TypeInv, Control
    <3>2. AllAddrs \subseteq AllAddrs' /\ allTx \ allTx' = {}
      BY <2>1, <1>d
    <3> QED BY <2>4, <3>1, <3>2, <1>a, <1>c, ContainsKept
  <2> QED BY <2>1, <2>4, <2>5, <1>a DEF OrderInv, BookIsHeld, Belongs
<1>10. CASE RemoveTop
  <2>1. pc = "collect" /\ UNCHANGED <<allTx, height, chain>>
    BY <1>10 DEF RemoveTop, Collected
  <2>2. /\ SortedBy(transactions', height)
        /\ Elements(transactions') \subseteq Elements(transactions)
    <3>1. \/ transactions' = transactions
          \/ \E k \in 1..Len(transactions) : transactions' = RemoveTx(transactions, k)
      BY <1>10 DEF RemoveTop
    <3> QED BY <3>1, <1>a, RemoveSorted
  <2>3. BookIsSorted' /\ Registered' \subseteq Registered
    BY <2>1, <2>2, RegisteredElements DEF BookIsSorted, SortedBy, Registered, Elements
  <2>4. \A u \in Registered' : ContainsTx(allTx, u)'
    <3>1. call.op # "new"
      BY <2>1 DEF TypeInv, Control
    <3>2. AllAddrs \subseteq AllAddrs' /\ allTx \ allTx' = {}
      BY <2>1, <1>d
    <3> QED BY <2>3, <3>1, <3>2, <1>a, <1>c, ContainsKept
  <2> QED BY <2>1, <2>3, <2>4, <1>a DEF OrderInv, BookIsHeld, Belongs
<1>11. CASE ReplaceExternal \/ ReplaceInternal
  <2>1. /\ UNCHANGED <<allTx, transactions, height, call>>
        /\ \E c \in Chains : UnusedAddrs(c, GapLimit[c])
    BY <1>11 DEF ReplaceExternal, ReplaceInternal, ReplaceUsed, book, Chains
  <2>2. \A c \in Chains : GapLimit[c] \in Nat
    BY BoundsAssumption
  <2>3. AllAddrs \subseteq AllAddrs'
    BY <2>1, <2>2, <1>a, <1>b, UnusedAddrsGrows, ChainGrows
  <2> QED BY <2>1, <2>3, <1>a, <1>c, FrozenBook
<1>12. ASSUME NEW c \in Chains, NEW gap \in UiGaps, UiUnusedAddrs(c, gap)
       PROVE  OrderInv'
  <2>1. UNCHANGED <<allTx, transactions, height, call>> /\ UnusedAddrs(c, gap)
    BY <1>12 DEF UiUnusedAddrs, book
  <2>2. AllAddrs \subseteq AllAddrs'
    BY <2>1, <1>a, <1>b, UnusedAddrsGrows, ChainGrows, BoundsAssumption
  <2> QED BY <2>1, <2>2, <1>a, <1>c, FrozenBook
<1>13. ASSUME UNCHANGED <<allTx, transactions, height, chain>>,
              call' = call \/ call.op # "new"
       PROVE  OrderInv'
  BY <1>13, <1>a, <1>c, <1>d, FrozenBook
<1>14. CASE \/ LoadBalance \/ ScanInvalid \/ ScanPending \/ ScanCounted \/ ScanDone
            \/ UpdateBalance \/ UpdateKeepBalance \/ RemoveDependents \/ Tick
            \/ UNCHANGED vars
  <2>1. UNCHANGED <<allTx, transactions, height, chain, call>>
    BY <1>14 DEF LoadBalance, ScanInvalid, ScanPending, ScanCounted, ScanDone, UpdateBalance,
                 UpdateKeepBalance, RemoveDependents, Tick, Skip, book, vars
  <2> QED BY <2>1, <1>13
<1>15. CASE \/ RegisterDone \/ UpdateDone \/ RemoveBegin \/ CollectDependent \/ RemoveDone
            \/ \E S \in SUBSET TX, h \in AnyHeight, s \in Times : UpdateTransactions(S, h, s)
            \/ \E t \in TX : UpdateNothing(t) \/ RemoveTransaction(t)
  <2>1. /\ UNCHANGED <<allTx, transactions, height, chain>>
        /\ pc \in {"notify", "remove", "collect", "idle", "update"}
    BY <1>15 DEF RegisterDone, UpdateDone, RemoveBegin, CollectDependent, Collecting, RemoveDone,
                 UpdateTransactions, UpdateNothing, Updating, RemoveTransaction, book
  <2>2. call.op # "new"
    BY <2>1 DEF TypeInv, Control
  <2> QED BY <2>1, <2>2, <1>13
<1> QED
  BY <1>1, <1>2, <1>3, <1>4, <1>5, <1>6, <1>7, <1>8, <1>9, <1>10, <1>11, <1>12, <1>14, <1>15
     DEF Next, Load, Scan, Register, Update, Reorg, Remove

\* The book holds no freed transaction.
THEOREM HeldCorrect == Spec /\ []StoreBelongs => []BookIsHeld
<1>1. Spec /\ []StoreBelongs => [](TypeInv /\ OrderInv)
  BY TypeInit, TypeStep, OrderInit, OrderStep, PTL DEF Spec
<1>2. OrderInv => BookIsHeld
  BY DEF OrderInv
<1> QED BY <1>1, <1>2, PTL

\* It is sorted by height, without duplicates, after every sequence of calls.
THEOREM SortedCorrect == Spec /\ []StoreBelongs => []BookIsSorted
<1>1. Spec /\ []StoreBelongs => [](TypeInv /\ OrderInv)
  BY TypeInit, TypeStep, OrderInit, OrderStep, PTL DEF Spec
<1>2. OrderInv => BookIsSorted
  BY DEF OrderInv
<1> QED BY <1>1, <1>2, PTL

\* A reorganisation leaves nothing of the wallet confirmed above its height: the
\* scan from the end of the book may stop at the first transaction it keeps.
THEOREM ReorgCorrect == Spec /\ []StoreBelongs => ReorgIsComplete
<1>1. Spec /\ []StoreBelongs => [](TypeInv /\ OrderInv)
  BY TypeInit, TypeStep, OrderInit, OrderStep, PTL DEF Spec
<1>2. ASSUME TypeInv, OrderInv, NEW h \in Heights \cup {0}, SetTxUnconfirmedAfter(h),
             NEW t \in Registered
      PROVE  height'[t] <= h \/ height'[t] = TX_UNCONFIRMED
  <2>1. PICK i \in 0..Len(transactions) :
            /\ i > 0 => height[transactions[i]] <= h
            /\ height' = [u \in TX |->
                            IF \E k \in (i + 1)..Len(transactions) : transactions[k] = u
                            THEN TX_UNCONFIRMED ELSE height[u]]
    BY <1>2 DEF SetTxUnconfirmedAfter
  <2>2. PICK j \in 1..Len(transactions) : transactions[j] = t
    BY DEF Registered
  <2>3. /\ transactions \in Seq(TX) /\ height \in [TX -> Nat] /\ t \in TX /\ h \in Nat
        /\ SortedBy(transactions, height)
    <3>1. transactions \in Seq(TX) /\ height \in [TX -> AnyHeight]
      BY <1>2 DEF TypeInv, TypeOK
    <3>2. height \in [TX -> Nat] /\ t \in TX
      <4>1. AnyHeight \subseteq Nat
        BY Heights0
      <4>2. t \in TX
        BY <2>2, <3>1
      <4> QED BY <3>1, <4>1, <4>2
    <3>3. h \in Nat
      BY BoundsAssumption
    <3>4. SortedBy(transactions, height)
      BY <1>2, SortedBook DEF OrderInv
    <3> QED BY <3>1, <3>2, <3>3, <3>4
  <2>4. CASE j > i
    BY <2>1, <2>2, <2>3, <2>4
  <2>5. CASE j <= i
    <3>1. transactions[i] \in TX /\ height[transactions[i]] <= h /\ i \in 1..Len(transactions)
      BY <2>1, <2>3, <2>5
    <3>2. height[t] <= height[transactions[i]]
      <4>1. CASE j = i
        BY <2>2, <2>3, <4>1
      <4>2. CASE j < i
        BY <2>2, <2>3, <3>1, <4>2 DEF SortedBy
      <4> QED BY <2>5, <4>1, <4>2
    <3>3. height'[t] = height[t] \/ height'[t] = TX_UNCONFIRMED
      BY <2>1, <2>3
    <3>4. height[t] \in Nat /\ height[transactions[i]] \in Nat
      BY <2>3, <3>1
    <3> QED BY <2>3, <3>1, <3>2, <3>3, <3>4
  <2> QED BY <2>4, <2>5
<1>3. TypeInv /\ OrderInv =>
          [\A h \in Heights \cup {0} : SetTxUnconfirmedAfter(h) =>
              \A t \in Registered : height'[t] <= h \/ height'[t] = TX_UNCONFIRMED]_vars
  BY <1>2
<1> QED BY <1>1, <1>3, PTL DEF ReorgIsComplete

-----------------------------------------------------------------------------
(***************************************************************************)
(* What the wallet derives from its book.  The invariant is about the      *)
(* transactions the scan has been over, which are all of the book's        *)
(* between two scans.                                                      *)
(***************************************************************************)
Unscanned == {"load", "loadInternal", "loaded"}

\* How far the scan is, and the transactions it has been over.
Reached   == IF pc \in Unscanned THEN 0
             ELSE IF pc = "balance" THEN scan - 1 ELSE Len(transactions)
Processed == {transactions[k] : k \in 1..Reached}

Counted == Processed \ (invalidTx \cup pendingTx)

OnlyProcessed == invalidTx \cup pendingTx \subseteq Processed

InputsAreSpent == \A t \in Processed \ invalidTx : Inputs[t] \subseteq spentOutputs

UtxosAreCounted ==
    \A o \in utxos : /\ o[1] \in Counted
                     /\ AddrOf[o] \in AllAddrs
                     /\ \A t \in Counted : o \notin Inputs[t]

NoConflict ==
    \A t, u \in Processed \ invalidTx :
        t # u /\ height[u] = TX_UNCONFIRMED => Inputs[t] \cap Inputs[u] = {}

Balanced == /\ balance = Value[utxos]
            /\ balance = totalReceived - totalSent
            /\ pc = "balance" => prevBalance = balance

LedgerInv == OnlyProcessed /\ InputsAreSpent /\ UtxosAreCounted /\ NoConflict /\ Balanced

-----------------------------------------------------------------------------
(***************************************************************************)
(* A timestamp update is only given for transactions that are unconfirmed. *)
(***************************************************************************)
Retiming ==
    pc = "update" /\ call.height = TX_UNCONFIRMED =>
        \A t \in call.todo : height[t] = TX_UNCONFIRMED

LEMMA RetimingInit == Init => Retiming
BY DEF Init, Retiming

LEMMA RetimingStep == TypeInv /\ Retiming /\ [Next]_vars => Retiming'
<1> SUFFICES ASSUME TypeInv, Retiming, [Next]_vars PROVE Retiming'
  OBVIOUS
<1>a. call \in Calls /\ height \in [TX -> AnyHeight]
  BY DEF TypeInv, TypeOK
<1>1. ASSUME NEW S \in SUBSET TX, NEW h \in AnyHeight, NEW s \in Times,
             UpdateTransactions(S, h, s)
      PROVE  Retiming'
  <2>1. call' = CallUpdate(S, h, s)
    BY <1>1, Zenon DEF UpdateTransactions, CallUpdate
  <2>2. call'.todo = S /\ call'.height = h
    BY <2>1, UpdateCall
  <2>3. height' = height /\ (h = TX_UNCONFIRMED => \E t \in allTx : S = {t} /\ height[t] = h)
    BY <1>1 DEF UpdateTransactions
  <2> QED BY <2>2, <2>3 DEF Retiming
<1>2. ASSUME NEW t \in TX, UpdateNothing(t) \/ UpdateForeign(t)
      PROVE  Retiming'
  <2>1. pc = "update" /\ (height' = height \/ height' = [height EXCEPT ![t] = TX_UNCONFIRMED])
    BY <1>2 DEF UpdateNothing, UpdateForeign, Updating, book
  <2>2. call'.todo = call.todo \ {t} /\ call'.height = call.height
    <3>1. call' = WithTodo(call, call.todo \ {t})
      BY <1>2, Zenon DEF UpdateNothing, UpdateForeign, WithTodo
    <3> QED BY <1>a, <3>1, TodoCall, CallFields
  <2> QED BY <1>a, <2>1, <2>2, CallFields DEF Retiming
<1>3. ASSUME NEW t \in TX, UpdateOwn(t)
      PROVE  Retiming'
  <2>1. pc = "update" /\ height' = [height EXCEPT ![t] = call.height]
    BY <1>3 DEF UpdateOwn, Updating
  <2>2. call'.todo = call.todo \ {t} /\ call'.height = call.height
    <3> DEFINE T == call.todo \ {t}
               q == Append(call.hashes, t)
               b == call.needsUpdate \/ t \in pendingTx \/ t \in invalidTx
    <3>1. T \in SUBSET TX /\ q \in Seq(TX) /\ b \in BOOLEAN
      BY <1>a, CallFields
    <3>2. call' = WithUpdated(call, T, q, b)
      BY <1>3, Zenon DEF UpdateOwn, WithUpdated
    <3>3. T = call.todo \ {t}
      OBVIOUS
    <3> HIDE DEF T, q, b
    <3> QED BY <1>a, <3>1, <3>2, <3>3, UpdatedCall
  <2> QED BY <1>a, <2>1, <2>2, CallFields DEF Retiming
<1>4. ASSUME pc' # "update" PROVE Retiming'
  BY <1>4 DEF Retiming
<1>5. ASSUME UNCHANGED <<pc, call, height>> PROVE Retiming'
  BY <1>5 DEF Retiming
<1>6. CASE Load
  BY <1>4, <1>6 DEF Load, LoadRow, LoadExternal, LoadInternal, LoadChain, LoadBalance, LoadDone,
                    LoadFailed, StartBalance
<1>7. CASE Scan
  BY <1>4, <1>7 DEF Scan, ScanInvalid, ScanPending, ScanCounted, ScanDone, Scanning, Skip
<1>8. ASSUME NEW t \in TX, NEW s \in Times, RegisterTransaction(t, s) \/ RegisterForeign(t, s)
      PROVE  Retiming'
  BY <1>4, <1>8 DEF RegisterTransaction, RegisterForeign, StartBalance
<1>9. CASE \/ ReplaceExternal \/ ReplaceInternal \/ RegisterDone
           \/ UpdateBalance \/ UpdateKeepBalance \/ UpdateDone
  BY <1>4, <1>9 DEF ReplaceExternal, ReplaceInternal, ReplaceUsed, RegisterDone, UpdateBalance,
                    UpdateKeepBalance, UpdateDone, StartBalance
<1>10. CASE Reorg
  BY <1>4, <1>10 DEF Reorg, SetTxUnconfirmedAfter, StartBalance
<1>11. CASE Remove
  BY <1>4, <1>11 DEF Remove, RemoveTransaction, RemoveBegin, CollectDependent, Collecting,
                     RemoveDependents, RemoveTop, RemoveDone, StartBalance
<1>12. CASE Tick \/ (\E c \in Chains, gap \in UiGaps : UiUnusedAddrs(c, gap)) \/ UNCHANGED vars
  BY <1>5, <1>12 DEF Tick, UiUnusedAddrs, book, vars
<1> QED
  BY <1>1, <1>2, <1>3, <1>6, <1>7, <1>8, <1>9, <1>10, <1>11, <1>12 DEF Next, Register, Update

-----------------------------------------------------------------------------
(***************************************************************************)
(* Sums.                                                                   *)
(***************************************************************************)
LEMMA ValueNone == Value[{}] = 0
<1>1. {} \in SUBSET Coins /\ {} \cap {} = {} /\ {} \cup {} = {}
  OBVIOUS
<1>2. Value[{}] \in Nat
  BY <1>1, ValueAssumption
<1>3. Value[{} \cup {}] = Value[{}] + Value[{}]
  BY <1>1, ValueAssumption
<1>4. Value[{}] = Value[{}] + Value[{}]
  BY <1>1, <1>3
<1>5. \A v \in Nat : v = v + v => v = 0
  OBVIOUS
<1> QED BY <1>2, <1>4, <1>5

LEMMA ValueWithout ==
    ASSUME NEW A \in SUBSET Coins, NEW S
    PROVE  /\ Value[A \ S] = Value[A] - Value[A \cap S]
           /\ Value[A] \in Nat
<1>1. /\ A \ S \in SUBSET Coins /\ A \cap S \in SUBSET Coins
      /\ (A \ S) \cap (A \cap S) = {} /\ (A \ S) \cup (A \cap S) = A
  OBVIOUS
<1>2. Value[(A \ S) \cup (A \cap S)] = Value[A \ S] + Value[A \cap S]
  BY <1>1, ValueAssumption
<1>3. Value[A \ S] \in Nat /\ Value[A \cap S] \in Nat /\ Value[A] \in Nat
  BY <1>1, ValueAssumption
<1> QED BY <1>1, <1>2, <1>3

-----------------------------------------------------------------------------
(***************************************************************************)
(* Where a scan starts, and the steps between two scans.                   *)
(***************************************************************************)
LEMMA LedgerStart ==
    ASSUME utxos' = {}, invalidTx' = {}, pendingTx' = {}, Processed' = {},
           balance' = 0, totalSent' = 0, totalReceived' = 0,
           pc' = "balance" => prevBalance' = 0
    PROVE  LedgerInv'
BY ValueNone DEF LedgerInv, OnlyProcessed, InputsAreSpent, UtxosAreCounted, NoConflict, Balanced

LEMMA StartBalanceLedger ==
    ASSUME StartBalance PROVE LedgerInv'
<1>1. Processed' = {}
  BY DEF StartBalance, Processed, Reached, Unscanned
<1> QED BY <1>1, LedgerStart DEF StartBalance

LEMMA LedgerKept ==
    ASSUME LedgerInv, Processed' = Processed,
           \A t \in Processed : height'[t] = TX_UNCONFIRMED => height[t] = TX_UNCONFIRMED,
           AllAddrs \subseteq AllAddrs', pc' # "balance",
           UNCHANGED <<utxos, spentOutputs, invalidTx, pendingTx, balance, totalSent,
                       totalReceived>>
    PROVE  LedgerInv'
<1>1. Counted' = Counted
  BY DEF Counted
<1>2. OnlyProcessed' /\ InputsAreSpent' /\ Balanced'
  BY DEF LedgerInv, OnlyProcessed, InputsAreSpent, Balanced
<1>3. UtxosAreCounted'
  BY <1>1 DEF LedgerInv, UtxosAreCounted
<1>4. NoConflict'
  BY DEF LedgerInv, NoConflict
<1> QED BY <1>2, <1>3, <1>4 DEF LedgerInv

\* One step of the scan: t is the next transaction of the book.  Everything
\* that was scanned before is another transaction, and not above t.
LEMMA NextScanned ==
    ASSUME TypeInv, OrderInv, Scanning
    PROVE  /\ ScannedTx \in TX
           /\ ScannedTx \notin Processed
           /\ \A u \in Processed : u \in TX /\ height[u] <= height[ScannedTx]
<1>1. /\ transactions \in Seq(TX) /\ scan \in 1..Len(transactions) /\ pc = "balance"
      /\ SortedBy(transactions, height)
  BY SortedBook DEF TypeInv, TypeOK, Control, Scanning, OrderInv
<1>2. Processed = {transactions[k] : k \in 1..(scan - 1)}
  BY <1>1 DEF Processed, Reached, Unscanned
<1>3. ASSUME NEW k \in 1..(scan - 1)
      PROVE  /\ transactions[k] # transactions[scan] /\ transactions[k] \in TX
             /\ height[transactions[k]] <= height[transactions[scan]]
  <2>1. k \in 1..Len(transactions) /\ k < scan
    BY <1>1
  <2> QED BY <1>1, <2>1 DEF SortedBy
<1> QED BY <1>1, <1>2, <1>3 DEF ScannedTx

LEMMA MoreProcessed ==
    ASSUME TypeInv, Scanning, scan' = scan + 1, UNCHANGED <<pc, transactions>>
    PROVE  Processed' = Processed \cup {ScannedTx}
<1>1. scan \in 1..Len(transactions) /\ pc = "balance" /\ pc' = "balance"
  BY DEF TypeInv, TypeOK, Control, Scanning
<1>2. /\ Processed = {transactions[k] : k \in 1..(scan - 1)}
      /\ Processed' = {transactions[k] : k \in 1..scan}
  <2>1. scan' - 1 = scan
    BY <1>1
  <2> QED BY <1>1, <2>1 DEF Processed, Reached, Unscanned
<1>3. 1..scan = (1..(scan - 1)) \cup {scan}
  BY <1>1
<1> QED BY <1>2, <1>3 DEF ScannedTx

LEMMA InvalidStep ==
    ASSUME TypeInv, OrderInv, LedgerInv, ScanInvalid
    PROVE  LedgerInv'
<1> DEFINE t == ScannedTx
<1>1. /\ Scanning /\ scan' = scan + 1
      /\ invalidTx' = invalidTx \cup {t}
      /\ UNCHANGED <<transactions, height, chain, utxos, spentOutputs, pendingTx, balance,
                     totalSent, totalReceived, pc, prevBalance>>
  BY DEF ScanInvalid, Skip, book
<1>2. Processed' = Processed \cup {t} /\ t \notin Processed
  BY <1>1, NextScanned, MoreProcessed
<1>3. AllAddrs' = AllAddrs
  BY <1>1 DEF AllAddrs
<1> HIDE DEF t
<1>4. Processed' \ invalidTx' = Processed \ invalidTx /\ Counted' = Counted
  BY <1>1, <1>2 DEF Counted
<1>5. OnlyProcessed' /\ InputsAreSpent'
  BY <1>1, <1>2, <1>4 DEF LedgerInv, OnlyProcessed, InputsAreSpent
<1>6. UtxosAreCounted'
  BY <1>1, <1>3, <1>4 DEF LedgerInv, UtxosAreCounted
<1>7. NoConflict' /\ Balanced'
  BY <1>1, <1>4 DEF LedgerInv, NoConflict, Balanced
<1> QED BY <1>5, <1>6, <1>7 DEF LedgerInv

\* What is new in NoConflict when t, which is not taken for a double spend, has
\* been scanned: the scan knows every output that was spent before, and a
\* confirmed t comes before every unconfirmed transaction.
LEMMA NoConflictStep ==
    ASSUME TypeInv, OrderInv, LedgerInv, Scanning,
           height[ScannedTx] = TX_UNCONFIRMED => Inputs[ScannedTx] \cap spentOutputs = {},
           Processed' = Processed \cup {ScannedTx},
           UNCHANGED <<invalidTx, height>>
    PROVE  NoConflict'
<1> DEFINE t == ScannedTx
<1>1. /\ t \in TX /\ height[t] \in AnyHeight
      /\ \A u \in Processed : u \in TX /\ height[u] <= height[t] /\ height[u] \in AnyHeight
  BY NextScanned DEF TypeInv, TypeOK
<1>2. ASSUME NEW u \in Processed \ invalidTx,
             height[t] = TX_UNCONFIRMED \/ height[u] = TX_UNCONFIRMED
      PROVE  Inputs[u] \cap Inputs[t] = {}
  <2>1. height[t] = TX_UNCONFIRMED
    <3>1. \A h, k \in AnyHeight : h <= k /\ h = TX_UNCONFIRMED => k = TX_UNCONFIRMED
      BY Heights0
    <3> QED BY <1>1, <1>2, <3>1
  <2>2. Inputs[u] \subseteq spentOutputs
    BY DEF LedgerInv, InputsAreSpent
  <2> QED BY <2>1, <2>2
<1> HIDE DEF t
<1>3. Processed' = Processed \cup {t}
  BY DEF t
<1>4. SUFFICES ASSUME NEW v \in Processed' \ invalidTx, NEW u \in Processed' \ invalidTx,
                      v # u, height[u] = TX_UNCONFIRMED
               PROVE  Inputs[v] \cap Inputs[u] = {}
  BY DEF NoConflict
<1>5. CASE u \in Processed /\ v \in Processed
  BY <1>4, <1>5 DEF LedgerInv, NoConflict
<1>6. CASE u = t /\ v \in Processed
  BY <1>2, <1>4, <1>6
<1>7. CASE v = t /\ u \in Processed
  BY <1>2, <1>4, <1>7
<1> QED BY <1>3, <1>4, <1>5, <1>6, <1>7

LEMMA PendingStep ==
    ASSUME TypeInv, OrderInv, LedgerInv, ScanPending
    PROVE  LedgerInv'
<1> DEFINE t == ScannedTx
<1>1. /\ Scanning /\ scan' = scan + 1
      /\ Inputs[t] \cap spentOutputs = {}
      /\ spentOutputs' = spentOutputs \cup Inputs[t]
      /\ pendingTx' = pendingTx \cup {t}
      /\ UNCHANGED <<transactions, height, chain, utxos, invalidTx, balance,
                     totalSent, totalReceived, pc, prevBalance>>
  BY DEF ScanPending, IsConflicted, Skip, book
<1>2. Processed' = Processed \cup {t} /\ t \notin Processed
  BY <1>1, NextScanned, MoreProcessed
<1>3. AllAddrs' = AllAddrs
  BY <1>1 DEF AllAddrs
<1>4. NoConflict'
  BY <1>1, <1>2, NoConflictStep
<1> HIDE DEF t
<1>5. Counted' = Counted
  BY <1>1, <1>2 DEF Counted
<1>6. OnlyProcessed' /\ InputsAreSpent'
  BY <1>1, <1>2 DEF LedgerInv, OnlyProcessed, InputsAreSpent
<1>7. UtxosAreCounted'
  BY <1>1, <1>3, <1>5 DEF LedgerInv, UtxosAreCounted
<1>8. Balanced'
  BY <1>1 DEF LedgerInv, Balanced
<1> QED BY <1>4, <1>6, <1>7, <1>8 DEF LedgerInv

LEMMA CountedStep ==
    ASSUME TypeInv, OrderInv, LedgerInv, ScanCounted
    PROVE  LedgerInv'
<1> DEFINE t     == ScannedTx
           own   == OwnOutputs(t)
           spent == spentOutputs \cup Inputs[t]
           total == balance + Value[own] - Value[(utxos \cup own) \cap spent]
<1>1. /\ Scanning /\ scan' = scan + 1
      /\ height[t] = TX_UNCONFIRMED => Inputs[t] \cap spentOutputs = {}
      /\ spentOutputs' = spent
      /\ utxos' = (utxos \cup own) \ spent
      /\ balance' = total /\ prevBalance' = total
      /\ totalReceived' = totalReceived + Rise(prevBalance, total)
      /\ totalSent' = totalSent + Rise(total, prevBalance)
      /\ UNCHANGED <<transactions, height, chain, invalidTx, pendingTx, pc>>
  BY DEF ScanCounted, IsConflicted, book
<1>2. Processed' = Processed \cup {t} /\ t \notin Processed /\ t \in TX
  BY <1>1, NextScanned, MoreProcessed
<1>3. AllAddrs' = AllAddrs
  BY <1>1 DEF AllAddrs
<1>4. NoConflict'
  BY <1>1, <1>2, NoConflictStep
<1>5. /\ utxos \subseteq Coins /\ balance \in Int
      /\ totalReceived \in Nat /\ totalSent \in Nat
  BY DEF TypeInv, TypeOK
<1>6. own \subseteq Coins /\ \A o \in own : o[1] = t /\ AddrOf[o] \in AllAddrs
  <2>1. own \subseteq Coins
    BY <1>2, OwnOutputsType
  <2> QED BY <2>1 DEF OwnOutputs, OutputsOf
<1> HIDE DEF t, own, spent, total
<1>7. t \notin invalidTx /\ t \notin pendingTx
  BY <1>2 DEF LedgerInv, OnlyProcessed
<1>8. Counted' = Counted \cup {t}
  BY <1>1, <1>2, <1>7 DEF Counted
<1>9. OnlyProcessed' /\ InputsAreSpent'
  <2>1. OnlyProcessed'
    BY <1>1, <1>2 DEF LedgerInv, OnlyProcessed
  <2>2. ASSUME NEW u \in Processed' \ invalidTx' PROVE Inputs[u] \subseteq spentOutputs'
    <3>1. u = t \/ u \in Processed \ invalidTx
      BY <1>1, <1>2
    <3>2. Inputs[t] \subseteq spentOutputs' /\ spentOutputs \subseteq spentOutputs'
      BY <1>1 DEF spent
    <3> QED BY <3>1, <3>2 DEF LedgerInv, InputsAreSpent
  <2> QED BY <2>1, <2>2 DEF InputsAreSpent
<1>10. UtxosAreCounted'
  <2> SUFFICES ASSUME NEW o \in utxos'
               PROVE  /\ o[1] \in Counted' /\ AddrOf[o] \in AllAddrs'
                      /\ \A u \in Counted' : o \notin Inputs[u]
    BY DEF UtxosAreCounted
  <2>1. (o \in utxos \/ o \in own) /\ o \notin spent
    BY <1>1
  <2>2. o[1] \in Counted' /\ AddrOf[o] \in AllAddrs'
    BY <1>3, <1>6, <1>8, <2>1 DEF LedgerInv, UtxosAreCounted
  <2>3. ASSUME NEW u \in Counted' PROVE o \notin Inputs[u]
    <3>1. u \in Processed' \ invalidTx'
      BY DEF Counted
    <3>2. Inputs[u] \subseteq spentOutputs'
      BY <1>9, <3>1 DEF InputsAreSpent
    <3> QED BY <1>1, <2>1, <3>2
  <2> QED BY <2>2, <2>3
<1>11. total = Value[utxos'] /\ total \in Int
  <2>1. utxos \cap own = {}
    BY <1>2, <1>6 DEF LedgerInv, UtxosAreCounted, Counted
  <2>2. utxos \in SUBSET Coins /\ own \in SUBSET Coins /\ utxos \cup own \in SUBSET Coins
    BY <1>5, <1>6
  <2>3. Value[utxos \cup own] = Value[utxos] + Value[own]
    BY <2>1, <2>2, ValueAssumption
  <2>4. Value[(utxos \cup own) \ spent] = Value[utxos \cup own] - Value[(utxos \cup own) \cap spent]
    BY <2>2, ValueWithout
  <2>5. /\ Value[utxos] \in Nat /\ Value[own] \in Nat
        /\ Value[(utxos \cup own) \cap spent] \in Nat
    <3>1. (utxos \cup own) \cap spent \in SUBSET Coins
      BY <2>2
    <3> QED BY <2>2, <3>1, ValueAssumption
  <2>6. balance = Value[utxos]
    BY DEF LedgerInv, Balanced
  <2> QED BY <1>1, <2>3, <2>4, <2>5, <2>6 DEF total
<1>12. Balanced'
  <2>1. prevBalance = balance /\ balance = totalReceived - totalSent
    BY <1>1 DEF LedgerInv, Balanced, Scanning
  <2>2. Rise(prevBalance, total) - Rise(total, prevBalance) = total - balance
        /\ Rise(prevBalance, total) \in Int /\ Rise(total, prevBalance) \in Int
    BY <1>5, <1>11, <2>1 DEF Rise
  <2>3. total = totalReceived' - totalSent'
    BY <1>1, <1>5, <1>11, <2>1, <2>2
  <2> QED BY <1>1, <1>11, <2>3 DEF Balanced
<1> QED BY <1>4, <1>9, <1>10, <1>12 DEF LedgerInv

-----------------------------------------------------------------------------
\* Between two scans, what was scanned is the book.
LEMMA ProcessedBook ==
    ASSUME pc \notin Unscanned, pc # "balance"
    PROVE  Processed = Registered
BY DEF Processed, Reached, Registered

LEMMA LedgerInit == Init => LedgerInv
<1> SUFFICES ASSUME Init PROVE LedgerInv
  OBVIOUS
<1>1. Processed = {}
  BY DEF Init, Processed, Reached, Unscanned
<1> QED
  BY <1>1, ValueNone DEF Init, LedgerInv, OnlyProcessed, InputsAreSpent, UtxosAreCounted,
                         NoConflict, Balanced

\* A step between two scans that keeps the members of the book and makes none of
\* them unconfirmed.
LEMMA LedgerBetween ==
    ASSUME TypeInv, LedgerInv,
           pc \notin Unscanned, pc # "balance", pc' \notin Unscanned, pc' # "balance",
           Registered' = Registered,
           \A t \in Registered : height'[t] = TX_UNCONFIRMED => height[t] = TX_UNCONFIRMED,
           AllAddrs \subseteq AllAddrs',
           UNCHANGED <<utxos, spentOutputs, invalidTx, pendingTx, balance, totalSent,
                       totalReceived>>
    PROVE  LedgerInv'
<1>1. Processed = Registered
  BY ProcessedBook
<1>2. Processed' = Registered'
  BY DEF Processed, Reached, Registered
<1> QED BY <1>1, <1>2, LedgerKept

LEMMA LedgerStep ==
    TypeInv /\ OrderInv /\ Retiming /\ LedgerInv /\ [Next]_vars => LedgerInv'
<1> SUFFICES ASSUME TypeInv, OrderInv, Retiming, LedgerInv, [Next]_vars PROVE LedgerInv'
  OBVIOUS
<1>a. /\ chain \in [Chains -> Nat] /\ height \in [TX -> AnyHeight]
      /\ Registered \subseteq allTx /\ Registered \subseteq TX
  BY DEF TypeInv, TypeOK, OrderInv, BookIsHeld
<1>b. chain' \in [Chains -> Nat]
  <2>1. TypeInv'
    BY TypeStep
  <2> QED BY <2>1 DEF TypeInv, TypeOK
<1>c. UNCHANGED chain => AllAddrs \subseteq AllAddrs'
  BY DEF AllAddrs
<1>d. UNCHANGED transactions => Registered' = Registered
  BY DEF Registered
<1>e. ASSUME NEW c \in Chains, NEW gap \in Nat, UnusedAddrs(c, gap)
      PROVE  AllAddrs \subseteq AllAddrs'
  BY <1>a, <1>b, <1>e, UnusedAddrsGrows, ChainGrows
<1>f. \A c \in Chains : GapLimit[c] \in Nat
  BY BoundsAssumption
<1>1. CASE LoadRow
  <2>1. /\ Processed = {} /\ Processed' = {} /\ pc' # "balance"
        /\ UNCHANGED <<chain, utxos, spentOutputs, invalidTx, pendingTx, balance, totalSent,
                       totalReceived>>
    BY <1>1 DEF LoadRow, Processed, Reached, Unscanned
  <2> QED BY <2>1, <1>c, LedgerKept
<1>2. CASE LoadExternal \/ LoadInternal
  <2>1. /\ Processed = {} /\ Processed' = {} /\ pc' # "balance"
        /\ UNCHANGED <<utxos, spentOutputs, invalidTx, pendingTx, balance, totalSent,
                       totalReceived>>
    BY <1>2 DEF LoadExternal, LoadInternal, LoadChain, Processed, Reached, Unscanned, ledger
  <2>2. \E c \in Chains : UnusedAddrs(c, GapLimit[c])
    BY <1>2 DEF LoadExternal, LoadInternal, LoadChain, Chains
  <2>3. AllAddrs \subseteq AllAddrs'
    BY <2>2, <1>e, <1>f
  <2> QED BY <2>1, <2>3, LedgerKept
<1>3. CASE \/ LoadBalance \/ UpdateBalance \/ RemoveTop
           \/ \E t \in TX, s \in Times : RegisterTransaction(t, s)
  <2>1. StartBalance
    BY <1>3 DEF LoadBalance, UpdateBalance, RemoveTop, RegisterTransaction
  <2> QED BY <2>1, StartBalanceLedger
<1>4. CASE LoadDone
  <2>1. /\ pc = "verify" /\ pc' = "idle" /\ UNCHANGED <<transactions, height, chain>>
        /\ UNCHANGED <<utxos, spentOutputs, invalidTx, pendingTx, balance, totalSent,
                       totalReceived>>
    BY <1>4 DEF LoadDone, book, ledger
  <2> QED BY <2>1, <1>c, <1>d, LedgerBetween DEF Unscanned
<1>5. CASE LoadFailed
  <2>1. Processed' = {} /\ pc' # "balance"
    BY <1>5 DEF LoadFailed, Processed, Reached, Unscanned
  <2> QED BY <1>5, <2>1, LedgerStart DEF LoadFailed
<1>6. CASE ScanInvalid
  BY <1>6, InvalidStep
<1>7. CASE ScanPending
  BY <1>7, PendingStep
<1>8. CASE ScanCounted
  BY <1>8, CountedStep
<1>9. CASE ScanDone
  <2>1. /\ pc = "balance" /\ scan > Len(transactions)
        /\ pc' \in {"verify", "external", "notify"}
        /\ UNCHANGED <<transactions, height, chain, utxos, spentOutputs, invalidTx, pendingTx,
                       balance, totalSent, totalReceived>>
    BY <1>9 DEF ScanDone, book, ledger
  <2>2. scan - 1 = Len(transactions)
    <3>1. transactions \in Seq(TX) /\ scan \in 1..(Len(transactions) + 1)
      BY <2>1 DEF TypeInv, TypeOK, Control
    <3>2. Len(transactions) \in Nat
      BY <3>1
    <3> QED BY <2>1, <3>1, <3>2
  <2>3. Processed = Registered
    BY <2>1, <2>2 DEF Processed, Reached, Registered, Unscanned
  <2>4. Processed' = Registered'
    BY <2>1 DEF Processed, Reached, Registered, Unscanned
  <2> QED BY <2>1, <2>3, <2>4, <1>c, <1>d, LedgerKept
<1>10. ASSUME NEW t \in TX, NEW s \in Times, RegisterForeign(t, s)
       PROVE  LedgerInv'
  <2>1. /\ pc = "idle" /\ pc' = "idle" /\ t \notin allTx
        /\ height' = [height EXCEPT ![t] = TX_UNCONFIRMED]
        /\ UNCHANGED <<transactions, chain, utxos, spentOutputs, invalidTx, pendingTx, balance,
                       totalSent, totalReceived>>
    BY <1>10 DEF RegisterForeign, ledger
  <2>2. \A u \in Registered : height'[u] = height[u]
    BY <2>1, <1>a
  <2> QED BY <2>1, <2>2, <1>c, <1>d, LedgerBetween DEF Unscanned
<1>11. CASE \/ ReplaceExternal \/ ReplaceInternal
            \/ \E c \in Chains, gap \in UiGaps : UiUnusedAddrs(c, gap)
  <2>1. /\ pc \in {"idle", "external", "internal", "notify", "remove"}
        /\ pc' \in {"idle", "external", "internal", "notify", "remove"}
        /\ \E c \in Chains, gap \in Nat : UnusedAddrs(c, gap)
        /\ UNCHANGED <<transactions, height, utxos, spentOutputs, invalidTx, pendingTx, balance,
                       totalSent, totalReceived>>
    BY <1>11, <1>f, BoundsAssumption
       DEF ReplaceExternal, ReplaceInternal, ReplaceUsed, UiUnusedAddrs, Unlocked, Chains, book,
           ledger
  <2>2. AllAddrs \subseteq AllAddrs'
    BY <2>1, <1>e
  <2> QED BY <2>1, <2>2, <1>d, LedgerBetween DEF Unscanned
<1>12. ASSUME NEW t \in TX, UpdateOwn(t)
       PROVE  LedgerInv'
  <2>1. /\ pc = "update" /\ pc' = "update" /\ t \in call.todo
        /\ height' = [height EXCEPT ![t] = call.height]
        /\ UNCHANGED <<chain, utxos, spentOutputs, invalidTx, pendingTx, balance,
                       totalSent, totalReceived>>
    BY <1>12 DEF UpdateOwn, Updating, ledger
  <2>2. \A u \in Registered : height'[u] = TX_UNCONFIRMED => height[u] = TX_UNCONFIRMED
    BY <2>1, <1>a DEF Retiming
  <2>3. Registered' = Registered
    BY <1>12, UpdateOwnMembers
  <2> QED BY <2>1, <2>2, <2>3, <1>c, LedgerBetween DEF Unscanned
<1>13. ASSUME NEW t \in TX, UpdateForeign(t)
       PROVE  LedgerInv'
  <2>1. /\ pc = "update" /\ pc' = "update" /\ ~ ContainsTx(allTx, t)
        /\ height' = [height EXCEPT ![t] = TX_UNCONFIRMED]
        /\ UNCHANGED <<transactions, chain, utxos, spentOutputs, invalidTx, pendingTx, balance,
                       totalSent, totalReceived>>
    BY <1>13 DEF UpdateForeign, Updating, IsForeign, ledger
  <2>2. t \notin Registered
    BY <2>1 DEF TypeInv, Control, OrderInv, Belongs
  <2>3. \A u \in Registered : height'[u] = height[u]
    BY <2>1, <2>2, <1>a
  <2> QED BY <2>1, <2>3, <1>c, <1>d, LedgerBetween DEF Unscanned
<1>14. ASSUME NEW h \in Heights \cup {0}, SetTxUnconfirmedAfter(h)
       PROVE  LedgerInv'
  <2>1. CASE StartBalance
    BY <2>1, StartBalanceLedger
  <2>2. CASE ~ StartBalance
    <3>1. PICK i \in 0..Len(transactions) :
            /\ height' = [t \in TX |->
                            IF \E k \in (i + 1)..Len(transactions) : transactions[k] = t
                            THEN TX_UNCONFIRMED ELSE height[t]]
            /\ SubSeq(transactions, i + 1, Len(transactions)) = <<>>
            /\ pc = "idle" /\ pc' = "notify"
            /\ UNCHANGED <<transactions, chain, ledger>>
      BY <1>14, <2>2 DEF SetTxUnconfirmedAfter
    <3>2. transactions \in Seq(TX)
      BY DEF TypeInv, TypeOK
    <3>3. i = Len(transactions)
      <4>1. SUFFICES ASSUME i # Len(transactions) PROVE FALSE
        OBVIOUS
      <4>2. /\ i + 1 \in 1..(Len(transactions) + 1) /\ i + 1 <= Len(transactions)
            /\ Len(transactions) \in (i + 1) - 1..Len(transactions)
        BY <4>1, <3>2
      <4>3. Len(SubSeq(transactions, i + 1, Len(transactions))) = Len(transactions) - (i + 1) + 1
        BY <4>2, <3>2, SubSeqProperties
      <4> DEFINE tail == SubSeq(transactions, i + 1, Len(transactions))
      <4>4. Len(tail) = 0
        <5>1. tail = <<>>
          BY <3>1, Zenon
        <5> HIDE DEF tail
        <5> QED BY <5>1
      <4>5. Len(transactions) \in Nat /\ i \in Nat
        BY <3>2
      <4> QED BY <4>2, <4>3, <4>4, <4>5
    <3>4. \A u \in Registered : height'[u] = height[u]
      BY <3>1, <3>2, <3>3, <1>a
    <3> QED BY <3>1, <3>4, <1>c, <1>d, LedgerBetween DEF Unscanned, ledger
  <2> QED BY <2>1, <2>2
<1>15. CASE \/ RegisterDone \/ UpdateKeepBalance \/ UpdateDone
            \/ RemoveBegin \/ CollectDependent \/ RemoveDependents \/ RemoveDone
            \/ \E S \in SUBSET TX, h \in AnyHeight, s \in Times : UpdateTransactions(S, h, s)
            \/ \E t \in TX : UpdateNothing(t) \/ RemoveTransaction(t)
  <2>1. /\ pc \in {"notify", "remove", "collect", "idle", "update"}
        /\ pc' \in {"notify", "remove", "collect", "idle", "update"}
        /\ UNCHANGED <<transactions, height, chain, utxos, spentOutputs, invalidTx, pendingTx,
                       balance, totalSent, totalReceived>>
    BY <1>15 DEF RegisterDone, UpdateKeepBalance, UpdateDone, RemoveBegin, CollectDependent,
                 Collecting, RemoveDependents, Collected, RemoveDone, UpdateTransactions,
                 UpdateNothing, Updating, RemoveTransaction, book, ledger
  <2> QED BY <2>1, <1>c, <1>d, LedgerBetween DEF Unscanned
<1>16. CASE Tick \/ UNCHANGED vars
  <2>1. UNCHANGED <<pc, scan, transactions, height, chain, utxos, spentOutputs, invalidTx,
                    pendingTx, balance, totalSent, totalReceived, prevBalance>>
    BY <1>16 DEF Tick, vars, book, ledger, loop
  <2>2. Processed' = Processed /\ Counted' = Counted /\ AllAddrs' = AllAddrs
    BY <2>1 DEF Processed, Reached, Counted, AllAddrs
  <2> QED BY <2>1, <2>2 DEF LedgerInv, OnlyProcessed, InputsAreSpent, UtxosAreCounted,
                            NoConflict, Balanced
<1> QED
  BY <1>1, <1>2, <1>3, <1>4, <1>5, <1>6, <1>7, <1>8, <1>9, <1>10, <1>11, <1>12, <1>13, <1>14,
     <1>15, <1>16
     DEF Next, Load, Scan, Register, Update, Reorg, Remove

-----------------------------------------------------------------------------
LEMMA LedgerAlways ==
    Spec /\ []StoreBelongs => [](TypeInv /\ OrderInv /\ Retiming /\ LedgerInv)
BY RetimingInit, TypeInit, TypeStep, OrderInit, OrderStep, RetimingStep, LedgerInit, LedgerStep, PTL
   DEF Spec

\* Of two transactions that spend one output, at most one is not known as a
\* double spend, as long as one of them is unconfirmed.
THEOREM NoDoubleSpendCorrect == Spec /\ []StoreBelongs => []NoDoubleSpend
<1>1. LedgerInv => NoDoubleSpend
  <2>1. Settled => Processed = Registered
    BY ProcessedBook DEF Settled, Unscanned
  <2> QED BY <2>1 DEF LedgerInv, NoConflict, NoDoubleSpend
<1> QED BY <1>1, LedgerAlways, PTL

\* What the wallet offers for spending is its own, of a transaction that counts,
\* and spent by none that counts.
THEOREM UtxosCorrect == Spec /\ []StoreBelongs => []UtxosAreSpendable
<1>1. LedgerInv => UtxosAreSpendable
  <2>1. Settled => Processed = Registered
    BY ProcessedBook DEF Settled, Unscanned
  <2> QED BY <2>1 DEF LedgerInv, UtxosAreCounted, Counted, UtxosAreSpendable
<1> QED BY <1>1, LedgerAlways, PTL

\* The unsigned balance is the value of the unspent outputs at every step of the
\* scan, so its subtractions never wrap.
THEOREM BalanceCorrect == Spec /\ []StoreBelongs => []BalanceIsUtxoValue
<1>1. LedgerInv => BalanceIsUtxoValue
  BY DEF LedgerInv, Balanced, BalanceIsUtxoValue
<1> QED BY <1>1, LedgerAlways, PTL

-----------------------------------------------------------------------------
(***************************************************************************)
(* Wallet implements TxBook: every step of a call is one operation on the  *)
(* abstract book, or none.  The steps that need more than the order of the *)
(* book are those of BRWalletRemoveTransaction: it removes a transaction   *)
(* from which no unconfirmed one spends although it looks for dependents   *)
(* from the end of the book only, in a snapshot, and between nested calls  *)
(* the lock is free (RemovalInv).                                          *)
(***************************************************************************)

\* What the removal in progress knows.
StackUnconfirmed ==
    call.op = "remove" =>
        \A k \in 1..Len(removing) : height[removing[k]] = TX_UNCONFIRMED

DependentsUnconfirmed ==
    pc = "collect" =>
        \A k \in 1..Len(call.hashes) : height[call.hashes[k]] = TX_UNCONFIRMED

\* No dependent is passed over.
IsDependent(k) == transactions[k] # Top /\ Top \in ParentsOf(transactions[k])

NoneSkipped ==
    pc = "collect" /\ call.hashes = <<>> =>
        \A k \in 1..Len(transactions) : scan < k => ~ IsDependent(k)

RemovalInv == StackUnconfirmed /\ DependentsUnconfirmed /\ NoneSkipped

\* The operation in progress, where pc alone says it.
LEMMA OpOfPc ==
    ASSUME TypeInv
    PROVE  /\ pc \in {"idle", "update", "external", "internal"} => call.op \notin {"new", "remove"}
           /\ pc \in {"remove", "collect"} => call.op = "remove"
           /\ pc = "notify" => call.op # "new"
           /\ pc \in LoadPcs => call.op = "new"
BY DEF TypeInv, Control

LEMMA ReorgOp ==
    ASSUME TypeInv, NEW h, SetTxUnconfirmedAfter(h)
    PROVE  call'.op = "update"
<1>1. PICK i \in 0..Len(transactions) :
          call' = CallReorg(SubSeq(transactions, i + 1, Len(transactions)))
  BY Zenon DEF SetTxUnconfirmedAfter, CallReorg
<1> DEFINE q == SubSeq(transactions, i + 1, Len(transactions))
<1>2. q \in Seq(TX)
  <2>1. transactions \in Seq(TX) /\ i + 1 \in Nat \ {0} /\ Len(transactions) \in Nat
    BY DEF TypeInv, TypeOK
  <2>2. \A k \in (i + 1)..Len(transactions) : transactions[k] \in TX
    BY <2>1
  <2> QED BY <2>1, <2>2, SubSeqProperties
<1> HIDE DEF q
<1>3. call' = CallReorg(q)
  BY <1>1 DEF q
<1> QED BY <1>2, <1>3, ReorgCall

LEMMA TopOfStack ==
    ASSUME TypeInv, RemovalInv, call.op = "remove"
    PROVE  Top \in TX /\ height[Top] = TX_UNCONFIRMED
<1>1. removing \in Seq(TX) /\ removing # <<>>
  BY DEF TypeInv, TypeOK, Control
<1>2. Len(removing) \in 1..Len(removing)
  BY <1>1
<1> QED BY <1>1, <1>2 DEF RemovalInv, StackUnconfirmed, Top

-----------------------------------------------------------------------------
LEMMA RemovalInit == Init => RemovalInv
<1> SUFFICES ASSUME Init PROVE RemovalInv
  OBVIOUS
<1>1. pc = "load" /\ call.op = "new"
  BY NewCall DEF Init
<1> QED BY <1>1 DEF RemovalInv, StackUnconfirmed, DependentsUnconfirmed, NoneSkipped

\* A step that leaves the stack alone and does not start to collect.
LEMMA RemovalKept ==
    ASSUME RemovalInv, UNCHANGED <<height, removing>>, call'.op = call.op, pc' # "collect"
    PROVE  RemovalInv'
BY DEF RemovalInv, StackUnconfirmed, DependentsUnconfirmed, NoneSkipped

LEMMA CollectStep ==
    ASSUME TypeInv, RemovalInv, CollectDependent
    PROVE  RemovalInv'
<1>1. /\ pc = "collect" /\ scan > 0 /\ scan <= Len(transactions) /\ scan' = scan - 1
      /\ scan \in Nat /\ transactions \in Seq(TX) /\ call \in Calls /\ call.op = "remove"
      /\ height[transactions[scan]] >= height[Top]
      /\ UNCHANGED <<height, removing, transactions>>
  BY DEF CollectDependent, Collecting, TypeInv, TypeOK, Control, book
<1>2. Top' = Top
  BY <1>1 DEF Top
<1>3. transactions[scan] \in TX /\ height[transactions[scan]] = TX_UNCONFIRMED
  <2>1. transactions[scan] \in TX
    BY <1>1
  <2>2. height[transactions[scan]] \in AnyHeight
    BY <2>1 DEF TypeInv, TypeOK
  <2>3. height[Top] = TX_UNCONFIRMED
    BY <1>1, TopOfStack
  <2>4. /\ height[transactions[scan]] \in Nat /\ TX_UNCONFIRMED \in Nat
        /\ height[transactions[scan]] <= TX_UNCONFIRMED
    BY <2>2, Heights0
  <2>5. height[transactions[scan]] >= TX_UNCONFIRMED
    BY <1>1, <2>3
  <2> QED BY <2>1, <2>4, <2>5
<1> DEFINE u == transactions[scan]
           q == Append(call.hashes, u)
<1>4. call.hashes \in Seq(TX) /\ q \in Seq(TX)
  BY <1>1, <1>3, CallFields
<1>5. CASE IsDependent(scan)
  <2>1. call' = WithHashes(call, q)
    BY <1>5, Zenon DEF CollectDependent, IsDependent, WithHashes
  <2>2. call'.hashes = q /\ call'.op = call.op
    <3> HIDE DEF q
    <3> QED BY <1>1, <1>4, <2>1, HashesCall
  <2>3. /\ Len(q) = Len(call.hashes) + 1
        /\ \A k \in 1..Len(q) : q[k] = IF k <= Len(call.hashes) THEN call.hashes[k] ELSE u
    BY <1>4
  <2>4. \A k \in 1..Len(q) : height[q[k]] = TX_UNCONFIRMED
    <3> TAKE k \in 1..Len(q)
    <3>1. CASE k <= Len(call.hashes)
      <4>1. k \in 1..Len(call.hashes)
        BY <1>4, <2>3, <3>1
      <4> QED BY <1>1, <2>3, <3>1, <4>1 DEF RemovalInv, DependentsUnconfirmed
    <3>2. CASE ~ (k <= Len(call.hashes))
      BY <1>3, <2>3, <3>2
    <3> QED BY <3>1, <3>2
  <2>5. q # <<>>
    <3>1. Len(q) # 0
      BY <1>4, <2>3
    <3> HIDE DEF q
    <3> QED BY <3>1
  <2> HIDE DEF q
  <2> QED BY <1>1, <1>2, <2>2, <2>4, <2>5
          DEF RemovalInv, StackUnconfirmed, DependentsUnconfirmed, NoneSkipped
<1>6. CASE ~ IsDependent(scan)
  <2>1. call' = call
    BY <1>6, Zenon DEF CollectDependent, IsDependent
  <2>2. call.hashes = <<>> =>
            \A k \in 1..Len(transactions) : scan - 1 < k => ~ IsDependent(k)
    <3>1. \A k \in 1..Len(transactions) : scan - 1 < k => k = scan \/ scan < k
      BY <1>1
    <3> QED BY <1>1, <1>6, <3>1 DEF RemovalInv, NoneSkipped
  <2>3. \A k \in 1..Len(transactions) : IsDependent(k)' <=> IsDependent(k)
    BY <1>1, <1>2 DEF IsDependent
  <2>4. NoneSkipped'
    BY <1>1, <2>1, <2>2, <2>3 DEF NoneSkipped
  <2> QED BY <1>1, <2>1, <2>4 DEF RemovalInv, StackUnconfirmed, DependentsUnconfirmed
<1> QED BY <1>5, <1>6

\* The dependents are put on the stack.
LEMMA DependentsStep ==
    ASSUME TypeInv, RemovalInv, RemoveDependents
    PROVE  RemovalInv'
<1>1. /\ pc = "collect" /\ pc' = "remove" /\ call.op = "remove"
      /\ removing' = removing \o call.hashes
      /\ UNCHANGED <<height, call>>
  BY DEF RemoveDependents, Collected, TypeInv, Control, book
<1>2. removing \in Seq(TX) /\ call.hashes \in Seq(TX)
  BY CallFields DEF TypeInv, TypeOK
<1>3. \A k \in 1..Len(removing') : height[removing'[k]] = TX_UNCONFIRMED
  <2> TAKE k \in 1..Len(removing')
  <2>1. CASE k <= Len(removing)
    <3>1. k \in 1..Len(removing) /\ removing'[k] = removing[k]
      BY <1>1, <1>2, <2>1
    <3> QED BY <1>1, <3>1 DEF RemovalInv, StackUnconfirmed
  <2>2. CASE ~ (k <= Len(removing))
    <3> DEFINE m == k - Len(removing)
    <3>1. m \in 1..Len(call.hashes) /\ removing'[k] = call.hashes[m]
      BY <1>1, <1>2, <2>2
    <3> QED BY <1>1, <3>1 DEF RemovalInv, DependentsUnconfirmed
  <2> QED BY <2>1, <2>2
<1> QED BY <1>1, <1>3 DEF RemovalInv, StackUnconfirmed, DependentsUnconfirmed, NoneSkipped

\* The innermost call returns.
LEMMA ReturnStep ==
    ASSUME TypeInv, RemovalInv, RemoveDone
    PROVE  RemovalInv'
<1>1. /\ call.op = "remove" /\ pc' # "collect"
      /\ removing' = SubSeq(removing, 1, Len(removing) - 1)
      /\ UNCHANGED height
  BY DEF RemoveDone, book
<1>2. removing \in Seq(TX) /\ removing # <<>>
  BY <1>1 DEF TypeInv, TypeOK, Control
<1>3. /\ Len(removing') = Len(removing) - 1
      /\ \A k \in 1..(Len(removing) - 1) : removing'[k] = removing[k]
  BY <1>1, <1>2, FrontSeq
<1>4. \A k \in 1..Len(removing') : k \in 1..Len(removing) /\ removing'[k] = removing[k]
  BY <1>2, <1>3
<1> QED BY <1>1, <1>4 DEF RemovalInv, StackUnconfirmed, DependentsUnconfirmed, NoneSkipped

\* A step that does not end in a removal.
LEMMA NoRemoval ==
    ASSUME TypeInv', call'.op # "remove"
    PROVE  RemovalInv'
<1>1. pc' # "collect"
  BY DEF TypeInv, Control
<1> QED BY <1>1 DEF RemovalInv, StackUnconfirmed, DependentsUnconfirmed, NoneSkipped

LEMMA RemovalStep == TypeInv /\ RemovalInv /\ [Next]_vars => RemovalInv'
<1> SUFFICES ASSUME TypeInv, RemovalInv, [Next]_vars PROVE RemovalInv'
  OBVIOUS
<1>a. TypeInv'
  BY TypeStep
<1>b. ASSUME pc' \in LoadPcs \cup {"idle", "update", "external", "internal"}
      PROVE  RemovalInv'
  <2>1. call'.op # "remove"
    BY <1>a, <1>b DEF TypeInv, Control, LoadPcs
  <2> QED BY <1>a, <2>1, NoRemoval
<1>1. CASE LoadRow \/ LoadExternal \/ LoadInternal \/ LoadDone \/ LoadFailed
  <2>1. pc' \in {"load", "loadInternal", "loaded", "idle"}
    BY <1>1 DEF LoadRow, LoadExternal, LoadInternal, LoadChain, LoadDone, LoadFailed
  <2> QED BY <1>b, <2>1 DEF LoadPcs
<1>2. CASE LoadBalance \/ UpdateBalance \/ UpdateKeepBalance
           \/ ScanInvalid \/ ScanPending \/ ScanCounted \/ ScanDone
  <2>1. UNCHANGED <<height, removing, call>> /\ pc' # "collect"
    BY <1>2 DEF LoadBalance, UpdateBalance, UpdateKeepBalance, ScanInvalid, ScanPending,
                ScanCounted, ScanDone, Scanning, Skip, StartBalance, book
  <2> QED BY <2>1, RemovalKept
<1>3. ASSUME NEW t \in TX, NEW s \in Times, RegisterTransaction(t, s)
      PROVE  RemovalInv'
  <2>1. call' = CallRegister(t)
    BY <1>3, Zenon DEF RegisterTransaction, CallRegister
  <2> QED BY <1>a, <2>1, RegisterCall, NoRemoval
<1>4. ASSUME NEW t \in TX, NEW s \in Times, RegisterForeign(t, s)
      PROVE  RemovalInv'
  <2>1. pc' = "idle"
    BY <1>4 DEF RegisterForeign
  <2> QED BY <1>b, <2>1
<1>5. CASE ReplaceExternal \/ ReplaceInternal
  <2>1. call' = call /\ pc \in {"external", "internal"}
    BY <1>5 DEF ReplaceExternal, ReplaceInternal, ReplaceUsed
  <2>2. call'.op # "remove"
    BY <2>1, OpOfPc
  <2> QED BY <1>a, <2>2, NoRemoval
<1>6. CASE \/ RegisterDone \/ UpdateDone
           \/ \E S \in SUBSET TX, h \in AnyHeight, s \in Times : UpdateTransactions(S, h, s)
           \/ \E t \in TX : UpdateNothing(t) \/ UpdateOwn(t) \/ UpdateForeign(t)
  <2>1. pc' \in {"idle", "update"}
    BY <1>6 DEF RegisterDone, UpdateDone, UpdateTransactions, UpdateNothing, UpdateOwn,
                UpdateForeign, Updating
  <2> QED BY <1>b, <2>1
<1>7. ASSUME NEW h \in Heights \cup {0}, SetTxUnconfirmedAfter(h)
      PROVE  RemovalInv'
  <2>1. call'.op # "remove"
    BY <1>7, ReorgOp
  <2> QED BY <1>a, <2>1, NoRemoval
<1>8. ASSUME NEW t \in TX, RemoveTransaction(t)
      PROVE  RemovalInv'
  <2>1. removing' = <<t>> /\ height' = height /\ height[t] = TX_UNCONFIRMED /\ pc' = "remove"
    BY <1>8 DEF RemoveTransaction, book
  <2>2. \A k \in 1..Len(removing') : height'[removing'[k]] = TX_UNCONFIRMED
    BY <2>1
  <2> QED BY <2>1, <2>2 DEF RemovalInv, StackUnconfirmed, DependentsUnconfirmed, NoneSkipped
<1>9. CASE RemoveBegin
  <2>1. /\ pc = "remove" /\ scan' = Len(transactions)
        /\ UNCHANGED <<height, removing, transactions>>
    BY <1>9 DEF RemoveBegin, book
  <2> DEFINE q == <<>>
  <2>2. call' = WithHashes(call, q)
    BY <1>9, Zenon DEF RemoveBegin, WithHashes
  <2>3. call'.hashes = <<>> /\ call'.op = call.op
    <3>1. call \in Calls /\ q \in Seq(TX) /\ q = <<>>
      BY DEF TypeInv, TypeOK
    <3> HIDE DEF q
    <3> QED BY <2>2, <3>1, HashesCall
  <2>4. \A k \in 1..Len(transactions') : ~ (scan' < k)
    <3>1. transactions \in Seq(TX)
      BY DEF TypeInv, TypeOK
    <3> QED BY <2>1, <3>1
  <2>5. DependentsUnconfirmed'
    BY <2>3 DEF DependentsUnconfirmed
  <2> QED BY <2>1, <2>3, <2>4, <2>5 DEF RemovalInv, StackUnconfirmed, NoneSkipped
<1>10. CASE RemoveTop
  <2>1. call' = WithTop(call, Top, Top \in invalidTx)
    BY <1>10, Zenon DEF RemoveTop, WithTop
  <2>2. /\ UNCHANGED <<height, removing>> /\ pc' = "balance" /\ pc = "collect"
    BY <1>10 DEF RemoveTop, StartBalance, Collected
  <2>3. call'.op = call.op
    <3>1. Top \in TX /\ call \in Calls /\ (Top \in invalidTx) \in BOOLEAN
      BY <2>2, OpOfPc, TopOfStack DEF TypeInv, TypeOK
    <3> QED BY <2>1, <3>1, TopCall
  <2> QED BY <2>2, <2>3, RemovalKept
<1>11. CASE Tick \/ (\E c \in Chains, gap \in UiGaps : UiUnusedAddrs(c, gap)) \/ UNCHANGED vars
  <2>1. UNCHANGED <<pc, call, height, removing, transactions, scan>>
    BY <1>11 DEF Tick, UiUnusedAddrs, vars, book, loop
  <2>2. UNCHANGED Top
    BY <2>1 DEF Top
  <2> QED BY <2>1, <2>2
          DEF RemovalInv, StackUnconfirmed, DependentsUnconfirmed, NoneSkipped, IsDependent
<1> QED
  BY <1>1, <1>2, <1>3, <1>4, <1>5, <1>6, <1>7, <1>8, <1>9, <1>10, <1>11, CollectStep,
     DependentsStep, ReturnStep
     DEF Next, Load, Scan, Register, Update, Reorg, Remove

-----------------------------------------------------------------------------
(***************************************************************************)
(* The operations of TxBook, from what changes in the members of the book  *)
(* and in their heights.                                                   *)
(***************************************************************************)
SameHeight(S) == \A u \in S : height'[u] = height[u]
StaysOpen     == (call.op # "new") /\ (call'.op # "new")
StaysClosed   == (call.op = "new") /\ (call'.op = "new")

LEMMA AbstractStutter ==
    ASSUME Registered' = Registered, SameHeight(Registered), StaysOpen \/ StaysClosed
    PROVE  UNCHANGED Book!bookVars
BY DEF Book!bookVars, SameHeight, StaysOpen, StaysClosed

LEMMA AbstractLoad ==
    ASSUME NEW t \in TX, NEW h \in AnyHeight, t \notin Registered,
           Registered' = Registered \cup {t}, height'[t] = h, SameHeight(Registered),
           StaysClosed
    PROVE  Book!Next
<1>1. Book!Load(t, h)
  BY DEF Book!Load, Book!With, SameHeight, StaysClosed
<1> QED BY <1>1 DEF Book!Next, AnyHeight

LEMMA AbstractOpen ==
    ASSUME Registered' = Registered, SameHeight(Registered),
           call.op = "new", call'.op # "new"
    PROVE  Book!Next
<1>1. Book!Open
  BY DEF Book!Open, SameHeight
<1> QED BY <1>1 DEF Book!Next

LEMMA AbstractDrop ==
    ASSUME Registered' = {}, StaysClosed
    PROVE  Book!Next
<1>1. Book!Drop
  BY DEF Book!Drop, StaysClosed
<1> QED BY <1>1 DEF Book!Next

LEMMA AbstractAdd ==
    ASSUME NEW t \in TX, t \notin Registered, Registered' = Registered \cup {t},
           height'[t] = TX_UNCONFIRMED, SameHeight(Registered), StaysOpen
    PROVE  Book!Next
<1>1. Book!Add(t)
  BY DEF Book!Add, Book!With, SameHeight, StaysOpen
<1> QED BY <1>1 DEF Book!Next

LEMMA AbstractConfirm ==
    ASSUME NEW t \in TX, NEW h \in Heights, t \in Registered, Registered' = Registered,
           height'[t] = h, SameHeight(Registered \ {t}), StaysOpen
    PROVE  Book!Next
<1>1. Book!Confirm(t, h)
  BY DEF Book!Confirm, Book!With, SameHeight, StaysOpen
<1> QED BY <1>1 DEF Book!Next

LEMMA AbstractReorg ==
    ASSUME NEW h \in Heights \cup {0}, Registered' = Registered, StaysOpen,
           \A u \in Registered :
               height'[u] = IF height[u] > h THEN TX_UNCONFIRMED ELSE height[u]
    PROVE  Book!Next
<1>1. Book!Reorg(h)
  BY DEF Book!Reorg, StaysOpen
<1> QED BY <1>1 DEF Book!Next

LEMMA AbstractRemove ==
    ASSUME NEW t \in TX, t \in Registered, height[t] = TX_UNCONFIRMED,
           \A u \in Registered \ {t} : t \in ParentsOf(u) => height[u] # TX_UNCONFIRMED,
           Registered' = Registered \ {t}, SameHeight(Registered), StaysOpen
    PROVE  Book!Next
<1>1. Book!Remove(t)
  BY DEF Book!Remove, SameHeight, StaysOpen
<1> QED BY <1>1 DEF Book!Next

-----------------------------------------------------------------------------
(***************************************************************************)
(* The steps of Wallet.                                                    *)
(***************************************************************************)
LEMMA InsertMembers ==
    ASSUME transactions \in Seq(TX), NEW t \in TX, NEW p \in 1..(Len(transactions) + 1),
           transactions' = InsertTx(transactions, p, t)
    PROVE  Registered' = Registered \cup {t}
<1>1. /\ Len(transactions') = Len(transactions) + 1
      /\ \A k \in 1..(Len(transactions) + 1) :
            transactions'[k] = IF k < p THEN transactions[k]
                               ELSE IF k = p THEN t ELSE transactions[k - 1]
  BY InsertTxSeq
<1>2. ASSUME NEW u \in Registered' PROVE u \in Registered \cup {t}
  <2>1. PICK k \in 1..(Len(transactions) + 1) : transactions'[k] = u
    BY <1>1, <1>2 DEF Registered
  <2>2. CASE k < p
    <3>1. k \in 1..Len(transactions)
      BY <2>2
    <3> QED BY <1>1, <2>1, <2>2, <3>1 DEF Registered
  <2>3. CASE k = p
    BY <1>1, <2>1, <2>3
  <2>4. CASE k > p
    <3>1. k - 1 \in 1..Len(transactions) /\ ~ (k < p) /\ k # p
      BY <2>4
    <3> QED BY <1>1, <2>1, <3>1 DEF Registered
  <2> QED BY <2>2, <2>3, <2>4
<1>3. t \in Registered'
  <2>1. transactions'[p] = t /\ p \in 1..Len(transactions')
    BY <1>1
  <2> QED BY <2>1 DEF Registered
<1>4. ASSUME NEW u \in Registered PROVE u \in Registered'
  <2>1. PICK k \in 1..Len(transactions) : transactions[k] = u
    BY DEF Registered
  <2>2. CASE k < p
    <3>1. k \in 1..(Len(transactions) + 1)
      OBVIOUS
    <3>2. transactions'[k] = u
      BY <1>1, <2>1, <2>2, <3>1
    <3> QED BY <1>1, <3>1, <3>2 DEF Registered
  <2>3. CASE ~ (k < p)
    <3> DEFINE m == k + 1
    <3>1. m \in 1..(Len(transactions) + 1) /\ ~ (m < p) /\ m # p /\ m - 1 = k
      BY <2>3
    <3> HIDE DEF m
    <3>2. transactions'[m] = u
      BY <1>1, <2>1, <3>1
    <3> QED BY <1>1, <3>1, <3>2 DEF Registered
  <2> QED BY <2>2, <2>3
<1> QED BY <1>2, <1>3, <1>4

\* A step that does not change the members, nor their heights.
LEMMA BookKept ==
    ASSUME UNCHANGED <<transactions, height>>, StaysOpen \/ StaysClosed
    PROVE  UNCHANGED Book!bookVars
<1>1. Registered' = Registered /\ SameHeight(Registered)
  BY DEF Registered, SameHeight
<1> QED BY <1>1, AbstractStutter

LEMMA LoadRowStep ==
    ASSUME TypeInv, TypeInv', OrderInv, LoadRow
    PROVE  [Book!Next]_(Book!bookVars)
<1> DEFINE row == Head(toLoad)
<1>1. row.tx \in TX /\ row.height \in AnyHeight
  <2>1. toLoad \in Seq(Row) /\ toLoad # <<>>
    BY DEF LoadRow, TypeInv, TypeOK
  <2>2. row \in Row
    BY <2>1
  <2> QED BY <2>2 DEF Row, AnyHeight
<1>2. StaysClosed
  <2>1. pc = "load" /\ pc' = "load"
    BY DEF LoadRow
  <2> QED BY <2>1 DEF TypeInv, Control, LoadPcs, StaysClosed
<1>3. CASE row.tx \in allTx
  BY <1>2, <1>3, BookKept DEF LoadRow, book
<1>4. CASE row.tx \notin allTx
  <2>1. /\ height' = [height EXCEPT ![row.tx] = row.height]
        /\ \E p \in 1..(Len(transactions) + 1) :
              transactions' = InsertTx(transactions, p, row.tx)
    BY <1>4 DEF LoadRow
  <2>2. /\ transactions \in Seq(TX) /\ height \in [TX -> AnyHeight]
        /\ row.tx \notin Registered /\ Registered \subseteq TX
    BY <1>4 DEF TypeInv, TypeOK, OrderInv, BookIsHeld
  <2>3. Registered' = Registered \cup {row.tx}
    BY <1>1, <2>1, <2>2, InsertMembers
  <2>4. height'[row.tx] = row.height /\ SameHeight(Registered)
    BY <1>1, <2>1, <2>2 DEF SameHeight
  <2> QED BY <1>1, <1>2, <2>2, <2>3, <2>4, AbstractLoad
<1> QED BY <1>3, <1>4

LEMMA RegisterStep ==
    ASSUME TypeInv, OrderInv, NEW t \in TX, NEW s \in Times, RegisterTransaction(t, s)
    PROVE  [Book!Next]_(Book!bookVars)
<1>1. /\ pc = "idle" /\ t \notin allTx
      /\ height' = [height EXCEPT ![t] = TX_UNCONFIRMED]
      /\ \E p \in 1..(Len(transactions) + 1) : transactions' = InsertTx(transactions, p, t)
  BY DEF RegisterTransaction
<1>2. StaysOpen
  <2>1. call' = CallRegister(t)
    BY Zenon DEF RegisterTransaction, CallRegister
  <2>2. call'.op = "register"
    BY <2>1, RegisterCall
  <2> QED BY <1>1, <2>2, OpOfPc DEF StaysOpen
<1>3. /\ transactions \in Seq(TX) /\ height \in [TX -> AnyHeight]
      /\ t \notin Registered /\ Registered \subseteq TX
  BY <1>1 DEF TypeInv, TypeOK, OrderInv, BookIsHeld
<1>4. Registered' = Registered \cup {t}
  BY <1>1, <1>3, InsertMembers
<1>5. height'[t] = TX_UNCONFIRMED /\ SameHeight(Registered)
  BY <1>1, <1>3 DEF SameHeight
<1> QED BY <1>2, <1>3, <1>4, <1>5, AbstractAdd

LEMMA UpdateOwnStep ==
    ASSUME TypeInv, TypeInv', OrderInv, Retiming, NEW t \in TX, UpdateOwn(t)
    PROVE  [Book!Next]_(Book!bookVars)
<1>1. /\ pc = "update" /\ pc' = "update" /\ t \in call.todo
      /\ height' = [height EXCEPT ![t] = call.height]
  BY DEF UpdateOwn, Updating
<1>2. StaysOpen
  BY <1>1 DEF TypeInv, Control, StaysOpen
<1>3. Registered' = Registered
  BY UpdateOwnMembers
<1>4. /\ height \in [TX -> AnyHeight] /\ call.height \in AnyHeight /\ Registered \subseteq TX
  <2>1. transactions \in Seq(TX)
    BY DEF TypeInv, TypeOK
  <2>2. Registered \subseteq TX
    BY <2>1 DEF Registered
  <2>3. call.height \in AnyHeight
    BY <1>1 DEF TypeInv, Control
  <2> QED BY <2>2, <2>3 DEF TypeInv, TypeOK
<1>5. height'[t] = call.height /\ SameHeight(Registered \ {t})
  BY <1>1, <1>4 DEF SameHeight
<1>6. CASE t \notin Registered
  <2>1. SameHeight(Registered)
    BY <1>5, <1>6 DEF SameHeight
  <2> QED BY <1>2, <1>3, <2>1, AbstractStutter
<1>7. CASE t \in Registered /\ call.height = TX_UNCONFIRMED
  <2>1. height[t] = TX_UNCONFIRMED
    BY <1>1, <1>7 DEF Retiming
  <2>2. SameHeight(Registered)
    BY <1>5, <1>7, <2>1 DEF SameHeight
  <2> QED BY <1>2, <1>3, <2>2, AbstractStutter
<1>8. CASE t \in Registered /\ call.height # TX_UNCONFIRMED
  <2>1. call.height \in Heights
    BY <1>4, <1>8 DEF AnyHeight
  <2> QED BY <1>2, <1>3, <1>5, <1>8, <2>1, AbstractConfirm
<1> QED BY <1>6, <1>7, <1>8

\* A transaction outside the book gets another height.
LEMMA ForeignStep ==
    ASSUME TypeInv, TypeInv', OrderInv, NEW t \in TX,
           UpdateForeign(t) \/ \E s \in Times : RegisterForeign(t, s)
    PROVE  [Book!Next]_(Book!bookVars)
<1>1. /\ pc \in {"update", "idle"} /\ pc' \in {"update", "idle"}
      /\ transactions' = transactions
      /\ height' = [height EXCEPT ![t] = TX_UNCONFIRMED]
      /\ ~ ContainsTx(allTx, t) \/ t \notin allTx
  BY DEF UpdateForeign, RegisterForeign, Updating, IsForeign
<1>2. StaysOpen
  BY <1>1 DEF TypeInv, Control, StaysOpen
<1>3. t \notin Registered /\ Registered \subseteq TX
  BY <1>1, <1>2 DEF OrderInv, Belongs, BookIsHeld, StaysOpen, TypeInv, TypeOK
<1>4. SameHeight(Registered) /\ Registered' = Registered
  BY <1>1, <1>3 DEF SameHeight, Registered, TypeInv, TypeOK
<1> QED BY <1>2, <1>4, AbstractStutter

\* The scan of BRWalletSetTxUnconfirmedAfter stops at the first transaction that
\* stays, and by the order of the book it misses none.
LEMMA ReorgStep ==
    ASSUME TypeInv, OrderInv, NEW h \in Heights \cup {0}, SetTxUnconfirmedAfter(h)
    PROVE  [Book!Next]_(Book!bookVars)
<1>1. /\ transactions \in Seq(TX) /\ Registered \subseteq TX
      /\ \A u \in TX : height[u] \in Nat
      /\ h \in Nat /\ SortedBy(transactions, height)
  <2>1. transactions \in Seq(TX) /\ height \in [TX -> AnyHeight]
    BY DEF TypeInv, TypeOK
  <2>2. Registered \subseteq TX
    BY <2>1 DEF Registered
  <2>3. \A u \in TX : height[u] \in Nat
    BY <2>1, Heights0
  <2>4. h \in Nat
    BY BoundsAssumption
  <2> QED BY <2>1, <2>2, <2>3, <2>4, SortedBook DEF OrderInv
<1>2. PICK i \in 0..Len(transactions) :
          /\ i > 0 => height[transactions[i]] <= h
          /\ \A k \in (i + 1)..Len(transactions) : height[transactions[k]] > h
          /\ height' = [u \in TX |->
                          IF \E k \in (i + 1)..Len(transactions) : transactions[k] = u
                          THEN TX_UNCONFIRMED ELSE height[u]]
  BY DEF SetTxUnconfirmedAfter
<1>3. StaysOpen /\ Registered' = Registered
  <2>1. pc = "idle" /\ transactions' = transactions
    BY DEF SetTxUnconfirmedAfter
  <2>2. call'.op = "update"
    BY ReorgOp
  <2> QED BY <2>1, <2>2, OpOfPc DEF StaysOpen, Registered
<1>4. ASSUME NEW u \in Registered
      PROVE  height'[u] = IF height[u] > h THEN TX_UNCONFIRMED ELSE height[u]
  <2>1. PICK j \in 1..Len(transactions) : transactions[j] = u
    BY DEF Registered
  <2>2. u \in TX
    BY <1>1
  <2>3. CASE j > i
    <3>1. j \in (i + 1)..Len(transactions)
      BY <2>3
    <3>2. height[u] > h
      BY <1>2, <2>1, <3>1
    <3>3. height'[u] = TX_UNCONFIRMED
      BY <1>2, <2>1, <2>2, <3>1
    <3> QED BY <3>2, <3>3
  <2>4. CASE j <= i
    <3>1. i \in 1..Len(transactions) /\ height[transactions[i]] <= h
      BY <1>2, <2>4
    <3>2. height[u] <= height[transactions[i]]
      <4>1. CASE j = i
        BY <2>1, <2>2, <1>1, <4>1
      <4>2. CASE j < i
        BY <2>1, <1>1, <3>1, <4>2 DEF SortedBy
      <4> QED BY <2>4, <4>1, <4>2
    <3>3. ~ (height[u] > h)
      <4>1. transactions[i] \in TX
        BY <1>1, <3>1
      <4>2. height[u] \in Nat /\ height[transactions[i]] \in Nat
        BY <1>1, <2>2, <4>1
      <4> QED BY <1>1, <3>1, <3>2, <4>2
    <3>4. \A k \in (i + 1)..Len(transactions) : transactions[k] # u
      <4>1. \A k \in (i + 1)..Len(transactions) : k \in 1..Len(transactions) /\ j < k
        BY <2>4
      <4> QED BY <1>1, <2>1, <4>1 DEF SortedBy
    <3>5. height'[u] = height[u]
      BY <1>2, <2>2, <3>4
    <3> QED BY <3>3, <3>5
  <2> QED BY <2>3, <2>4
<1> QED BY <1>3, <1>4, AbstractReorg

\* When the search for dependents has found none, none is unconfirmed: those it
\* did not reach are older than the block of an unconfirmed transaction.
LEMMA RemoveTopStep ==
    ASSUME TypeInv, OrderInv, RemovalInv, RemoveTop
    PROVE  [Book!Next]_(Book!bookVars)
<1>1. /\ pc = "collect" /\ ~ Collecting /\ call.hashes = <<>>
      /\ height' = height /\ call.op = "remove"
      /\ transactions \in Seq(TX) /\ SortedBy(transactions, height) /\ scan \in Nat
      /\ scan <= Len(transactions)
  <2>1. pc = "collect"
    BY DEF RemoveTop, Collected
  <2>2. call.op = "remove" /\ scan <= Len(transactions)
    BY <2>1 DEF TypeInv, Control
  <2>3. transactions \in Seq(TX) /\ scan \in Nat
    BY DEF TypeInv, TypeOK
  <2> QED BY <2>1, <2>2, <2>3, SortedBook DEF OrderInv, RemoveTop, Collected
<1>2. Top \in TX /\ height[Top] = TX_UNCONFIRMED
  BY <1>1, TopOfStack
<1>3. StaysOpen
  <2>1. call' = WithTop(call, Top, Top \in invalidTx)
    BY Zenon DEF RemoveTop, WithTop
  <2>2. call \in Calls /\ (Top \in invalidTx) \in BOOLEAN
    BY DEF TypeInv, TypeOK
  <2>3. call'.op = call.op
    BY <1>2, <2>1, <2>2, TopCall
  <2> QED BY <1>1, <2>3 DEF StaysOpen
<1>4. SameHeight(Registered)
  BY <1>1 DEF SameHeight
<1>5. CASE Top \notin Registered
  <2>1. transactions' = transactions
    BY <1>5 DEF RemoveTop, Registered
  <2>2. Registered' = Registered
    BY <2>1 DEF Registered
  <2> QED BY <1>3, <1>4, <2>2, AbstractStutter
<1>6. CASE Top \in Registered
  <2>1. PICK k \in 1..Len(transactions) :
            transactions[k] = Top /\ transactions' = RemoveTx(transactions, k)
    BY <1>6 DEF RemoveTop
  <2>2. Registered' = Registered \ {Top}
    <3>1. Elements(transactions') = Elements(transactions) \ {Top}
      BY <1>1, <2>1, RemoveSorted
    <3> QED BY <3>1 DEF Elements, Registered
  <2>3. ASSUME NEW u \in Registered \ {Top}, Top \in ParentsOf(u)
        PROVE  height[u] # TX_UNCONFIRMED
    <3>1. PICK j \in 1..Len(transactions) : transactions[j] = u
      BY DEF Registered
    <3>2. ~ (scan < j)
      BY <1>1, <2>3, <3>1 DEF RemovalInv, NoneSkipped, IsDependent
    <3>3. scan \in 1..Len(transactions)
      BY <1>1, <3>2
    <3>4. ~ (height[transactions[scan]] >= height[Top])
      BY <1>1, <3>3 DEF Collecting
    <3>5. height[u] <= height[transactions[scan]]
      <4>1. CASE j = scan
        <5>1. height[u] \in Nat
          <6>1. u \in TX /\ height \in [TX -> AnyHeight]
            BY <1>1, <3>1 DEF TypeInv, TypeOK
          <6> QED BY <6>1, Heights0
        <5> QED BY <3>1, <4>1, <5>1
      <4>2. CASE j < scan
        BY <1>1, <3>1, <3>3, <4>2 DEF SortedBy
      <4> QED BY <1>1, <3>2, <4>1, <4>2
    <3>6. height[u] \in Nat /\ height[transactions[scan]] \in Nat /\ TX_UNCONFIRMED \in Nat
      <4>1. u \in TX /\ transactions[scan] \in TX /\ height \in [TX -> AnyHeight]
        BY <1>1, <3>1, <3>3 DEF TypeInv, TypeOK
      <4> QED BY <4>1, Heights0
    <3> QED BY <1>2, <3>4, <3>5, <3>6
  <2> QED BY <1>2, <1>3, <1>4, <1>6, <2>2, <2>3, AbstractRemove
<1> QED BY <1>5, <1>6

LEMMA BookInit == Init => Book!Init
<1> SUFFICES ASSUME Init PROVE Book!Init
  OBVIOUS
<1>1. Registered = {} /\ call.op = "new"
  BY NewCall DEF Init, Registered
<1> QED BY <1>1 DEF Book!Init

LEMMA BookStep ==
    TypeInv /\ OrderInv /\ Retiming /\ RemovalInv /\ [Next]_vars => [Book!Next]_(Book!bookVars)
<1> SUFFICES ASSUME TypeInv, OrderInv, Retiming, RemovalInv, [Next]_vars
             PROVE  [Book!Next]_(Book!bookVars)
  OBVIOUS
<1>a. TypeInv'
  BY TypeStep
<1>1. CASE LoadDone
  <2>1. pc = "verify" /\ pc' = "idle" /\ UNCHANGED <<transactions, height>>
    BY <1>1 DEF LoadDone, book
  <2>2. call.op = "new" /\ call'.op # "new"
    BY <1>a, <2>1 DEF TypeInv, Control, LoadPcs
  <2>3. Registered' = Registered /\ SameHeight(Registered)
    BY <2>1 DEF Registered, SameHeight
  <2> QED BY <2>2, <2>3, AbstractOpen
<1>2. CASE LoadFailed
  <2>1. pc = "verify" /\ pc' = "load" /\ transactions' = <<>>
    BY <1>2 DEF LoadFailed
  <2>2. StaysClosed
    BY <1>a, <2>1 DEF TypeInv, Control, LoadPcs, StaysClosed
  <2>3. Registered' = {}
    BY <2>1 DEF Registered
  <2> QED BY <2>2, <2>3, AbstractDrop
<1>3. CASE UNCHANGED <<transactions, height, call>>
  BY <1>3, BookKept DEF StaysOpen, StaysClosed
<1>4. CASE \/ LoadExternal \/ LoadInternal \/ LoadBalance \/ Scan \/ ReplaceExternal
           \/ ReplaceInternal \/ UpdateBalance \/ UpdateKeepBalance \/ RemoveDependents
           \/ Tick \/ (\E c \in Chains, gap \in UiGaps : UiUnusedAddrs(c, gap)) \/ UNCHANGED vars
  <2>1. UNCHANGED <<transactions, height, call>>
    BY <1>4 DEF LoadExternal, LoadInternal, LoadChain, LoadBalance, Scan, ScanInvalid, ScanPending,
                ScanCounted, ScanDone, Skip, ReplaceExternal, ReplaceInternal, ReplaceUsed,
                UpdateBalance, UpdateKeepBalance, RemoveDependents, Tick, UiUnusedAddrs, vars, book
  <2> QED BY <1>3, <2>1
<1>5. CASE \/ RegisterDone \/ UpdateDone \/ RemoveBegin \/ CollectDependent \/ RemoveDone
           \/ \E S \in SUBSET TX, h \in AnyHeight, s \in Times : UpdateTransactions(S, h, s)
           \/ \E t \in TX : UpdateNothing(t) \/ RemoveTransaction(t)
  <2>1. /\ pc \in {"notify", "remove", "collect", "idle", "update"}
        /\ pc' \in {"remove", "collect", "idle", "update"}
        /\ UNCHANGED <<transactions, height>>
    BY <1>5 DEF RegisterDone, UpdateDone, RemoveBegin, CollectDependent, Collecting, RemoveDone,
                UpdateTransactions, UpdateNothing, Updating, RemoveTransaction, book
  <2>2. StaysOpen
    BY <1>a, <2>1 DEF TypeInv, Control, StaysOpen
  <2> QED BY <2>1, <2>2, BookKept
<1> QED
  BY <1>a, <1>1, <1>2, <1>4, <1>5, LoadRowStep, RegisterStep, UpdateOwnStep, ForeignStep, ReorgStep,
     RemoveTopStep
     DEF Next, Load, Register, Update, Reorg, Remove

\* The wallet implements the abstract book, when every stored row belongs to it.
THEOREM BookCorrect == Spec /\ []StoreBelongs => IsTxBook
BY TypeInit, TypeStep, OrderInit, OrderStep, RetimingInit, RetimingStep, RemovalInit, RemovalStep,
   BookInit, BookStep, PTL DEF Spec, IsTxBook, Book!Spec
=============================================================================
