------------------------------- MODULE Wallet -------------------------------
(***************************************************************************)
(* The transaction book of an SPV wallet: breadwallet-core/BRWallet.c.     *)
(*                                                                         *)
(* A wallet keeps the transactions that touch its addresses sorted by      *)
(* block height, and derives from that order, in one pass, which outputs   *)
(* it can spend, which transactions are double spends ("invalid") and      *)
(* which ones cannot be spent yet ("pending").                             *)
(*                                                                         *)
(* The functions that change the book are called with the peer manager's   *)
(* lock held, so at most one of them is in progress (pc, call), but the    *)
(* wallet's own lock is released between their critical sections, where    *)
(* the UI thread can run (UnusedAddrs).  One iteration of a loop of the    *)
(* code is one step here.                                                  *)
(***************************************************************************)
EXTENDS Integers, Sequences

CONSTANTS
    TX,               \* the transactions (their hashes) of the instance
    Inputs,           \* Inputs[t]: the outpoints <<hash, n>> that t spends
    OutCount,         \* OutCount[t]: its number of outputs
    AddrOf,           \* AddrOf[<<t, n>>]: the address output n of t pays to
    Value,            \* Value[S]: the sum of the amounts of the outputs S
    Rbf,              \* some input of t has sequence < UINT32_MAX - 1
    NonFinal,         \* some input of t has sequence < UINT32_MAX
    LockTime,         \* LockTime[t]: a height below TX_MAX_LOCK_HEIGHT, or a time
    Oversize,         \* larger than TX_MAX_SIZE, or with a dust output
    MaxIndex,         \* the largest derivation index any output pays to
    GapLimit,         \* SEQUENCE_GAP_LIMIT_EXTERNAL and _INTERNAL
    TX_UNCONFIRMED,   \* the height of an unconfirmed transaction
    TX_MAX_LOCK_HEIGHT,
    Heights,          \* block heights that confirm transactions
    Times,            \* transaction timestamps
    Clock,            \* the values time(NULL) takes
    UiGaps,           \* gap limits the UI and the bloom filter code ask for
    Rows              \* what the store can hold when the process starts

Chains  == {"external", "internal"}
Foreign == <<"foreign", 0>>          \* an address of somebody else
Address == (Chains \X (1..MaxIndex)) \cup {Foreign}

OutputsOf(t) == {t} \X (0..(OutCount[t] - 1))
Coins        == UNION {OutputsOf(t) : t \in TX}
ParentsOf(t) == {o[1] : o \in Inputs[t]}

ASSUME TransactionsAssumption ==
    /\ OutCount \in [TX -> Nat]
    /\ AddrOf \in [Coins -> Address]
    /\ DOMAIN Inputs = TX
    /\ {Rbf, NonFinal, Oversize} \subseteq SUBSET TX
    /\ Rbf \subseteq NonFinal

\* The amounts enter the model through their sums only.
ASSUME ValueAssumption ==
    /\ Value \in [SUBSET Coins -> Nat]
    /\ \A S, T \in SUBSET Coins :
          S \cap T = {} => Value[S \cup T] = Value[S] + Value[T]

ASSUME BoundsAssumption ==
    /\ MaxIndex \in Nat
    /\ GapLimit \in [Chains -> Nat \ {0}]
    /\ TX_UNCONFIRMED \in Nat
    /\ Heights \subseteq 1..(TX_UNCONFIRMED - 1)
    /\ Times \subseteq Nat
    /\ 0 \in Times
    /\ Clock \subseteq Nat
    /\ Clock # {}
    /\ UiGaps \subseteq Nat \ {0}
    /\ LockTime \in [TX -> Nat]
    /\ TX_MAX_LOCK_HEIGHT \in Nat

Row == [tx : TX, height : Heights \cup {TX_UNCONFIRMED}, time : Times]

ASSUME RowsAssumption == Rows \subseteq Seq(Row)

VARIABLES
    allTx,          \* every transaction object the wallet holds
    transactions,   \* the wallet's transactions, oldest first
    height,         \* tx->blockHeight
    time,           \* tx->timestamp
    blockHeight,    \* wallet->blockHeight
    chain,          \* the lengths of internalChain and externalChain
    utxos, spentOutputs, invalidTx, pendingTx, usedAddrs,
    balance, totalSent, totalReceived, balanceHist,
    now,            \* time(NULL)
    pc,             \* where the call in progress is
    call,           \* its arguments and locals
    removing,       \* the stack of nested BRWalletRemoveTransaction calls
    toLoad,         \* the rows BRWalletNew still has to insert
    scan,           \* i and
    prevBalance,    \* prevBalance of _BRWalletUpdateBalance
    reported,       \* the last balance given to the balanceChanged callback
    callbacks       \* the tx callbacks made by the last step

book    == <<allTx, transactions, height, time, blockHeight>>
ledger  == <<utxos, spentOutputs, invalidTx, pendingTx, usedAddrs,
             balance, totalSent, totalReceived, balanceHist>>
loop    == <<scan, prevBalance>>
vars    == <<book, chain, ledger, now, pc, call, removing, toLoad, loop,
             reported, callbacks>>

AnyHeight == Heights \cup {TX_UNCONFIRMED}

\* Functions of the book that the code writes with loops over arrays.
Registered    == {transactions[k] : k \in 1..Len(transactions)}
AllAddrs      == UNION {{c} \X (1..chain[c]) : c \in Chains}
OwnOutputs(t) == {o \in OutputsOf(t) : AddrOf[o] \in AllAddrs}
\* The inputs of t that spend a known output of the wallet.
OwnInputs(all, t) ==
    {o \in Inputs[t] : o[1] \in all /\ o \in OutputsOf(o[1]) /\ AddrOf[o] \in AllAddrs}

ContainsTx(all, t) == OwnOutputs(t) # {} \/ OwnInputs(all, t) # {}

-----------------------------------------------------------------------------
(***************************************************************************)
(* The order of wallet->transactions.  all and ht are the values allTx and *)
(* blockHeight have when the comparison runs.                              *)
(***************************************************************************)
\* The recursion of _BRWalletTxIsAscending over the known parents of t.
AscendingOver(all, ht, u) ==
    LET asc[t \in TX] ==
            IF ht[t] # ht[u] THEN ht[t] > ht[u]
            ELSE \/ u \in ParentsOf(t)
                 \/ /\ t \notin ParentsOf(u)
                    /\ \E p \in ParentsOf(t) \cap all : asc[p]
    IN  asc

TxIsAscending(all, ht, t, u) ==
    IF ht[t] # ht[u] THEN ht[t] > ht[u] ELSE AscendingOver(all, ht, u)[t]

\* The last position of a chain that an output of t pays to, 0 if none does.
TxChainIndex(t, c) ==
    LET paid == {k \in 1..chain[c] : \E o \in OutputsOf(t) : AddrOf[o] = <<c, k>>}
    IN  IF paid = {} THEN 0 ELSE CHOOSE k \in paid : \A m \in paid : m <= k

\* The tie break of _BRWalletTxCompare by address position, when it returns 1.
LaterOnChain(t, u) ==
    LET i == TxChainIndex(t, "internal")
        j == TxChainIndex(u, IF i = 0 THEN "external" ELSE "internal")
        first == IF i = 0 /\ j # 0 THEN TxChainIndex(t, "external") ELSE i
    IN  first # 0 /\ j # 0 /\ first > j

\* _BRWalletTxCompare(t, u) > 0
After(all, ht, t, u) ==
    \/ TxIsAscending(all, ht, t, u)
    \/ ~ TxIsAscending(all, ht, u, t) /\ LaterOnChain(t, u)

\* MUTANT: the transaction is appended, as if it were always the newest.
InsertPosLast(all, ht, s, t, p) == p = Len(s) + 1

\* Where the insertion sort of _BRWalletInsertTx, which moves from the end of
\* s, stops with t.
InsertPos(all, ht, s, t, p) ==
    /\ p > 1 => ~ After(all, ht, s[p - 1], t)
    /\ \A k \in p..Len(s) : After(all, ht, s[k], t)

InsertTx(s, p, t) ==
    [k \in 1..(Len(s) + 1) |->
        IF k < p THEN s[k] ELSE IF k = p THEN t ELSE s[k - 1]]

\* MUTANT: the transaction stays.
RemoveTxNone(s, p) == s

RemoveTx(s, p) == [k \in 1..(Len(s) - 1) |-> IF k < p THEN s[k] ELSE s[k + 1]]

-----------------------------------------------------------------------------
\* Callbacks into the application.
Added(t)         == [event |-> "added", tx |-> t, height |-> height[t], time |-> time[t]]
Updated(t, h, s) == [event |-> "updated", tx |-> t, height |-> h, time |-> s]
Deleted(t, notify, rescan) ==
    [event |-> "deleted", tx |-> t, notifyUser |-> notify, recommendRescan |-> rescan]

Silent == callbacks' = <<>>

NoCall == [op |-> "none", tx |-> <<>>, todo |-> {}, hashes |-> <<>>,
           height |-> 0, time |-> 0, needsUpdate |-> FALSE, wasInvalid |-> FALSE]

\* The process starts: BRWalletNew has allocated the wallet.
Init ==
    /\ allTx = {}
    /\ transactions = <<>>
    /\ height = [t \in TX |-> TX_UNCONFIRMED]
    /\ time = [t \in TX |-> 0]
    /\ blockHeight = 0
    /\ chain = [c \in Chains |-> 0]
    /\ utxos = {} /\ spentOutputs = {} /\ invalidTx = {} /\ pendingTx = {}
    /\ usedAddrs = {}
    /\ balance = 0 /\ totalSent = 0 /\ totalReceived = 0
    /\ balanceHist = <<>>
    /\ pc = "load"
    /\ call = [NoCall EXCEPT !.op = "new"]
    /\ removing = <<>>
    /\ toLoad \in Rows
    /\ scan = 0
    /\ prevBalance = 0
    /\ now \in Clock
    /\ reported = 0
    /\ callbacks = <<>>

-----------------------------------------------------------------------------
(***************************************************************************)
(* BRWalletUnusedAddrs: extend a chain until gapLimit addresses follow the *)
(* last used one.                                                          *)
(***************************************************************************)
GapIsOpen(c, n, gap) ==
    gap <= n /\ \A k \in 1..n : <<c, k>> \in usedAddrs => k + gap <= n

UnusedAddrs(c, gap) ==
    \E n \in chain[c]..(chain[c] + MaxIndex + gap) :
        /\ GapIsOpen(c, n, gap)
        /\ \A m \in chain[c]..(n - 1) : ~ GapIsOpen(c, m, gap)
        /\ chain' = [chain EXCEPT ![c] = n]

(***************************************************************************)
(* _BRWalletUpdateBalance: clear everything that is derived from the book, *)
(* then scan the transactions in order.                                    *)
(***************************************************************************)
\* MUTANT: the UTXO set of the last scan is not cleared.
StartBalanceStale ==
    /\ UNCHANGED utxos
    /\ spentOutputs' = {} /\ invalidTx' = {} /\ pendingTx' = {} /\ usedAddrs' = {}
    /\ totalSent' = 0 /\ totalReceived' = 0 /\ balanceHist' = <<>>
    /\ scan' = 1 /\ prevBalance' = 0 /\ balance' = 0
    /\ pc' = "balance"

StartBalance ==
    /\ utxos' = {} /\ spentOutputs' = {} /\ invalidTx' = {} /\ pendingTx' = {}
    /\ usedAddrs' = {}
    /\ totalSent' = 0 /\ totalReceived' = 0
    /\ balanceHist' = <<>>
    /\ scan' = 1
    /\ prevBalance' = 0
    /\ balance' = 0
    /\ pc' = "balance"

Scanning  == pc = "balance" /\ scan <= Len(transactions)
ScannedTx == transactions[scan]

\* MUTANT: only the parents are looked at.
IsConflictedByParent(t) == ParentsOf(t) \cap invalidTx # {}

IsConflicted(t) == Inputs[t] \cap spentOutputs # {} \/ ParentsOf(t) \cap invalidTx # {}

IsLocked(t) ==
    /\ t \in NonFinal
    /\ \/ LockTime[t] < TX_MAX_LOCK_HEIGHT /\ LockTime[t] > blockHeight + 1
       \/ LockTime[t] > now

MustWait(t) ==
    t \in Oversize \/ t \in Rbf \/ IsLocked(t) \/ ParentsOf(t) \cap pendingTx # {}

\* What an amount rose by.  MUTANTS: the test of its sign is dropped; the new
\* amount is taken for the difference.
Difference(from, to) == to - from
RiseToTotal(from, to) == IF from < to THEN to ELSE 0
Rise(from, to) == IF from < to THEN to - from ELSE 0

Skip == /\ balanceHist' = Append(balanceHist, balance)
        /\ scan' = scan + 1
        /\ Silent
        /\ UNCHANGED <<book, chain, utxos, usedAddrs, balance, totalSent, totalReceived,
                       now, pc, call, removing, toLoad, prevBalance, reported>>

\* An unconfirmed double spend, or a transaction that depends on one.
ScanInvalid ==
    /\ Scanning
    /\ height[ScannedTx] = TX_UNCONFIRMED
    /\ IsConflicted(ScannedTx)
    /\ invalidTx' = invalidTx \cup {ScannedTx}
    /\ UNCHANGED <<spentOutputs, pendingTx>>
    /\ Skip

\* A transaction that cannot be spent from yet: its inputs count as spent,
\* its outputs are left out.
ScanPending ==
    /\ Scanning
    /\ height[ScannedTx] = TX_UNCONFIRMED
    /\ ~ IsConflicted(ScannedTx)
    /\ MustWait(ScannedTx)
    /\ spentOutputs' = spentOutputs \cup Inputs[ScannedTx]
    /\ pendingTx' = pendingTx \cup {ScannedTx}
    /\ UNCHANGED invalidTx
    /\ Skip

\* Every other transaction: credit its outputs, then drop from the whole UTXO
\* set what the whole spent set holds.
ScanCounted ==
    LET t     == ScannedTx
        spent == spentOutputs \cup Inputs[t]
        total == balance + Value[OwnOutputs(t)]
                         - Value[(utxos \cup OwnOutputs(t)) \cap spent]
    IN  /\ Scanning
        /\ height[t] = TX_UNCONFIRMED => ~ IsConflicted(t) /\ ~ MustWait(t)
        /\ spentOutputs' = spent
        /\ usedAddrs' = usedAddrs \cup {AddrOf[o] : o \in OutputsOf(t)}
        /\ utxos' = (utxos \cup OwnOutputs(t)) \ spent
        /\ balance' = total
        /\ totalReceived' = totalReceived + Rise(prevBalance, total)
        /\ totalSent' = totalSent + Rise(total, prevBalance)
        /\ balanceHist' = Append(balanceHist, total)
        /\ prevBalance' = total
        /\ scan' = scan + 1
        /\ Silent
        /\ UNCHANGED <<book, chain, invalidTx, pendingTx, now, pc, call, removing, toLoad,
                       reported>>

\* The wallet lock is released; what follows depends on the caller.
ScanDone ==
    /\ pc = "balance"
    /\ scan > Len(transactions)
    /\ scan' = 0
    /\ prevBalance' = 0
    /\ pc' = CASE call.op = "new" -> "verify"
               [] call.op = "register" -> "external"
               [] OTHER -> "notify"
    /\ Silent
    /\ UNCHANGED <<book, chain, ledger, now, call, removing, toLoad, reported>>

-----------------------------------------------------------------------------
(***************************************************************************)
(* BRWalletNew: insert the stored transactions, generate the addresses,    *)
(* compute the balance, then check that the first row belongs here.  No    *)
(* other thread has the wallet yet.                                        *)
(***************************************************************************)
LoadRow ==
    LET row == Head(toLoad)
        ht  == [height EXCEPT ![row.tx] = row.height]
    IN  /\ pc = "load"
        /\ toLoad # <<>>
        /\ toLoad' = Tail(toLoad)
        /\ call' = IF call.hashes = <<>> THEN [call EXCEPT !.hashes = <<row.tx>>] ELSE call
        /\ IF row.tx \in allTx
           THEN UNCHANGED <<book, usedAddrs>>
           ELSE /\ allTx' = allTx \cup {row.tx}
                /\ height' = ht
                /\ time' = [time EXCEPT ![row.tx] = row.time]
                /\ \E p \in 1..(Len(transactions) + 1) :
                      /\ InsertPos(allTx', ht, transactions, row.tx, p)
                      /\ transactions' = InsertTx(transactions, p, row.tx)
                /\ usedAddrs' = usedAddrs \cup {AddrOf[o] : o \in OutputsOf(row.tx)}
                /\ UNCHANGED blockHeight
        /\ Silent
        /\ UNCHANGED <<chain, utxos, spentOutputs, invalidTx, pendingTx, balance, totalSent,
                       totalReceived, balanceHist, now, pc, removing, loop, reported>>

LoadChain(c, from, to) ==
    /\ pc = from
    /\ toLoad = <<>>
    /\ UnusedAddrs(c, GapLimit[c])
    /\ pc' = to
    /\ Silent
    /\ UNCHANGED <<book, ledger, now, call, removing, toLoad, loop, reported>>

LoadExternal == LoadChain("external", "load", "loadInternal")
LoadInternal == LoadChain("internal", "loadInternal", "loaded")

LoadBalance ==
    /\ pc = "loaded"
    /\ StartBalance
    /\ Silent
    /\ UNCHANGED <<book, chain, now, call, removing, toLoad, reported>>

FirstRowIsOwn == call.hashes # <<>> => ContainsTx(allTx, call.hashes[1])

LoadDone ==
    /\ pc = "verify"
    /\ FirstRowIsOwn
    /\ pc' = "idle"
    /\ call' = NoCall
    /\ Silent
    /\ UNCHANGED <<book, chain, ledger, now, removing, toLoad, loop, reported>>

\* The wallet is freed and NULL returned; createWalletRetry deletes the stored
\* transactions and calls BRWalletNew again.
LoadFailed ==
    /\ pc = "verify"
    /\ ~ FirstRowIsOwn
    /\ allTx' = {} /\ transactions' = <<>>
    /\ height' = [t \in TX |-> TX_UNCONFIRMED] /\ time' = [t \in TX |-> 0]
    /\ chain' = [k \in Chains |-> 0]
    /\ utxos' = {} /\ spentOutputs' = {} /\ invalidTx' = {} /\ pendingTx' = {}
    /\ usedAddrs' = {} /\ balanceHist' = <<>>
    /\ balance' = 0 /\ totalSent' = 0 /\ totalReceived' = 0
    /\ pc' = "load"
    /\ call' = [NoCall EXCEPT !.op = "new"]
    /\ Silent
    /\ UNCHANGED <<blockHeight, now, removing, toLoad, loop, reported>>

-----------------------------------------------------------------------------
\* BRWalletRegisterTransaction of a transaction object that a peer relayed or
\* the application published; it is always unconfirmed.
RegisterTransaction(t, s) ==
    LET all == allTx \cup {t}
    IN  /\ pc = "idle"
        /\ t \notin allTx
        /\ ContainsTx(allTx, t)
        /\ allTx' = all
        /\ height' = [height EXCEPT ![t] = TX_UNCONFIRMED]
        /\ time' = [time EXCEPT ![t] = s]
        /\ \E p \in 1..(Len(transactions) + 1) :
              /\ InsertPos(all, height', transactions, t, p)
              /\ transactions' = InsertTx(transactions, p, t)
        /\ call' = [NoCall EXCEPT !.op = "register", !.tx = t]
        /\ StartBalance
        /\ Silent
        /\ UNCHANGED <<blockHeight, chain, now, removing, toLoad, reported>>

\* A transaction of somebody else: only remembered.
RegisterForeign(t, s) ==
    /\ pc = "idle"
    /\ t \notin allTx
    /\ ~ ContainsTx(allTx, t)
    /\ allTx' = allTx \cup {t}
    /\ height' = [height EXCEPT ![t] = TX_UNCONFIRMED]
    /\ time' = [time EXCEPT ![t] = s]
    /\ Silent
    /\ UNCHANGED <<transactions, blockHeight, chain, ledger, now, pc, call, removing,
                   toLoad, loop, reported>>

\* New addresses replace the used ones, one lock section for each chain.
ReplaceUsed(c, from, to) ==
    /\ pc = from
    /\ UnusedAddrs(c, GapLimit[c])
    /\ pc' = to
    /\ Silent
    /\ UNCHANGED <<book, ledger, now, call, removing, toLoad, loop, reported>>

ReplaceExternal == ReplaceUsed("external", "external", "internal")
ReplaceInternal == ReplaceUsed("internal", "internal", "notify")

RegisterDone ==
    /\ pc = "notify"
    /\ call.op = "register"
    /\ reported' = balance
    /\ callbacks' = <<Added(call.tx)>>
    /\ pc' = "idle"
    /\ call' = NoCall
    /\ UNCHANGED <<book, chain, ledger, now, removing, toLoad, loop>>

-----------------------------------------------------------------------------
\* BRWalletUpdateTransactions.  Its callers give a set of hashes a block height,
\* or give one transaction that is unconfirmed a new timestamp.
\* What the network allows a caller to confirm: a block confirms no two transactions that spend the same output, and none
\* below the block of a transaction that it spends from.  After a reorganisation
\* the heights of the new blocks arrive from the tip down.
BlockCanHold(S, h) ==
    \A t \in S :
        /\ \A u \in TX \ {t} : Inputs[t] \cap Inputs[u] # {} =>
                u \notin S /\ height[u] = TX_UNCONFIRMED
        /\ \A u \in Registered \ S :
                /\ u \in ParentsOf(t) => height[u] \in (0..h) \cup {TX_UNCONFIRMED}
                /\ t \in ParentsOf(u) => h <= height[u]

UpdateTransactions(S, h, s) ==
    /\ pc = "idle"
    /\ \/ h = TX_UNCONFIRMED /\ \E t \in allTx : S = {t} /\ height[t] = TX_UNCONFIRMED
       \/ h # TX_UNCONFIRMED /\ S # {} /\ BlockCanHold(S, h)
    /\ blockHeight' = IF h > blockHeight THEN h ELSE blockHeight
    /\ call' = [NoCall EXCEPT !.op = "update", !.todo = S, !.height = h, !.time = s]
    /\ pc' = "update"
    /\ Silent
    /\ UNCHANGED <<allTx, transactions, height, time, chain, ledger, now, removing, toLoad,
                   loop, reported>>

Updating(t) == pc = "update" /\ t \in call.todo

UpToDate(t) == t \notin allTx \/ (height[t] = call.height /\ time[t] = call.time)

UpdateNothing(t) ==
    /\ Updating(t)
    /\ UpToDate(t)
    /\ call' = [call EXCEPT !.todo = @ \ {t}]
    /\ Silent
    /\ UNCHANGED <<book, chain, ledger, now, pc, removing, toLoad, loop, reported>>

\* Remove and insert again, so that the wallet stays sorted.
UpdateOwn(t) ==
    LET ht == [height EXCEPT ![t] = call.height]
    IN  /\ Updating(t)
        /\ ~ UpToDate(t)
        /\ ContainsTx(allTx, t)
        /\ height' = ht
        /\ time' = [time EXCEPT ![t] = call.time]
        /\ \/ /\ t \notin Registered
              /\ UNCHANGED transactions
           \/ \E k \in 1..Len(transactions) :
                /\ transactions[k] = t
                /\ LET rest == RemoveTx(transactions, k)
                   IN  \E p \in 1..Len(transactions) :
                          /\ InsertPos(allTx, ht, rest, t, p)
                          /\ transactions' = InsertTx(rest, p, t)
        /\ call' = [call EXCEPT !.todo = @ \ {t},
                                !.hashes = Append(@, t),
                                !.needsUpdate = @ \/ t \in pendingTx \/ t \in invalidTx]
        /\ Silent
        /\ UNCHANGED <<allTx, blockHeight, chain, ledger, now, pc, removing, toLoad, loop,
                       reported>>

\* MUTANT: a transaction that only spends from the wallet is taken for foreign.
IsForeignByOutputs(t) == OwnOutputs(t) = {}
IsForeign(t) == ~ ContainsTx(allTx, t)

\* A transaction of somebody else is freed when it confirms.
UpdateForeign(t) ==
    LET confirmed == call.height # TX_UNCONFIRMED
    IN  /\ Updating(t)
        /\ ~ UpToDate(t)
        /\ IsForeign(t)
        /\ allTx' = IF confirmed THEN allTx \ {t} ELSE allTx
        /\ height' = [height EXCEPT ![t] = TX_UNCONFIRMED]
        /\ time' = [time EXCEPT ![t] = IF confirmed THEN 0 ELSE call.time]
        /\ call' = [call EXCEPT !.todo = @ \ {t}]
        /\ Silent
        /\ UNCHANGED <<transactions, blockHeight, chain, ledger, now, pc, removing, toLoad,
                       loop, reported>>

UpdateBalance ==
    /\ pc = "update"
    /\ call.todo = {}
    /\ call.needsUpdate
    /\ StartBalance
    /\ Silent
    /\ UNCHANGED <<book, chain, now, call, removing, toLoad, reported>>

UpdateKeepBalance ==
    /\ pc = "update"
    /\ call.todo = {}
    /\ ~ call.needsUpdate
    /\ pc' = "notify"
    /\ Silent
    /\ UNCHANGED <<book, chain, ledger, now, call, removing, toLoad, loop, reported>>

\* The txUpdated callback, also of BRWalletSetTxUnconfirmedAfter.
UpdateDone ==
    /\ pc = "notify"
    /\ call.op = "update"
    /\ callbacks' = [k \in 1..Len(call.hashes) |->
                        Updated(call.hashes[k], call.height, call.time)]
    /\ pc' = "idle"
    /\ call' = NoCall
    /\ UNCHANGED <<book, chain, ledger, now, removing, toLoad, loop, reported>>

\* BRWalletSetTxUnconfirmedAfter: a chain reorganisation back to height h.  i is
\* where the scan from the end of the book stops.
SetTxUnconfirmedAfter(h) ==
    \E i \in 0..Len(transactions) :
        /\ pc = "idle"
        /\ i > 0 => height[transactions[i]] <= h
        /\ \A k \in (i + 1)..Len(transactions) : height[transactions[k]] > h
        /\ LET tail == SubSeq(transactions, i + 1, Len(transactions))
           IN  /\ blockHeight' = h
               /\ height' = [t \in TX |->
                                IF \E k \in (i + 1)..Len(transactions) : transactions[k] = t
                                THEN TX_UNCONFIRMED ELSE height[t]]
               /\ call' = [NoCall EXCEPT !.op = "update", !.hashes = tail,
                                         !.height = TX_UNCONFIRMED]
               /\ IF tail # <<>> THEN StartBalance
                  ELSE pc' = "notify" /\ UNCHANGED <<ledger, loop>>
        /\ Silent
        /\ UNCHANGED <<allTx, transactions, time, chain, now, removing, toLoad, reported>>

-----------------------------------------------------------------------------
(***************************************************************************)
(* BRWalletRemoveTransaction.  The call is recursive: top is the           *)
(* transaction of the innermost call, those below wait for it to return.   *)
(* The lock is released while they wait.                                   *)
(***************************************************************************)
Top == removing[Len(removing)]

RemoveTransaction(t) ==
    /\ pc = "idle"
    /\ t \in allTx                     \* the caller walks a list of unconfirmed
    /\ height[t] = TX_UNCONFIRMED      \* transactions (BRPeerManager.c:473-497)
    /\ removing' = <<t>>
    /\ call' = [NoCall EXCEPT !.op = "remove"]
    /\ pc' = "remove"
    /\ Silent
    /\ UNCHANGED <<book, chain, ledger, now, toLoad, loop, reported>>

RemoveBegin ==
    /\ pc = "remove"
    /\ pc' = "collect"
    /\ scan' = Len(transactions)
    /\ call' = [call EXCEPT !.hashes = <<>>]
    /\ Silent
    /\ UNCHANGED <<book, chain, ledger, now, removing, toLoad, prevBalance, reported>>

\* From the newest transaction back, as long as they are not older than Top.
\* MUTANT: off by one, only strictly newer transactions.
CollectingNewer == pc = "collect" /\ scan > 0 /\ height[transactions[scan]] > height[Top]

Collecting == pc = "collect" /\ scan > 0 /\ height[transactions[scan]] >= height[Top]

CollectDependent ==
    /\ Collecting
    /\ call' = IF transactions[scan] # Top /\ Top \in ParentsOf(transactions[scan])
               THEN [call EXCEPT !.hashes = Append(@, transactions[scan])]
               ELSE call
    /\ scan' = scan - 1
    /\ Silent
    /\ UNCHANGED <<book, chain, ledger, now, pc, removing, toLoad, prevBalance, reported>>

Collected == pc = "collect" /\ ~ Collecting

RemoveDependents ==
    /\ Collected
    /\ call.hashes # <<>>
    /\ removing' = removing \o call.hashes
    /\ pc' = "remove"
    /\ scan' = 0
    /\ Silent
    /\ UNCHANGED <<book, chain, ledger, now, call, toLoad, prevBalance, reported>>

RemoveTop ==
    /\ Collected
    /\ call.hashes = <<>>
    /\ \/ /\ Top \notin Registered
          /\ UNCHANGED transactions
       \/ \E k \in 1..Len(transactions) :
            /\ transactions[k] = Top
            /\ transactions' = RemoveTx(transactions, k)
    /\ call' = [call EXCEPT !.tx = Top, !.wasInvalid = Top \in invalidTx]
    /\ StartBalance
    /\ Silent
    /\ UNCHANGED <<allTx, height, time, blockHeight, chain, now, removing, toLoad, reported>>

\* BRWalletTransactionIsValid, also for a transaction that is not registered.
IsValid(t) ==
    LET valid[u \in TX] ==
            \/ height[u] # TX_UNCONFIRMED
            \/ /\ IF u \in allTx THEN u \notin invalidTx
                                 ELSE Inputs[u] \cap spentOutputs = {}
               /\ \A p \in ParentsOf(u) \cap allTx : valid[p]
    IN  valid[t]

\* BRWalletTransactionIsPending
IsPending(t) ==
    LET waits[u \in TX] ==
            /\ height[u] = TX_UNCONFIRMED
            /\ \/ u \in Oversize \/ u \in Rbf \/ IsLocked(u)
               \/ \E p \in ParentsOf(u) \cap allTx : waits[p]
    IN  waits[t]

\* BRWalletBalanceAfterTx
BalanceAfterTx(t) ==
    IF t \in Registered
    THEN balanceHist[CHOOSE k \in 1..Len(transactions) : transactions[k] = t]
    ELSE balance

AmountSentByTx(t) == Value[OwnInputs(allTx, t)]

\* The user is told when a transaction of ours that was valid is removed; a
\* rescan is recommended when all its inputs are confirmed.
RemoveDone ==
    LET notify == AmountSentByTx(call.tx) > 0 /\ IsValid(call.tx)
        rescan == notify /\ \A p \in ParentsOf(call.tx) :
                                p \in allTx /\ height[p] # TX_UNCONFIRMED
    IN  /\ pc = "notify"
        /\ call.op = "remove"
        /\ reported' = balance
        /\ callbacks' = <<Deleted(call.tx, notify, rescan)>>
        /\ removing' = SubSeq(removing, 1, Len(removing) - 1)
        /\ pc' = IF Len(removing) = 1 THEN "idle" ELSE "remove"
        /\ call' = IF Len(removing) = 1 THEN NoCall ELSE [NoCall EXCEPT !.op = "remove"]
        /\ UNCHANGED <<book, chain, ledger, now, toLoad, loop>>

-----------------------------------------------------------------------------
\* The UI thread: BRWalletReceiveAddress, the change address of a new
\* transaction, the addresses of a bloom filter.  It needs the wallet's lock.
Unlocked == pc \in {"idle", "external", "internal", "notify", "remove"}

UiUnusedAddrs(c, gap) ==
    /\ Unlocked
    /\ UnusedAddrs(c, gap)
    /\ Silent
    /\ UNCHANGED <<book, ledger, now, pc, call, removing, toLoad, loop, reported>>

\* Time passes between two scans (one scan reads the clock once).
Tick ==
    /\ pc # "balance"
    /\ \E n \in Clock : n > now /\ now' = n
    /\ Silent
    /\ UNCHANGED <<book, chain, ledger, pc, call, removing, toLoad, loop, reported>>

Load     == LoadRow \/ LoadExternal \/ LoadInternal \/ LoadBalance \/ LoadDone \/ LoadFailed
Scan     == ScanInvalid \/ ScanPending \/ ScanCounted \/ ScanDone
Register == (\E t \in TX, s \in Times : RegisterTransaction(t, s) \/ RegisterForeign(t, s))
            \/ ReplaceExternal \/ ReplaceInternal \/ RegisterDone
Update   == (\E S \in SUBSET TX, h \in AnyHeight, s \in Times : UpdateTransactions(S, h, s))
            \/ (\E t \in TX : UpdateNothing(t) \/ UpdateOwn(t) \/ UpdateForeign(t))
            \/ UpdateBalance \/ UpdateKeepBalance \/ UpdateDone
Reorg    == \E h \in Heights \cup {0} : SetTxUnconfirmedAfter(h)
Remove   == (\E t \in TX : RemoveTransaction(t))
            \/ RemoveBegin \/ CollectDependent \/ RemoveDependents \/ RemoveTop \/ RemoveDone

\* The steps of the call in progress, as opposed to the calls others make.
Progress == Load \/ Scan \/ ReplaceExternal \/ ReplaceInternal \/ RegisterDone
            \/ (\E t \in TX : UpdateNothing(t) \/ UpdateOwn(t) \/ UpdateForeign(t))
            \/ UpdateBalance \/ UpdateKeepBalance \/ UpdateDone
            \/ RemoveBegin \/ CollectDependent \/ RemoveDependents \/ RemoveTop \/ RemoveDone

Next == \/ Load \/ Scan \/ Register \/ Update \/ Reorg \/ Remove \/ Tick
        \/ \E c \in Chains, gap \in UiGaps : UiUnusedAddrs(c, gap)

Spec == Init /\ [][Next]_vars

\* A thread inside the wallet runs until its call returns.
FairSpec == Spec /\ WF_vars(Progress)
-----------------------------------------------------------------------------
(***************************************************************************)
(* What the wallet guarantees.                                             *)
(***************************************************************************)
Calls == [op : {"none", "new", "register", "update", "remove"},
          tx : TX \cup {<<>>}, todo : SUBSET TX, hashes : Seq(TX),
          height : AnyHeight \cup {0}, time : Times,
          needsUpdate : BOOLEAN, wasInvalid : BOOLEAN]

\* Every variable holds a value of the kind the C structure holds.
TypeOK ==
    /\ allTx \subseteq TX
    /\ transactions \in Seq(TX)
    /\ height \in [TX -> AnyHeight]
    /\ time \in [TX -> Times]
    /\ blockHeight \in AnyHeight \cup {0}
    /\ chain \in [Chains -> Nat]
    /\ utxos \subseteq Coins
    /\ invalidTx \subseteq TX
    /\ pendingTx \subseteq TX
    /\ usedAddrs \subseteq Address
    /\ balance \in Int /\ totalSent \in Nat /\ totalReceived \in Nat
    /\ balanceHist \in Seq(Int)
    /\ now \in Clock
    /\ pc \in {"load", "loadInternal", "loaded", "verify", "idle", "balance", "update",
               "external", "internal", "notify", "remove", "collect"}
    /\ call \in Calls
    /\ removing \in Seq(TX)
    /\ toLoad \in Seq(Row)
    /\ scan \in Nat
    /\ prevBalance \in Int
    /\ reported \in Int

\* The book holds no transaction twice and is sorted by height, in every order of
\* calls; the scans from its end (BRWalletTxUnconfirmedBefore,
\* BRWalletSetTxUnconfirmedAfter, BRWalletRemoveTransaction) are right only
\* because of it.
BookIsSorted ==
    \A i, j \in 1..Len(transactions) :
        i < j => /\ transactions[i] # transactions[j]
                 /\ height[transactions[i]] <= height[transactions[j]]

\* BRWalletUpdateTransactions frees confirmed transactions of others; no
\* transaction that is still in the book is among them.
BookIsHeld == Registered \subseteq allTx

\* The derived state is that of the book: no scan of it is under way.
Settled == pc \in {"idle", "update", "external", "internal", "notify", "remove", "collect"}

\* Two transactions that spend the same output are never both taken as valid
\* while one of them is unconfirmed, whatever order they arrived, confirmed and
\* were unconfirmed in.
NoDoubleSpend ==
    Settled => \A t, u \in Registered \ invalidTx :
                  t # u /\ height[u] = TX_UNCONFIRMED => Inputs[t] \cap Inputs[u] = {}

\* An output the wallet offers for spending belongs to one of its addresses and
\* to a transaction that is neither a double spend nor pending, and none of the
\* transactions that were counted spends it.
UtxosAreSpendable ==
    Settled => \A o \in utxos :
        /\ o[1] \in Registered \ (invalidTx \cup pendingTx)
        /\ AddrOf[o] \in AllAddrs
        /\ \A t \in Registered \ (invalidTx \cup pendingTx) : o \notin Inputs[t]

\* The unsigned balance never wraps: during the scan and after it, it is the sum
\* of the unspent outputs, and what was received less what was sent.
BalanceIsUtxoValue ==
    /\ balance = Value[utxos]
    /\ balance = totalReceived - totalSent

\* After a reorganisation to height h no transaction of the wallet stays
\* confirmed above h.
ReorgIsComplete ==
    [][\A h \in Heights \cup {0} : SetTxUnconfirmedAfter(h) =>
          \A t \in Registered : height'[t] <= h \/ height'[t] = TX_UNCONFIRMED]_vars

\* The book as TxBook describes it: calls of many steps, and of nested calls
\* between which the lock is released, look like single operations.
Book == INSTANCE TxBook WITH
    Parents <- ParentsOf,
    book    <- [t \in Registered |-> height[t]],
    open    <- call.op # "new"

IsTxBook == Book!Spec

\* Every call returns: the recursion of BRWalletRemoveTransaction ends, with its
\* snapshots of dependents, and so does every scan.
CallsReturn == pc # "idle" ~> pc = "idle"
=============================================================================
