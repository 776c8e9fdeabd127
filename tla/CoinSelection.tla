--------------------------- MODULE CoinSelection ----------------------------
(***************************************************************************)
(* BRWalletCreateTxForOutputs (BRWallet.c) called by several threads while *)
(* the wallet changes.  One pass of a call, under the wallet's lock, takes *)
(* outputs from the UTXO set in its order until they pay for the request;  *)
(* when the transaction gets too large the lock is released and the call   *)
(* calls itself for a smaller request.  The balance of the wallet is the   *)
(* value of its UTXO set (BalanceIsUtxoValue of Wallet), a change output   *)
(* is one of the coins received later, and amounts do not overflow.        *)
(***************************************************************************)
EXTENDS Integers, Sequences, FiniteSets, SequencesExt

CONSTANTS
    Sender,                 \* threads that send
    Coin, Value,            \* Value[c]: the amount of output c
    Requests,               \* sequences of amounts to be paid
    Fees,                   \* fees that the user may set
    BaseSize, InputSize, OutputSize, MaxSize    \* TX_INPUT_SIZE, TX_OUTPUT_SIZE, TX_MAX_SIZE

Amount == Nat \ {0}
ASSUME CoinAssumption ==
    /\ Value \in [Coin -> Amount]
    /\ Fees \subseteq Nat
    /\ \A r \in Requests : r \in Seq(Amount) /\ r # <<>>
    /\ {BaseSize, InputSize, OutputSize, MaxSize} \subseteq Nat

VARIABLES
    utxos,      \* wallet->utxos
    unseen,     \* coins that no transaction of the wallet has paid yet
    calls,      \* calls[s]: the nested calls of s, the newest first
    returning,  \* returning[s]: the newest call has its transaction or NULL
    draft       \* draft[s]: that transaction, then the one s got

vars == <<utxos, unseen, calls, returning, draft>>

NoTx == [inputs |-> {}, outputs |-> <<>>, change |-> 0]
Total(amounts) ==
    LET total[i \in 0..Len(amounts)] == IF i = 0 THEN 0 ELSE total[i - 1] + amounts[i]
    IN  total[Len(amounts)]
Worth(coins) == Total([i \in DOMAIN coins |-> Value[coins[i]]])

\* The outputs that are not among the spent ones, in their order.
Without(coins, spent) ==
    LET left[i \in 0..Len(coins)] ==
            IF i = 0 THEN <<>>
            ELSE IF coins[i] \in spent THEN left[i - 1] ELSE Append(left[i - 1], coins[i])
    IN  left[Len(coins)]

\* TX_MIN_OUTPUT_AMOUNT is 0, and so is what BRWalletMinOutputAmount makes of it.
MinOutputAmount == 0

Init ==
    /\ utxos = <<>> /\ unseen = Coin
    /\ calls = [s \in Sender |-> <<>>]
    /\ returning = [s \in Sender |-> FALSE]
    /\ draft = [s \in Sender |-> NoTx]
-----------------------------------------------------------------------------
(* One call f: the outputs, the fee, and the value of the inputs it took.  *)

Due(f) == Total(f.outputs) + f.fee

\* A fee of 0 becomes 1.
Call(outputs, fee) == [outputs |-> outputs, fee |-> IF fee = 0 THEN 1 ELSE fee, balance |-> 0]

Enough(f, n) ==
    LET balance == Worth(SubSeq(utxos, 1, n))
    IN  balance = Due(f) \/ balance >= Due(f) + MinOutputAmount

\* The transaction with n inputs has no room for a change output.
Size(outputs, n) == BaseSize + n * InputSize + Len(outputs) * OutputSize
TooLarge(f, n) == Size(f.outputs, n) + OutputSize > MaxSize

\* The input at which the loop over the UTXO set breaks or ends.
LastInput(f) ==
    LET breaks == {n \in 1..Len(utxos) : TooLarge(f, n) \/ Enough(f, n)}
    IN  IF breaks = {} THEN Len(utxos) ELSE CHOOSE n \in breaks : \A m \in breaks : n <= m

\* The smaller request: the last output is reduced to what the inputs pay for, or
\* removed.
SmallerSame(f, balance) == Call(f.outputs, f.fee)           \* mutant: nothing is removed
SmallerOrNone(f, balance) ==                                \* mutant: an output of 0 is kept
    LET missing == Due(f) - balance
        k == Len(f.outputs)
    IN  IF f.outputs[k] >= missing + MinOutputAmount
          THEN Call([f.outputs EXCEPT ![k] = @ - missing], f.fee)
          ELSE Call(Front(f.outputs), f.fee)
Smaller(f, balance) ==
    LET missing == Due(f) - balance
        k == Len(f.outputs)
    IN  IF f.outputs[k] > missing + MinOutputAmount
          THEN Call([f.outputs EXCEPT ![k] = @ - missing], f.fee)
          ELSE Call(Front(f.outputs), f.fee)

\* What is left for the change output.
ChangeWithFee(f, balance) == balance - Total(f.outputs)       \* mutant: the fee is forgotten
Change(f, balance) ==
    IF balance - Due(f) > MinOutputAmount THEN balance - Due(f) ELSE 0

Transaction(f, n) ==
    LET balance == Worth(SubSeq(utxos, 1, n))
    IN  IF f.outputs = <<>> \/ balance < Due(f) THEN NoTx
        ELSE [inputs |-> {utxos[i] : i \in 1..n}, outputs |-> f.outputs,
              change |-> Change(f, balance)]
-----------------------------------------------------------------------------
\* BRWalletCreateTransaction, or BRWalletCreateTxForOutputs.
Create(s, request, fee) ==
    /\ calls[s] = <<>> /\ draft[s] = NoTx
    /\ calls' = [calls EXCEPT ![s] = <<Call(request, fee)>>]
    /\ UNCHANGED <<utxos, unseen, returning, draft>>

\* The loop, for a transaction that is large enough before it is too large, or for
\* want of funds.
Build(s) ==
    LET f == Head(calls[s])
        n == LastInput(f)
    IN  /\ calls[s] # <<>> /\ ~ returning[s]
        /\ utxos = <<>> \/ ~ TooLarge(f, n) \/ Worth(utxos) < Due(f)
        /\ draft' = [draft EXCEPT ![s] = IF n > 0 /\ TooLarge(f, n) THEN NoTx ELSE Transaction(f, n)]
        /\ returning' = [returning EXCEPT ![s] = TRUE]
        /\ UNCHANGED <<utxos, unseen, calls>>

\* The loop, when the transaction got too large and the funds are there.
BuildSmaller(s) ==
    LET f == Head(calls[s])
        n == LastInput(f)
        balance == Worth(SubSeq(utxos, 1, n - 1))
    IN  /\ calls[s] # <<>> /\ ~ returning[s]
        /\ f.outputs # <<>>                     \* asserted
        /\ utxos # <<>> /\ TooLarge(f, n) /\ Worth(utxos) >= Due(f)
        /\ calls' = [calls EXCEPT ![s] = <<Smaller(f, balance), [f EXCEPT !.balance = balance]>>
                                          \o Tail(calls[s])]
        /\ UNCHANGED <<utxos, unseen, returning, draft>>

\* A call returns.  The call that made it looks at its own balance, which is less than
\* what is due, and frees the transaction.
Return(s) ==
    LET outer == Tail(calls[s])
    IN  /\ returning[s]
        /\ calls' = [calls EXCEPT ![s] = outer]
        /\ returning' = [returning EXCEPT ![s] = outer # <<>>]
        /\ draft' = [draft EXCEPT ![s] =
                        IF outer # <<>> /\ Head(outer).balance < Due(Head(outer)) THEN NoTx ELSE @]
        /\ UNCHANGED <<utxos, unseen>>

\* The transaction is signed, published and registered once a peer asks for it: its
\* inputs are spent.  It is invalid, and spends nothing, if one of them is spent.
Register(s) ==
    /\ calls[s] = <<>> /\ draft[s] # NoTx
    /\ utxos' = IF draft[s].inputs \subseteq Range(utxos)
                THEN Without(utxos, draft[s].inputs) ELSE utxos
    /\ draft' = [draft EXCEPT ![s] = NoTx]
    /\ UNCHANGED <<unseen, calls, returning>>

\* A transaction that pays the wallet: its output comes at any place of the UTXO set.
Receive(c) ==
    /\ c \in unseen
    /\ unseen' = unseen \ {c}
    /\ \E i \in 1..(Len(utxos) + 1) : utxos' = InsertAt(utxos, i, c)
    /\ UNCHANGED <<calls, returning, draft>>

Next ==
    \/ \E s \in Sender :
        \/ \E request \in Requests, fee \in Fees : Create(s, request, fee)
        \/ Build(s) \/ BuildSmaller(s) \/ Return(s) \/ Register(s)
    \/ \E c \in Coin : Receive(c)

Spec == Init /\ [][Next]_vars
-----------------------------------------------------------------------------
\* BRWalletFeeForTx: what the inputs pay and the outputs do not.
FeeForTx(tx) == Worth(SetToSeq(tx.inputs)) - Total(tx.outputs) - tx.change

IsTransaction(tx) ==
    /\ tx.inputs \subseteq Coin
    /\ tx.outputs \in Seq(Amount)
    /\ tx.change \in Nat
TypeOK ==
    /\ utxos \in Seq(Coin) /\ IsInjective(utxos) /\ unseen \subseteq Coin \ Range(utxos)
    /\ returning \in [Sender -> BOOLEAN]
    /\ \A s \in Sender :
        /\ \A i \in DOMAIN calls[s] :
            calls[s][i].outputs \in Seq(Amount) /\ calls[s][i].fee \in Amount /\ calls[s][i].balance \in Nat
        /\ IsTransaction(draft[s])

\* A transaction that a caller got pays what its inputs are worth: the outputs asked
\* for, the change and, to the last unit, the fee of the call.
DraftIsBalanced ==
    \A s \in Sender : draft[s] # NoTx =>
        /\ returning[s] => FeeForTx(draft[s]) = Head(calls[s]).fee
        /\ calls[s] = <<>> => draft[s].outputs \in Requests

\* Each nested call asks for less than the call that makes it, whatever the wallet
\* receives or spends while the lock is released: the recursion ends.
DueFalls ==
    \A s \in Sender : \A i \in 2..Len(calls[s]) : Due(calls[s][i - 1]) < Due(calls[s][i])
=============================================================================
