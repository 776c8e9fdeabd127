------------------------------ MODULE MCWallet ------------------------------
(***************************************************************************)
(* Instances of Wallet for TLC.  An instance is a small set of             *)
(* transactions; the outputs of "fund" belong to somebody else.            *)
(***************************************************************************)
EXTENDS WalletClaims, Functions, TLC

CONSTANTS a, b, c       \* transaction hashes

Own(k)    == <<"external", k>>
Change(k) == <<"internal", k>>

\* The outputs of an instance, as a sequence of addresses for each transaction.
AddrsOf(paid) ==
    [o \in UNION {{t} \X (0..(Len(paid[t]) - 1)) : t \in DOMAIN paid} |-> paid[o[1]][o[2] + 1]]
CountOf(paid) == [t \in DOMAIN paid |-> Len(paid[t])]
ValueOf(amount) == [S \in SUBSET DOMAIN amount |-> SumFunctionOnSet(amount, S)]

NoRows == {<<>>}

-----------------------------------------------------------------------------
\* spend: a pays the wallet; b spends it and takes change; c is a double spend
\* of b that pays the wallet.
SpendTX     == {a, b, c}
SpendInputs == a :> {<<"fund", 0>>} @@ b :> {<<a, 0>>} @@ c :> {<<a, 0>>}
SpendPaid   == a :> <<Own(1)>> @@ b :> <<Foreign, Change(1)>> @@ c :> <<Own(2)>>
SpendAmount == <<a, 0>> :> 4 @@ <<b, 0>> :> 2 @@ <<b, 1>> :> 1 @@ <<c, 0>> :> 3
SpendAddr   == AddrsOf(SpendPaid)
SpendCount  == CountOf(SpendPaid)
SpendValue  == ValueOf(SpendAmount)
SpendLock   == [t \in SpendTX |-> 0]
OneGap      == "external" :> 1 @@ "internal" :> 1
-----------------------------------------------------------------------------
\* family: a pays the wallet's second address, which only the bloom filter's
\* larger gap limit generates: it is foreign, and becomes the wallet's when the
\* chain grows.  b spends a, c spends a and b.  None may be spent at once: a is locked
\* until a height that no block of the instance reaches, b may be replaced (it was
\* signed elsewhere), and c is locked until a time that the clock reaches.
FamTX     == {a, b, c}
FamInputs == a :> {<<"fund", 0>>} @@ b :> {<<a, 0>>} @@ c :> {<<a, 1>>, <<b, 0>>}
FamPaid   == a :> <<Own(2), Own(2)>> @@ b :> <<Change(1)>> @@ c :> <<Foreign>>
FamAmount == <<a, 0>> :> 1 @@ <<a, 1>> :> 2 @@ <<b, 0>> :> 1 @@ <<c, 0>> :> 3
FamAddr   == AddrsOf(FamPaid)
FamCount  == CountOf(FamPaid)
FamValue  == ValueOf(FamAmount)
FamLock   == a :> 5 @@ b :> 0 @@ c :> 31

\* The store of an earlier process is refused, because the first gap limit does
\* not generate the address that its only row pays.
FamRows   == {<<[tx |-> a, height |-> 1, time |-> 0]>>}
-----------------------------------------------------------------------------
\* pair: two payments to the wallet.
PairTX     == {a, b}
PairInputs == a :> {<<"fund", 0>>} @@ b :> {<<"fund", 1>>}
PairPaid   == a :> <<Own(1)>> @@ b :> <<Own(1)>>
PairAmount == <<a, 0>> :> 1 @@ <<b, 0>> :> 2
PairAddr   == AddrsOf(PairPaid)
PairCount  == CountOf(PairPaid)
PairValue  == ValueOf(PairAmount)
PairLock   == [t \in PairTX |-> 5]

-----------------------------------------------------------------------------
\* stored: the store holds a, which pays the first change address, and b, which
\* pays an address that was generated because of a transaction removed since.
StoredTX     == {a, b}
StoredInputs == a :> {<<"fund", 0>>} @@ b :> {<<"fund", 1>>}
StoredPaid   == a :> <<Change(1)>> @@ b :> <<Own(2)>>
StoredAmount == <<a, 0>> :> 1 @@ <<b, 0>> :> 2
StoredAddr   == AddrsOf(StoredPaid)
StoredCount  == CountOf(StoredPaid)
StoredValue  == ValueOf(StoredAmount)
StoredLock   == [t \in StoredTX |-> 0]
StoredRows   == {<<[tx |-> a, height |-> 1, time |-> 0], [tx |-> b, height |-> 9, time |-> 0]>>}
=============================================================================
