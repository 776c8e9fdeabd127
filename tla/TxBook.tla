------------------------------- MODULE TxBook -------------------------------
(***************************************************************************)
(* What BRWallet.c promises about the set of transactions it keeps,        *)
(* whatever order it keeps them in and however many steps a call takes.    *)
(* The book maps each registered transaction to the height of its block.   *)
(***************************************************************************)
EXTENDS Integers

CONSTANTS TX, Parents(_), Heights, TX_UNCONFIRMED

VARIABLES
    book,       \* transaction -> height, for the registered transactions
    open        \* the stored transactions have been loaded

bookVars == <<book, open>>

Init == book = [t \in {} |-> TX_UNCONFIRMED] /\ open = FALSE

With(t, h) == [u \in DOMAIN book \cup {t} |-> IF u = t THEN h ELSE book[u]]

\* Before the wallet is open, transactions of the store enter with any height,
\* and a store that belongs to another wallet is dropped as a whole.
Load(t, h) == ~ open /\ t \notin DOMAIN book /\ book' = With(t, h) /\ UNCHANGED open
Open       == ~ open /\ open' = TRUE /\ UNCHANGED book
Drop       == ~ open /\ book' = [t \in {} |-> TX_UNCONFIRMED] /\ UNCHANGED open

\* A new transaction is unconfirmed.
Add(t) == open /\ t \notin DOMAIN book /\ book' = With(t, TX_UNCONFIRMED) /\ UNCHANGED open

\* A block confirms a transaction; the height of another block can replace it,
\* but only a reorganisation makes it unconfirmed again.
Confirm(t, h) == open /\ t \in DOMAIN book /\ book' = With(t, h) /\ UNCHANGED open

\* A reorganisation takes every transaction above h, and no other, out of the
\* chain at once.
Reorg(h) ==
    /\ open
    /\ book' = [t \in DOMAIN book |-> IF book[t] > h THEN TX_UNCONFIRMED ELSE book[t]]
    /\ UNCHANGED open

\* Only an unconfirmed transaction is removed, and none that another unconfirmed
\* transaction spends from.
Remove(t) ==
    /\ open
    /\ t \in DOMAIN book
    /\ book[t] = TX_UNCONFIRMED
    /\ \A u \in DOMAIN book \ {t} : t \in Parents(u) => book[u] # TX_UNCONFIRMED
    /\ book' = [u \in DOMAIN book \ {t} |-> book[u]]
    /\ UNCHANGED open

Next ==
    \/ \E t \in TX, h \in Heights \cup {TX_UNCONFIRMED} : Load(t, h)
    \/ Open \/ Drop
    \/ \E t \in TX : Add(t) \/ Remove(t)
    \/ \E t \in TX, h \in Heights : Confirm(t, h)
    \/ \E h \in Heights \cup {0} : Reorg(h)

Spec == Init /\ [][Next]_bookVars
=============================================================================
