----------------------------- MODULE CoinClaims -----------------------------
(***************************************************************************)
(* What the comments and tests say of coin selection and the code does not *)
(* keep.                                                                   *)
(***************************************************************************)
EXTENDS CoinSelection

\* "check for sufficient total funds before building a smaller transaction"
\* (BRWallet.c:607): a smaller transaction that was built is returned.
SmallerIsReturned ==
    [][\A s \in Sender :
        Len(calls[s]) > 1 /\ calls'[s] # calls[s] /\ draft[s] # NoTx => draft'[s] # NoTx]_vars

\* Two transactions that were created and not registered spend different outputs.
DraftsAreDisjoint ==
    \A s, t \in Sender : s # t => draft[s].inputs \cap draft[t].inputs = {}

\* "assert(outputs != NULL && outCount > 0)" (BRWallet.c:580).
CallHasOutputs == \A s \in Sender : \A i \in DOMAIN calls[s] : calls[s][i].outputs # <<>>
=============================================================================
