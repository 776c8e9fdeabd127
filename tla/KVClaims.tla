----------------------------- MODULE KVClaims ------------------------------
(***************************************************************************)
(* Sentences of the comments of ReplicatedKVStore.java about KVStore that  *)
(* the code does not keep.                                                 *)
(***************************************************************************)
EXTENDS KVStore

\* "we keep the remote version on the most recent local version, if they match,
\* there is nothing to do" (:484-485): table and server then hold the same.
MatchingIsEqual ==
    \A d \in Device, k \in Key :
        Exists(k) /\ local[d][k].remote = Len(server[k]) =>
            /\ local[d][k].deleted = Current(k).deleted
            /\ ~ Current(k).deleted => local[d][k].value = Current(k).value

\* "how did we get here?" (:482): _syncKey is entered with syncRunning set.
SyncIsAlone ==
    \A t \in Thread : pc[t] = "next" /\ todo[t] # {} => running[OwnerOf[t]]

\* "get the remote version. this is our lock" and "if their last-modified date is
\* older than ours, overwrite theirs" (:478-481): an upload replaces nothing newer.
TheirsIsOlder ==
    [][\A t \in Thread : Put(t) /\ Exists(JobOf(t).key) =>
        ItemOf(t).time >= Current(JobOf(t).key).time]_vars
=============================================================================
