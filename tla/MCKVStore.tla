----------------------------- MODULE MCKVStore ------------------------------
(***************************************************************************)
(* Two devices and one key.  Device d1 has two threads that sync and the   *)
(* adaptor of the tests; d2 has one thread and RemoteKVStore.              *)
(***************************************************************************)
EXTENDS KVClaims, TLC

CONSTANTS d1, d2, s3

MCOwner == [t \in Thread |-> IF t = s3 THEN d2 ELSE d1]
MCSkew == d1 :> 0 @@ d2 :> 1
MCVersions == d1 :> 1 @@ d2 :> 2
Symmetric == Permutations(Thread \ {s3}) \cup Permutations(Value)
=============================================================================
