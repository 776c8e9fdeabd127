----------------------------- MODULE MCDownload -----------------------------
(***************************************************************************)
(* A chain that grows to five blocks; the wallet was created about block 2, *)
(* is paid 2 in block 3, 3 and 5 in block 4 and 6 in block 5.  With a gap   *)
(* limit of two and two spare addresses every new payment may outgrow the   *)
(* filter, and 5 is an address that the first filter does not match.  The   *)
(* peers have five and four blocks at the start.                            *)
(***************************************************************************)
EXTENDS DownloadClaims, TLC
CONSTANTS p1, p2

MCPays == <<<<>>, <<>>, <<2>>, <<3, 5>>, <<6>>>>
MCBest == p1 :> 5 @@ p2 :> 4

\* Block 2 is within two hours of a week before the wallet's creation.
MCTime == [h \in 0..Top |-> IF h < 2 THEN 0 ELSE 2 * h - 1]

\* gap: no block is; when the download is interrupted before block 3, DownloadEnds
\* is false.
GapTime == [h \in 0..Top |-> IF h < 3 THEN 0 ELSE 2 * h - 1]

\* One connection to p2 fails; in the instance of MissedIsFound one to p1 does.
MCFailures  == p1 :> 0 @@ p2 :> 1
FirstFails  == p1 :> 1 @@ p2 :> 0

FairSpec == Spec /\ Fairness
=============================================================================
