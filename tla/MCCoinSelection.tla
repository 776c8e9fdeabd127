-------------------------- MODULE MCCoinSelection ---------------------------
(***************************************************************************)
(* Two threads; a transaction has room for two inputs with one output and  *)
(* for one with two outputs.                                               *)
(***************************************************************************)
EXTENDS CoinClaims, TLC

CONSTANTS s1, s2, c1, c2, c3, c4

MCValue == (c1 :> 1) @@ (c2 :> 2) @@ (c3 :> 3) @@ (c4 :> 5)
MCRequests == {<<2>>, <<4>>, <<6>>, <<3, 1>>, <<1, 4>>}
=============================================================================
