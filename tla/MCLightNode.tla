---------------------------- MODULE MCLightNode ----------------------------
(***************************************************************************)
(* An account that has once called a contract and been sent a token, on a  *)
(* device that sends two transactions, while another device with the same  *)
(* key sends ether.                                                        *)
(***************************************************************************)
EXTENDS LightClaims, TLC

CONSTANTS ether, token, h1, h2, h3

MCPast == <<[hash |-> h3, own |-> TRUE, kind |-> Unknown, nonce |-> 0],
            [hash |-> h2, own |-> FALSE, kind |-> token, nonce |-> 0]>>

MCOthers == {[hash |-> h1, own |-> TRUE, kind |-> ether, nonce |-> 0]}
=============================================================================
