---------------------------- MODULE MCGatewayMain ---------------------------
(* GatewayMain for TLC: two batches that lock rows in opposite orders, and  *)
(* one that is refused.                                                     *)
EXTENDS GatewayMain

R(a, n) == [author |-> a, count |-> n]
MCBatches == { <<R(1, 1), R(2, 1)>>, <<R(2, 1), R(1, 1)>>, <<>> }
=============================================================================
