-------------------------- MODULE MCHybridDispatch --------------------------
(* HybridDispatch for TLC. With two requests in progress and a threshold   *)
(* of two the breaker opens while another request is still inside call().  *)
EXTENDS HybridDispatch

MCFailureThreshold == 2
MCRecoveryTimeout  == 1
MCMaxFailures      == 5
=============================================================================
