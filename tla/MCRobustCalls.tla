---------------------------- MODULE MCRobustCalls ----------------------------
(* RobustCalls for TLC: four locations in a batch of three and one of one,  *)
(* two tasks at a time, so that the semaphore, the batches and the retries  *)
(* all have someone waiting. The threshold is the three of the routing      *)
(* breaker, which one task can reach with its own retries.                  *)
EXTENDS RobustCalls
==============================================================================
