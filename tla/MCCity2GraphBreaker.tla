------------------------ MODULE MCCity2GraphBreaker ------------------------
(* City2GraphBreaker for TLC. Four concurrent calls against a threshold of *)
(* two: an outage can begin, and the breaker can open, be probed, close    *)
(* and open again while calls of an earlier phase are still suspended.     *)
EXTENDS City2GraphBreaker

MCFailureThreshold == 2
MCRecoveryTimeout  == 2
MCMaxFailures      == 6
=============================================================================
