-------------------------- MODULE MCORToolsService --------------------------
(* ORToolsService for TLC. As in the code (60 s and 300 s), several        *)
(* recovery timeouts fit into the life of a cached health answer.          *)
EXTENDS ORToolsService

MCFailureThreshold == 2
MCRecoveryTimeout  == 1
MCHealthTTL        == 5
=============================================================================
