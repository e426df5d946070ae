SPECIFICATION LoadedSpec
CONSTANTS
    Requests = {r1, r2}
    EnableORTools = TRUE
    EnableCity2Graph = TRUE
    FailureThreshold <- MCFailureThreshold
    RecoveryTimeout <- MCRecoveryTimeout
    MaxFailures <- MCMaxFailures
PROPERTY AutomaticRecovery
