SPECIFICATION FairSpec
CONSTANTS
    Calls = {c1, c2, c3, c4}
    FailureThreshold <- MCFailureThreshold
    RecoveryTimeout <- MCRecoveryTimeout
    MaxFailures <- MCMaxFailures
INVARIANTS
    BreakerSafe
PROPERTIES
    Recovers
