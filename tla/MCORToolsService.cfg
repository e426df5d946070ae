SPECIFICATION FairSpec
CONSTANTS
    Users = {u1, u2}
    FailureThreshold <- MCFailureThreshold
    RecoveryTimeout <- MCRecoveryTimeout
    HealthTTL <- MCHealthTTL
INVARIANTS
    ServiceSafe
PROPERTIES
    LockoutIsPermanent
    OutageSettled
