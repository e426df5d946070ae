SPECIFICATION FairSpec
CONSTANTS
    FailureThreshold = 3
    RecoveryTimeout = 1
    MaxFailures = 5
    NTasks = 4
    BatchSize = 3
    MaxConcurrent = 2
    MaxRetries = 2
INVARIANTS
    BatchesSafe
PROPERTIES
    FallbackJustified
    OpenEnds
    SearchCompletes
