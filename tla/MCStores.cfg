SPECIFICATION MCSpec
CONSTANTS
    Optimizers = {o1}
    Points = {1, 2}
    Modes = {walk}
    Callers = {c1, c2}
    Limit = 2
    EvictCount = 1
    SaveEvery = 2
    MaxMisses = 3
    Searchers = {s1, s2}
    World <- MCWorld
    Searches <- MCSearches
    TypeTTL <- MCTypeTTL
    CutOff = 1
    CellSize = 1
    MaxWalk = 5
    GraphModes = {drive}
    Threads = {t1, t2}
    Downloaders = {d1, d2}
    Managers = {"s3", "drive", "github"}
    FewRequests = 2
    MaxRequests = 2
    Tours <- MCTours
    TTL = 3
INVARIANTS
    MissesCoverEntries
    RobustPathLimited
    AnswersFit
    AnswersFresh
    GraphReadOnce
    TornOnlyIfLeft
    MatrixFits
    MatrixAgeBounded
CHECK_DEADLOCK FALSE
