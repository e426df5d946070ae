SPECIFICATION Spec
CONSTANTS
    Calls = {c1, c2}
    PlaceLists <- MCPlaceLists
    Unlocatable <- MCUnlocatable
    MaxCacheSize = 2
    TTL = 1
    FewPlaces = 1
    ManyPlaces = 2
    Parallel = TRUE
    MaxRequests = 4
    MaxTime = 3
SYMMETRY MCSymmetry
INVARIANTS
    MatricesSafe
PROPERTIES
    EvictionOrder
