SPECIFICATION MCSpec
CONSTANTS
    Clients = {c1, c2}
    Trips <- MCTrips
    MaxRetries = 3
    ExpiryTicks = 2
    Askers = {a1, a2}
    Around <- MCAround
    Limit = 3
    GoogleTTL = 2
    Lookups = {l1, l2}
    RouteTTL = 2
    MaxMetrics = 3
    MinData = 2
    MaxTotal = 4
    Journeys <- MCJourneys
    Categories <- MCCategories
    PlacesNear <- MCPlacesNear
    MinPlaces = 2
    MinDays = 2
    MinTypes = 3
    MinSpread = 50
    Semantic = {"museum", "park"}
    Threshold = 5
INVARIANTS
    BasicItineraryComplete
    WindowAgrees
    SuggestedOnce
    EveryDayHasPlans
PROPERTIES
    EveryCallAnswered
    OutageForgotten
    RoutesRealAgain
    WindowReplaced
