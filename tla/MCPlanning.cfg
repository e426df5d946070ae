SPECIFICATION MCSpec
CONSTANTS
    Requests <- MCRequests
    UserHash <- MCUserHash
    Askers = {a1, a2}
    CacheTTL = 2
    HealthTTL = 2
    EnableORTools = TRUE
    UserPercentage = 50
    MinPlaces = 4
    MinDays = 1
    MaxPlaces = 50
    MaxDistanceKm = 500
    AllowedCities = {"santiago"}
    ExcludedCities = {}
    Inputs <- MCInputs
    DayCounts = {1, 2, 3, 4}
    MaxPerDay = 2
    Journeys <- MCJourneys
    Famous = {"paris"}
    Full = TRUE
    Tours <- MCTours
    Far = 4
    Trips <- MCTrips
    NoBase = 0
    Brief = 20
INVARIANTS
    ChosenFits
    ChoiceNotStale
    PlanComplete
    EveryPoiVisitedOnce
    StaysFollowCalendar
    VisitedOnce
    OneJourney
    MetricsAgree
SYMMETRY MCSymmetry
CHECK_DEADLOCK FALSE
