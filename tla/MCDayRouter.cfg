SPECIFICATION Spec
CONSTANTS
    Trips <- MCTrips
    TravelMinutes <- MCTravelMinutes
    Locations <- MCLocations
    NoLocation = NoLocation
INVARIANTS
    RouterSafe
CHECK_DEADLOCK FALSE
