SPECIFICATION Spec
CONSTANTS
    Trips <- MCTrips
    TravelMinutes <- MCTravelMinutes
    Locations <- MCLocations
    NoLocation = NoLocation
INVARIANT TimeUpdated
CHECK_DEADLOCK FALSE
