CONSTANTS
    Values <- MCValues
    Capacities = {1, 2}
    MaxRequests = 3
SPECIFICATION MCSpec
INVARIANTS
    RequestsAreKept
    NewOnceInAMerge
    ChainsFitTheirSlots
PROPERTIES
    EveryRequestEnds
