CONSTANTS
    Values <- MCValues
    Capacities = {1, 2}
    MaxRequests = 3
SPECIFICATION Spec
INVARIANTS
    AnsweredIsFound
