CONSTANTS
    Single = {0, 1, 2, 4, 5, 6}
    Shared = 3
    Twins = 3
    Values <- MCValues
    Capacities = {1, 2}
SPECIFICATION Spec
INVARIANTS
    ChainsAreWhole
    HashFindsItsChain
    IndexIsSound
PROPERTIES
    RefinesStateSet
