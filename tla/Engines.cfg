CONSTANTS
    States = {s1, s2, s3, s4, s5}
    InitState = s1
    Goal = s5
    MCCosts = {1, 2}
    MCBlind <- MCBoth
    Near = {s1, s2, s5}
    Wide = {s1, s2, s3, s5}
    Ordered = {s1, s2, s3, s4, s5}
    Guided = {s1, s2, s3, s5}
    MCEst = {0, 2, 99}
    MCCmp = {"astar", "gbfs"}
    Graphs <- MCGraphs
    Infinite = 99
    UninitFloat = {0}
SPECIFICATION FairSpec
INVARIANTS
    TypeOK
    PlanIsSound
    FailureIsExhaustive
    ShortestAtCostOne
    OneNodePerState
    LayersAreFifo
    BestIsLeast
PROPERTIES
    BlindCheapestFirst
    RefinesGraphSearch
    Terminates
