CONSTANTS
    a = a
    b = b
    c = c
    Vars = {a, b, c}
    Precision = 3
    Infinite = 99
    UninitFloat = {0}
    States <- VarState
    InitState <- MCInit
    Problems <- MCProblems
    Tasks <- MCTasks
    Graphs <- MCGraphs
    PrintCounter = 1
SPECIFICATION FairSpec
INVARIANTS
    PlanIsValid
    NotFoundMeansNoPlan
    ShortestWithoutCosts
    CostIsOfPlan
    EstimateIsLowerBound
    DeadEndIsClosed
    AbortsOnlyUnpriced
    EngineOutlivesMonitor
PROPERTIES
    RefinesHeuristicEngine
    SolveReturns
