CONSTANTS
    States = {s1, s2, s3}
    InitState = s1
    MCGoal = s3
    Graphs <- MCGraphs
    Infinite = 99
    UninitFloat = {0}
    BatchSize = 2
SPECIFICATION Spec
INVARIANT FailureIsExhaustive
