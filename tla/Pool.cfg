CONSTANTS
    Workers = {w1, w2, w3}
    Tasks = {t1, t2, t3, t4}
    NoTask = NoTask
SPECIFICATION FairSpec
INVARIANTS
    TypeOK
    BusyCountsWorkers
    TaskHasOneHolder
PROPERTIES
    OnlyTheWindowEscapes
    EveryTaskRuns
    WaitAllReturns
