SPECIFICATION FairSpec
CONSTANTS
    Workers = {w1, w2}
    Owner = owner
    MaxConcurrency = 2
    Budget <- OneOfEach
INVARIANTS
    CountAccurate
    QueuedIfMoreCanRun
    NoLostWakeup
    CanceledJoinIsFinal
PROPERTIES
    JoinReturns
    WorkDrains
CHECK_DEADLOCK FALSE
