SPECIFICATION Spec
CONSTANTS
    Workers = {w1, w2}
    Owner = owner
    MaxConcurrency = 2
    Budget <- QuietBudget
INVARIANT JoinMeansDone
CHECK_DEADLOCK FALSE
