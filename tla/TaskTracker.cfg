SPECIFICATION LiveSpec
CONSTANTS
    s1 = s1  s2 = s2  w1 = w1  w2 = w2  p1 = p1  p2 = p2  f1 = f1
    Sequences = {s1}
    Workers = {w1, w2}
    Posters = {p1, p2}
    ServiceThread = p2
    Flushers = {f1}
    Behaviors <- AnyBehavior
    BestEffort = {s1}
    MaxPosts = 2
    MaxFences = 1
    PostingChecks = TRUE
INVARIANTS ItemsExact ShutdownMeansDone ScheduledOnce
PROPERTIES ShutdownReturns FlushReturns
CHECK_DEADLOCK FALSE
