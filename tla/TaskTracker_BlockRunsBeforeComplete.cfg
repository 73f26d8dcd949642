SPECIFICATION Spec
CONSTANTS
    s1 = s1  s2 = s2  w1 = w1  w2 = w2  p1 = p1  p2 = p2  f1 = f1
    Sequences = {s1, s2}
    Workers = {w1}
    Posters = {p1, p2}
    ServiceThread = p2
    Flushers = {}
    Behaviors <- BlockOnly
    BestEffort = {s1}
    MaxPosts = 2
    MaxFences = 0
    PostingChecks = TRUE
PROPERTIES BlockRunsBeforeComplete
CHECK_DEADLOCK FALSE
