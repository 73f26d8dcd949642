SPECIFICATION LiveSpec
CONSTANTS
    Queues = {q1, q2}
    Posters = {p1}
    MaxPosts = 2
    MaxOps = 2
    MaxDepth = 1
INVARIANTS
    TypeOK
    SelectorExact
    ReloadIsOwed
    NoStrandedTask
PROPERTIES
    InPostedOrder
    TasksRun
CHECK_DEADLOCK FALSE
