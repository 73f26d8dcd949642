SPECIFICATION LoopSpec
CONSTANTS
    Callers = {p1, p2}
    Main = main
    MaxNesting = 3
    MaxTasks = 3
    MaxRuns = 3
INVARIANTS
    NoStrandedWork
    QuitHeeded
PROPERTIES
    WorkRuns
    KeepsRequests
CHECK_DEADLOCK FALSE
