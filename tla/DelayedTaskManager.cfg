SPECIFICATION LiveSpec
CONSTANTS
    Posters = {p1, p2}
    Starter = starter
    Service = service
    Delays = {1, 2}
    MaxTasks = 3
    Horizon = 4
INVARIANTS
    RipestHasCall
    ForwardedInOrder
PROPERTIES
    TasksForwarded
CHECK_DEADLOCK FALSE
