SPECIFICATION LiveSpec
CONSTANTS
    Workers = {w1, w2, w3, w4}
    Main = main
    Service = service
    InitialMaxTasks = 2
    InitialMaxBestEffort = 1
    MaxWorkers = 3
    MaxCalls = 2
    MaxBlocks = 1
    MaxPolicies = 1
INVARIANTS CountsExact NoStrandedSource AdjustIsOwed
PROPERTIES SourcesRun
