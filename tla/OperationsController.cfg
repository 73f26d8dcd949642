SPECIFICATION LiveSpec
CONSTANTS
    Threads = {t1, t2, t3}
    CountLimit = 6
    MaxRejections = 2
PROPERTIES
    ImplementsGate
    ShutdownEnds
