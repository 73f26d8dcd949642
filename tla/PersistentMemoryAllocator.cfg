SPECIFICATION LiveSpec
CONSTANTS
    w1 = w1
    p1 = p1
    p2 = p2
    Writers = {w1, w2}
    Readers = {w2, r1}
    Processes = {p1, p2}
    ProcessOf <- MCProcessOf
    MemSize = 22
    PageSize = 11
    Requests = {5}
    Mortal = {p1}
    MaxDeaths = 1
INVARIANTS
    TypeOK
    BlocksIntact
    HeldOnceAndClean
PROPERTIES
    ImplementsLog
    CorruptionFoundOnAttach
    MakeIterableSucceeds
CHECK_DEADLOCK FALSE
