CONSTANTS
    NoTask = NoTask
    Procs = {p1}
    Tasks = {w1, w2}
    ProcOf <- SharedProcess
    Tables = {a, b}
    ForkTables = {b}
    Kinds = {"insert"}
    MaxRequests = 2
    MaxReprepares = 1
    MaxCrashes = 1
    MaxFaults = 1
SPECIFICATION FairSpec
INVARIANTS
    SoloInv
PROPERTIES
    IntentsRetired
    RequestsEnd
