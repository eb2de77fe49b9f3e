CONSTANTS
    NoTask = NoTask
    Procs = {p1, p2}
    Tasks = {w1, w2}
    ProcOf <- OwnProcess
    Tables = {a, b}
    ForkTables = {b}
    Kinds = {"insert"}
    MaxRequests = 2
    MaxReprepares = 1
    MaxCrashes = 1
    MaxFaults = 1
SPECIFICATION Spec
SYMMETRY Renamings
INVARIANTS
    OneOutcome
    InductiveInv
