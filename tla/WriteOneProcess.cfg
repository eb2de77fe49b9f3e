CONSTANTS
    NoTask = NoTask
    Procs = {p1}
    Tasks = {w1, w2}
    ProcOf <- SharedProcess
    Tables = {a, b}
    ForkTables = {b}
    Kinds = {"insert", "strict", "cas"}
    MaxRequests = 2
    MaxReprepares = 1
    MaxCrashes = 2
    MaxFaults = 1
SPECIFICATION Spec
SYMMETRY Renamings
INVARIANTS
    VisibleAtomic
    CommitOnAuthority
    AnswersHold
    DriftCovered
    ForksCovered
    AuditExact
    NeverWedged
PROPERTIES
    ImplementsStore
