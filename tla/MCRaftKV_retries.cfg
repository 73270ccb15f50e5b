\* Retried and duplicated operations, timeouts and crashes, no compaction.
SPECIFICATION Spec
CONSTANTS
    s1 = s1
    s2 = s2
    c1 = c1
    c2 = c2
    k = k
    Server = {s1, s2}
    Client = {c1, c2}
    Key = {k}
    NoOp = NoOp
    OpType = {"Append", "GET"}
    Snapshots = FALSE
    ChanSize = 1
    MaxLog = 2
    MaxId = 1
    MaxHandlers = 2
    MaxCrashes = 0
SYMMETRY Symmetry
CHECK_DEADLOCK FALSE
INVARIANTS
    StoreIsLog
PROPERTIES
    ImplementsStore
