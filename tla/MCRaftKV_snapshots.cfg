\* Compaction, InstallSnapshot, a restart, and sends that overtake each other.
SPECIFICATION Spec
CONSTANTS
    s1 = s1
    s2 = s2
    c1 = c1
    c2 = c2
    k = k
    Server = {s1, s2}
    Client = {c1}
    Key = {k}
    NoOp = NoOp
    OpType = {"Append", "GET"}
    Snapshots = TRUE
    ChanSize = 1
    MaxLog = 3
    MaxId = 2
    MaxHandlers = 1
    MaxCrashes = 1
SYMMETRY Symmetry
CHECK_DEADLOCK FALSE
INVARIANTS
    StoreIsLog
    LinearizableInOrder
    AppliedOnce
