\* Retries, timeouts, a restart and queries at two servers; the changes of three
\* shards and four groups.
SPECIFICATION Spec
CONSTANTS
    s1 = s1
    s2 = s2
    c1 = c1
    c2 = c2
    Server = {s1, s2}
    Client = {c1, c2}
    NoOp = NoOp
    OpType = {"Join", "Leave", "Move", "Query"}
    GID = {1, 2}
    NShards = 3
    MaxNum = 1
    MaxLog = 2
    MaxId = 1
    MaxHandlers = 1
    MaxCrashes = 1
SYMMETRY Symmetry
CHECK_DEADLOCK FALSE
INVARIANTS
    ConfigsAreLog
    RebalanceBalances
    MinimalTransfers
PROPERTIES
    ImplementsConfigs
