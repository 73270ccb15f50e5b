\* Replication over links that keep the order of requests.
SPECIFICATION Spec
CONSTANTS
    s1 = s1
    s2 = s2
    s3 = s3
    x = x
    Server = {s1, s2, s3}
    Command = {x}
    NoVote = NoVote
    InOrder = TRUE
    Preemptible = FALSE
    Snapshots = FALSE
    TornSaves = FALSE
    MaxTerm = 2
    MaxLog = 1
    MaxCalls = 2
    MaxCrashes = 0
SYMMETRY Symmetry
VIEW ApplyView
CHECK_DEADLOCK FALSE
INVARIANTS
    StateMachineSafety
    LeaderCompleteness
    MatchIndexReplicated
    NoSlicePanic
    AckedKept
