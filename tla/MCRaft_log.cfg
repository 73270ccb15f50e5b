\* Two-entry logs, with a ticker that is preempted between its locks.
SPECIFICATION Spec
CONSTANTS
    s1 = s1
    s2 = s2
    s3 = s3
    x = x
    Server = {s1, s2, s3}
    Command = {x}
    NoVote = NoVote
    InOrder = FALSE
    Preemptible = TRUE
    Snapshots = FALSE
    TornSaves = TRUE
    MaxTerm = 2
    MaxLog = 2
    MaxCalls = 1
    MaxCrashes = 1
SYMMETRY Symmetry
VIEW LogView
CHECK_DEADLOCK FALSE
INVARIANTS
    LogMatching
