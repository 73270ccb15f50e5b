\* A deposed leader's ticker goes on, on links that keep the order of requests.
SPECIFICATION Spec
CONSTANTS
    s1 = s1
    s2 = s2
    s3 = s3
    x = x
    Server = {s1, s2, s3}
    Command = {x}
    NoVote = NoVote
    InOrder = TRUE
    Preemptible = TRUE
    Snapshots = FALSE
    TornSaves = FALSE
    MaxTerm = 2
    MaxLog = 1
    MaxCalls = 1
    MaxCrashes = 0
SYMMETRY Symmetry
VIEW ApplyView
CHECK_DEADLOCK FALSE
INVARIANTS
    StateMachineSafety
