\* Elections, disk and compaction, with crashes inside and between the handlers.
SPECIFICATION Spec
CONSTANTS
    s1 = s1
    s2 = s2
    s3 = s3
    x = x
    Server = {s1, s2, s3}
    Command = {x}
    NoVote = NoVote
    InOrder = FALSE
    Preemptible = FALSE
    Snapshots = TRUE
    TornSaves = TRUE
    MaxTerm = 2
    MaxLog = 1
    MaxCalls = 1
    MaxCrashes = 1
SYMMETRY Symmetry
CHECK_DEADLOCK FALSE
INVARIANTS
    TypeOK
    PersistedCurrent
    CompactedApplied
    ElectionSafety
    ElectionInv
PROPERTIES
    VoteKept
