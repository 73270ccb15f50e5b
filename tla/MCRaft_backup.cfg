\* A leader repairs a follower that has compacted 0 entries.
SPECIFICATION SpecBackup
CONSTANTS
    s1 = s1
    s2 = s2
    s3 = s3
    x = x
    Server = {s1, s2, s3}
    boss = s1
    stale = s2
    Compacted = 0
    Command = {x}
    NoVote = NoVote
    InOrder = FALSE
    Preemptible = FALSE
    Snapshots = FALSE
    TornSaves = FALSE
    MaxTerm = 3
    MaxLog = 4
    MaxCalls = 2
    MaxCrashes = 0
CHECK_DEADLOCK FALSE
INVARIANTS
    LogMatching
PROPERTIES
    Repaired
    RefusalBacksUp
    LogSteps
