\* Two servers that are shut down and started again while a clerk, they and
\* their old instances make a call.
SPECIFICATION TestSpec
CONSTANTS
    s1 = s1
    s2 = s2
    c1 = c1
    r1 = r1
    None = None
    Name = {s1, s2}
    Clerk = {c1}
    Request = {r1}
    MaxInstances = 2
    End <- MCEnd
CHECK_DEADLOCK FALSE
INVARIANTS
    AckedSaved
    OldSilent
    OkMeansExecuted
PROPERTIES
    CallReturns
