\* One worker that keeps answering, two that stop or die.
SPECIFICATION JobSpec
CONSTANTS
    w1 = w1
    w2 = w2
    w3 = w3
    Worker = {w1, w2, w3}
    Reliable = {w1}
    FailAfter = 1
    NMap = 2
    NReduce = 2
    MaxDeaths = 1
    Absent = Absent
    Input <- MCInput
    ihash <- MCihash
CHECK_DEADLOCK FALSE
INVARIANTS
    OneTaskPerWorker
    PhasesComplete
    ResultRight
    NoFileMissing
PROPERTIES
    JobEnds
