SPECIFICATION FairSpec
CONSTANTS
    a = a
    b = b
    s = s
    CReq = {a, b}
    SReq = {s}
    Job = {a, b, s}
    NoJob = NoJob
    IdOf <- MCIdOf
    QueueMax = 1
INVARIANTS JobsInOrder Paired RefusedExplained ShutdownTruthful
PROPERTIES ShutdownEnds
CHECK_DEADLOCK FALSE
