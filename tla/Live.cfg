SPECIFICATION FairMCSpec
CONSTANTS
    Hook = {h1, h2}
    Key = {}
    NoKey = NoKey
    Span = 1
    MaxMs = 3
    ClockBack = TRUE
    MaxFiles = 0
    MaxDrop = 1
    Faults = {"cap", "load", "read", "sessions", "append", "state", "unlink", "crash"}
    MaxFault = 1
    Proc = {p1, p2}
    NoProc = NoProc
    MaxCall = 3
    MaxPoll = 1
    MaxCrash = 1
    Example = {x1, x2}
    LockFaults = {"age", "reuse", "write"}
INVARIANT LossOnlyInWindow
PROPERTIES Exclusion Drained AlwaysAnswers SelfTestEnds
CHECK_DEADLOCK FALSE
