SPECIFICATION MCSpec
CONSTANTS
    Hook = {h1, h2}
    Key = {k1}
    NoKey = NoKey
    Span = 1
    MaxMs = 3
    ClockBack = FALSE
    MaxFiles = 0
    MaxDrop = 0
    Faults = {"append", "state", "unlink", "crash"}
    MaxFault = 2
    MaxFile = 2
    MaxOpen = 3
    DropFaults = {"hook", "line", "notice", "unlink", "crash"}
    MaxDropFault = 2
SYMMETRY HookSymmetry
INVARIANTS WatermarkBacked SessionStable CountKept
PROPERTY LedgerSpec
