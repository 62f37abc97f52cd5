SPECIFICATION MCSpec
CONSTANTS
    File = {"w", "d", "x"}
    Scripts <- TheScripts
    Moved = {"w"}
    Day = "d"
    Old = {"d"}
    Faults = {"sweep", "read", "save", "restart"}
    MaxFault = 1
    None = None
    Trail <- TheTrail
    Filters <- TheFilters
    Severities <- TheSeverities
    PageLimit = 1
    MaxCall = 2
    MaxOlder = 3
    MaxPurge = 1
INVARIANTS CacheIsParse ToldOnce PageWalk
PROPERTY AnswerFaithful
CHECK_DEADLOCK FALSE
