SPECIFICATION MCSpec
CONSTANTS
    Feed <- TheFeed
    FileOrder <- TheFiles
    App = "app"
    Before <- TheBefore
    Pass = {"p1", "p2"}
    Click = {"k1", "k2"}
    View = {"v1", "v2"}
    MaxClicks = 2
    MaxMounts = 2
    MaxPasses = 2
    Faults = {"append", "restart", "purge"}
    MaxFault = 2
    None = None
    Proxy = {"p", "q"}
    Section = {"tools", "prompts"}
    Shows <- TheShows
    Params <- TheParams
    Sensitive = {"to"}
    Since <- TheSince
    Build <- TheBuilds
    Long = {"long"}
    Responses = {"full", "page", "bad"}
    MaxObs = 3
    MaxMoves = 2
    MaxSwitch = 3
    SurfaceFaults = {"write", "crash", "corrupt", "newer"}
    MaxSurfaceFault = 1
INVARIANTS ReportedOnce PoisonFound MarkNeverHidden ClicksHold NotifiedOnce
CHECK_DEADLOCK FALSE
