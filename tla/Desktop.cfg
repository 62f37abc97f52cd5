SPECIFICATION MCSpec
CONSTANTS
    Logins = {1, 2}
    AuthServer = {"a", "b"}
    SendsIss = {"a"}
    MaxFaults = 1
    MaxOthers = 1
    Event = {"PostToolUse", "Elicitation"}
    Elicitation = {"Elicitation"}
    Kept = 1
    HandMade <- TheHandMade
    MaxOtherWrites = 1
    MaxActs = 2
    MaxHookFaults = 1
    SessionFile = {"s1", "s2"}
    OtherFile = {"app-events"}
    Born <- TheBorn
    OtherKey = {"k"}
    MaxTime = 3
    MaxChanges = 2
    Name = {"a"}
    Op = {1, 2}
    NoOne = NoOne
    MaxAnswers = 2
    MaxElsewhere = 1
    Card = {"plain", "mail"}
    Family = {"google"}
    TargetsOf <- TheTargets
    NeedsSecret = {"google"}
    Steps <- TheSteps
    HookCard = "hook"
    Call = {1}
INVARIANTS LoginTruthful BytesKept NoticeTruthful PurgeAsChosen VanishedTruthful GalleryTruthful
CHECK_DEADLOCK FALSE
