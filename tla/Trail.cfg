SPECIFICATION MCSpec
CONSTANTS
    Id = {"n1", "s1", "n2"}
    MaxFrame = 5
    Request = {r1, r2}
    Notice = {"n"}
    Reply = {"a"}
    MaxSent = 2
    MaxLines = 9
    Payload <- ThePayloads
    HookBuild = {"raw", "v1", "v2"}
    SaltMayFail = TRUE
    NoPayload = NoPayload
INVARIANTS TrailClean TamperingReported EndTold
SYMMETRY RequestSymmetry
CHECK_DEADLOCK FALSE
