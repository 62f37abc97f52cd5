SPECIFICATION Spec
CONSTANTS
    c1 = c1
    c2 = c2
    c3 = c3
    p1 = p1
    p2 = p2
    Call = {c1, c2, c3}
    Proc = {p1, p2}
    ProcOf <- MCProcOf
    NoCall = NoCall
    MaxSet = 3
    MaxCall = 4
    Faults = {"timeout", "steal", "net", "keychain", "reject", "crash", "login", "revoke"}
    MaxFault = 1
SYMMETRY CallSymmetry
INVARIANTS SpentOnlyInWindow GrantKept
CHECK_DEADLOCK FALSE
