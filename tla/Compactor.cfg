SPECIFICATION FairSpec
CONSTANTS
    a = a
    b = b
    Source = {1, 2}
    Wrapper = {1}
    Day = {10}
    DayOf <- MCDayOf
    Line = {a, b}
    Owner <- MCOwner
    Keep = 2
    MaxTime = 3
    Faults = {"kill", "io", "crash", "power"}
    MaxFault = 2
INVARIANTS NothingLost OncePerDay
PROPERTIES Compacted
CHECK_DEADLOCK FALSE
