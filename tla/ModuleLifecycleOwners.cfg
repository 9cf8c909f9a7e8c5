SPECIFICATION FairSpec
CONSTANTS
    None = None
    a = a
    b = b
    Module = {m1}
    Handle = {a, b}
    Thread = {t1, t2}
    Call <- OwnerCalls
    Deferring = {}
    Ending = {m1}
    Throwing = {}
    MaxCalls = 3
    MaxTasks = 3
INVARIANTS AliveWhileUsed OwnersCounted
PROPERTIES StopsOnlyUnowned  StopsReturn ReleasedIsDeleted
CHECK_DEADLOCK FALSE
