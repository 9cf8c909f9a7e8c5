SPECIFICATION FairSpec
CONSTANTS
    None = None
    a = a
    b = b
    Module = {m1, m2}
    Handle = {a, b}
    Thread = {t1}
    Call <- DetachedCalls
    Deferring = {m2}
    Ending = {m1}
    Throwing = {m2}
    MaxCalls = 3
    MaxTasks = 3
INVARIANTS DeletedAtRest
PROPERTIES RestartHonoured SelfDestructs
CHECK_DEADLOCK FALSE
