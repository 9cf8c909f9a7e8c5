SPECIFICATION FairSpec
CONSTANTS
    Module = {m1, m2}
    Instance = m0
    Main = t1
    Other = {t2}
    MaxTrigger = 2
INVARIANTS JoinSafe 
PROPERTIES ShutdownCompletes
CHECK_DEADLOCK FALSE
