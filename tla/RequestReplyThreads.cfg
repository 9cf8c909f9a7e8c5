SPECIFICATION FairSpec
CONSTANTS
    None = None
    c1 = c1
    c2 = c2
    t1 = t1
    t2 = t2
    Service = {1}
    MaxQueueSize = 0
    Client = {c1}
    Async = {}
    NonBlocking = {}
    Thread = {t1, t2}
    ClientOf <- OneForBoth
    MaxCalls <- OneEach
    MaxId = 2
PROPERTIES CallReturns
CHECK_DEADLOCK FALSE
