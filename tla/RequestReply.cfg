SPECIFICATION FairSpec
CONSTANTS
    None = None
    c1 = c1
    c2 = c2
    t1 = t1
    t2 = t2
    Service = {1, 2}
    MaxQueueSize = 1
    Client = {c1, c2}
    Async = {c2}
    NonBlocking = {c2}
    Thread = {t1, t2}
    ClientOf <- EachItsOwn
    MaxCalls <- TwoAndOne
    MaxId = 2
INVARIANTS OneAnswer AnswerComing CalledOnce
PROPERTIES CallReturns
CHECK_DEADLOCK FALSE
