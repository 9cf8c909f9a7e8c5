SPECIFICATION Spec
CONSTANTS
    None = None
    n1 = n1
    n2 = n2
    p1 = p1
    p2 = p2
    t1 = t1
    t2 = t2
    x1 = x1
    Node = {n1}
    Pipe = {p1, p2}
    Sender = {t1, t2}
    Stopper = {x1}
    MaxUs <- Unlimited
    MaxSize <- SizeOne
    Priority <- HighSecond
    Latest = {p1}
    Kind = {"sample", "request", "shutdown"}
    Route <- CrossRoute
    Opens <- OneNodeOpens
    ReadMode = {"poll", "timed"}
    CleanExit = {n1}
    Restarting = {n1}
    Pausing = {p1}
    Closing = {p2}
    MaxSend = 1
    MaxTime = 0

INVARIANTS NotStranded NoDanglingNode 
 
CHECK_DEADLOCK FALSE
