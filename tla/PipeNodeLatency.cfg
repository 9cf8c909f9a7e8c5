SPECIFICATION Spec
CONSTANTS
    None = None
    n1 = n1
    n2 = n2
    p1 = p1
    p2 = p2
    t1 = t1
    t2 = t2
    x1 = x1
    Node = {n1}
    Pipe = {p1}
    Sender = {t1}
    Stopper = {x1}
    MaxUs <- TwoTicks
    MaxSize <- Unlimited
    Priority <- HighSecond
    Latest = {}
    Kind = {"frame", "tryRequest"}
    Route <- OneToOne
    Opens <- OneOpens
    ReadMode = {"block"}
    CleanExit = {}
    Restarting = {}
    Pausing = {}
    Closing = {}
    MaxSend = 4
    MaxTime = 4
INVARIANTS LatencyBounded
CHECK_DEADLOCK FALSE
