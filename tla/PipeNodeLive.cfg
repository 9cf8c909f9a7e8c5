SPECIFICATION FairSpec
CONSTANTS
    None = None
    n1 = n1
    n2 = n2
    p1 = p1
    p2 = p2
    t1 = t1
    t2 = t2
    x1 = x1
    Node = {n1, n2}
    Pipe = {p1, p2}
    Sender = {t1}
    Stopper = {x1}
    MaxUs <- Unlimited
    MaxSize <- SizeOne
    Priority <- SamePrio
    Latest = {}
    Kind = {"request"}
    Route <- Chain
    Opens <- EachOpens
    ReadMode = {"block"}
    CleanExit = {}
    Restarting = {}
    Pausing = {}
    Closing = {}
    MaxSend = 2
    MaxTime = 0
PROPERTIES SenderReturns ExitCompletes AcceptedLeaves
CHECK_DEADLOCK FALSE
