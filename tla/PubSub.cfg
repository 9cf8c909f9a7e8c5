SPECIFICATION FairSpec
CONSTANTS
    None = None
    d = d
    x = x
    p1 = p1
    t1 = t1
    t2 = t2
    Thread = {t1}
    Publisher = {p1}
    PublisherOf <- OnlyOne
    Topic = {d, x}
    Parent <- OneDomain
    Subscriber = {s1}
    Priority <- SamePriority
    MaxQueueSize = 2
    Flags <- TwoFlags
    MaxPublish = 3
    MaxSubscribe = 2
INVARIANTS HandledOnce  SubscribedAsCounted
PROPERTIES PublishReturns
CHECK_DEADLOCK FALSE
