SPECIFICATION FairSpec
CONSTANTS
    None = None
    Client = {c1, c2}
    Config <- AllConfigs
    MaxCalls = 2
    MaxConnect = 2
INVARIANTS ForwardTracked ConnectsClean
PROPERTIES ForwardReturns 
CHECK_DEADLOCK FALSE
