SPECIFICATION FairSpec
CONSTANTS
    first = first  second = second
    t1 = t1  t2 = t2
    Workspace <- MCWorkspace
    Home = first
    Thread <- TwoThreads
    MaxRequests = 3
    MaxFaults = 1
CHECK_DEADLOCK FALSE
INVARIANT BindingInv
INVARIANT EngineIsNewest
INVARIANT ImportsAreShown
PROPERTY BindingEnds
