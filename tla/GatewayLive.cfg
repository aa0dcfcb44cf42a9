SPECIFICATION MCLiveSpec
CONSTANTS
    None = None
    Runs = {r1, r2}
    r1 = r1
    h1 = h1
    l1 = l1
    l2 = l2
    c1 = c1
    c2 = c2
    Lanes = {l1, l2}
    Convs = {c1, c2}
    WorkerLanes = {}
    Callers = {h1, h2}
    MaxCrashes = 1
CONSTANT ConvOf <- MCTwoConvs
PROPERTIES EveryCallReturns EveryExecutionEnds ShutdownEnds
CHECK_DEADLOCK FALSE
