SPECIFICATION Spec
CONSTANTS
    None = None
    Runs = {r1, r2}
    l1 = l1
    l2 = l2
    c1 = c1
    c2 = c2
    r1 = r1
    h1 = h1
    Lanes = {l1, l2}
    Convs = {c1}
    WorkerLanes = {l1}
    Callers = {h1}
    MaxCrashes = 0
CONSTANT ConvOf <- MCConvOf
INVARIANT RecoveredRunsAreDead
CHECK_DEADLOCK FALSE
