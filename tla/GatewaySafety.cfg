SPECIFICATION Spec
CONSTANTS
    None = None
    Runs = {r1, r2}
    l1 = l1
    l2 = l2
    c1 = c1
    c2 = c2
    r1 = r1
    h1 = h1
    Lanes = {l1, l2}
    Convs = {c1}
    WorkerLanes = {l1}
    Callers = {h1, h2}
    MaxCrashes = 1
CONSTANT ConvOf <- MCConvOf
SYMMETRY MCSymmetry
INVARIANTS
    OneActivePerLane
    HandlesMatchTasks
    RunningHasExecutor
    ExecutingIsActive
    OneExecutorPerRun
PROPERTIES ImplementsLifecycle
CHECK_DEADLOCK FALSE
