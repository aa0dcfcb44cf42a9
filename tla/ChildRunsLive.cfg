SPECIFICATION LiveSpec
CONSTANTS
    Children = {c1, c2}
    Parents = {p1}
    Conversations = {v1}
    p1 = p1
    p2 = p2
    v1 = v1
    v2 = v2
    None = None
    MaxInflight = 1
    MaxConcurrent = 1
    MaxPerParent = 1
    MaxQueued = 2
    MaxTracked = 1
    MaxRetained = 1
    MaxFaults = 1
    MaxStops = 1
CONSTANT ConvOf <- MCConvOf
PROPERTIES ChildrenEnd EndsAreTold
CHECK_DEADLOCK FALSE
