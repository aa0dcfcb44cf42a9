SPECIFICATION Spec
CONSTANTS
    a = a
    b = b
    c1 = c1
    c2 = c2
    c3 = c3
    x = x
    y = y
    Servers = {a, b}
    Tools = {x, y}
    Name <- MCName
    Lists <- MCLists
    Offers <- MCOffers
    Rows <- MCRows
    Configs <- MCConfigs
    Requests = {1, 2}
    Connections = {c1, c2, c3}
    MaxAttempts = 2
    MaxOps = 2
    Fickle = {a}
    MaxEvents = 2
    None = None
    NoRow = NoRow
    Deleted = Deleted
CHECK_DEADLOCK FALSE
INVARIANTS
    NoOrphans
    RegistryInStep
    SavedConfigInForce
    NoSilentStaleness
PROPERTIES RequestsReturn
