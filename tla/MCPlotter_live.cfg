SPECIFICATION CanonicalLiveSpec
CONSTANTS
    c1 = c1
    x = x
    y = y
    Clusters = {c1}
    Contents = {x, y}
    None = None
    NoAuth = NoAuth
    Manager = "local"
    MaxGeneration = 2
    Faults = {"get", "create"}
PROPERTY Converges
PROPERTY DeletionCompletes
CHECK_DEADLOCK FALSE
