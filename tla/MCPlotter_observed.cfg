SPECIFICATION CanonicalSpec
CONSTANTS
    c1 = c1
    x = x
    y = y
    Clusters = {c1}
    Contents = {x, y}
    None = None
    NoAuth = NoAuth
    Manager = "razee"
    MaxGeneration = 2
    Faults = {"abort", "lag", "get", "update", "delete"}
PROPERTY ObservedGenerationGrows
CHECK_DEADLOCK FALSE
