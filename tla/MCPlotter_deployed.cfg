SPECIFICATION CanonicalSpec
CONSTANTS
    c1 = c1
    c2 = c2
    x = x
    y = y
    Clusters = {c1, c2}
    Contents = {x, y}
    None = None
    NoAuth = NoAuth
    Manager = "razee"
    MaxGeneration = 2
    Faults = {"get", "update", "delete"}
SYMMETRY Symmetry
INVARIANT TypeOK
INVARIANT BlueprintsTracked
INVARIANT NoBlueprintLeftBehind
PROPERTY ReadyOnlyIfDeployed
CHECK_DEADLOCK FALSE
