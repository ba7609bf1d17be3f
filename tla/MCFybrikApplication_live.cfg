SPECIFICATION UpdatedLiveSpec
CONSTANTS
    a = a
    Assets = {a}
    Cataloged = {}
    MaxGeneration = 2
    Faults = {"connector", "path", "list", "lag"}
PROPERTY Converges
PROPERTY DeletionCompletes
CHECK_DEADLOCK FALSE
