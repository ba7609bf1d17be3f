SPECIFICATION ShrinkingLiveSpec
CONSTANTS
    m1 = m1
    m2 = m2
    Instances = {m1, m2}
    MaxGeneration = 2
    Faults = {"helm", "uninstall"}
PROPERTY Converges
PROPERTY DeletionCompletes
CHECK_DEADLOCK FALSE
