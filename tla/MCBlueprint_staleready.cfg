SPECIFICATION Spec
CONSTANTS
    m1 = m1
    m2 = m2
    Instances = {m1}
    MaxGeneration = 2
    Faults = {"chart"}
SYMMETRY Symmetry
PROPERTY ReadyOnlyIfApplied
CHECK_DEADLOCK FALSE
