SPECIFICATION Spec
CONSTANTS
    m1 = m1
    m2 = m2
    Instances = {m1, m2}
    MaxGeneration = 2
    Faults = {"abort", "stale", "helm"}
SYMMETRY Symmetry
INVARIANT ReadyIsComplete
PROPERTY ReadyOnlyIfApplied
PROPERTY ObservedGenerationGrows
PROPERTY CleanUpSparesModules
CHECK_DEADLOCK FALSE
