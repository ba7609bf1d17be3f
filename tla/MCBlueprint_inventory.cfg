SPECIFICATION Spec
CONSTANTS
    m1 = m1
    m2 = m2
    Instances = {m1, m2}
    MaxGeneration = 2
    Faults = {"chart", "logout", "helm"}
SYMMETRY Symmetry
INVARIANT TypeOK
INVARIANT ReleasesTracked
INVARIANT NothingLeftBehind
PROPERTY ReleasesCurrentAtEnd
CHECK_DEADLOCK FALSE
