SPECIFICATION MovingSpec
CONSTANTS
    a = a
    b = b
    Assets = {a, b}
    Cataloged = {}
    MaxGeneration = 2
    Faults = {"abort", "stale", "dataset", "linger"}
SYMMETRY Symmetry
CONSTRAINT NotDeleted
PROPERTY ReadyOnlyIfServed
CHECK_DEADLOCK FALSE
