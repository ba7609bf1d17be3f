SPECIFICATION NeverRefilledSpec
CONSTANTS
    a = a
    b = b
    Assets = {a, b}
    Cataloged = {b}
    MaxGeneration = 2
    Faults = {"plotter", "provision", "removal"}
INVARIANT TypeOK
INVARIANT StorageTracked
INVARIANT NothingLeftBehind
INVARIANT ServesAllowed
PROPERTY ReadyOnlyIfProvisioned
CHECK_DEADLOCK FALSE
