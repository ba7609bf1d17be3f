SPECIFICATION NeverRefilledSpec
CONSTANTS
    a = a
    Assets = {a}
    Cataloged = {}
    MaxGeneration = 2
    Faults = {}
PROPERTY DeniedNotServed
CHECK_DEADLOCK FALSE
