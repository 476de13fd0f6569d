\* By hand, of OtaGuard, expected to be violated: planned restarts count as crashes.
SPECIFICATION Spec

CONSTANTS
    MaxVersion = 2
    Threshold = 3
    Bad = {2}
    Disturbances = {}

PROPERTY RollbackNeedsCrashes
