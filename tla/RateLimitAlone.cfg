\* One client alone on the key, which waits as it is told.
SPECIFICATION RateFairSpec

CONSTANTS
    Buckets = 4
    Limit = 2
    Crowd = 0
    Burst = 1

PROPERTY PatientClientServed
