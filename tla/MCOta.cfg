\* Three releases, the second one bad, and every disturbance; and two releases
\* of two builds each, behind two mirrors.
SPECIFICATION MCSpec
CONSTANTS
    MaxVersion = 3
    Threshold = 3
    Bad <- SecondIsBad
    Disturbances <- Everything
    Mirrors = 2
    MaxRelease = 2
    MaxBuild = 2
    Unsound <- SecondIsUnsound
INVARIANT SomeVersionLeft
INVARIANT InstalledIsPublished
PROPERTY RollbackNeedsStarts
PROPERTY ServiceReturns
PROPERTY BadVersionLeaves
