CONSTANTS
    Second = 2
    MaxTime = 5
    MaxVersions = 3
    MaxChunks = 2
SPECIFICATION Spec
INVARIANTS
    CopyWholeUnlessOverlapped
PROPERTIES
    StaleOnlyIfHurried
CHECK_DEADLOCK FALSE
