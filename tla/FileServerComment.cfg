CONSTANTS
    Second = 2
    MaxTime = 5
    MaxVersions = 3
    MaxChunks = 2
SPECIFICATION Spec
PROPERTIES
    NotModifiedMeansUnmodified
CHECK_DEADLOCK FALSE
