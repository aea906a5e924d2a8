CONSTANTS
    MaxBody = 2
    LIMIT = 5
SPECIFICATION FairSpec
PROPERTIES
    EmptyBodyAnswered
    ImplementsAnswer
CHECK_DEADLOCK FALSE
