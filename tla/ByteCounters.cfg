CONSTANTS
    MaxBody = 4
SPECIFICATION SpecBoth
INVARIANTS
    CountedBeforeWritten
    BothServletsAgree
PROPERTIES
    BothAnswered
    FailedEndsByTimeout
    ImplementsAnswer
CHECK_DEADLOCK FALSE
