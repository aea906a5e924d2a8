CONSTANTS
    r1 = r1
    r2 = r2
    r3 = r3
    Requests <- MCRequests
    MaxThreads = 2
    LateDispatchThrows = TRUE
    Kinds <- MCKinds
    Outcomes <- MCOutcomes
SPECIFICATION MCSpec
INVARIANTS
    CounterAccounting
    MaxLostOnlyToRace
    BodyOnlyFromProvider
PROPERTIES
    EveryRequestAnswered
    AsyncFailureEndsIn503
    ImplementsGauge
CONSTRAINT ThirdBesideBlocking
CHECK_DEADLOCK FALSE
