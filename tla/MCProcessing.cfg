CONSTANTS
    r1 = r1
    r2 = r2
    r3 = r3
    Requests <- MCRequests
    MaxThreads = 2
    LateDispatchThrows = TRUE
    MaxInt = 3
    Params <- MCParams
SPECIFICATION MCSpec
INVARIANTS
    CounterAccounting
    MaxLostOnlyToRace
    NonNegativeNeverRefused
    TimerLostOnlyToTimeout
PROPERTIES
    EveryRequestAnswered
    ImplementsGauge
CHECK_DEADLOCK FALSE
