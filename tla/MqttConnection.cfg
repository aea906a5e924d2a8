CONSTANTS
    o1 = o1
    o2 = o2
    i1 = i1
    Messages <- AllMessages
    Outbound <- Sent
    QoS <- ConnectionQoS
    Unencodable <- Misspelt
    Oversized <- NoRoom
    MaxMessageIdentifier = 3
    IdSpace = 8
    KeepAlive = TRUE
    RequestTimeout = TRUE
    MaxAttempts = 2
    ReactionChoices <- ConnectionReactions
    CleanChoices <- CleanOrNot
    HostChoices <- OneHostOrTwo
    MaxRequests = 1
    MaxFaults = 2
SPECIFICATION Spec
INVARIANTS
    NothingWaitsWhileConnected
    NoStaleTimer
    ConnectAnsweredOnce
CHECK_DEADLOCK FALSE
