CONSTANTS
    o1 = o1
    o2 = o2
    i1 = i1
    Messages <- AllMessages
    Outbound <- Sent
    QoS <- DeliveryQoS
    Unencodable <- NoMessages
    Oversized <- NoMessages
    MaxMessageIdentifier = 3
    IdSpace = 8
    KeepAlive = FALSE
    RequestTimeout = FALSE
    MaxAttempts = 3
    ReactionChoices <- DeliveryReactions
    CleanChoices <- Persistent
    HostChoices <- SingleHost
    MaxRequests = 0
    MaxFaults = 2
SPECIFICATION FairSpec
INVARIANTS
    StorageMirrorsMemory
PROPERTIES
    ImplementsDelivery
    EveryMessageDelivered
CHECK_DEADLOCK FALSE
