CONSTANTS
    Configurations <- PageAndOthers
    Topics <- TwoTopics
    PageTopic <- PageNotify
    Outgoing = 2
    Incoming = 2
    MaxPublished = 2
    MaxRequests = 2
    MaxDelay = 1
    MaxFaults = 2
SPECIFICATION Spec
INVARIANTS
    HeartbeatsKept
    EachMessageOnce
    LossReportedOnce
    PanelsInOrder
    LossShown
PROPERTIES
    LiveServerKept
CHECK_DEADLOCK FALSE
