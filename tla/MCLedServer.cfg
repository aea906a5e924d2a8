CONSTANTS
    c1 = c1
    c2 = c2
    l1 = l1
    l2 = l2
    Pin = pin
    Channels <- MCChannels
    Assignments <- MCAssignments
    MaxFrames <- MCMaxFrames
SPECIFICATION Spec
INVARIANTS
    AnswersFollowNotifications
PROPERTIES
    ImplementsRegister
    EveryFrameAnswered
CHECK_DEADLOCK FALSE
