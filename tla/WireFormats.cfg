CONSTANTS
    Texts <- MCTexts
    ClientId <- MCClientId
    Payloads <- MCPayloads
    Assignments <- MCAssignments
    ClientCases <- MCClientCases
    Properties <- MCProperties
    ConnectCases <- MCConnectCases
    RequestCases <- MCRequestCases
    Identifiers <- MCIdentifiers
    Packets <- MCPackets
    StompCalls <- MCStompCalls
    StompData <- MCStompData
    Wide <- MCWide
SPECIFICATION Spec
INVARIANTS
    CallsEncodedAsSpecified
    DecodedAsSent
    RestoredAsSent
    FramesSurvive
