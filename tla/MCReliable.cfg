CONSTANTS
    a = a
    b = b
    Host <- MCHost
    Peer <- MCPeer
    Payload <- MCPayload
    NoPayload = NoPayload
    Script <- FourOneWay
    SendWindow = 3
    AckBits = 2
    RtoTicks = 1
    MaxSpan = 3
SPECIFICATION FairSpec
INVARIANTS
    LinkTypeOK
    RetiredWasReceived
PROPERTIES
    ImplementsFifo
    EveryAcceptedSettled
