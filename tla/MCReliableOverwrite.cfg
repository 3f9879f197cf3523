CONSTANTS
    a = a
    b = b
    Host <- MCHost
    Peer <- MCPeer
    Payload <- MCPayload
    NoPayload = NoPayload
    Script <- FourOneWay
    SendWindow = 3
    AckBits = 1
    RtoTicks = 1
    MaxSpan = 9
SPECIFICATION FairSpec
PROPERTIES
    EveryAcceptedArrives
