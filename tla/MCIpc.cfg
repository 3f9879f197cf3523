CONSTANTS
    panel = panel
    stranger = stranger
    m1 = m1
    m2 = m2
    b1 = b1
    b2 = b2
    t1 = t1
    Peer <- Panels
    Message <- Messages
    Script <- Scripts
    Caster <- Threads
    Broadcasts <- TwoBroadcasts
    MaxSessions = 2
SPECIFICATION Spec
CHECK_DEADLOCK FALSE
INVARIANTS
    NoBroadcastMissed
    HeardInOrder
    StaleIsBounded
PROPERTIES
    Answered
