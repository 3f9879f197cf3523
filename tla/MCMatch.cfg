CONSTANTS
    ClientCount = 2
    Sessions <- AllSessions
    Everywhere = 9
    RingCapacity = 4
    HistorySlack = 1
    Move = {0, 1}
    Aim = {0, 1}
    Field = {0, 1}
    NoShot = NoShot
    MaxHealth = 2
    Damage = 2
    RespawnDelay = 2
    SpawnPoints <- TwoPoints
    FragLimit = 2
    TimeLimit = 4
    WarmupTime = 1
    IntermissionTime = 2
    Nobody = Nobody
    MaxTick = 8
SPECIFICATION Spec
CHECK_DEADLOCK FALSE
INVARIANTS
    PredictionIsExact
    BaselineFollows
    RewindsOneAfterTheView
    DeadWithoutHealth
PROPERTIES
    OneDeathPerLife
