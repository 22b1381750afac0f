CONSTANTS
    p1 = p1  p2 = p2  p3 = p3
    NoName = NoName
    System = System
    FirstRanking <- MCRanking
    Producers <- MCProducers
    Location <- MCLocation
    TOP_PRODUCERS = 2
    MAX_PRODUCERS = 3
    RotationPeriod = 6
    UpdatePeriod = 2
    MaxQueued = 1
    MAX_BLOCK_PER_CYCLE = 2
    KickShare = 2
    UINT32 = 256
    Slack = 1
    MaxCorrection = 3
    MaxMisses = 1
    MaxChanges = 1
SPECIFICATION KickSpec
INVARIANT MetricsFollowSchedule
INVARIANT OnlyMissedAreCharged
PROPERTY KicksAreBounded
