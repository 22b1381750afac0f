CONSTANTS
    p1 = p1  p2 = p2  p3 = p3  p4 = p4
    NoName = NoName
    Producers <- MCProducers
    Location <- MCLocation
    TOP_PRODUCERS = 2
    MAX_PRODUCERS = 4
    RotationPeriod = 3
    UpdatePeriod = 1
    MaxQueued = 1
SPECIFICATION MCSpec
INVARIANT OnlyFewAbort
PROPERTY OneSwapAtMost
PROPERTY EveryoneTakesTurns
CHECK_DEADLOCK TRUE
