SPECIFICATION FairSpec
CONSTANTS
    HALF = 8
    LWORD = 32
    SWEEP_STEPS = 3
    LAT_REFINE_START = 2
    LAT_SHRINK = 2
    AXIS_REFINE_STEP = 4
    AXIS_SHRINK = 2
    AF1C_WRAP_LOW = 2
    AF1C_WRAP_HIGH = 13
    LATERAL_BUMP_STEP = 2
    Roads <- MCRoads
    Speeds = {0, 1, 3}
    Drifts <- MCDrifts
    Bounces <- MCBounces
    RoadEnd = 3
INVARIANTS
    TypeOK
    StaysClear
    NoTunnel
    ArrivesUnhindered
    RestsAtContact
    StaysOnWay
PROPERTY MoveReturns
