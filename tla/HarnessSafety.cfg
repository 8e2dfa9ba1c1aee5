SPECIFICATION HarnessSpec
CONSTANTS
    WORD = 16
    LEVEL_END = 4
    SCROLL_STEP = 1
    SPEED_TO_POS = 1
    CRASH_MILESTONE_POS = 2
    CONTACT_BRAKE = 1
    ADJUSTMENT_DIVISOR = 2
    MAX_ADJUSTMENT_STEPS = 1
    LEVEL_TIMER_MAX = 2
    OXY_DEC = 1
    FUEL_RATE = 1
    FUEL_SCALE = 4
    SETTLE_WINDOW_MAX = 2
    FRAME_CTR_GAMEPLAY_MAX = 3
    RESUME_HEIGHT_GATE = 1
    EFFECT_HEIGHT_GATE = 2
    JUMP_IMPULSE = 2
    GRAVITY = 1
    TERMINAL_VVEL = 1
    GROUND_RAMP_STEP = 1
    GROUND_RAMP_MAX = 2
    BOUNCE_KILL = 1
    MaxBatch = 1
INVARIANTS
    AliveIsHealthy
    KindNamesCause
