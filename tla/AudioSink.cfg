SPECIFICATION FairSpec
CONSTANTS
    CHUNK = 2
    MIN_CHUNK = 1
    MAX_PUMP = 3
    BUF_CAP = 2
    SFX_CAP = 4
    LEAD = 2
    Lengths = {3, 5}
    MaxLog = 2
    MaxStall = 7
INVARIANTS
    TypeOK
    EffectsIntact
    HeardSoon
PROPERTY SoundReturns
