SPECIFICATION FairSpec
CONSTANTS
    Providers = {"generated", "interpreter", "cpuless"}
    IRQS = 2
    MaxSpan = 3
    MaxVisits = 2
INVARIANTS
    TypeOK
    BodyOncePerFrame
    ComparesAfterInterrupts
PROPERTIES
    BodyBeforePark
    FramesEnd
    WaitsEnd
