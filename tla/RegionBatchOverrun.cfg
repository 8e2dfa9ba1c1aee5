SPECIFICATION Spec
CONSTANTS
    WORD = 4
    MaxTicks = 2
    Scratches = {s0, s1}
    FreshScratch = s0
    Outcomes = {1}
    Hooks = {h04C0, h2317, h03C2}
    Covered = {h04C0, h2317}
    SnapshotClocks = {}
    NoSession = NoSession
INVARIANT BodiesOnlyWhenBehind
