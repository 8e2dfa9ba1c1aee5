SPECIFICATION FairSpec
CONSTANTS
    Carriers = {"generated", "interpreter"}
    Programs <- MCPrograms
    Need = 2
    Budget = 3
    SeekBudget = 20
    MaxPoint = 4
INVARIANTS
    TypeOK
    Reproduces
    NoFalseAlarm
    CursorAtPoint
PROPERTY ReplayReturns
