CONSTANTS
    Procs = {"p", "q", "r"}
    MAX_CRASHES = 1
    Window = 1
    MaxBuilds = 2
    MaxAsked = 1
    MaxCrashes = 2
    Compiles = {"c1", "c2"}
    MaxRestarts = 1
SPECIFICATION MCSpec
INVARIANTS
    OneServer
    NoStray
    RestartsInv
    IndicatorRight
PROPERTIES
    OnlyTheDeadRevived
    
CHECK_DEADLOCK FALSE
