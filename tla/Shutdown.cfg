SPECIFICATION GraceSpec
CHECK_DEADLOCK FALSE
CONSTANTS
    Conns = {c1, c2}
    NoConn = NoConn
    MayFail = FALSE
    MaxEvents = 6
INVARIANTS
PROPERTIES
    ShutdownOnlyWhenIdle
    Exits
    GuiServed
