SPECIFICATION SerialSpec
CHECK_DEADLOCK FALSE
CONSTANTS
    Tunnels = {a, b}
    GUIConns = {g1, g2}
    Ctl = Ctl
    Engine = Engine
    None = None
    MaxEvents = 4
INVARIANTS
    OneCarrier
PROPERTIES
    ParkedReturns
