SPECIFICATION Spec
CONSTANTS
    Tunnels = {d, f}
    None = None
    Claims = {d}
    Full = {f}
    Platforms = {"windows"}
    MaxEvents = 6
INVARIANT
    LoopProtected
