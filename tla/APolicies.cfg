SPECIFICATION Spec
CONSTANTS
    Bad = Bad
    DayLen = 4
    Tunnels <- MCTunnels
    Rules <- MCRules
    Contexts <- MCContexts
    MaxRules = 2
INVARIANTS
    OneVerdict
    MigrationKeepsVerdicts
    BlindActionIsSafe
    WindowsExact
