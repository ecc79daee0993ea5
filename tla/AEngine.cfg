SPECIFICATION FairSpec
CHECK_DEADLOCK FALSE
CONSTANTS
    Bad = Bad
    DayLen = 4
    Tunnels <- MCTunnels
    Networks <- MCNetworks
    ContextOf <- MCContextOf
    Policies <- MCPolicies
    PolicyOf <- MCPolicyOf
    Exempt = {}
    NoReport = NoReport
    MaxEvents = 2
PROPERTIES
    Converges
    ComesToRest
