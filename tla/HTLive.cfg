SPECIFICATION HelperFairSpec
CONSTANTS
    p1 = p1
    p2 = p2
    s1 = s1
    s2 = s2
    s3 = s3
    Tunnels <- MCTunnels
    NoTunnel = NoTunnel
    Callers <- MCCallers
    NoCaller = NoCaller
    Sessions <- MCSessions2
    NoSession = NoSession
    Full <- MCBothFull
    Servers <- MCServers
    DNS <- MCNoDNS
    OriginalDNS <- MCOriginal
    FileOrder <- MCFileOrder
    FreeTeardown = TRUE
    RouteEvents = TRUE
    MaxDeaths = 1
INVARIANTS
    Ownership
    ResourcesInv
    OneFullTunnel
PROPERTIES
    OperationsEnd
    ImplementsLifecycle
