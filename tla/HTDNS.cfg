SPECIFICATION DNSSpec
CONSTANTS
    p1 = p1
    p2 = p2
    s1 = s1
    s2 = s2
    s3 = s3
    Tunnels <- MCThree
    NoTunnel = NoTunnel
    Callers <- MCCallers
    NoCaller = NoCaller
    Sessions <- MCSessions
    NoSession = NoSession
    Full <- MCFull
    Servers <- MCServers
    DNS <- MCDNS
    OriginalDNS <- MCOriginal
    FileOrder <- MCFileOrder3
    FreeTeardown = FALSE
    RouteEvents = TRUE
    MaxDeaths = 2
SYMMETRY MCSymmetry
INVARIANTS
    UnionUnlessReapplied
    PreModIsOriginal
    NoTunnelDNSLeft
