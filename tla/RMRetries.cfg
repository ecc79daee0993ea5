SPECIFICATION FairSpec
CONSTANTS
    r1 = r1
    r2 = r2
    r3 = r3
    Tunnels <- MCOneTunnel
    All = All
    Retries <- MCRetries2
    NoRetry = NoRetry
    Nobody = Nobody
    Gone = Gone
    Claims <- MCClaims
    NameOrder <- MCNameOrder1
    MaxDue = 1
INVARIANTS
    SlotsExact
PROPERTIES
    CancelledEnds
