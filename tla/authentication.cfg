SPECIFICATION FairSpec
CONSTANTS
    Requests = {r0, r1, r2}
    Keys = {k0}
    TTL = 1
    NegativeTTL = 0
    MaxDelay = 1
    Rate = 1
    Burst = 1
    MaxTime = 4
INVARIANTS
    ColdLookupsOnly
PROPERTIES
    AcceptsBounded
    RefusalsBounded
    WaitersReturn
