SPECIFICATION FairSpec
CONSTANTS
    r1 = r1
    r2 = r2
    Replica = {r1, r2}
    Msg = {m1}
    Skew <- SkewedClocks
    MaxSkew = 1
    Lease = 6
    StartLease = 2
    MaxFaults = 2
    MaxMissed = 2
    NoMsg = NoMsg
INVARIANTS
    NoLoss
    NoDuplicateWithoutFault
PROPERTIES
    ImplementsDelivery
    EventuallyPublished
