SPECIFICATION FairSpec
CONSTANTS
    r1 = r1
    r2 = r2
    q1 = q1
    q2 = q2
    m1 = m1
    m2 = m2
    m3 = m3
    t1 = t1
    Replica = {r1, r2}
    Request = {q1}
    Msg = {m1, m2}
    ReqOf <- MCReqOf1
    OpType = {t1}
    TypeOf <- MCTypeOf1
    Skew <- MCSkew0
    MaxFaults = 2
    NoMsg = NoMsg
    NoReplica = NoReplica
    Zombie = Zombie
PROPERTIES
    ImplementsDelivery
    EventuallyPublished
CHECK_DEADLOCK FALSE
