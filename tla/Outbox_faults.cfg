SPECIFICATION Spec
CONSTANTS
    r1 = r1
    r2 = r2
    q1 = q1
    q2 = q2
    m1 = m1
    m2 = m2
    m3 = m3
    t1 = t1
    Replica = {r1, r2}
    Request = {q1, q2}
    Msg = {m1, m2, m3}
    ReqOf <- MCReqOf
    OpType = {t1}
    TypeOf <- MCTypeOf
    Skew <- MCSkew
    MaxFaults = 1
    NoMsg = NoMsg
    NoReplica = NoReplica
    Zombie = Zombie
INVARIANTS
    NoLoss
    NoDuplicateWithoutFault
    CausalOrder
    NoStaleRepeat
CHECK_DEADLOCK FALSE
