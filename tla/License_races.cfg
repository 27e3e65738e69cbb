SPECIFICATION Spec
CONSTANTS
    u1 = u1
    u2 = u2
    p1 = p1
    p2 = p2
    w1 = w1
    w2 = w2
    r1 = r1
    User = {u1, u2}
    Product = {p1, p2}
    Worker = {w1, w2}
    Replica = {r1}
    Home <- OneHome
    Tables <- SmallTables
    Default = {p1}
    Requests <- SomeRequests
    NoRequest = NoRequest
    FirstStatus <- OneThere
    MaxEvents = 2
    MaxRequests = 1
    MaxChanges = 1
    MaxFaults = 2
INVARIANTS TypeOK OneRowUnlessOverlap QuotaUnlessOverlap
           DeletedUserHoldsNothing AuditTells
CHECK_DEADLOCK FALSE
SYMMETRY Workers
