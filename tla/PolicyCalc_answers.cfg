SPECIFICATION Spec
CHECK_DEADLOCK FALSE
CONSTANTS
    o1 = o1
    o2 = o2
    c1 = c1
    none = none
    noid = noid
    id1 = id1
    Depth = 3
    Op = {o1, o2}
    Cond = {c1}
    NoCond = NoCond
    NoObl = none
    NoId = noid
    TypeScope = {o1}
    InstanceScope = {o1, o2}
    Obligation <- Obligations
    Entry <- MCEntries
INVARIANTS
    NearestLayerDecides
    EndpointsAgree
    ObligationsOfGrantsOnly
    StrongestObligation
