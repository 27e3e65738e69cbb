SPECIFICATION Spec
CONSTANTS
    w1 = w1
    w2 = w2
    a1 = a1
    a2 = a2
    i1 = i1
    i2 = i2
    i3 = i3
    o1 = o1
    none = none
    log = log
    c1 = c1
    Worker = {w1, w2}
    Accessor = {a1, a2}
    Role = {a2}
    Untied = {a1}
    PolicyID = {i1, i2, i3}
    Op = {o1}
    Obligation = {none, log}
    Condition = {c1}
    Always = Always
    Grants <- SomeGrants
    Changes <- SomeChanges
    Preset <- SomePreset
    MaxNow = 2
    MaxRequests = 3
    MaxFaults = 1
INVARIANTS TypeOK OnePolicyUnlessOverlap DeletedAccessorHasNoPolicy
PROPERTIES GrantInForce CreateMerges ConditionsKept
SYMMETRY Symmetry
CHECK_DEADLOCK FALSE
