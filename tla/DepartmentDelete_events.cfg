SPECIFICATION FairSpec
CONSTANTS
    o1 = o1
    o2 = o2
    a = a
    c = c
    u1 = u1
    u2 = u2
    q1 = q1
    q2 = q2
    Dept = {a, c}
    Above <- MCAboveEvents
    User = {u1, u2}
    Admin = {u1}
    Manager = {u2}
    Manages <- MCManages
    Request = {q1, q2}
    Private = Private
    NoDept = NoDept
    MaxMisreads = 0
PROPERTY
    RefsRemoved
CHECK_DEADLOCK FALSE
