SPECIFICATION Spec
CONSTANTS
    o1 = o1
    o2 = o2
    a = a
    c = c
    u1 = u1
    u2 = u2
    q1 = q1
    q2 = q2
    Dept = {o1, o2, a, c}
    Above <- MCAbove
    User = {u1, u2}
    Admin = {}
    Manager = {u2}
    Manages <- MCManages
    Request = {q1, q2}
    Private = Private
    NoDept = NoDept
    MaxMisreads = 0
INVARIANT
    EveryoneSomewhere
CHECK_DEADLOCK FALSE
