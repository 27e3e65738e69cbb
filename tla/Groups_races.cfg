SPECIFICATION Spec
CONSTANTS
    Worker = {w1, w2}
    Name = {n1, n2}
    User = {u}
    Department = {d}
    None = None
    MaxGroups = 2
    MaxRequests = 3
    MaxFaults = 2
SYMMETRY Symmetry
INVARIANTS
    TypeOK
    NamesDifferUnlessOverlap
    MemberOnceUnlessOverlap
    OrphanRowsExplained
    DeletedMemberLeaves
    DeletionAnnounced
    NameTold
CHECK_DEADLOCK FALSE
