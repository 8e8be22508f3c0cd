CONSTANTS
    NoItem = NoItem
    a1 = a1
    i1 = i1
    Process = {p1, p2}
    Assignment = {a1}
    Item = {i1}
    AssignmentOf <- OneAssignment
    Lifetime = 1
    MaxTime = 1
    Capacity = 3
    Operation = {o1}
    Retaining = {}
    Scope = {s1}
    MaxHead = 2
    MaxEpoch = 2
    MaxEffects = 1
    MaxBlocks = 2
    MaxRecords = 12
    Reserve = 3
    Command = {q1, q2}
    Member = {m1, m2}
    ArchiveGrace = 1
    ArchiveWidth = 1
    MaxInstant = 3
SYMMETRY Symmetry
SPECIFICATION MCSpec
INVARIANTS
    ReceiptIsAnchored
    WithdrawalStops
    EvidenceSurvives
PROPERTIES RevocationHolds
