CONSTANTS
    Request = {q1, q2}
    a = a
    Artifact = {a}
    Content = {c}
    MaxRecords = 2
    MaxFiles = 3
    MaxMarks = 2
    MaxInode = 2
    Grace = 1
    Width = 1
    MaxTime = 2
    None = None
    Torn = Torn
    w1 = w1
    w2 = w2
    r1 = r1
    p1 = p1
    MaxEpoch = 1
    MaxAge = 1
    Invoice = {i1, i2}
    Absent = Absent
SPECIFICATION MCSpec
INVARIANTS
    AlwaysOpens
    RevocationStops
    InvoiceIsWhole
PROPERTY ImplementsCatalogService
CHECK_DEADLOCK FALSE
