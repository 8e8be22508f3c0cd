CONSTANTS
    None = None
    Absent = Absent
    Partial = Partial
    RequestId = {r1, r2, r3}
    Payload = {x, y}
    MaxEvents = 3
    MaxAttempts = 2
    MaxSecrets = 2
    Client = {c1, c2}
    Nobody = Nobody
    Window = 1
    Budget = 2
    MaxRows = 2
    MaxHead = 2
    Principal = {adm, u}
    Admin = adm
    Role = {role}
    Activity = {v1, v2}
    AssignmentId = {a1}
    GrantId = {g1}
    t1 = t1
    t2 = t2
    NoJob = NoJob
SYMMETRY Symmetry
SPECIFICATION MCSpec
INVARIANTS
    CommittedIsRecoverable
    EnrollmentIsRecoverable
    NothingLateIsDispatched
    IdentityFollowsCatalog
PROPERTIES AuthorityNeverRevives
