CONSTANTS
    Profile = {x, y}
    Absent = Absent
    Torn = Torn
    MaxKey = 3
    MaxFaults = 2
    p1 = p1
    q1 = q1
    r1 = r1
    s1 = s1
    k1 = k1
    Member = {m1, m2}
    MaxTrust = 2
    MaxSequence = 2
    MaxRelease = 2
    MaxInstant = 1
    Client = {c1, c2}
    Nobody = Nobody
SPECIFICATION MCSpec
INVARIANTS
    PriorIsRecoverable
    PublishedIsWhole
    VerifiedIsInPlace
PROPERTIES
    AuthorityIsCurrent
    SuccessIsBacked
CHECK_DEADLOCK FALSE
