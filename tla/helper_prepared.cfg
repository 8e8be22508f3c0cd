CONSTANTS
    h1 = h1
    h2 = h2
    r1 = r1
    d1 = d1
    d2 = d2
    e1 = e1
    e2 = e2
    e3 = e3
    None = None
    Attempt = {h1, h2}
    Owner = {h1, h2}
    RequestId = {r1}
    Digest = {d1}
    Key <- OneDigest
    Evidence = {e1}
    Outcome = {o1}
    Receipt <- Completion
    Capacity = 1
    JournalCapacity = 1
    ReservationLease = 1
    Time <- Instants
    Identity <- TwoKinds
SYMMETRY Attempts
SPECIFICATION HelperAlone
INVARIANTS PreparedIsReclaimable
CHECK_DEADLOCK FALSE
