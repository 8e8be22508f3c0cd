CONSTANTS
    h1 = h1
    h2 = h2
    r1 = r1
    d1 = d1
    d2 = d2
    e1 = e1
    e2 = e2
    e3 = e3
    None = None
    Attempt = {h1, h2}
    Owner = {h1, h2}
    RequestId = {r1}
    Digest = {d1, d2}
    Key <- TwoDigests
    Evidence = {e1, e2, e3}
    Outcome = {o1}
    Receipt <- Completion
    Capacity = 1
    JournalCapacity = 1
    ReservationLease = 1
    Time <- Instants
    Identity <- TwoKinds
SYMMETRY Symmetry
SPECIFICATION MCSpec
INVARIANTS
    AtMostOnce
    CompletionIsTruthful
    ReceiptIsTheLedgers
    EffectIsJournalled
PROPERTY ImplementsFencedEffect
CHECK_DEADLOCK FALSE
