CONSTANTS
    m1 = m1
    a1 = a1
    Process <- MCProcess
    KindOf <- MCKindOf
    Peak <- MCPeak
    Ceiling <- MCCeiling
    Budget = 2
    None = None
    MaxSessions = 2
    MaxEpochs = 4
    Forking <- MCForking
    MaxOom <- MCMaxOom
    Owner = {"o1", "o2"}
    IdempotencyKey = {"k"}
    MaxGeneration = 2
SPECIFICATION MCSpec
INVARIANTS
    CapacityHeldUntilDrained
    AllocationIsLeased
    ReceiptIsCurrent
PROPERTY DrainingEnds
