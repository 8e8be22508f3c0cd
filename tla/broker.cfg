CONSTANTS
    None = None
    RequestId = {r1, r2, r3}
    MaxRecords = 2
    Peer = {"root", "model"}
    RootQuota = 2
    ServiceQuota = 1
    MaxReaders = 3
    Round = 3
    MaxBacklog = 1
    Granted = {g1}
    Laboratory = {l1, l2}
    Nobody = Nobody
    MaxGeneration = 2
    Identity = {i1, i2}
    MaxReceipts = 2
    MaxBatch = 2
    MaxEntries = 3
    MaxIntents = 1
    MaxEpochs = 3
    Blocks = 4
SPECIFICATION MCSpec
INVARIANTS
    DispatchedOnce
    FrameIsQueued
    DeliveryIsBacked
    NeverForgotten
    RecordedIsDelivered
