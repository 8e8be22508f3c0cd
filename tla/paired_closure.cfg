CONSTANTS
    l1 = l1
    l2 = l2
    r1 = r1
    r2 = r2
    Ledgers <- MCOneLedger
    Requests <- MCRequests
    Genesis <- MCGenesis
    Damaged = Damaged
    None = None
    MaxSecrets = 3
    MaxAdvance = 1
    Torn = Torn
    MaxManifests = 3
    MaxFaults = 0
    Faulty = {3}
    MaxBoot = 2
    MaxOff = 1
    MaxSuspend = 1
    MaxStep = 1
    MaxGeneration = 2
    MaxQueue = 1
    LastRound = 2
    Statement = {6}
    MaxAge = 3
    Heartbeat = 2
    ClientAge = 2
    MaxWidth = 6
    DriftPeriod = 2
SPECIFICATION PairSpec
INVARIANT DurableClosurePrecedesNV
