CONSTANTS
    None = None
    Release = {1, 2, 3, 4}
    Sequence <- Sequences
    Compatibility <- Layouts
    Factory = 1
    Reads <- Readable
    Sha = {x, y}
    MaxData = 2
    MaxEpoch = 2
    MaxAttempts = 5
    Absent = Absent
    MaxImage = 2
    Tries = 1
    MaxFaults = 1
SPECIFICATION MCSpec
INVARIANTS FallbackNeverStranded NeverStranded
PROPERTIES NeverBackwards UpdateEnds
