SPECIFICATION Spec
CONSTANTS
    Std <- BothStd
    Ids <- SameWidthIds
    Kinds <- SameWidthKinds
    Initial <- OldIds
    Limit = 2
    Start = 0
    Detections = {FALSE}
    BigFiles = {}
    SlowDisk = TRUE
    MaxFaults = 0
    MaxCrashes = 0
INVARIANTS
    RunKeepsEveryBatch
