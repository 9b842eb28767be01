SPECIFICATION Spec
CONSTANTS
    Std <- BothStd
    Ids <- SameWidthIds
    Kinds <- SameWidthKinds
    Initial <- OldIds
    Limit = 2
    Start = 0
    Detections = {FALSE}
    BigFiles = {}
    SlowDisk = FALSE
    MaxFaults = 0
    MaxCrashes = 1
INVARIANTS
    ResumesWithoutLoss
