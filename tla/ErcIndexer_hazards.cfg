SPECIFICATION Spec
CONSTANTS
    Std <- BothStd
    Ids <- SameWidthIds
    Kinds <- SameWidthKinds
    Initial <- OldIds
    Limit = 2
    Start = 0
    Detections = {FALSE, TRUE}
    BigFiles = {"erc20"}
    SlowDisk = TRUE
    MaxFaults = 1
    MaxCrashes = 1
INVARIANTS
    TypeOK
    RegistrySound
    NoDuplicates
    ResumeCovered
    RegistrySorted
PROPERTIES
    DetectionWritesNothing
