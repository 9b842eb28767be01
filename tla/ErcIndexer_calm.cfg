SPECIFICATION RepeatedSpec
CONSTANTS
    Std <- BothStd
    Ids <- SameWidthIds
    Kinds <- SameWidthKinds
    Initial <- OldIds
    Limit = 2
    Start = 0
    Detections = {FALSE}
    BigFiles = {"erc20"}
    SlowDisk = FALSE
    MaxFaults = 2
    MaxCrashes = 0
INVARIANTS
    RegistryComplete
PROPERTIES
    ImplementsRegistry
    RunEnds
    EventuallyRegistered
