SPECIFICATION Spec
CONSTANTS
    SnapshotOnPromotion = TRUE
    RollbackMemoryOnCanaryFail = TRUE
    MaxEdits = 1
    MaxFaults = 1
PROPERTIES
    PreCanaryMemoryRestored
