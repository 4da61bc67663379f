SPECIFICATION FairSpec
CONSTANTS
    SnapshotOnPromotion = TRUE
    RollbackMemoryOnCanaryFail = TRUE
    MaxEdits = 1
    MaxFaults = 2
INVARIANTS
    TypeOK
    Inductive
    SnapshotBacksStatus
    LabelBoundsContent
PROPERTIES
    NothingLostWithoutFailure
    BackendNeverBlocks
