SPECIFICATION FairSpec
CONSTANTS
    None = None
    Own = Own
    Variants = {1, 2}
    Options <- MCOptions
    MaxHistory = 2
    MaxEdits = 1
    MaxFaults = 1
INVARIANTS
    TypeOK
    SelectedExists
PROPERTIES
    SeenExperimentKept
    NoProposalForgotten
    OnlyAnOrphanStopsTheOptimizer
