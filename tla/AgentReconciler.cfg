SPECIFICATION MCSpec
CONSTANTS
    s1 = s1
    s2 = s2
    s3 = s3
    v1 = v1
    v2 = v2
    None = None
    Specs = {s1, s2, s3}
    Versions = {v1, v2}
    CompositeVersion <- MCCompositeVersion
    WithExperiment <- MCWithExperiment
    MaxEdits = 1
    MaxBehind = 1
    MaxPerturbations = 1
INVARIANTS
    TypeOK
    QuietMeansConverged
    FinalizerGuardsRollout
    Inductive
PROPERTIES
    NoResurrection
    RolloutNeverRegresses
    ImplementsDesiredState
    EventuallyServed
    DeletionCompletes
CHECK_DEADLOCK FALSE
