SPECIFICATION MCFairSpec
CONSTANTS
    p = p
    q = q
    None = None
    Experiments = {p, q}
    MinSamples = 1
    first = 3
    Better <- MCBetter
    Key <- MCKey
    QueryLimit = 20
    MaxEvalHistory = 50
    MaxLineage = 1
    MaxScores = 5
    MaxEdits = 1
    MaxFaults = 1
INVARIANTS
    TypeOK
    LineageFaithful
PROPERTIES
    PromotedIsInstalled
    ImplementsLifecycle
    EventuallyDecided
