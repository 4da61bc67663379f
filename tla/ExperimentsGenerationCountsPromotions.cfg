SPECIFICATION MCFairSpec
CONSTANTS
    p = p
    q = q
    None = None
    Experiments = {p, q}
    MinSamples = 3
    first = 5
    Better <- MCBetter
    Key <- MCKey
    QueryLimit = 20
    MaxEvalHistory = 50
    MaxLineage = 20
    MaxScores = 6
    MaxEdits = 0
    MaxFaults = 1
INVARIANTS
    GenerationCountsPromotions
