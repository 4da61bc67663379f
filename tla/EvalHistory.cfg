SPECIFICATION Spec
CONSTANTS
    NoVersion = NoVersion
    Versions = {v1, v2}
    Values = {50, 90}
    QueryLimit = 2
    MaxEvalHistory = 3
    SampleSize = 2
    Scale = 2
    MinSnapshots = 2
    MaxSnapshots = 3
    TrendWindow = 1
    MinSide = 1
    MaxScores = 4
    MaxDecisions = 1
    MaxFaults = 1
SYMMETRY Symmetry
INVARIANTS
    TypeOK
    SteadyQualityIsQuiet
    DriftMeansDecline
    RegressionFollowsPromotion
PROPERTIES
    NoScoreTwice
    LatestKnown
