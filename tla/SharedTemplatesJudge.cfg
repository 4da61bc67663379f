SPECIFICATION FairSpec
CHECK_DEADLOCK FALSE
CONSTANTS
    None = None
    Agents = {a}
    Basic = {quality}
    Optional = {judge}
    a = a
    b = b
    quality = quality
    judge = judge
    Choices <- MCSampleOnly
    MaxEdits = 0
    MaxFaults = 0
    MaxLag = 2
PROPERTY
    JudgeStaysInTemplate
