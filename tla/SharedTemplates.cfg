SPECIFICATION FairSpec
CHECK_DEADLOCK FALSE
CONSTANTS
    None = None
    Agents = {a, b}
    Basic = {quality}
    Optional = {judge}
    a = a
    b = b
    quality = quality
    judge = judge
    Choices <- MCChoices
    MaxEdits = 1
    MaxFaults = 1
    MaxLag = 2
INVARIANT
    TypeOK
PROPERTIES
    OwnerKept
    OnlyAnOwnerBlocks
