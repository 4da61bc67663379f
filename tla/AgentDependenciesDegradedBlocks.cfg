SPECIFICATION Spec
CONSTANTS
    caller = caller
    callee = callee
    Agents = {caller, callee}
    Choices <- MCChoices
    MaxEdits = 1
    MaxFaults = 1
PROPERTIES
    DegradedDependencyBlocksPromotion
