SPECIFICATION FairSpec
CONSTANTS
    caller = caller
    callee = callee
    Agents = {caller, callee}
    Choices <- MCChoices
    MaxEdits = 1
    MaxFaults = 1
INVARIANTS
    TypeOK
    GateInvariant
PROPERTIES
    UpstreamStableFirst
    CycleStaysStuck
    EventuallyAllServed
