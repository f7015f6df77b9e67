CONSTANTS
    MaxInsns = 4
    MaxPerSegment = 2
    MaxSegments = 2
SPECIFICATION Spec
CHECK_DEADLOCK FALSE
INVARIANTS
    DeferredCallsAgree
    HonestTraceAccepted
    SystemHashesBalance
    AcceptedTracesGenuine
    LimbsExact
    InventoriesAgree
    TracesInOrder
    ProgramsTranspile
