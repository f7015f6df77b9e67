SPECIFICATION Spec
CONSTANTS
    RowChips = {"alu"}
    ConstHeight <- MCConstHeight
    Pages = {"reg", "p1", "p2"}
    RegPages = {"reg"}
    LEAVES_PER_PAGE = 1
    NODES_ABOVE_PAGE = 1
    SEGMENT_CHECK_INSNS = 2
    MAX_MEM_PAGE_OPS_PER_INSN = 3
    Insns <- MCInsns
    Width <- MCWidth
    Interactions <- MCInteractions
    MaxTraceHeight = 8
    MaxMemory = 23
    MaxInteractions = 31
    MaxInsns = 7
INVARIANTS
    TypeOK
    SegmentsTile
    HeightsCoverExecution
    OversizedIsOneWindow
    SuspendsNearBoundary
    NoPanic
