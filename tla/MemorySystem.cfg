SPECIFICATION SystemSpec
CONSTANTS
    Chunks = {c1, c2}
    BLOCKS_PER_CHUNK = 2
    Values = {v0, v1}
    MaxTime = 4
    LeafChunks = {c1}
    BLOCKS_PER_LEAF = 2
    Contents = {v0, v1}
    MaxAccesses = 3
    addr_space_height = 2
    address_height = 2
    PAGE_BITS = 1
    HOST_PAGE_BITS = 1
    num_pv_bits = 1
    ChunkValues = {0, 1}
    Zero = 0
    Images <- MCImages
    Touchable <- MCTouchable
    RegisterLabel <- MCRegisterLabel
    MaxTouches = 3
    MaxSegments = 2
    Layouts <- MCLayouts
    FIELD_BYTES = 2
    MAX_ALIGNMENT = 4
    MaxHeight = 4
    MaxRows = 3
INVARIANTS
    BusBalances
    AcceptedRowsAreMemory
    RootsCommit
    RowsAccepted
    EstimateCovers
    PublicValuesVerify
    ArenasKeepRecords
