SPECIFICATION Spec
CONSTANTS
    LIMB_BITS = 1
    PC_STEP = 2
    LUI_SHIFT = 2
    CHUNK_BITS = 2
    PAGE_BITS = 1
    Guest = {5, 10, 14}
    Programs <- MCPrograms
    RegFiles <- MCRegFiles
    InitMemory <- MCInitMemory
    Limits = {0, 2}
    MAX_INSTRET = 60
    MaxSteps = 12
    CheckInsns = 2
    LeafClobbers = {"rax", "rdi", "rsi"}
INVARIANTS
    AotAgrees
    ReturnsAgree
