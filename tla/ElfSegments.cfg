CONSTANTS
    MaxInsns = 4
    MaxPerSegment = 2
    MaxSegments = 2
SPECIFICATION ElfSpec
CHECK_DEADLOCK FALSE
INVARIANT ElfSegmentsContiguous
