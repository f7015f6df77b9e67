SPECIFICATION Spec
CONSTANTS
    D_EF = 2
    DIGEST_SIZE = 4
    NUM_BITS = 6
    LOW_BITS_COUNT = 3
    LIMB_BITS = 2
    NUM_LIMBS = 4
    POW_BITS = 4
    Cases <- MCCases
INVARIANTS BusesBalance RowsAccepted
