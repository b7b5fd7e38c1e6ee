SPECIFICATION Spec
CONSTANTS
    SectorSize = 6
    Sectors = 4
    Guard = 4
    Word = 2
    OpcodeLengths = {1, 3}
    Sizes = {54}
INVARIANTS
    InsideBuffer
CHECK_DEADLOCK FALSE
