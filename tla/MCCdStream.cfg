SPECIFICATION Spec
CONSTANTS
    SectorSize = 6
    Sectors = 4
    Guard = 4
    Word = 2
    OpcodeLengths = {1, 3}
    Sizes = {5, 28, 54}
INVARIANTS
    TypeOK
    WordAligned
    InputInPlace
PROPERTIES
    StreamImplements
CHECK_DEADLOCK FALSE
