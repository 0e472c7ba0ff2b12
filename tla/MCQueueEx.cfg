SPECIFICATION Spec
CONSTANTS
    Capacity = 9
    Elements <- OneByte
    Blank = "blank"
    SectorSize = 3
    MaxLen = 4
    MaxInfo = 2
INVARIANT WriteLenFits
CHECK_DEADLOCK FALSE
