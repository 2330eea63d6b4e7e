SPECIFICATION DvcSpec
CONSTANTS
    Size = 4
    Full = 4
    Half = 2
    Ask1 = 1
    Ask2 = 3
    Ask3 = 5
    Wrap = 7
    MaxCode = 6
    MaxArgs = 2
    MaxBits = 16
    ColorBits = {5}
    Colors = {c1, c2, c3, c4}
    Entries = 3
    Bytes = {0, 1, 2, 8, 16, 24, 40, 64, 85, 96, 128, 203, 254, 255}
    MaxZeros = 40
INVARIANTS
    BlockInBounds RanksAddressable UsagesAreRanks NothingCarriedOver
PROPERTIES CodesRead LruImplemented
CHECK_DEADLOCK FALSE
