SPECIFICATION Spec
CONSTANTS
    Second = 4
    Prefix <- MCPrefix
    Sizes <- TestSizes
    OffsetStart <- TestOffsetStart
    OffsetEnd = 1
    StartTime = 20
    TickSize = 1
    MaxTime = 34
INVARIANT
    RangeIsConsecutive
