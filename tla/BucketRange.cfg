SPECIFICATION Spec
CONSTANTS
    Second = 4
    Prefix <- MCPrefix
    Sizes <- MCSizes
    OffsetStart <- MCOffsetStart
    OffsetEnd = 1
    StartTime = 20
    TickSize = 1
    MaxTime = 34
INVARIANTS
    RangeStrictlyIncreasing
    RangeFollowsClock
