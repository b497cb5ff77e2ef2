SPECIFICATION FairSpec
CONSTANTS
    Second = 10
    BucketSize = 10
    NumBuckets = 1
    RetryMax = 0
    StartTime = 10
    TickSize = 10
    MaxTime = 20
    MaxCalls = 2
    Setters = {s1}
    Getters = {g1}
    A = A
    B = B
    D = D
    E = E
    WS = WS
    Nil = Nil
    Text <- MCText
    Requests <- OddRequests
    QueryUsers <- OddUsers
INVARIANTS
    TypeOK
    ParseErrorOnlyFromUnknownType
    WrongTypeOnlyFromCollision
PROPERTIES
    CallsReturn
