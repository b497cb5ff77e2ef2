SPECIFICATION Spec
CONSTANTS
    Second = 10
    BucketSize = 10
    NumBuckets = 1
    RetryMax = 0
    StartTime = 10
    TickSize = 10
    MaxTime = 30
    MaxCalls = 2
    Setters = {s1, s2}
    Getters = {g1}
    A = A
    B = B
    D = D
    E = E
    WS = WS
    Nil = Nil
    Text <- MCText
    Requests <- Handover
    QueryUsers <- OneUser
SYMMETRY Symmetry
INVARIANTS
    NoStaleDevice
    StreamedWasOnline
    ForeignOnlyAfterHandover
    NoMissedDevice
