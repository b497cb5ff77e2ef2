SPECIFICATION Spec
CONSTANTS
    Second = 10
    BucketSize = 10
    NumBuckets = 1
    RetryMax = 1
    StartTime = 10
    TickSize = 10
    MaxTime = 20
    MaxCalls = 3
    Setters = {s1, s2}
    Getters = {}
    A = A
    B = B
    D = D
    E = E
    WS = WS
    Nil = Nil
    Text <- MCText
    Requests <- SharedDevice
    QueryUsers <- OneUser
SYMMETRY Symmetry
INVARIANTS
    EventsOnlyAfterCommit
    DuplicatesBounded
    SettledStreamAgrees
