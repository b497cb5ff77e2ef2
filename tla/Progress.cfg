\* The process and its connections end; so do the bounded exchanges.
SPECIFICATION SpecAll
CONSTANTS
    Parts = {"process", "breaker", "asking", "leaving", "broker", "closing", "serving", "calling", "contexts", "logging", "verbose"}
    Conns = {"c1", "c2"}
    Calls = {1, 2}
    ConnOf <- OneEach
    Methods = {"SetStatus", "GetDevices", "Other"}
    MaxIdle = 1
    Stops = TRUE
    Users = {"u1", "u2"}
    Nil = Nil
    Ctx = {"f", "v", "t", "d"}
    Root = "bg"
    Parent <- Chain
    Kinds <- Mixed
    Deadline <- Late
    MaxTime = 1
CHECK_DEADLOCK FALSE
INVARIANTS DeathsExplained ChildrenComplete LogsComplete
PROPERTY CallsReturn
