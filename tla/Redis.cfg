SPECIFICATION SpecAll
CONSTANTS
    Conns = {"c1", "c2", "c3"}
    Handlers = {"h1", "h2", "h3"}
    MaxIdle = 1
    MaxActive = 1
    Wait = TRUE
    IdleTimeout = 1
    MaxTime = 1
    MaxPending = 0
    Commands = {"MULTI", "EXEC"}
    NoConn = "none"
    Callers = {"h1", "h2"}
    Transactions = {"MULTI", "WATCH"}
INVARIANTS
    ActiveIsExact
    IdleIsClean
    NoLostWakeup
PROPERTIES
    ImplementsLease
    ServicePoolKept
    OwnReplies
\* The bounds end a behaviour.
CHECK_DEADLOCK FALSE
