\* Two errors open the breaker, two successes close it; at MaxTime an open
\* breaker stands still, and so does a broker after MaxRequests.
SPECIFICATION SpecAll
CONSTANTS
    Parts = {"breaker", "client", "racing", "sharing", "reading", "broker"}
    Children = {"c1", "c2"}
    PartitionOf <- Apart
    Brokers = {1, 2}
    BrokerWorkers = {1, 2}
    LogEnd = 3
    Size <- Sizes
    Default = 1
    MaxFetch = 4
    MaxResponseSize = 7
    Width = 4
    Procs = {"u1", "u2", "u3"}
    MayClose = {"u1"}
    MaxOpenRequests = 1
    MaxRequests = 4
    Workers = {"w1", "w2", "w3"}
    errorThreshold = 2
    successThreshold = 2
    timeout = 1
    MaxTime = 4
CHECK_DEADLOCK FALSE
INVARIANTS OneTimerWhileOpen ClosedMeansNoBurst ClientAgrees OneOwner EveryMessageOnce OwnAnswer
PROPERTY OpensOnBurst
