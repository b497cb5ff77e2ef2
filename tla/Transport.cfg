\* Connections end: a closed one stands still.
SPECIFICATION SpecAll
CONSTANTS
    Parts = {"client", "sharing", "resetting", "frames", "windows", "priority"}
    OneStream = {1}
    ManyStreams = {1, 3, 5, 7}
    Streams = {1, 3}
    ClientFrames = {"headers", "data", "rst", "update"}
    Kinds = {"unary", "stream", "unknown", "malformed"}
    Contents = {"data", "part", "bad", "eof"}
    StreamLimits = {1, 2}
    initialWindowSize = 2
    MaxFrameLen = 2
    Sizes = {2}
    MaxWrites = 2
    MaxUpdates = 1
    MaxBuffer = 2
    Expires = TRUE
    NoStream = NoStream
    Calls = {"a", "b"}
    Streaming = {"b"}
    ServerFrames = {"headers", "data", "status"}
    Limits = {}
    Deadlines = FALSE
    Closes = FALSE
    MaxTransports = 2
    MaxFails = 0
    None = None
CHECK_DEADLOCK FALSE
INVARIANTS OwnAnswer ServeSurvives WindowsKept WithinWindow StatusOnce
