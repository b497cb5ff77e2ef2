\* Varints of five bits a byte, integers of six and eleven bits.
SPECIFICATION Spec
CONSTANTS
    Parts = {"packets", "messages", "extensions", "sets", "frames", "limits", "raw", "tables", "strings", "hash", "roundRobin"}
    Group = 5
    Half = 6
    Full = 11
    ReqBits = 4
    Reserved = 4
    Nil = Nil
    Unencodable = Unencodable
    Older <- FirstProperty
    MaxSent <- OneOrTwo
    Values <- ExtensionValues
    MaxRaw = 7
\* Every exchange ends.
CHECK_DEADLOCK FALSE
INVARIANTS RoundTrip DamageNoticed
PROPERTY PartitionsWalked
