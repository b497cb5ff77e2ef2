------------------------------ MODULE MCCodecs ------------------------------
(***************************************************************************)
(* The encoders and decoders under TLC: the packets of the Kafka client,   *)
(* protocol buffers and their extensions, HTTP/2 frames, header blocks,    *)
(* and the partitioners that turn a key into a number.  A behaviour is one *)
(* of them (part); the others rest in their initial states.                *)
(***************************************************************************)
EXTENDS ProtoCodec

CONSTANTS Parts,           \* the components checked
    Unencodable,     \* a key that does not encode
    Older(_),        \* what an older program knows of a type of messages
    MaxSent(_),      \* how many messages of a type are sent
    Values(_),       \* the values of an extension
    MaxRaw           \* bound: the bytes of a raw frame

VARIABLES part,
    \* KafkaWire
    packet, packetWire, packetCut, packetRes,
    \* Proto
    type, sent, merged, buf, errs, state, res,
    \* ProtoExtensions
    emap, want, extBuf, inBuf, set, extGot, steps,
    \* Framer
    wbuf, writes, frameWire, frameCut, maxReadSize, mem, framesSent, framesGot,
    \* Hpack
    encTable, minSize, maxSizeLimit, tableSizeUpdate, pipe, decTable, saveBuf, err, written, emitted, calls,
    \* Partitioner
    n, rr, msg, choice

packetVars == <<packet, packetWire, packetCut, packetRes>>
protoVars == <<type, sent, merged, buf, errs, state, res>>
extVars == <<emap, want, extBuf, inBuf, set, extGot, steps>>
frameVars == <<wbuf, writes, frameWire, frameCut, maxReadSize, mem, framesSent, framesGot>>
hpackVars == <<encTable, minSize, maxSizeLimit, tableSizeUpdate, pipe, decTable, saveBuf, err, written,
               emitted, calls>>
partitionVars == <<n, rr, msg, choice>>
vars == <<part, packetVars, protoVars, extVars, frameVars, hpackVars, partitionVars>>

Nothing == {}

-----------------------------------------------------------------------------
(* Kafka packets: strings of at most three characters, arrays of at most   *)
(* ten entries.                                                            *)

Wire0 == INSTANCE KafkaWire WITH
    Samples <- Nothing, MaxRequestSize <- 150, MaxInt16 <- 3, MaxArray <- 10,
    sample <- packet, wire <- packetWire, cut <- packetCut, res <- packetRes

Strings == {<<>>, <<"a">>, <<"a", "b", "c">>}
Long == <<"a", "b", "c", "d">>
KafkaMessage(codec, key, value) == [codec |-> codec, key |-> key, value |-> value]
X == Wire0!PutRaw(<<"x">>)
Plain == {KafkaMessage("none", k, v) : k \in {Nil, <<>>, Wire0!PutRaw(<<"k">>)}, v \in {Nil, X}}
Inner == {<<>>} \cup {<<<<0, m>>>> : m \in Plain}
Wrapped == {KafkaMessage(c, Nil, Wire0!put(Wire0!MessageSet, s)) : c \in {"gzip", "snappy"}, s \in Inner}
Sets == {<<>>} \cup {<<<<7, m>>>> : m \in Plain \cup Wrapped}
        \cup {<<<<7, m>>, <<8, k>>>> : m \in Wrapped, k \in {KafkaMessage("none", Nil, X)}}
OneMessage == {<<<<7, m>>>> : m \in {KafkaMessage("none", Nil, X), KafkaMessage("gzip", Nil, <<>>)}}

\* Two topics; a topic with two partitions; none.
PerPartition(xs) ==
    {<<>>} \cup {<<<<<<"a">>, <<<<0, x>>>>>>>> : x \in xs}
    \cup {<<<<<<"a">>, <<<<0, x>>, <<1, y>>>>>>, <<<<"b">>, <<>>>>>> : x \in xs, y \in xs}
Requests(kind, bodies) == {<<kind, <<Nil, Nil, 5, <<"c">>, b>>>> : b \in bodies}
Responses(kind, bodies) == {<<kind, b>> : b \in bodies}

Packets ==
    Requests("produce", {<<a, 100, b>> : a \in {-1, 1}, b \in PerPartition(OneMessage)})
    \cup Requests("fetch", {<<Nil, 250, 1, b>> : b \in PerPartition({<<3, 64>>})})
    \cup Requests("offset", {<<Nil, b>> : b \in PerPartition({<<-1, 1>>})})
    \cup Requests("metadata", {<<>>, <<<<"a">>>>, <<<<>>, <<"b">>>>, <<Long>>})
    \cup Requests("offsetCommit", {<<<<"g">>, b>> : b \in PerPartition({<<3, -1, s>> : s \in Strings})})
    \cup Requests("offsetFetch", {<<<<"g">>, b>> : b \in {<<>>, <<<<<<"a">>, <<0, 1>>>>>>}})
    \cup Requests("consumerMetadata", Strings \cup {Long})
    \cup Responses("produceResponse", PerPartition({<<0, 4>>, <<6, -1>>}))
    \cup Responses("fetchResponse", PerPartition({<<0, 9, s>> : s \in {<<>>} \cup OneMessage}))
    \cup Responses("offsetResponse", PerPartition({<<0, o>> : o \in {<<>>, <<4>>, <<4, 0>>}}))
    \cup Responses("metadataResponse",
             {<<b, <<<<0, <<"a">>, p>>>>>> :
                 b \in {<<>>, <<<<1, <<"h">>, 9092>>, <<2, <<"h">>, 9093>>>>},
                 p \in {<<>>, <<<<0, 0, 1, <<1, 2>>, <<1>>>>, <<5, 1, -1, <<>>, <<>>>>>>}})
    \cup Responses("offsetCommitResponse", PerPartition({0, 3}))
    \cup Responses("offsetFetchResponse", PerPartition({<<4, s, 0>> : s \in Strings}))
    \cup Responses("consumerMetadataResponse", {<<e, 1, s, 9092>> : e \in {0, 15}, s \in Strings})
    \cup Responses("set", Sets)

Wire == INSTANCE KafkaWire WITH
    Samples <- Packets, MaxRequestSize <- 150, MaxInt16 <- 3, MaxArray <- 10,
    sample <- packet, wire <- packetWire, cut <- packetCut, res <- packetRes

-----------------------------------------------------------------------------
(* Protocol buffers: types with every kind of field, and a few messages.   *)

Prop(tag, label, wiretype, kind) ==
    [tag |-> tag, label |-> label, wire |-> wiretype, type |-> kind,
     sub |-> Nil, key |-> Nil, val |-> Nil, def |-> Nil]
Nested(tag, label, wiretype, sub) == [Prop(tag, label, wiretype, "struct") EXCEPT !.sub = sub]
Map(tag, val) == [Prop(tag, "opt", "bytes", "map") EXCEPT
                     !.key = Prop(1, "opt", "varint", "uint32"), !.val = val]
Type(props) == [props |-> props, order |-> GetProperties(props), exts |-> {}, self |-> FALSE,
                unrec |-> TRUE]
Msg(t, f) == [Reset(t) EXCEPT !.f = f]

\* Integers of every encoding, the greatest and the least among them.
Ints == Type(<<Prop(5, "opt", "varint", "int32"), Prop(1, "opt", "varint", "uint32"),
               Prop(2, "opt", "zigzag32", "int32"), Prop(3, "opt", "zigzag64", "int64"),
               Prop(4, "opt", "fixed32", "uint32"), Prop(6, "opt", "fixed64", "int64"),
               Prop(7, "opt", "varint", "bool")>>)
MaxI == 2 ^ (Half - 1) - 1
MaxL == 2 ^ (Full - 1) - 1
IntMsgs == {Msg(Ints, <<Nil, Nil, Nil, Nil, Nil, Nil, Nil>>),
            Msg(Ints, <<0, 0, 0, 0, 0, 0, FALSE>>),
            Msg(Ints, <<-1, 2 * MaxI + 1, -MaxI - 1, -MaxL - 1, 2 * MaxI + 1, -1, TRUE>>),
            Msg(Ints, <<MaxI, 1, MaxI, MaxL, 7, MaxL, Nil>>),
            Msg(Ints, <<-MaxI - 1, Nil, -1, -1, Nil, Nil, Nil>>)}

\* Required fields, one of them behind the bitmap's last bit.
Leaf == Type(<<Prop(1, "req", "varint", "int32"), Prop(2, "opt", "bytes", "bytes")>>)
LeafMsgs == {Msg(Leaf, <<3, Nil>>), Msg(Leaf, <<-2, <<9, 33>>>>), Msg(Leaf, <<Nil, <<>>>>)}
Whole == {l \in LeafMsgs : l.f[1] # Nil}
Pair == Type(<<Prop(2, "req", "varint", "uint32"), Prop(1, "req", "bytes", "bytes")>>)
PairMsgs == {Msg(Pair, <<1, <<2>>>>), Msg(Pair, <<Nil, <<>>>>), Msg(Pair, <<4, Nil>>)}

\* Messages, groups and maps inside messages.
Tree == Type(<<Nested(9, "opt", "bytes", Leaf), Nested(2, "rep", "bytes", Leaf)>>)
TreeMsgs == {Msg(Tree, <<a, b>>) : a \in LeafMsgs \cup {Nil}, b \in {<<>>} \cup {<<l, l>> : l \in LeafMsgs}}
            \cup {Msg(Tree, <<Nil, <<Nil>>>>)}
Groups == Type(<<Nested(2, "opt", "group", Tree), Nested(4, "rep", "group", Leaf)>>)
GroupMsgs == {Msg(Groups, <<a, b>>) :
                 a \in {Nil} \cup {Msg(Tree, <<l, <<>>>>) : l \in Whole \cup {Nil}},
                 b \in {<<>>} \cup {<<l, l>> : l \in Whole}}
Maps == Type(<<Map(2, Prop(2, "opt", "zigzag32", "int32")), Map(6, Nested(2, "opt", "bytes", Leaf))>>)
MapMsgs == {Msg(Maps, <<a, b>>) :
               a \in {<< >>, (0 :> 2) @@ (7 :> 0)},
               b \in {<< >>} \cup {(3 :> l) @@ (9 :> k) : l \in Whole, k \in Whole}}

\* Repeated fields, packed and not.
Lists == Type(<<Prop(3, "packed", "varint", "int64"), Prop(4, "rep", "zigzag32", "int32"),
                Prop(1, "packed", "varint", "bool"), Prop(2, "rep", "bytes", "bytes"),
                Prop(6, "packed", "fixed32", "uint32")>>)
ListMsgs == {Msg(Lists, <<a, b, c, d, c>>) : a \in {<<>>, <<-1, 40, 0>>}, b \in {<<>>, <<-3>>},
                c \in {<<>>}, d \in {<<>>, <<<<>>, <<1>>>>}}
            \cup {Msg(Lists, <<<<>>, <<1, 2>>, <<TRUE, FALSE>>, <<>>, <<9>>>>)}

Three == Type(<<Prop(1, "proto3", "varint", "int32"), Prop(2, "proto3", "bytes", "bytes"),
                Prop(7, "proto3", "varint", "bool"), Prop(8, "proto3", "fixed64", "uint64"),
                Nested(3, "proto3", "bytes", Leaf)>>)
ThreeMsgs == {Msg(Three, <<a, b, c, d, e>>) : a \in {0, -1}, b \in {<<>>, <<5>>}, c \in BOOLEAN,
                 d \in {0, 2 * MaxL + 1}, e \in Whole \cup {Nil}}

\* A type that marshals itself.
Selves == Type(<<Nested(1, "opt", "bytes", [Leaf EXCEPT !.self = TRUE]), Prop(5, "opt", "varint", "uint32")>>)
SelfMsgs == {Msg(Selves, <<a, b>>) : a \in Whole, b \in {Nil, 2}}

\* Fields with defaults, also in sub-messages.
Item == Type(<<[Prop(1, "opt", "bytes", "bytes") EXCEPT !.def = <<7>>]>>)
Filled == Type(<<[Prop(1, "opt", "varint", "int32") EXCEPT !.def = 3], Nested(2, "rep", "bytes", Item)>>)
FilledMsgs == {Msg(Filled, <<a, b>>) : a \in {Nil, 0}, b \in {<<>>, <<Msg(Item, <<Nil>>), Msg(Item, <<<<1>>>>)>>}}

Of(t, ms) == {<<t, m>> : m \in ms}
Messages == Of(Ints, IntMsgs) \cup Of(Pair, PairMsgs) \cup Of(Tree, TreeMsgs) \cup Of(Groups, GroupMsgs)
            \cup Of(Lists, ListMsgs) \cup Of(Three, ThreeMsgs) \cup Of(Selves, SelfMsgs) \cup Of(Maps, MapMsgs)
            \cup Of(Filled, FilledMsgs)

\* Proto3 fields and messages that unmarshal themselves are not merged.
OneOrTwo(t) == IF t \in {Three, Selves} THEN 1 ELSE 2

\* The older program knows the first property only, and less of the types inside.
FirstProperty(t) ==
    LET props == <<IF t.props[1].sub = Nil THEN t.props[1]
                   ELSE [t.props[1] EXCEPT !.sub.props = SubSeq(@, 1, 1), !.sub.order = <<1>>]>>
    IN  [t EXCEPT !.props = props, !.order = <<1>>]

Buffers == INSTANCE Proto WITH Samples <- Messages

-----------------------------------------------------------------------------
(* Extensions of every form.                                               *)

Sub == Type(<<Prop(1, "opt", "varint", "int32"), Prop(2, "rep", "varint", "bool")>>)
Descriptors == {Prop(5, "opt", "varint", "int32"), Prop(3, "rep", "zigzag32", "int32"),
                Nested(1, "opt", "bytes", Sub)}
ExtensionValues(d) ==
    CASE d.tag = 5 -> {0, -1}
      [] d.tag = 3 -> {<<1>>, <<-1, 2>>}
      [] d.tag = 1 -> {Msg(Sub, <<3, <<>>>>), Msg(Sub, <<Nil, <<TRUE>>>>)}

      [] d.tag = 4 -> {Msg(Sub, <<Nil, <<TRUE>>>>)}
Ext == INSTANCE ProtoExtensions WITH Descs <- Descriptors, MaxSteps <- 6, buf <- extBuf, got <- extGot

\* In a message set every extension is a message.
InSets == {Nested(4, "opt", "bytes", Sub), Nested(1, "opt", "bytes", Sub)}
SetExt == INSTANCE ProtoExtensions WITH Descs <- InSets, MaxSteps <- 6, buf <- extBuf, got <- extGot

-----------------------------------------------------------------------------
(* HTTP/2 frames: bytes of four values, so 2^31 is 128 and 2^24 is 64.     *)

Priority(dep, exclusive, weight) == [dep |-> dep, exclusive |-> exclusive, weight |-> weight]
NoPriority == {Priority(0, FALSE, 0)}
NoSettings == {<<>>}
One == {1}
ZeroOne == {0, 1}
Unknown == {10}
NoFlags == {0}

\* Every Write method, twice.
FrameIDs == {0, 1, 128}
FramePayloads == {<<>>, <<3, 0, 2>>}
FramePads == {0, 2}
FrameWords == {0, 1, 127, 128}
FramePriorities == NoPriority \cup {Priority(1, FALSE, 2), Priority(5, TRUE, 0), Priority(130, FALSE, 1)}
FrameSettings == {<<>>, << <<3, 255>>, <<4, 128>> >>, << <<4, 5>>, <<4, 200>>, <<1, 0>> >>}
Frames == INSTANCE Framer WITH
    B <- 4, AllowIllegal <- FALSE, StreamIDs <- FrameIDs, Payloads <- FramePayloads, Pads <- FramePads,
    Words <- FrameWords, Priorities <- FramePriorities, SettingLists <- FrameSettings, RawTypes <- Unknown,
    RawFlags <- NoFlags, ReadSizes <- Nothing, MaxCalls <- 2, MaxCuts <- 0,
    calls <- writes, wire <- frameWire, cut <- frameCut, sent <- framesSent, got <- framesGot

\* Payloads at the 24 bits of a length and one beyond, and a reader with a limit.
LongPayloads == {<<2>>, [i \in 1 .. 63 |-> 1], [i \in 1 .. 64 |-> 3]}
LimitPads == {3}
Limits == {2}
Limited == INSTANCE Framer WITH
    B <- 4, AllowIllegal <- FALSE, StreamIDs <- One, Payloads <- LongPayloads, Pads <- LimitPads,
    Words <- Nothing, Priorities <- NoPriority, SettingLists <- Nothing, RawTypes <- Nothing,
    RawFlags <- Nothing, ReadSizes <- Limits, MaxCalls <- 2, MaxCuts <- 1,
    calls <- writes, wire <- frameWire, cut <- frameCut, sent <- framesSent, got <- framesGot

\* Every payload of up to MaxRaw cells, of every type.
RawPayloads == UNION {[1 .. k -> {0, 3}] : k \in 0 .. MaxRaw}
EveryType == 0 .. 10
SomeFlags == {0, 1, 8, 40}
Raw == INSTANCE Framer WITH
    B <- 4, AllowIllegal <- TRUE, StreamIDs <- ZeroOne, Payloads <- RawPayloads, Pads <- Nothing,
    Words <- Nothing, Priorities <- Nothing, SettingLists <- Nothing, RawTypes <- EveryType,
    RawFlags <- SomeFlags, ReadSizes <- Nothing, MaxCalls <- 1, MaxCuts <- 0,
    calls <- writes, wire <- frameWire, cut <- frameCut, sent <- framesSent, got <- framesGot

-----------------------------------------------------------------------------
(* Header blocks: codes of five, ten and nineteen bits, and a static table *)
(* long enough for indexes that take a second byte.                        *)

Header(name, value, sensitive) == [name |-> name, value |-> value, sensitive |-> sensitive]

\* The bytes 0, a, ! and \ with their codes.
Codes ==
  [b \in {48, 97, 33, 92} |->
     CASE b = 48 -> <<0, 0, 0, 0, 0>>
       [] b = 97 -> <<0, 0, 0, 1, 1>>
       [] b = 33 -> <<1, 1, 1, 1, 1, 1, 1, 0, 0, 0>>
       [] b = 92 -> <<1, 1, 1, 1, 1, 1, 1, 1, 1, 1, 1, 1, 1, 1, 1, 0, 0, 0, 0>>]
Static == [i \in 1 .. 17 |-> IF i = 16 THEN Header(<<97>>, <<48>>, FALSE)
                             ELSE IF i = 17 THEN Header(<<97>>, <<97>>, FALSE)
                             ELSE Header(<<128 + i>>, <<>>, FALSE)]

\* In the static table, with a name in it, new, and never to be indexed.
HeaderFields == {Header(<<97>>, <<97>>, FALSE), Header(<<97>>, <<33>>, FALSE),
                 Header(<<33>>, <<48>>, FALSE), Header(<<33>>, <<48>>, TRUE)}
TableSizes == {0, 35, 70}
Tables == INSTANCE Hpack WITH
    StaticTable <- Static, Code <- Codes, Fields <- HeaderFields, Sizes <- TableSizes,
    initialHeaderTableSize <- 70, MaxFields <- 3, MaxCalls <- 2

\* Short strings of every kind, and longer ones with the longest code in one place.
StringFields ==
  {Header(<<33>>, v, FALSE) : v \in
     UNION {[1 .. k -> {48, 97, 33}] : k \in 0 .. 5}
       \cup {[i \in 1 .. 8 |-> IF i = k THEN 92 ELSE 48] : k \in 1 .. 8}}
HeaderStrings == INSTANCE Hpack WITH
    StaticTable <- Static, Code <- Codes, Fields <- StringFields, Sizes <- Nothing,
    initialHeaderTableSize <- 70, MaxFields <- 1, MaxCalls <- 0

-----------------------------------------------------------------------------
\* Every hash of five bits; and partitions that come and go.
Hash == INSTANCE Partitioner WITH Width <- 5, Kind <- "hash", MaxParts <- 4
RoundRobin == INSTANCE Partitioner WITH Width <- 2, Kind <- "roundRobin", MaxParts <- 5

-----------------------------------------------------------------------------
Init ==
    /\ part \in Parts
    /\ Wire!Init /\ (part # "packets" => packet = <<"set", <<>>>>)
    /\ Buffers!Init /\ (part # "messages" => type = Pair)
    /\ Ext!Init
    /\ Frames!Init
    /\ Tables!Init
    /\ RoundRobin!Init /\ (part \notin {"hash", "roundRobin"} => n = 0)

InPackets(A) ==
    part = "packets" /\ A /\ UNCHANGED <<part, protoVars, extVars, frameVars, hpackVars, partitionVars>>
InMessages(A) ==
    part = "messages" /\ A /\ UNCHANGED <<part, packetVars, extVars, frameVars, hpackVars, partitionVars>>
InExtensions(p, A) ==
    part = p /\ A /\ UNCHANGED <<part, packetVars, protoVars, frameVars, hpackVars, partitionVars>>
InFrames(p, A) ==
    part = p /\ A /\ UNCHANGED <<part, packetVars, protoVars, extVars, hpackVars, partitionVars>>
InHeaders(p, A) ==
    part = p /\ A /\ UNCHANGED <<part, packetVars, protoVars, extVars, frameVars, partitionVars>>
InPartitions(p, A) ==
    part = p /\ A /\ UNCHANGED <<part, packetVars, protoVars, extVars, frameVars, hpackVars>>

Next ==
    \/ InPackets(Wire!Next)
    \/ InMessages(Buffers!Next)
    \/ InExtensions("extensions", Ext!Next) \/ InExtensions("sets", SetExt!Next)
    \/ InFrames("frames", Frames!Next) \/ InFrames("limits", Limited!Next) \/ InFrames("raw", Raw!Next)
    \/ InHeaders("tables", Tables!Next) \/ InHeaders("strings", HeaderStrings!Next)
    \/ InPartitions("hash", Hash!Next) \/ InPartitions("roundRobin", RoundRobin!Next)

Spec == Init /\ [][Next]_vars

-----------------------------------------------------------------------------
(***************************************************************************)
(* What was encoded is what is decoded, in every format: a Kafka packet    *)
(* (whose two encoding passes agree on its size), a protocol buffer sent   *)
(* once or twice or through an older program (Size counts what Marshal     *)
(* writes), an extension however it was set, changed in place, encoded and *)
(* decoded, an HTTP/2 frame after refused calls and in a reused read       *)
(* buffer, and a header field however its block is cut, the header tables  *)
(* of the two ends agreeing whenever nothing is on its way.                *)
(***************************************************************************)
RoundTrip ==
    /\ part = "packets" => Wire!RoundTrip /\ Wire!PassesAgree
    /\ part = "messages" => Buffers!RoundTrip /\ (type # Maps => Buffers!SizeIsLength /\ Buffers!DefaultsSet)
    /\ part = "extensions" => Ext!GetSeesLast /\ Ext!SizeIsCurrent
    /\ part = "sets" => SetExt!GetSeesLast
    /\ part = "frames" => Frames!RoundTrip /\ Frames!ValidFramesKeepTheirBytes
    /\ part = "limits" => Limited!RoundTrip /\ Limited!ValidFramesKeepTheirBytes
    /\ part = "tables" => Tables!FieldsArrive /\ Tables!TablesAgree
    /\ part = "strings" => HeaderStrings!FieldsArrive

(***************************************************************************)
(* Bytes that are damaged are noticed: a packet or a message that was cut  *)
(* short is refused, or was cut between two of its parts; a required field *)
(* that is missing is reported, however often the others are there; and no *)
(* payload of a frame makes a parser slice out of range.                   *)
(***************************************************************************)
DamageNoticed ==
    /\ part = "packets" => Wire!TruncationNoticed
    /\ part = "messages" => Buffers!RequiredReported /\ Buffers!CutNoticed
    /\ part = "raw" => Raw!NoParserPanics

(***************************************************************************)
(* The hash partitioner assigns every message a partition unless its key   *)
(* does not encode or its hash is the one number with no absolute value;   *)
(* round robin goes through the partitions there are, one after another,   *)
(* although their number changes between two messages (partitioner.go).    *)
(***************************************************************************)
PartitionsWalked ==
    [][/\ part = "hash" => Hash!AssignedUnlessLeast'
       /\ part = "roundRobin" /\ choice' # choice /\ choice.n = n /\ n > 0
             => choice'.part = (choice.part + 1) % n]_vars
=============================================================================
