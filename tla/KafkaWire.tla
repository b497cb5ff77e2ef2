----------------------------- MODULE KafkaWire -----------------------------
(***************************************************************************)
(* The Kafka protocol of sarama: every request and response type, the two  *)
(* passes of its encoder (prep_encoder.go counts, real_encoder.go writes)  *)
(* and its decoder (real_decoder.go).  What encode puts and what decode    *)
(* gets is given per type by a format, once for each direction, as each is *)
(* written out by hand in the code.                                        *)
(*                                                                         *)
(* A byte of an integer is <<"int", width, value, place>>, so that a       *)
(* reader that is out of step with the writer reads nonsense; the checksum *)
(* of some bytes is those bytes.  A map is the sequence of its entries in  *)
(* the order the encoder happens to visit them.                            *)
(***************************************************************************)
EXTENDS Integers, Sequences, SequencesExt

CONSTANTS
    Samples,         \* the values that are encoded: <<kind, value>>
    MaxRequestSize,
    MaxInt16,        \* the longest string
    MaxArray,        \* 2*math.MaxUint16
    Nil

VARIABLES
    sample,  \* what is sent
    wire,    \* its bytes, Nil before it is encoded
    cut,     \* history: whether the bytes were truncated
    res      \* what encoding or decoding gave, Nil before

vars == <<sample, wire, cut, res>>

-----------------------------------------------------------------------------
(* Formats *)

Num(w) == [f |-> "int", w |-> w]
Const(w, v) == [f |-> "const", w |-> w, v |-> v]
Str == [f |-> "str"]
Bytes == [f |-> "bytes"]
Ints(w) == [f |-> "ints", w |-> w]
Array(x) == [f |-> "array", x |-> x]
Struct(xs) == [f |-> "struct", xs |-> xs]
LengthField(x) == [f |-> "length", x |-> x]
Subset(x) == [f |-> "subset", x |-> x]
MessageSet == [f |-> "set"]
Message == [f |-> "message"]

\* map[string]map[int32]x
ByPartition(x) == Array(Struct(<<Str, Array(Struct(<<Num(4), x>>))>>))

\* What encode writes and decode reads; a request is read by the broker.
Both(enc, dec) == [enc |-> enc, dec |-> dec]
Request(enc) == [enc |-> enc, dec |-> enc]

MessageBlock == Struct(<<Num(8), LengthField(Message)>>)

MetadataRequest == Request(Array(Str))
PartitionMetadata == Both(Struct(<<Num(2), Num(4), Num(4), Ints(4), Ints(4)>>),
                          Struct(<<Num(2), Num(4), Num(4), Ints(4), Ints(4)>>))
TopicMetadata == Both(Struct(<<Num(2), Str, Array(PartitionMetadata.enc)>>),
                      Struct(<<Num(2), Str, Array(PartitionMetadata.dec)>>))
\* A broker is an id, a host and a port.
MetadataResponse ==
    Both(Struct(<<Array(Struct(<<Num(4), Str, Num(4)>>)), Array(TopicMetadata.enc)>>),
         Struct(<<Array(Struct(<<Num(4), Str, Num(4)>>)), Array(TopicMetadata.dec)>>))
ProduceRequest == Both(Struct(<<Num(2), Num(4), ByPartition(LengthField(MessageSet))>>),
                       Struct(<<Num(2), Num(4), ByPartition(Subset(MessageSet))>>))
ProduceResponse == Both(ByPartition(Struct(<<Num(2), Num(8)>>)),
                        ByPartition(Struct(<<Num(2), Num(8)>>)))
FetchRequest == Request(Struct(<<Const(4, -1), Num(4), Num(4),
                                 ByPartition(Struct(<<Num(8), Num(4)>>))>>))
FetchResponse == Both(ByPartition(Struct(<<Num(2), Num(8), LengthField(MessageSet)>>)),
                      ByPartition(Struct(<<Num(2), Num(8), Subset(MessageSet)>>)))
OffsetRequest == Request(Struct(<<Const(4, -1), ByPartition(Struct(<<Num(8), Num(4)>>))>>))
OffsetResponse == Both(ByPartition(Struct(<<Num(2), Ints(8)>>)),
                       ByPartition(Struct(<<Num(2), Ints(8)>>)))
OffsetCommitRequest ==
    Request(Struct(<<Str, ByPartition(Struct(<<Num(8), Num(8), Str>>))>>))
OffsetCommitResponse == Both(ByPartition(Num(2)), ByPartition(Num(2)))
OffsetFetchRequest == Request(Struct(<<Str, Array(Struct(<<Str, Ints(4)>>))>>))
OffsetFetchResponse == Both(ByPartition(Struct(<<Num(8), Str, Num(2)>>)),
                            ByPartition(Struct(<<Num(8), Str, Num(2)>>)))
ConsumerMetadataRequest == Request(Str)
ConsumerMetadataResponse == Both(Struct(<<Num(2), Num(4), Str, Num(4)>>),
                                 Struct(<<Num(2), Num(4), Str, Num(4)>>))

\* request.encode: the body behind key, version, correlation id and client id.
Framed(key, body) ==
    LET head == <<Const(2, key), Const(2, 0), Num(4), Str>>
    IN  Both(LengthField(Struct(Append(head, body.enc))),
             LengthField(Struct(Append(head, body.dec))))

Format(kind) ==
    CASE kind = "produce" -> Framed(0, ProduceRequest)
      [] kind = "fetch" -> Framed(1, FetchRequest)
      [] kind = "offset" -> Framed(2, OffsetRequest)
      [] kind = "metadata" -> Framed(3, MetadataRequest)
      [] kind = "offsetCommit" -> Framed(8, OffsetCommitRequest)
      [] kind = "offsetFetch" -> Framed(9, OffsetFetchRequest)
      [] kind = "consumerMetadata" -> Framed(10, ConsumerMetadataRequest)
      [] kind = "produceResponse" -> ProduceResponse
      [] kind = "fetchResponse" -> FetchResponse
      [] kind = "offsetResponse" -> OffsetResponse
      [] kind = "metadataResponse" -> MetadataResponse
      [] kind = "offsetCommitResponse" -> OffsetCommitResponse
      [] kind = "offsetFetchResponse" -> OffsetFetchResponse
      [] kind = "consumerMetadataResponse" -> ConsumerMetadataResponse
      [] kind = "set" -> Both(MessageSet, MessageSet)

-----------------------------------------------------------------------------
(* Messages: [codec, key, value].  Of compressed data only the whole can be *)
(* uncompressed; its value is an encoded message set.                       *)

Codecs == {"none", "gzip", "snappy"}

Compress(codec, b) == IF codec = "none" \/ b = Nil THEN b
                      ELSE <<<<codec, b, 1>>, <<codec, b, 2>>>>

Compressed(codec, b) == Len(b) = 2 /\ b[1][1] = codec /\ b[2][1] = codec
Uncompress(b) == b[1][2]

\* The fields of a message under its checksum.
MessageBody == Struct(<<Const(1, 0), Num(1), Bytes, Bytes>>)
Payload(m) == <<Nil, m.codec, m.key, Compress(m.codec, m.value)>>

-----------------------------------------------------------------------------
(* prepEncoder: the length, or -1 when something is too long. *)

prepBytes(v) == IF v = Nil THEN 4 ELSE 4 + Len(v)

RECURSIVE prep(_, _), put(_, _)

Sum(lengths) == FoldLeft(LAMBDA a, b : IF a < 0 \/ b < 0 THEN -1 ELSE a + b, 0, lengths)

prep(s, v) ==
    CASE s.f \in {"int", "const"} -> s.w
      [] s.f = "str" -> IF Len(v) > MaxInt16 THEN -1 ELSE 2 + Len(v)
      [] s.f = "bytes" -> prepBytes(v)
      [] s.f = "ints" -> 4 + s.w * Len(v)
      [] s.f = "array" -> Sum(<<4>> \o [i \in 1 .. Len(v) |-> prep(s.x, v[i])])
      [] s.f = "struct" -> Sum([i \in 1 .. Len(v) |-> prep(s.xs[i], v[i])])
      [] s.f = "set" -> Sum([i \in 1 .. Len(v) |-> prep(MessageBlock, v[i])])
      [] s.f = "message" -> Sum(<<4, prep(MessageBody, Payload(v))>>)
      [] s.f \in {"length", "subset"} -> Sum(<<4, prep(s.x, v)>>)

(* realEncoder: the bytes. *)

PutInt(w, v) == [i \in 1 .. w |-> <<"int", w, v, i>>]
PutRaw(v) == [i \in 1 .. Len(v) |-> <<"raw", v[i]>>]
Checksum(b) == [i \in 1 .. 4 |-> <<"crc", b, i>>]

\* lengthField.run, when the field is popped.
PutLength(b) == PutInt(4, Len(b)) \o b

put(s, v) ==
    CASE s.f = "int" -> PutInt(s.w, v)
      [] s.f = "const" -> PutInt(s.w, s.v)
      [] s.f = "str" -> PutInt(2, Len(v)) \o PutRaw(v)
      [] s.f = "bytes" -> IF v = Nil THEN PutInt(4, -1) ELSE PutInt(4, Len(v)) \o v
      [] s.f = "ints" -> PutInt(4, Len(v)) \o FlattenSeq([i \in 1 .. Len(v) |-> PutInt(s.w, v[i])])
      [] s.f = "array" -> PutInt(4, Len(v)) \o FlattenSeq([i \in 1 .. Len(v) |-> put(s.x, v[i])])
      [] s.f = "struct" -> FlattenSeq([i \in 1 .. Len(v) |-> put(s.xs[i], v[i])])
      [] s.f = "set" -> FlattenSeq([i \in 1 .. Len(v) |-> put(MessageBlock, v[i])])
      [] s.f = "message" -> LET b == put(MessageBody, Payload(v)) IN Checksum(b) \o b
      [] s.f \in {"length", "subset"} -> PutLength(put(s.x, v))

-----------------------------------------------------------------------------
(* realDecoder: [raw, off, stack, err, v]; v is the last value read. *)

Decoder(raw) == [raw |-> raw, off |-> 0, stack |-> <<>>, err |-> "no", v |-> Nil]

remaining(rd) == Len(rd.raw) - rd.off
Insufficient(rd) == [rd EXCEPT !.off = Len(rd.raw), !.err = "insufficient"]
Bad(rd, why) == [rd EXCEPT !.err = why]
Take(rd, n) == SubSeq(rd.raw, rd.off + 1, rd.off + n)
Got(rd, n, v) == [rd EXCEPT !.off = @ + n, !.v = v]

\* An integer that was not written as one is some number.
Nonsense == 99
getInt(rd, w) ==
    IF remaining(rd) < w THEN Insufficient(rd)
    ELSE LET b == Take(rd, w)
         IN  Got(rd, w, IF b[1][1] = "int" /\ \A i \in 1 .. w : b[i] = <<"int", w, b[1][3], i>>
                        THEN b[1][3] ELSE Nonsense)

\* Lengths of arrays are unsigned: -1 is more than there can be.
getArrayLength(rd) ==
    LET r == getInt(rd, 4)
    IN  IF r.err # "no" THEN r
        ELSE IF r.v < 0 \/ r.v > remaining(r) THEN Insufficient(r)
        ELSE IF r.v > MaxArray THEN Bad(r, "array length") ELSE r

getBytes(rd) ==
    LET r == getInt(rd, 4)
    IN  IF r.err # "no" THEN r
        ELSE IF r.v < -1 THEN Bad(r, "length")
        ELSE IF r.v = -1 THEN [r EXCEPT !.v = Nil]
        ELSE IF r.v > remaining(r) THEN Insufficient(r)
        ELSE Got(r, r.v, Take(r, r.v))

\* A mutant: a string ends where the data ends.
BugGetString(rd) ==
    LET r == getInt(rd, 2)
        b == Take(r, IF r.v > remaining(r) THEN remaining(r) ELSE r.v)
    IN  IF r.err # "no" THEN r ELSE Got(r, Len(b), [i \in 1 .. Len(b) |-> b[i][2]])

getString(rd) ==
    LET r == getInt(rd, 2)
    IN  IF r.err # "no" THEN r
        ELSE IF r.v < -1 THEN Bad(r, "length")
        ELSE IF r.v <= 0 THEN [r EXCEPT !.v = <<>>]
        ELSE IF r.v > remaining(r) THEN Insufficient(r)
        ELSE Got(r, r.v, LET b == Take(r, r.v) IN [i \in 1 .. Len(b) |-> b[i][2]])

getInts(rd, w) ==
    LET r == getInt(rd, 4)
    IN  IF r.err # "no" THEN r
        ELSE IF r.v < 0 \/ remaining(r) < w * r.v THEN Insufficient(r)
        ELSE Got(r, w * r.v, [i \in 1 .. r.v |-> getInt([r EXCEPT !.off = @ + w * (i - 1)], w).v])

push(rd, field) ==
    IF remaining(rd) < 4 THEN Insufficient(rd)
    ELSE [rd EXCEPT !.stack = Append(@, [f |-> field, start |-> rd.off]), !.off = @ + 4]

\* pop checks whatever field is on top.
pop(rd) ==
    LET top == Last(rd.stack)
        body == SubSeq(rd.raw, top.start + 5, rd.off)
        written == SubSeq(rd.raw, top.start + 1, top.start + 4)
        r == [rd EXCEPT !.stack = Front(@)]
    IN  IF written = (IF top.f = "crc" THEN Checksum(body) ELSE PutInt(4, Len(body)))
        THEN r ELSE Bad(r, top.f)

\* A slice out of range: a negative length goes past getSubset's check.
Panic(rd) == Bad(rd, "panic")

RECURSIVE get(_, _), getAll(_, _), getSet(_, _)

\* xs one after the other, up to the first error.
getAll(rd, xs) ==
    LET read == FoldLeft(LAMBDA a, x : IF a.rd.err # "no" THEN a
                                       ELSE LET r == get(a.rd, x)
                                            IN  [rd |-> r, vs |-> Append(a.vs, r.v)],
                         [rd |-> rd, vs |-> <<>>], xs)
    IN  [read.rd EXCEPT !.v = read.vs]

\* A message that ends too early is the last and is left out.
getSet(rd, msgs) ==
    IF remaining(rd) = 0 THEN [rd EXCEPT !.v = [partial |-> FALSE, msgs |-> msgs]]
    ELSE LET r == get(rd, MessageBlock)
         IN  CASE r.err = "no" -> getSet(r, Append(msgs, r.v))
               [] r.err = "insufficient" ->
                     [r EXCEPT !.err = "no", !.v = [partial |-> TRUE, msgs |-> msgs]]
               [] OTHER -> r

\* Message.decode: a compressed message returns without its pop.
getMessage(rd) ==
    LET p == push(rd, "crc")
        r == IF p.err # "no" THEN p ELSE getAll(p, MessageBody.xs)
        codec == r.v[2]
        m(value, set) == [codec |-> codec, key |-> r.v[3], value |-> value, set |-> set]
    IN  IF r.err # "no" THEN r
        ELSE IF r.v[1] # 0 THEN Bad(r, "format")
        ELSE IF codec = "none" THEN pop([r EXCEPT !.v = m(r.v[4], Nil)])
        ELSE IF codec \notin Codecs \/ r.v[4] = Nil THEN Bad(r, "codec")
        ELSE IF ~Compressed(codec, r.v[4]) THEN Bad(r, "corrupt")
        ELSE LET inner == getSet(Decoder(Uncompress(r.v[4])), <<>>)
             IN  IF inner.err # "no" THEN Bad(r, inner.err)
                 ELSE [r EXCEPT !.v = m(Uncompress(r.v[4]), inner.v.msgs)]

get(rd, s) ==
    CASE s.f \in {"int", "const"} -> getInt(rd, s.w)
      [] s.f = "str" -> getString(rd)
      [] s.f = "bytes" -> getBytes(rd)
      [] s.f = "ints" -> getInts(rd, s.w)
      [] s.f = "struct" -> getAll(rd, s.xs)
      [] s.f = "array" ->
            LET r == getArrayLength(rd)
            IN  IF r.err # "no" THEN r ELSE getAll(r, [i \in 1 .. r.v |-> s.x])
      [] s.f = "set" -> getSet(rd, <<>>)
      [] s.f = "message" -> getMessage(rd)
      [] s.f = "length" ->
            LET p == push(rd, "length")
                r == IF p.err # "no" THEN p ELSE get(p, s.x)
            IN  IF r.err # "no" THEN r ELSE pop(r)
      [] s.f = "subset" ->
            LET r == getInt(rd, 4)
                sub == get(Decoder(Take(r, r.v)), s.x)
            IN  IF r.err # "no" THEN r
                ELSE IF r.v > remaining(r) THEN Insufficient(r)
                ELSE IF r.v < 0 THEN Panic(r)
                ELSE [Got(r, r.v, sub.v) EXCEPT !.err = sub.err]

-----------------------------------------------------------------------------

Init == sample \in Samples /\ wire = Nil /\ cut = FALSE /\ res = Nil

\* encode: count, check the size, write into a slice of the size counted.
Encode ==
    LET s == Format(sample[1]).enc
        n == prep(s, sample[2])
    IN  /\ wire = Nil /\ res = Nil
        /\ IF n < 0 \/ n > MaxRequestSize
           THEN res' = [err |-> "size", v |-> Nil, left |-> 0] /\ UNCHANGED wire
           ELSE wire' = put(s, sample[2]) /\ UNCHANGED res
        /\ UNCHANGED <<sample, cut>>

\* The broker sends only part of a message set; or less arrives.
Truncate(n) ==
    /\ wire # Nil /\ ~cut /\ res = Nil
    /\ wire' = SubSeq(wire, 1, n)
    /\ cut' = TRUE
    /\ UNCHANGED <<sample, res>>

\* decode: all of the bytes are read.
Decode ==
    LET rd == get(Decoder(wire), Format(sample[1]).dec)
    IN  /\ wire # Nil /\ res = Nil
        /\ res' = [err |-> IF rd.err = "no" /\ rd.off # Len(wire) THEN "length" ELSE rd.err,
                   v |-> rd.v, left |-> Len(rd.stack)]
        /\ UNCHANGED <<sample, wire, cut>>

Next == Encode \/ Decode \/ (wire # Nil /\ \E n \in 0 .. Len(wire) - 1 : Truncate(n))

Spec == Init /\ [][Next]_vars

-----------------------------------------------------------------------------

(***************************************************************************)
(* The two passes of encode (encoder_decoder.go) agree: what realEncoder   *)
(* writes fills exactly the slice prepEncoder measured, for every type.    *)
(***************************************************************************)
PassesAgree ==
    wire # Nil /\ ~cut => Len(wire) = prep(Format(sample[1]).enc, sample[2])

\* A message as decoding gives it: with the set it wraps, sizes of sets dropped.
RECURSIVE Seen(_, _)
Seen(s, v) ==
    CASE s.f = "const" -> s.v
      [] s.f = "array" -> [i \in 1 .. Len(v) |-> Seen(s.x, v[i])]
      [] s.f = "struct" -> [i \in 1 .. Len(v) |-> Seen(s.xs[i], v[i])]
      [] s.f \in {"length", "subset"} -> Seen(s.x, v)
      [] s.f = "set" -> [partial |-> FALSE,
                         msgs |-> [i \in 1 .. Len(v) |-> Seen(MessageBlock, v[i])]]
      [] s.f = "message" ->
            [codec |-> v.codec, key |-> v.key, value |-> v.value,
             set |-> IF v.codec = "none" THEN Nil ELSE getSet(Decoder(v.value), <<>>).v.msgs]
      [] OTHER -> v

(***************************************************************************)
(* What is decoded is what was encoded: encode and decode, written apart,  *)
(* agree on every field of every type, nil and empty included.             *)
(***************************************************************************)
RoundTrip ==
    wire # Nil /\ ~cut /\ res # Nil =>
        res.err = "no" /\ res.v = Seen(Format(sample[1]).enc, sample[2])

(***************************************************************************)
(* Truncated data is noticed: a response that was cut short is refused as  *)
(* insufficient; a message set that was cut (message_set.go: "the server   *)
(* is allowed to return a partial message at the end") yields the messages *)
(* that are whole, and says so unless it was cut between two.              *)
(***************************************************************************)
TruncationNoticed ==
    cut /\ res # Nil =>
        IF sample[1] # "set" THEN res.err = "insufficient"
        ELSE /\ res.err = "no"
             /\ LET n == Len(res.v.msgs)
                    whole == Len(put(MessageSet, SubSeq(sample[2], 1, n)))
                IN  /\ res.v.msgs = SubSeq(Seen(MessageSet, sample[2]).msgs, 1, n)
                    /\ whole <= Len(wire)
                    /\ res.v.partial <=> whole < Len(wire)
                    /\ Len(wire) < Len(put(MessageSet, SubSeq(sample[2], 1, n + 1)))
=============================================================================
