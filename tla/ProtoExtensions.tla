-------------------------- MODULE ProtoExtensions --------------------------
(***************************************************************************)
(* The extensions of a message (extensions.go): each is kept encoded until *)
(* it is asked for and decoded from then on, when the program may change   *)
(* what it was given; Marshal encodes it again.  With the message set wire *)
(* format (message_set.go), in which each extension is an item of its own. *)
(***************************************************************************)
EXTENDS ProtoCodec

CONSTANTS
    Descs,       \* the extension descriptors: properties
    Values(_),   \* the values of an extension
    MaxSteps

VARIABLES
    emap,   \* tag -> [desc, value, enc]
    want,   \* history: tag -> the value the program last gave it
    buf,    \* what was marshalled, Nil before
    inBuf,  \* history: want when it was
    set,    \* whether it was in the message set format
    got,    \* the last answer of GetExtension, Nil before and after a change
    steps

vars == <<emap, want, buf, inBuf, set, got, steps>>

With(m, k, v) == [x \in DOMAIN m \cup {k} |-> IF x = k THEN v ELSE m[x]]
Without(m, k) == [x \in DOMAIN m \ {k} |-> m[x]]
Empty == << >>
Tags == {d.tag : d \in Descs}
Extendable == [props |-> <<>>, order |-> <<>>, exts |-> Tags, self |-> FALSE, unrec |-> TRUE]

-----------------------------------------------------------------------------

encodeExtensionMap(m) ==
    [k \in DOMAIN m |-> IF m[k].value = Nil THEN m[k]
                        ELSE [m[k] EXCEPT !.enc = enc(m[k].desc, m[k].value).out]]

\* The first error an encoder of an extension returns; nothing is written then.
encodeError(m) == \E k \in DOMAIN m : m[k].value # Nil /\ enc(m[k].desc, m[k].value).err # "no"

sizeExtensionMap(m) ==
    FoldSet(LAMBDA k, n : n + (IF m[k].value = Nil THEN Len(m[k].enc) ELSE size(m[k].desc, m[k].value)),
            0, DOMAIN m)

\* Only a repeated extension is read to the end; packed values have no decoder
\* of their own here.
RECURSIVE decodeNext(_, _, _)
decodeNext(o, d, v) ==
    Read(DecodeVarint(o), Nil, LAMBDA u :
        Given(dec(u, d, v), LAMBDA r :
            IF r.err # "no" \/ ~IsRepeated(d) \/ r.i >= Len(r.buf) THEN r
            ELSE decodeNext(r, d, r.v)))
decodeExtension(b, d) == decodeNext(NewBuffer(b), d, Unset(d))

-----------------------------------------------------------------------------

Init ==
    /\ emap = Empty /\ want = Empty /\ buf = Nil /\ inBuf = Empty /\ set = FALSE
    /\ got = Nil /\ steps = 0

Count == steps < MaxSteps /\ steps' = steps + 1

SetExtension(d, v) ==
    /\ Count
    /\ emap' = With(emap, d.tag, [desc |-> d, value |-> v, enc |-> Nil])
    /\ want' = With(want, d.tag, v)
    /\ got' = Nil
    /\ UNCHANGED <<buf, inBuf, set>>

ClearExtension(d) ==
    /\ Count
    /\ emap' = Without(emap, d.tag)
    /\ want' = Without(want, d.tag)
    /\ got' = Nil
    /\ UNCHANGED <<buf, inBuf, set>>

\* e is the extension afterwards.
Answer(tag, v, err, e) ==
    /\ got' = [tag |-> tag, v |-> v, err |-> err]
    /\ emap' = [emap EXCEPT ![tag] = e]

\* The decoded version is remembered, the encoded one dropped.
AnswerDecoded(d, r) ==
    IF r.err # "no" THEN Answer(d.tag, Nil, r.err, emap[d.tag])
    ELSE Answer(d.tag, r.v, "no", [desc |-> d, value |-> r.v, enc |-> Nil])

GetExtension(d) ==
    /\ Count
    /\ IF d.tag \notin DOMAIN emap
       THEN got' = [tag |-> d.tag, v |-> Nil, err |-> "missing"] /\ UNCHANGED emap
       ELSE LET e == emap[d.tag] IN
            IF e.value = Nil THEN AnswerDecoded(d, decodeExtension(e.enc, d))
            ELSE IF e.desc = d THEN Answer(d.tag, e.value, "no", e)
            ELSE Answer(d.tag, Nil, "conflict", e)
    /\ UNCHANGED <<want, buf, inBuf, set>>

\* The program changes, in place, what GetExtension returned.
Mutate(d, v) ==
    /\ Count
    /\ d.tag \in DOMAIN emap /\ emap[d.tag].value # Nil /\ emap[d.tag].desc = d
    /\ d.type = "struct" \/ IsRepeated(d)
    /\ emap' = [emap EXCEPT ![d.tag].value = v]
    /\ want' = With(want, d.tag, v)
    /\ got' = Nil
    /\ UNCHANGED <<buf, inBuf, set>>

Marshalled(b, asSet) == buf' = b /\ inBuf' = want /\ set' = asSet

\* enc_map: the extensions in the order of their numbers.
MarshalExtensions ==
    /\ Count
    /\ ~encodeError(emap)
    /\ emap' = encodeExtensionMap(emap)
    /\ Marshalled(enc_map([k \in DOMAIN emap |-> emap'[k].enc]), FALSE)
    /\ UNCHANGED <<want, got>>

\* The part of unmarshalType that collects extensions, into m.
Collect(b, m) ==
    LET ext == Unmarshal(Extendable, b).v.ext
    IN  [k \in DOMAIN m \cup DOMAIN ext |->
            IF k \notin DOMAIN ext THEN m[k]
            ELSE IF k \notin DOMAIN m THEN [desc |-> Nil, value |-> Nil, enc |-> ext[k]]
            ELSE [m[k] EXCEPT !.enc = IF @ = Nil THEN ext[k] ELSE @ \o ext[k]]]

UnmarshalExtensions ==
    /\ Count /\ buf # Nil /\ ~set
    /\ emap' = Collect(buf, Empty)
    /\ want' = inBuf
    /\ got' = Nil
    /\ UNCHANGED <<buf, inBuf, set>>

-----------------------------------------------------------------------------
(* Message sets: every extension is a message. *)

Field(tag, label, wire, type) ==
    [tag |-> tag, label |-> label, wire |-> wire, type |-> type, sub |-> Nil, key |-> Nil,
     val |-> Nil, def |-> Nil]
Struct(props) == [props |-> props, order |-> GetProperties(props), exts |-> {}, self |-> FALSE,
                  unrec |-> FALSE]
Item == Struct(<<Field(2, "req", "varint", "int32"), Field(3, "req", "bytes", "bytes")>>)
MessageSet == [Struct(<<[Field(1, "rep", "group", "struct") EXCEPT !.sub = Item]>>) EXCEPT !.unrec = TRUE]

skipVarint(b) == LET n == DecodeVarint(NewBuffer(b)).i IN SubSeq(b, n + 1, Len(b))

MarshalMessageSet ==
    LET m == encodeExtensionMap(emap)
        ids == SortedKeys(m)
        item(id) == [Reset(Item) EXCEPT !.f = <<id, skipVarint(skipVarint(m[id].enc))>>]
        ms == [Reset(MessageSet) EXCEPT !.f = <<[i \in 1 .. Len(ids) |-> item(ids[i])]>>]
    IN  /\ Count
        /\ \A d \in Descs : d.type = "struct"
        /\ ~encodeError(emap)
        /\ emap' = m
        /\ Marshalled(Marshal(MessageSet, ms).out, TRUE)
        /\ UNCHANGED <<want, got>>

\* Another set follows: its items are more of the same messages.
AppendMessageSet ==
    /\ Count /\ buf # Nil /\ set /\ Len(buf) < 30
    /\ buf' = buf \o buf
    /\ inBuf' = [k \in DOMAIN inBuf |->
                    mergeAny(CHOOSE d \in Descs : d.tag = k, inBuf[k], inBuf[k])]
    /\ UNCHANGED <<emap, want, set, got>>

\* An item is joined with an earlier one for the same extension.
Joined(m, item) ==
    LET id == item.f[1]
        b == EncodeVarint(id * 8 + WireBytes)
        o == SubSeq(m[id].enc, Len(b) + 1, Len(m[id].enc))
        old == IF id \in DOMAIN m THEN skipVarint(o) ELSE <<>>
    IN  With(m, id, [desc |-> Nil, value |-> Nil, enc |-> b \o EncodeRawBytes(old \o item.f[2])])

UnmarshalMessageSet ==
    /\ Count /\ buf # Nil /\ set
    /\ LET ms == Unmarshal(MessageSet, buf)
       IN  emap' = FoldLeft(Joined, Empty, ms.v.f[1])
    /\ want' = inBuf
    /\ got' = Nil
    /\ UNCHANGED <<buf, inBuf, set>>

Next ==
    \/ \E d \in Descs : \/ \E v \in Values(d) : SetExtension(d, v) \/ Mutate(d, v)
                        \/ ClearExtension(d)
                        \/ GetExtension(d)
    \/ MarshalExtensions
    \/ UnmarshalExtensions
    \/ MarshalMessageSet
    \/ AppendMessageSet
    \/ UnmarshalMessageSet

Spec == Init /\ [][Next]_vars

-----------------------------------------------------------------------------

(***************************************************************************)
(* GetExtension "parses and returns the given extension of pb", and        *)
(* UnmarshalMerge "merges into existing data in pb" (decode.go): whatever  *)
(* was set, changed in place, marshalled and unmarshalled before, the      *)
(* answer is the value the program last gave the extension.                *)
(***************************************************************************)
GetSeesLast ==
    got # Nil /\ got.err # "conflict" =>
        IF got.tag \in DOMAIN want THEN got.err = "no" /\ got.v = want[got.tag]
        ELSE got.err = "missing"

(***************************************************************************)
(* Size counts what Marshal would write now ("the extension value may have *)
(* been mutated after the last time this function was called"), also after *)
(* an extension was decoded, changed or encoded before.                    *)
(***************************************************************************)
SizeIsCurrent ==
    ~encodeError(emap) =>
        sizeExtensionMap(emap) =
            Len(enc_map([k \in DOMAIN emap |-> encodeExtensionMap(emap)[k].enc]))
=============================================================================
