----------------------------- MODULE ProtoCodec -----------------------------
(***************************************************************************)
(* The wire format of protocol buffers as package proto implements it by   *)
(* hand-written encoders, sizers and decoders, one set per kind of field   *)
(* (encode.go, decode.go, properties.go), with Merge (clone.go), Equal     *)
(* (equal.go) and SetDefaults (lib.go).                                    *)
(*                                                                         *)
(* A property of a struct is [tag, label, wire, type, sub, key, val, def]: *)
(* its label is opt, req, rep, packed or proto3, wire and type select its  *)
(* coders.  A type is [props, order, exts, self, unrec]: exts are the tags *)
(* of its extension range, self holds when the type marshals itself and    *)
(* unrec when it has an XXX_unrecognized.  A message is [f, ext, unrec]:   *)
(* its fields, its undecoded extensions and its unrecognized bytes.        *)
(*                                                                         *)
(* Words are narrower than in the code, in the same proportions: a byte    *)
(* carries Group bits of a varint and one bit more, not seven and eight.   *)
(***************************************************************************)
EXTENDS Integers, Sequences, SequencesExt, FiniteSetsExt

CONSTANTS
    Group,    \* the bits of a varint in a byte: 7 in the code
    Half,     \* the bits of an int32
    Full,     \* the bits of an int64
    ReqBits,  \* the bits of the bitmap of required fields: 64 in the code
    Reserved, \* the bytes reserved for a length: 4 in the code
    Nil

ASSUME ProtoAssumption ==
    /\ {Group, Half, Full, ReqBits, Reserved} \subseteq Nat \ {0}
    /\ Half < Full

WireVarint == 0
WireFixed64 == 1
WireBytes == 2
WireStartGroup == 3
WireEndGroup == 4
WireFixed32 == 5

Byte == 2 ^ (Group + 1)
Cont == 2 ^ Group
maxVarintBytes == (Full + Group - 1) \div Group
Fixed32 == (Half + Group) \div (Group + 1)
Fixed64 == (Full + Group) \div (Group + 1)
Signed(n, bits) == LET u == n % 2 ^ bits IN IF u >= 2 ^ (bits - 1) THEN u - 2 ^ bits ELSE u

-----------------------------------------------------------------------------
(* Integers on the wire. *)

sizeVarint(x) == Min({n \in 1 .. maxVarintBytes : x < 2 ^ (Group * n)})

EncodeVarint(x) ==
    LET n == sizeVarint(x)
    IN  [k \in 1 .. n |-> ((x \div 2 ^ (Group * (k - 1))) % Cont) + IF k < n THEN Cont ELSE 0]

EncodeFixed(x, n) == [k \in 1 .. n |-> (x \div Byte ^ (k - 1)) % Byte]

\* (x << 1) ^ (x >> bits - 1), with an arithmetic shift.
Zigzag(x, bits) == LET s == (2 * x) % 2 ^ bits
                   IN  IF Signed(x, bits) < 0 THEN 2 ^ bits - 1 - s ELSE s
Unzigzag(x, bits) == LET s == (x % 2 ^ bits) \div 2
                     IN  IF x % 2 = 1 THEN 2 ^ bits - 1 - s ELSE s

EncodeRawBytes(b) == EncodeVarint(Len(b)) \o b
sizeRawBytes(b) == sizeVarint(Len(b)) + Len(b)

\* uint64(x): an int32 is sign-extended.
Word(p, v) == IF p.type = "bool" THEN (IF v THEN 1 ELSE 0) ELSE v % 2 ^ Full

valEnc(p, v) ==
    LET x == Word(p, v)
    IN  CASE p.wire = "varint" -> EncodeVarint(x)
          [] p.wire = "zigzag32" -> EncodeVarint(Zigzag(x, Half))
          [] p.wire = "zigzag64" -> EncodeVarint(Zigzag(x, Full))
          [] p.wire = "fixed32" -> EncodeFixed(x, Fixed32)
          [] p.wire = "fixed64" -> EncodeFixed(x, Fixed64)

valSize(p, v) ==
    LET x == Word(p, v)
    IN  CASE p.type = "bool" -> 1
          [] p.wire = "varint" -> sizeVarint(x)
          [] p.wire = "zigzag32" -> sizeVarint(Zigzag(x, Half))
          [] p.wire = "zigzag64" -> sizeVarint(Zigzag(x, Full))
          [] p.wire = "fixed32" -> Fixed32
          [] p.wire = "fixed64" -> Fixed64

\* A Buffer that is read: its bytes, its index, an error and what was read last.
NewBuffer(b) == [buf |-> b, i |-> 0, err |-> "no", v |-> Nil]
Fail(o, e) == [o EXCEPT !.err = e]

\* What is made of o once it was read; after an error only what was there, kept.
Read(o, kept, F(_)) == IF o.err # "no" THEN [o EXCEPT !.v = kept] ELSE F(o)
Given(x, F(_)) == F(x)

\* The varint that ends with the first of ends.
VarintTo(o, ends) ==
    IF ends = {} THEN Fail(o, IF Len(o.buf) - o.i < maxVarintBytes THEN "EOF" ELSE "overflow")
    ELSE [o EXCEPT !.i = @ + Min(ends),
                   !.v = FoldSet(LAMBDA k, n : n + (o.buf[o.i + k] % Cont) * 2 ^ (Group * (k - 1)),
                                 0, 1 .. Min(ends)) % 2 ^ Full]

DecodeVarint(o) ==
    VarintTo(o, {k \in 1 .. maxVarintBytes : o.i + k <= Len(o.buf) /\ o.buf[o.i + k] < Cont})

DecodeFixed(o, n) ==
    IF o.i + n > Len(o.buf) THEN Fail(o, "EOF")
    ELSE [o EXCEPT !.i = @ + n,
                   !.v = FoldSet(LAMBDA k, x : x + o.buf[o.i + k] * Byte ^ (k - 1), 0, 1 .. n)]

\* The conversion to the field's own type.
Narrowed(p, x) == CASE p.type = "bool" -> x # 0
                    [] p.type = "int32" -> Signed(x, Half)
                    [] p.type = "uint32" -> x % 2 ^ Half
                    [] p.type = "int64" -> Signed(x, Full)
                    [] p.type = "uint64" -> x

valDec(o, p) ==
    Read(CASE p.wire = "fixed32" -> DecodeFixed(o, Fixed32)
           [] p.wire = "fixed64" -> DecodeFixed(o, Fixed64)
           [] OTHER -> DecodeVarint(o),
         Nil,
         LAMBDA r : [r EXCEPT !.v = Narrowed(p, CASE p.wire = "zigzag32" -> Unzigzag(@, Half)
                                                  [] p.wire = "zigzag64" -> Unzigzag(@, Full)
                                                  [] OTHER -> @)])

DecodeRawBytes(o) ==
    Read(DecodeVarint(o), Nil,
         LAMBDA r : IF Signed(r.v, Full) < 0 THEN Fail(r, "length")
                    ELSE IF r.i + r.v > Len(r.buf) THEN Fail(r, "EOF")
                    ELSE [r EXCEPT !.i = @ + r.v, !.v = SubSeq(r.buf, r.i + 1, r.i + r.v)])

-----------------------------------------------------------------------------
(* Properties *)

Numeric(p) == p.type \in {"bool", "int32", "uint32", "int64", "uint64"}
IsRepeated(p) == p.label \in {"rep", "packed"}
WireType(p) == CASE p.wire \in {"varint", "zigzag32", "zigzag64"} -> WireVarint
                 [] p.wire = "fixed32" -> WireFixed32
                 [] p.wire = "fixed64" -> WireFixed64
                 [] p.wire \in {"bytes", "group"} -> WireBytes
Key(p, wire) == EncodeVarint(p.tag * 8 + wire)
tagcode(p) == Key(p, IF p.label = "packed" THEN WireBytes ELSE WireType(p))

\* The fields in the order of their tags.
GetProperties(props) == [i \in 1 .. Len(props) |->
    CHOOSE k \in 1 .. Len(props) :
        Cardinality({j \in 1 .. Len(props) : props[j].tag < props[k].tag}) = i - 1]

Zero(p) == CASE p.type = "bool" -> FALSE [] Numeric(p) -> 0 [] p.type = "bytes" -> <<>>
             [] OTHER -> Nil
Unset(p) == CASE p.type = "map" -> << >>
              [] IsRepeated(p) -> <<>>
              [] p.label = "proto3" -> Zero(p)
              [] OTHER -> Nil
Reset(t) == [f |-> [i \in 1 .. Len(t.props) |-> Unset(t.props[i])], ext |-> << >>, unrec |-> <<>>]

-----------------------------------------------------------------------------
(* Encoding.  An encoder gives [out, err]: the bytes it has appended to the *)
(* Buffer and its error: no, nil (ErrNil), required or repeatedNil.         *)

Put(b) == [out |-> b, err |-> "no"]
ErrNil == [out |-> <<>>, err |-> "nil"]
shouldContinue(err) == err \in {"no", "required"}

\* One encoder after the other, up to an error it cannot continue with.
Both(a, b) == IF ~shouldContinue(a.err) THEN a
              ELSE [out |-> a.out \o b.out,
                    err |-> IF a.err = "required" /\ shouldContinue(b.err) THEN a.err ELSE b.err]
AllOf(encs) == FoldLeft(Both, Put(<<>>), encs)
Behind(b, e) == [e EXCEPT !.out = b \o @]

\* The length ends up in front; an error leaves the space reserved for it.
enc_len_thing(e) ==
    IF shouldContinue(e.err) THEN Behind(EncodeVarint(Len(e.out)), e)
    ELSE Behind([k \in 1 .. Reserved |-> 0], e)

SortedKeys(m) == SetToSortSeq(DOMAIN m, LAMBDA a, b : a < b)
enc_map(ext) == FlattenSeq([k \in 1 .. Cardinality(DOMAIN ext) |-> ext[SortedKeys(ext)[k]]])

RECURSIVE enc_struct(_, _), enc(_, _)

\* A value behind its tag.  The required error of one message that marshals
\* itself is dropped.
enc_one(p, v) ==
    CASE Numeric(p) -> Put(tagcode(p) \o valEnc(p, v))
      [] p.type = "bytes" -> Put(tagcode(p) \o EncodeRawBytes(v))
      [] p.type = "struct" /\ p.wire = "group" ->
            LET e == Behind(Key(p, WireStartGroup), enc_struct(p.sub, v))
            IN  Both(e, IF shouldContinue(e.err) THEN Put(Key(p, WireEndGroup)) ELSE Put(<<>>))
      [] p.type = "struct" /\ p.wire = "bytes" ->
            LET e == enc_len_thing(enc_struct(p.sub, v))
            IN  IF ~p.sub.self THEN Behind(tagcode(p), e)
                ELSE IF ~shouldContinue(e.err) THEN [out |-> <<>>, err |-> e.err]
                ELSE [out |-> tagcode(p) \o e.out, err |-> IF IsRepeated(p) THEN e.err ELSE "no"]

\* The bytes an entry has appended stay when its value is nil.
enc_new_map(p, v) ==
    LET entry(k) == Behind(tagcode(p), enc_len_thing(Both(enc(p.key, k), enc(p.val, v[k]))))
        step(a, k) == IF a.err # "no" THEN a ELSE Both(a, entry(k))
    IN  FoldLeft(step, Put(<<>>), SortedKeys(v))

enc_packed(p, v) ==
    LET b == FlattenSeq([i \in 1 .. Len(v) |-> valEnc(p, v[i])])
    IN  Put(tagcode(p) \o EncodeVarint(Len(b)) \o b)

\* A repeated field has no nil element.
enc_slice(p, v) ==
    AllOf([i \in 1 .. Len(v) |-> IF v[i] = Nil THEN [out |-> <<>>, err |-> "repeatedNil"]
                                 ELSE enc_one(p, v[i])])

enc(p, v) ==
    CASE p.type = "map" -> enc_new_map(p, v)
      [] p.type # "map" /\ IsRepeated(p) ->
            IF Len(v) = 0 THEN ErrNil ELSE IF p.label = "packed" THEN enc_packed(p, v) ELSE enc_slice(p, v)
      [] p.label = "proto3" -> IF v = Zero(p) THEN ErrNil ELSE enc_one(p, v)
      [] p.label \in {"opt", "req"} -> IF v = Nil THEN ErrNil ELSE enc_one(p, v)

\* An unset field is an error only when it is required.
enc_field(p, v) == LET e == enc(p, v)
                   IN  IF e.err # "nil" THEN e
                       ELSE [e EXCEPT !.err = IF p.label = "req" THEN "required" ELSE "no"]

\* Extensions have no tag and come first, unrecognized fields last.
enc_struct(t, m) ==
    Both(Both(Put(enc_map(m.ext)),
              AllOf([i \in 1 .. Len(t.props) |->
                        LET k == t.order[i] IN enc_field(t.props[k], m.f[k])])),
         Put(m.unrec))

Marshal(t, m) == LET e == enc_struct(t, m)
                 IN  IF shouldContinue(e.err) THEN e ELSE [out |-> Nil, err |-> e.err]

-----------------------------------------------------------------------------
(* Size *)

RECURSIVE size_struct(_, _), size(_, _)

size_one(p, v) ==
    CASE Numeric(p) -> Len(tagcode(p)) + valSize(p, v)
      [] p.type = "bytes" -> Len(tagcode(p)) + sizeRawBytes(v)
      [] p.type = "struct" /\ p.wire = "group" ->
            2 * sizeVarint(p.tag * 8 + WireStartGroup) + size_struct(p.sub, v)
      [] p.type = "struct" /\ p.wire = "bytes" ->
            LET n == size_struct(p.sub, v)
                twice == IF p.sub.self /\ IsRepeated(p) THEN 2 ELSE 1
            IN  twice * Len(tagcode(p)) + sizeVarint(n) + n

\* "Tag codes are two bytes per map entry."
size_new_map(p, v) ==
    FoldSet(LAMBDA k, n : n + 2 + size(p.key, k) + size(p.val, v[k]), 0, DOMAIN v)

size_packed(p, v) ==
    LET n == FoldLeft(LAMBDA s, x : s + valSize(p, x), 0, v)
    IN  IF Len(v) = 0 THEN 0 ELSE Len(tagcode(p)) + sizeVarint(n) + n

size_slice(p, v) == FoldLeft(LAMBDA s, x : s + size_one(p, x), 0, v)

size(p, v) ==
    CASE p.type = "map" -> size_new_map(p, v)
      [] p.type # "map" /\ p.label = "packed" -> size_packed(p, v)
      [] p.type # "map" /\ p.label = "rep" -> size_slice(p, v)
      [] p.label = "proto3" -> IF v = Zero(p) THEN 0 ELSE size_one(p, v)
      [] p.label \in {"opt", "req"} -> IF v = Nil THEN 0 ELSE size_one(p, v)

size_struct(t, m) ==
    Len(enc_map(m.ext)) + Len(m.unrec)
        + FoldFunction(LAMBDA a, b : a + b, 0, [i \in 1 .. Len(t.props) |-> size(t.props[i], m.f[i])])

-----------------------------------------------------------------------------
(* Decoding into the message o.v.  An error keeps what was decoded before. *)

RECURSIVE skip(_, _), skipGroup(_), unmarshalType(_, _, _, _), unmarshalNext(_, _, _, _)

skip(o, wire) ==
    CASE wire = WireVarint -> DecodeVarint(o)
      [] wire = WireFixed64 -> DecodeFixed(o, Fixed64)
      [] wire = WireBytes -> DecodeRawBytes(o)
      [] wire = WireFixed32 -> DecodeFixed(o, Fixed32)
      [] wire = WireStartGroup -> skipGroup(o)
      [] OTHER -> Fail(o, "wire type")

\* Any end of a group ends it.
skipGroup(o) ==
    Read(DecodeVarint(o), Nil,
         LAMBDA u : IF u.v % 8 = WireEndGroup THEN u
                    ELSE Read(skip(u, u.v % 8), Nil, LAMBDA s : skipGroup(s)))

\* A nested message: read in a buffer of its own, or up to the end of its group.
dec_struct(o, p, old) ==
    Given(IF old = Nil \/ p.sub.self THEN Reset(p.sub) ELSE old, LAMBDA into :
        IF p.wire = "group" THEN unmarshalType(o, p.sub, TRUE, into)
        ELSE Read(DecodeRawBytes(o), IF IsRepeated(p) THEN into ELSE old,
                  LAMBDA r : Given(unmarshalType(NewBuffer(r.v), p.sub, FALSE, into),
                                   LAMBDA n : [r EXCEPT !.err = n.err, !.v = n.v])))

dec_one(o, p, old) ==
    CASE Numeric(p) -> valDec(o, p)
      [] p.type = "bytes" -> DecodeRawBytes(o)
      [] p.type = "struct" -> dec_struct(o, p, old)

RECURSIVE dec_entry(_, _, _, _), dec_packed(_, _, _, _)

\* An entry: the key and the value in any order, the last of each counting.
dec_entry(o, end, p, kv) ==
    IF o.i >= end THEN [o EXCEPT !.v = kv]
    ELSE Given({j \in {1, 2} : o.buf[o.i + 1] = tagcode(<<p.key, p.val>>[j])[1]}, LAMBDA is :
        IF is = {} THEN Fail(o, "map tag")
        ELSE Read(dec_one([o EXCEPT !.i = @ + 1], <<p.key, p.val>>[Min(is)], kv[Min(is)]), Nil,
                  LAMBDA r : dec_entry(r, end, p, [kv EXCEPT ![Min(is)] = r.v])))

\* A mutant: an entry does not replace the one its key has.
BugInto_map(m, p, k, v) == [x \in DOMAIN m \cup {k} |-> IF x \in DOMAIN m THEN m[x] ELSE v]

\* An entry without a value removes its key.
into_map(m, p, k, v) ==
    [x \in (DOMAIN m \cup {k}) \ (IF v = Nil /\ Numeric(p.val) THEN {k} ELSE {}) |->
        IF x = k THEN v ELSE m[x]]

dec_new_map(o, p, old) ==
    Read(DecodeRawBytes(o), old, LAMBDA r :
        Read(dec_entry([r EXCEPT !.i = @ - Len(r.v)], r.i, p, <<Nil, Nil>>), old, LAMBDA e :
            IF e.v[1] = Nil THEN [Fail(e, "panic") EXCEPT !.v = old]
            ELSE [e EXCEPT !.v = into_map(old, p, e.v[1], e.v[2])]))

\* nb bools, or integers up to fin.
dec_packed(o, p, n, vs) ==
    IF ~(IF p.type = "bool" THEN n > 0 ELSE o.i < n) THEN [o EXCEPT !.v = vs]
    ELSE Read(valDec(o, p), vs, LAMBDA r :
                  dec_packed(r, p, IF p.type = "bool" THEN n - 1 ELSE n, Append(vs, r.v)))

dec_slice_packed(o, p, old) ==
    Read(DecodeVarint(o), old, LAMBDA n :
        IF Signed(n.v, Full) < 0 THEN [Fail(n, "overflow") EXCEPT !.v = old]
        ELSE dec_packed(n, p, IF p.type = "bool" THEN n.v ELSE n.i + n.v, old))

\* The decoder of a field whose wire type is the one expected.
dec(o, p, old) ==
    IF p.type = "map" THEN dec_new_map(o, p, old)
    ELSE Given(dec_one(o, p, IF IsRepeated(p) THEN Nil ELSE old), LAMBDA r :
        IF r.err # "no" /\ p.type # "struct" THEN [r EXCEPT !.v = old]
        ELSE IF IsRepeated(p) THEN [r EXCEPT !.v = Append(old, @)] ELSE r)

\* The bitmap says the required field was there before.
Reused(p, seen) == p.tag <= ReqBits /\ p.tag \in seen

\* Loop of unmarshalType; a is what it has: the message m, the number of
\* required fields left, the tags its bitmap holds and the error it remembers.
\* u is o after the tag.
Ended(o, group, a) ==
    [o EXCEPT !.v = a.m,
              !.err = CASE group -> "EOF"
                        [] ~group /\ a.err # "no" -> a.err
                        [] ~group /\ a.err = "no" /\ a.required > 0 -> "required"
                        [] OTHER -> "no"]

\* Bytes that are skipped are kept: as an extension, or unrecognized.
WithUnknown(t, a, tag, behindTag, whole) ==
    IF tag \in t.exts
    THEN [a EXCEPT !.m.ext = [k \in DOMAIN @ \cup {tag} |->
              (IF k \in DOMAIN @ THEN @[k] ELSE <<>>) \o IF k = tag THEN whole ELSE <<>>]]
    ELSE [a EXCEPT !.m.unrec = IF t.unrec THEN @ \o behindTag ELSE @]

unknownField(o, u, t, group, a) ==
    Read(skip(u, u.v % 8), a.m, LAMBDA s :
        unmarshalNext(s, t, group,
                      WithUnknown(t, a, u.v \div 8, EncodeVarint(u.v) \o SubSeq(o.buf, u.i + 1, s.i),
                                  SubSeq(o.buf, o.i + 1, s.i))))

WithField(a, p, fi, d) ==
    [m |-> [a.m EXCEPT !.f[fi] = d.v],
     required |-> IF p.label = "req" /\ ~Reused(p, a.seen) THEN a.required - 1 ELSE a.required,
     seen |-> IF p.label = "req" THEN a.seen \cup {p.tag} ELSE a.seen,
     err |-> IF a.err = "no" THEN d.err ELSE a.err]

\* A number that is repeated may come packed though it is declared otherwise.
knownField(u, t, group, a, fi, p) ==
    Given(CASE u.v % 8 \in {WireStartGroup, WireType(p)} -> dec(u, p, a.m.f[fi])
            [] u.v % 8 \notin {WireStartGroup, WireType(p)} /\ u.v % 8 = WireBytes
                    /\ IsRepeated(p) /\ Numeric(p) -> dec_slice_packed(u, p, a.m.f[fi])
            [] OTHER -> [Fail(u, "wire type") EXCEPT !.v = a.m.f[fi]],
          LAMBDA d : IF shouldContinue(d.err)
                     THEN unmarshalNext([d EXCEPT !.err = "no"], t, group, WithField(a, p, fi, d))
                     ELSE [d EXCEPT !.v = WithField(a, p, fi, d).m])

unmarshalNext(o, t, group, a) ==
    IF o.i >= Len(o.buf) THEN Ended(o, group, a)
    ELSE Read(DecodeVarint(o), a.m, LAMBDA u :
        Given({k \in 1 .. Len(t.props) : t.props[k].tag = u.v \div 8}, LAMBDA fields :
            CASE u.v % 8 = WireEndGroup -> [u EXCEPT !.v = a.m, !.err = IF group THEN "no" ELSE "end group"]
              [] u.v % 8 # WireEndGroup /\ u.v \div 8 = 0 -> [u EXCEPT !.v = a.m, !.err = "tag"]
              [] OTHER -> IF fields = {} THEN unknownField(o, u, t, group, a)
                          ELSE knownField(u, t, group, a, Min(fields), t.props[Min(fields)])))

unmarshalType(o, t, group, m) ==
    unmarshalNext(o, t, group,
                  [m |-> m, seen |-> {}, err |-> "no",
                   required |-> Cardinality({k \in 1 .. Len(t.props) : t.props[k].label = "req"})])

UnmarshalMerge(t, b, m) == Given(unmarshalType(NewBuffer(b), t, FALSE, m),
                                 LAMBDA o : [v |-> o.v, err |-> o.err])
Unmarshal(t, b) == UnmarshalMerge(t, b, Reset(t))

-----------------------------------------------------------------------------
(* Merge, Equal and SetDefaults *)

RECURSIVE mergeStruct(_, _, _), mergeAny(_, _, _), equalStruct(_, _, _), setDefaults(_, _)

mergeAny(p, out, in) ==
    CASE p.type = "map" -> [k \in DOMAIN out \cup DOMAIN in |->
            IF k \notin DOMAIN in THEN out[k]
            ELSE IF p.val.type # "struct" THEN in[k]
            ELSE IF in[k] = Nil THEN Reset(p.val.sub)
            ELSE mergeStruct(p.val.sub, Reset(p.val.sub), in[k])]
      [] p.type # "map" /\ IsRepeated(p) ->
            out \o [i \in 1 .. Len(in) |->
                       IF p.type # "struct" \/ in[i] = Nil THEN in[i]
                       ELSE mergeStruct(p.sub, Reset(p.sub), in[i])]
      [] p.label = "proto3" /\ p.type # "struct" -> in
      [] OTHER -> IF in = Nil THEN out
                  ELSE IF p.type # "struct" THEN in
                  ELSE mergeStruct(p.sub, IF out = Nil THEN Reset(p.sub) ELSE out, in)

mergeExtension(out, in) ==
    [k \in DOMAIN out \cup DOMAIN in |-> IF k \in DOMAIN in THEN in[k] ELSE out[k]]

mergeStruct(t, out, in) ==
    [f |-> [i \in 1 .. Len(t.props) |-> mergeAny(t.props[i], out.f[i], in.f[i])],
     ext |-> mergeExtension(out.ext, in.ext),
     unrec |-> IF in.unrec # <<>> THEN in.unrec ELSE out.unrec]

Merge(t, dst, src) == IF src = Nil THEN dst ELSE mergeStruct(t, dst, src)

equalAny(p, a, b) ==
    CASE p.type # "struct" /\ p.type # "map" -> a = b
      [] p.type = "map" ->
            /\ DOMAIN a = DOMAIN b
            /\ \A k \in DOMAIN a : IF p.val.type = "struct" THEN equalStruct(p.val.sub, a[k], b[k])
                                   ELSE a[k] = b[k]
      [] p.type = "struct" /\ IsRepeated(p) ->
            Len(a) = Len(b) /\ \A i \in 1 .. Len(a) : equalStruct(p.sub, a[i], b[i])
      [] OTHER -> IF a = Nil \/ b = Nil THEN a = b ELSE equalStruct(p.sub, a, b)

equalStruct(t, a, b) ==
    /\ \A i \in 1 .. Len(t.props) : equalAny(t.props[i], a.f[i], b.f[i])
    /\ a.ext = b.ext
    /\ a.unrec = b.unrec

\* Only fields with a declared default are set, in nested messages too.
setDefaults(t, m) ==
    LET nested(p, v) == IF v = Nil THEN Nil ELSE setDefaults(p.sub, v)
        field(p, v) ==
            CASE p.type = "struct" -> IF IsRepeated(p) THEN [i \in 1 .. Len(v) |-> nested(p, v[i])]
                                      ELSE nested(p, v)
              [] p.type # "struct" -> IF v = Nil /\ p.def # Nil THEN p.def ELSE v
    IN  [m EXCEPT !.f = [i \in 1 .. Len(t.props) |-> field(t.props[i], m.f[i])]]
=============================================================================
