------------------------------- MODULE Hpack --------------------------------
(***************************************************************************)
(* Header compression (bradfitz/http2/hpack): the encoder of one end and   *)
(* the decoder of the other, each with its own dynamic table, joined by    *)
(* the bytes of the header blocks, which arrive in pieces cut anywhere (a  *)
(* HEADERS frame and its CONTINUATIONs).  Nothing but those bytes keeps    *)
(* the two tables in step.                                                 *)
(*                                                                         *)
(* Bytes are the code's, 0 .. 255.  The static table and the Huffman code  *)
(* are constants; the models use entries of the real ones.                 *)
(***************************************************************************)
EXTENDS Integers, Sequences, SequencesExt, FiniteSetsExt

CONSTANTS StaticTable,   \* sequence of fields
          Code,          \* huffmanCodes: the bits of each byte that is used
          Fields,        \* the fields written
          Sizes,         \* arguments of the table size calls
          initialHeaderTableSize,
          MaxFields, MaxCalls   \* bounds

VARIABLES encTable,         \* Encoder.dynTab
          minSize, maxSizeLimit, tableSizeUpdate,
          pipe,             \* bytes written and not yet given to the decoder
          decTable,         \* Decoder.dynTab
          saveBuf,          \* the start of a representation
          err,              \* what the last Write or Close returned
          written, emitted, \* fields given to WriteField, and to emit
          calls

vars == <<encTable, minSize, maxSizeLimit, tableSizeUpdate, pipe, decTable, saveBuf, err, written, emitted, calls>>

\* Larger than every table size.
uint32Max == 1000000

-----------------------------------------------------------------------------
(* Dynamic tables: the newest entry is the last                            *)

size(f) == Len(f.name) + Len(f.value) + 32

TableSize(ents) == FoldLeft(LAMBDA n, f : n + size(f), 0, ents)

\* Drop as many of the oldest entries as it takes.
evict(t) ==
  LET fits == {n \in 0 .. Len(t.ents) : TableSize(SubSeq(t.ents, n + 1, Len(t.ents))) <= t.maxSize}
      n == Min(fits)
  IN  [t EXCEPT !.ents = SubSeq(@, n + 1, Len(@))]

setMaxSize(t, v) == evict([t EXCEPT !.maxSize = v])

add(t, f) == evict([t EXCEPT !.ents = Append(@, [f EXCEPT !.sensitive = FALSE])])

NewTable == [ents |-> <<>>, maxSize |-> initialHeaderTableSize]

Init ==
  /\ encTable = NewTable
  /\ decTable = NewTable
  /\ minSize = uint32Max
  /\ maxSizeLimit = initialHeaderTableSize
  /\ tableSizeUpdate = FALSE
  /\ pipe = <<>>
  /\ saveBuf = <<>>
  /\ err = "nil"
  /\ written = <<>>
  /\ emitted = <<>>
  /\ calls = 0

-----------------------------------------------------------------------------
(* Huffman code                                                            *)

Bits(b) == [i \in 1 .. 8 |-> (b \div 2 ^ (8 - i)) % 2]

Byte(bits) == FoldLeft(LAMBDA n, x : 2 * n + x, 0, bits)

CodeBits(s) == FlattenSeq([i \in DOMAIN s |-> Code[s[i]]])

HuffmanEncodeLength(s) == (Len(CodeBits(s)) + 7) \div 8

\* The last byte is filled up with the first bits of EOS, which are ones.
AppendHuffmanString(s) ==
  LET bits == CodeBits(s)
      padded == bits \o [i \in 1 .. (8 - (Len(bits) % 8)) % 8 |-> 1]
  IN  [k \in 1 .. Len(padded) \div 8 |-> Byte(SubSeq(padded, 8 * k - 7, 8 * k))]

\* The decoder's tree branches on eight bits at a time.  A node is the bits
\* that lead to it; its child for eight more bits is the leaf of the symbol
\* whose remaining code they start with, or another node.  The tree is only
\* walked with what AppendHuffmanString made.
Leaf(node, eight) ==
  {s \in DOMAIN Code : /\ IsPrefix(node, Code[s])
                       /\ Len(Code[s]) - Len(node) \in 1 .. 8
                       /\ IsPrefix(SubSeq(Code[s], Len(node) + 1, Len(Code[s])), eight)}

RECURSIVE Walk(_, _, _)
\* bits is what is left of the input, node the place in the tree.
WalkOn(node, bits, out, leaf, eight) ==
  IF leaf # {} /\ \A s \in leaf : Len(Code[s]) - Len(node) <= Len(bits)
  THEN LET sym == CHOOSE s \in leaf : TRUE
       IN  Walk(<<>>, SubSeq(bits, Len(Code[sym]) - Len(node) + 1, Len(bits)), Append(out, sym))
  ELSE IF leaf = {} /\ Len(bits) >= 8
  THEN Walk(node \o eight, SubSeq(bits, 9, Len(bits)), out)
  ELSE out

Walk(node, bits, out) ==
  LET eight == [i \in 1 .. 8 |-> IF i <= Len(bits) THEN bits[i] ELSE 0]
  IN  IF bits = <<>> THEN out ELSE WalkOn(node, bits, out, Leaf(node, eight), eight)

HuffmanDecode(v) == Walk(<<>>, FlattenSeq([i \in DOMAIN v |-> Bits(v[i])]), <<>>)

-----------------------------------------------------------------------------
(* Integers and strings                                                    *)

RECURSIVE Groups(_)
\* Seven bits a byte, the lowest first, the high bit on all but the last.
Groups(i) == IF i < 128 THEN <<i>> ELSE <<128 + (i % 128)>> \o Groups(i \div 128)

\* type holds the bits above the prefix of n bits.
appendVarInt(n, i, type) ==
  IF i < 2 ^ n - 1 THEN <<type + i>> ELSE <<type + 2 ^ n - 1>> \o Groups(i - (2 ^ n - 1))

NeedMore == [err |-> "errNeedMore", v |-> 0, rest |-> <<>>]

DecodingError == [err |-> "DecodingError", v |-> 0, rest |-> <<>>]

\* The integer whose prefix is full and whose last byte is end.
LongVarInt(n, p, end) ==
  [err |-> "nil",
   v |-> 2 ^ n - 1 + FoldLeft(LAMBDA acc, b : 128 * acc + (b % 128), 0, Reverse(SubSeq(p, 2, end))),
   rest |-> SubSeq(p, end + 1, Len(p))]

readVarInt(n, p) ==
  IF p = <<>> THEN NeedMore
  ELSE IF p[1] % (2 ^ n) < 2 ^ n - 1 THEN [err |-> "nil", v |-> p[1] % (2 ^ n), rest |-> Tail(p)]
  ELSE IF \E j \in 10 .. Len(p) : \A i \in 2 .. j : p[i] >= 128 THEN DecodingError
  ELSE IF \A j \in 2 .. Len(p) : p[j] >= 128 THEN NeedMore
  ELSE LongVarInt(n, p, Min({j \in 2 .. Len(p) : p[j] < 128}))

\* What follows r, which was read: F, unless r is an error.
Read(r, F(_)) == IF r.err # "nil" THEN r ELSE F(r)

appendHpackString(s) ==
  IF HuffmanEncodeLength(s) < Len(s)
  THEN appendVarInt(7, HuffmanEncodeLength(s), 128) \o AppendHuffmanString(s)
  ELSE appendVarInt(7, Len(s), 0) \o s

readString(p) ==
  Read(readVarInt(7, p), LAMBDA length :
    IF Len(length.rest) < length.v THEN NeedMore
    ELSE LET raw == SubSeq(length.rest, 1, length.v)
         IN  [err |-> "nil", v |-> IF p[1] >= 128 THEN HuffmanDecode(raw) ELSE raw,
              rest |-> SubSeq(length.rest, length.v + 1, Len(length.rest))])

-----------------------------------------------------------------------------
(* The encoder                                                             *)

\* The first entry that matches name and value; else the first with the name.
Best(entries, f) ==
  LET named == {i \in DOMAIN entries : entries[i].name = f.name}
      same == {i \in named : ~f.sensitive /\ entries[i].value = f.value}
  IN  [i |-> IF same # {} THEN Min(same) ELSE IF named # {} THEN Min(named) ELSE 0, match |-> same # {}]

\* An index counts the static table, then the dynamic one from the newest.
searchTable(f) ==
  LET static == Best(StaticTable, f)
      dynamic == Best(Reverse(encTable.ents), f)
      useDynamic == ~static.match /\ (dynamic.match \/ (static.i = 0 /\ dynamic.i # 0))
  IN  IF useDynamic THEN [dynamic EXCEPT !.i = @ + Len(StaticTable)] ELSE static

shouldIndex(f) == ~f.sensitive /\ size(f) <= encTable.maxSize

encodeTypeByte(indexing, sensitive) == IF sensitive THEN 16 ELSE IF indexing THEN 64 ELSE 0

appendIndexed(i) == appendVarInt(7, i, 128)

appendNewName(f, indexing) ==
  <<encodeTypeByte(indexing, f.sensitive)>> \o appendHpackString(f.name) \o appendHpackString(f.value)

appendIndexedName(f, i, indexing) ==
  appendVarInt(IF indexing THEN 6 ELSE 4, i, encodeTypeByte(indexing, f.sensitive)) \o appendHpackString(f.value)

appendTableSize(v) == appendVarInt(5, v, 32)

WriteField(f) ==
  LET updates == IF ~tableSizeUpdate THEN <<>>
                 ELSE (IF minSize < encTable.maxSize THEN appendTableSize(minSize) ELSE <<>>)
                        \o appendTableSize(encTable.maxSize)
      found == searchTable(f)
      indexing == shouldIndex(f)
  IN  /\ Len(written) < MaxFields
      /\ tableSizeUpdate' = FALSE
      /\ minSize' = IF tableSizeUpdate THEN uint32Max ELSE minSize
      /\ encTable' = IF ~found.match /\ indexing THEN add(encTable, f) ELSE encTable
      /\ pipe' = pipe \o updates \o
           (IF found.match THEN appendIndexed(found.i)
            ELSE IF found.i = 0 THEN appendNewName(f, indexing)
            ELSE appendIndexedName(f, found.i, indexing))
      /\ written' = Append(written, f)
      /\ UNCHANGED <<maxSizeLimit, decTable, saveBuf, err, emitted, calls>>

SetMaxDynamicTableSize(v) ==
  LET w == IF v > maxSizeLimit THEN maxSizeLimit ELSE v
  IN  /\ calls < MaxCalls /\ calls' = calls + 1
      /\ minSize' = IF w < minSize THEN w ELSE minSize
      /\ tableSizeUpdate' = TRUE
      /\ encTable' = setMaxSize(encTable, w)
      /\ UNCHANGED <<maxSizeLimit, pipe, decTable, saveBuf, err, written, emitted>>

SetMaxDynamicTableSizeLimit(v) ==
  /\ calls < MaxCalls /\ calls' = calls + 1
  /\ maxSizeLimit' = v
  /\ tableSizeUpdate' = (tableSizeUpdate \/ encTable.maxSize > v)
  /\ encTable' = IF encTable.maxSize > v THEN setMaxSize(encTable, v) ELSE encTable
  /\ UNCHANGED <<minSize, pipe, decTable, saveBuf, err, written, emitted>>

-----------------------------------------------------------------------------
(* The decoder                                                             *)

\* Decoder.at; the static and then the dynamic table, newest first.
at(t, i) == IF i <= Len(StaticTable) THEN StaticTable[i] ELSE t.ents[Len(t.ents) - (i - Len(StaticTable)) + 1]

maxTableIndex(t) == Len(t.ents) + Len(StaticTable)

\* Each parser maps d, the table, the unparsed bytes and the fields emitted
\* so far, to the same after one representation, or sets err and consumes
\* nothing.
Stop(d, e) == [d EXCEPT !.err = e]
After(d, r, F(_)) == IF r.err # "nil" THEN Stop(d, r.err) ELSE F(r)

parseFieldIndexed(d) ==
  After(d, readVarInt(7, d.buf), LAMBDA idx :
    IF idx.v \notin 1 .. maxTableIndex(d.table) THEN Stop(d, "DecodingError")
    ELSE [d EXCEPT !.buf = idx.rest,
                   !.out = Append(@, [at(d.table, idx.v) EXCEPT !.sensitive = FALSE])])

Emit(d, f, indexed, rest) ==
  [d EXCEPT !.buf = rest, !.out = Append(@, f), !.table = IF indexed THEN add(@, f) ELSE @]

parseFieldLiteral(d, n, indexed, sensitive) ==
  After(d, readVarInt(n, d.buf), LAMBDA idx :
    IF idx.v > maxTableIndex(d.table) THEN Stop(d, "DecodingError")
    ELSE After(d, IF idx.v = 0 THEN readString(idx.rest)
                  ELSE [err |-> "nil", v |-> at(d.table, idx.v).name, rest |-> idx.rest],
           LAMBDA name : After(d, readString(name.rest), LAMBDA value :
             Emit(d, [name |-> name.v, value |-> value.v, sensitive |-> sensitive], indexed, value.rest))))

parseDynamicTableSizeUpdate(d) ==
  After(d, readVarInt(5, d.buf), LAMBDA s :
    IF s.v > initialHeaderTableSize THEN Stop(d, "DecodingError")
    ELSE [d EXCEPT !.buf = s.rest, !.table = setMaxSize(@, s.v)])

parseHeaderFieldRepr(d) ==
  LET b == d.buf[1]
  IN  CASE b >= 128           -> parseFieldIndexed(d)
        [] b >= 32 /\ b < 64  -> parseDynamicTableSizeUpdate(d)
        [] OTHER              -> parseFieldLiteral(d, IF b >= 64 THEN 6 ELSE 4, b >= 64, b >= 16 /\ b < 32)

RECURSIVE ParseAll(_)
\* The loop of Decoder.Write.
ParseAll(d) == IF d.buf = <<>> \/ d.err # "nil" THEN d ELSE ParseAll(parseHeaderFieldRepr(d))

\* What Write keeps for the next call.
Saved(d) == IF d.err = "errNeedMore" THEN d.buf ELSE <<>>

\* Decoder.Write leaves d, after the bytes up to k.
Wrote(d, k) ==
  /\ pipe' = SubSeq(pipe, k + 1, Len(pipe))
  /\ decTable' = d.table
  /\ emitted' = d.out
  /\ saveBuf' = Saved(d)
  /\ err' = IF d.err = "errNeedMore" THEN "nil" ELSE d.err

\* Decoder.Write of the next k bytes.
DecoderWrite(k) ==
  /\ err = "nil"
  /\ Wrote(ParseAll([table |-> decTable, buf |-> saveBuf \o SubSeq(pipe, 1, k), out |-> emitted, err |-> "nil"]), k)
  /\ UNCHANGED <<encTable, minSize, maxSizeLimit, tableSizeUpdate, written, calls>>

\* The end of a header block, whose bytes have all been given to Write.
DecoderClose ==
  /\ err = "nil" /\ pipe = <<>> /\ written # <<>>
  /\ saveBuf' = <<>>
  /\ err' = IF saveBuf # <<>> THEN "truncated headers" ELSE "nil"
  /\ UNCHANGED <<encTable, minSize, maxSizeLimit, tableSizeUpdate, pipe, decTable, written, emitted, calls>>

Next ==
  \/ \E f \in Fields : WriteField(f)
  \/ \E v \in Sizes : SetMaxDynamicTableSize(v) \/ SetMaxDynamicTableSizeLimit(v)
  \/ \E k \in 1 .. Len(pipe) : DecoderWrite(k)
  \/ DecoderClose

Spec == Init /\ [][Next]_vars

-----------------------------------------------------------------------------
(* Properties                                                              *)

\* The decoder emits exactly the fields that were written, in order and with
\* their sensitivity, and never fails, however the bytes are cut, whatever is
\* evicted, and however often the table size changes between two fields
\* (hpack.go:224, encode.go:50).
FieldsArrive ==
  /\ err = "nil"
  /\ IsPrefix(emitted, written)
  /\ pipe = <<>> => emitted = written /\ saveBuf = <<>>

Settled == pipe = <<>> /\ ~tableSizeUpdate

\* When no bytes and no size update are on their way, the encoder's table is
\* the newest part of the decoder's and both have the same limit, so that
\* every index the encoder can use next means the same at both ends.
TablesAgree ==
  /\ Settled => IsSuffix(encTable.ents, decTable.ents) /\ encTable.maxSize = decTable.maxSize
  /\ TableSize(encTable.ents) <= encTable.maxSize /\ TableSize(decTable.ents) <= decTable.maxSize
=============================================================================
