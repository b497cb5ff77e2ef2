------------------------------- MODULE Framer -------------------------------
(***************************************************************************)
(* The HTTP/2 framer of bradfitz/http2 (frame.go), the part of that        *)
(* package the gRPC transport runs on: a writer that assembles each frame  *)
(* in wbuf and hands it to the connection in one Write, and a reader that  *)
(* parses frames whose byte fields are views of a read buffer it reuses.   *)
(*                                                                         *)
(* A byte is a digit in 0 .. B - 1 and a uint32 four of them, so B = 256   *)
(* is the code's; the models take a small even B, which keeps the reserved *)
(* high bit (2^31 is B^4 / 2) and the 24 bits of a length (B^3 - 1).  The  *)
(* flags and the type of a frame are cells with their real values.         *)
(***************************************************************************)
EXTENDS Integers, Sequences, SequencesExt, TLC

CONSTANTS B,              \* the values of a byte
          AllowIllegal,   \* Framer.AllowIllegalWrites
          StreamIDs,      \* arguments of the calls
          Payloads, Pads, Words, Priorities, SettingLists, RawTypes, RawFlags,
          ReadSizes,      \* arguments of SetMaxReadFrameSize
          MaxCalls,       \* bound: calls of Write methods
          MaxCuts         \* bound: connections that end inside a frame

VARIABLES wbuf,         \* the frame being assembled
          calls,        \* calls of the Write methods so far
          wire,         \* bytes written and not read yet
          cut,          \* the connection has ended
          maxReadSize,
          mem,          \* the read buffers allocated so far, the last is fr.readBuf
          sent,         \* what the writer meant by each frame it put on the wire
          got           \* what ReadFrame returned for each of them

vars == <<wbuf, calls, wire, cut, maxReadSize, mem, sent, got>>

DATA == 0
HEADERS == 1
PRIORITY == 2
RST_STREAM == 3
SETTINGS == 4
PUSH_PROMISE == 5
PING == 6
GOAWAY == 7
WINDOW_UPDATE == 8
CONTINUATION == 9

\* FlagDataEndStream, FlagHeadersEndStream, FlagSettingsAck and FlagPingAck
FlagFirst == 1
FlagEndHeaders == 4
FlagPadded == 8
FlagPriority == 32

Has(flags, v) == (flags \div v) % 2 = 1

Flag(set, v) == IF set THEN v ELSE 0

High == (B * B * B * B) \div 2

maxFrameSize == B * B * B - 1

frameHeaderLen == 9

Zeros(n) == [i \in 1 .. n |-> 0]

Uint32(v) == <<v \div (B * B * B), (v \div (B * B)) % B, (v \div B) % B, v % B>>

Uint16(v) == <<v \div B, v % B>>

\* The number whose digits are the n cells of b after the first off.
Number(b, off, n) == FoldLeft(LAMBDA acc, d : acc * B + d, 0, SubSeq(b, off + 1, off + n))

Init ==
  /\ wbuf = <<>>
  /\ calls = 0
  /\ wire = <<>>
  /\ cut = FALSE
  /\ maxReadSize = maxFrameSize
  /\ mem = << <<>> >>
  /\ sent = <<>>
  /\ got = <<>>

-----------------------------------------------------------------------------
(* Writing                                                                 *)

validStreamID(id) == id # 0 /\ id < High

\* startWrite empties wbuf, which may hold what a refused call left in it.
startWrite(w, type, flags, id) == <<0, 0, 0, type, flags>> \o Uint32(id)

\* A Write method returns an error after leaving w in wbuf.
Refuse(w) ==
  /\ wbuf' = w
  /\ UNCHANGED <<wire, cut, maxReadSize, mem, sent, got>>

endWrite(w, meant) ==
  LET length == Len(w) - frameHeaderLen
      header == <<length \div (B * B), (length \div B) % B, length % B>>
  IN  IF length >= B * B * B
      THEN Refuse(w)
      ELSE /\ wbuf' = header \o SubSeq(w, 4, Len(w))
           /\ wire' = wire \o wbuf'
           /\ sent' = Append(sent, meant)
           /\ UNCHANGED <<cut, maxReadSize, mem, got>>

\* The reader's view of a frame: its type, stream, fields and bytes.
Meaning(type, id, fields, bytes) ==
  [type |-> type, id |-> id, fields |-> fields, bytes |-> bytes]

Put(type, flags, id, body, fields, bytes) ==
  endWrite(startWrite(wbuf, type, flags, id) \o body, Meaning(type, id, fields, bytes))

WriteData(id, endStream, data) ==
  IF ~validStreamID(id) /\ ~AllowIllegal
  THEN Refuse(wbuf)
  ELSE Put(DATA, Flag(endStream, FlagFirst), id, data, <<endStream>>, data)

WriteSettings(settings) ==
  Put(SETTINGS, 0, 0, FlattenSeq([i \in DOMAIN settings |-> Uint16(settings[i][1]) \o Uint32(settings[i][2])]),
      <<FALSE, settings>>, <<>>)

WriteSettingsAck == Put(SETTINGS, FlagFirst, 0, <<>>, <<TRUE, <<>> >>, <<>>)

\* data has eight bytes.
WritePing(ack, data) == Put(PING, Flag(ack, FlagFirst), 0, data, <<ack, data>>, <<>>)

WriteGoAway(maxStreamID, code, debugData) ==
  Put(GOAWAY, 0, 0, Uint32(maxStreamID % High) \o Uint32(code) \o debugData,
      <<maxStreamID % High, code>>, debugData)

WriteWindowUpdate(id, incr) ==
  IF (incr < 1 \/ incr >= High) /\ ~AllowIllegal
  THEN Refuse(wbuf)
  ELSE Put(WINDOW_UPDATE, 0, id, Uint32(incr), <<incr>>, <<>>)

NoPriority == [dep |-> 0, exclusive |-> FALSE, weight |-> 0]

\* v |= 1 << 31
StreamDep(p) == IF p.exclusive /\ p.dep < High THEN p.dep + High ELSE p.dep

WriteHeaders(id, block, endStream, endHeaders, pad, p) ==
  LET flags == Flag(pad # 0, FlagPadded) + Flag(endStream, FlagFirst)
                 + Flag(endHeaders, FlagEndHeaders) + Flag(p # NoPriority, FlagPriority)
      padByte == IF pad # 0 THEN <<pad>> ELSE <<>>
      priority == IF p # NoPriority THEN Uint32(StreamDep(p)) \o <<p.weight>> ELSE <<>>
  IN  IF ~validStreamID(id) /\ ~AllowIllegal
      THEN Refuse(wbuf)
      ELSE IF p # NoPriority /\ ~validStreamID(p.dep) /\ ~AllowIllegal
      THEN Refuse(startWrite(wbuf, HEADERS, flags, id) \o padByte)
      ELSE Put(HEADERS, flags, id, padByte \o priority \o block \o Zeros(pad),
               <<endStream, endHeaders, p>>, block)

WritePriority(id, p) ==
  IF ~validStreamID(id) /\ ~AllowIllegal
  THEN Refuse(wbuf)
  ELSE Put(PRIORITY, 0, id, Uint32(StreamDep(p)) \o <<p.weight>>, <<p>>, <<>>)

WriteRSTStream(id, code) ==
  IF ~validStreamID(id) /\ ~AllowIllegal
  THEN Refuse(wbuf)
  ELSE Put(RST_STREAM, 0, id, Uint32(code), <<code>>, <<>>)

WriteContinuation(id, endHeaders, block) ==
  IF ~validStreamID(id) /\ ~AllowIllegal
  THEN Refuse(wbuf)
  ELSE Put(CONTINUATION, Flag(endHeaders, FlagEndHeaders), id, block, <<endHeaders>>, block)

WritePushPromise(id, promise, block, endHeaders, pad) ==
  LET flags == Flag(pad # 0, FlagPadded) + Flag(endHeaders, FlagEndHeaders)
      padByte == IF pad # 0 THEN <<pad>> ELSE <<>>
  IN  IF ~validStreamID(id) /\ ~AllowIllegal
      THEN Refuse(wbuf)
      ELSE IF ~validStreamID(promise) /\ ~AllowIllegal
      THEN Refuse(startWrite(wbuf, PUSH_PROMISE, flags, id) \o padByte)
      ELSE Put(PUSH_PROMISE, flags, id, padByte \o Uint32(promise) \o block \o Zeros(pad),
               <<endHeaders, promise>>, block)

\* A raw frame means what its bytes say: the writer expects nothing of it.
Raw == -1

WriteRawFrame(type, flags, id, payload) ==
  endWrite(startWrite(wbuf, type, flags, id) \o payload, Meaning(Raw, id, <<>>, payload))

-----------------------------------------------------------------------------
(* Parsing: b is the payload, fh the header, and the result the fields and *)
(* the view [lo, hi) of the payload that the frame keeps.                  *)

Fail(err) == [err |-> err, fields |-> <<>>, lo |-> 0, hi |-> 0]

ConnectionError == Fail("ConnectionError")

StreamError == Fail("StreamError")

ErrUnexpectedEOF == Fail("ErrUnexpectedEOF")

\* Frame{fields, b[lo:hi]}; Go panics on a slice that is out of range.
Keep(b, fields, lo, hi) ==
  IF lo <= hi /\ hi <= Len(b)
  THEN [err |-> "nil", fields |-> fields, lo |-> lo, hi |-> hi]
  ELSE Fail("panic")

NoBytes(fields) == [err |-> "nil", fields |-> fields, lo |-> 0, hi |-> 0]

parseDataFrame(fh, b) ==
  LET padded == Has(fh.flags, FlagPadded)
      off == IF padded THEN 1 ELSE 0
      padSize == IF padded THEN b[1] ELSE 0
  IN  IF fh.id = 0 THEN ConnectionError
      ELSE IF padded /\ b = <<>> THEN ErrUnexpectedEOF
      ELSE IF padSize > Len(b) - off THEN ConnectionError
      ELSE Keep(b, <<Has(fh.flags, FlagFirst)>>, off, Len(b) - padSize)

SettingInitialWindowSize == 4

Settings(b) == [i \in 1 .. Len(b) \div 6 |-> <<Number(b, 6 * (i - 1), 2), Number(b, 6 * (i - 1) + 2, 4)>>]

\* SettingsFrame.Value: the first setting with this identifier.
FirstValue(settings, id) ==
  LET at == {i \in DOMAIN settings : settings[i][1] = id}
  IN  IF at = {} THEN 0 ELSE settings[CHOOSE i \in at : \A j \in at : i <= j][2]

parseSettingsFrame(fh, b) ==
  LET ack == Has(fh.flags, FlagFirst)
  IN  IF (ack /\ b # <<>>) \/ fh.id # 0 \/ Len(b) % 6 # 0 THEN ConnectionError
      ELSE IF FirstValue(Settings(b), SettingInitialWindowSize) >= High THEN ConnectionError
      ELSE NoBytes(<<ack, Settings(b)>>)

parsePingFrame(fh, b) ==
  IF Len(b) # 8 \/ fh.id # 0 THEN ConnectionError
  ELSE NoBytes(<<Has(fh.flags, FlagFirst), b>>)

parseGoAwayFrame(fh, b) ==
  IF fh.id # 0 \/ Len(b) < 8 THEN ConnectionError
  ELSE Keep(b, <<Number(b, 0, 4) % High, Number(b, 4, 4)>>, 8, Len(b))

parseUnknownFrame(fh, b) == Keep(b, <<>>, 0, Len(b))

parseWindowUpdateFrame(fh, b) ==
  IF Len(b) # 4 THEN ConnectionError
  ELSE IF Number(b, 0, 4) % High = 0
  THEN IF fh.id = 0 THEN ConnectionError ELSE StreamError
  ELSE NoBytes(<<Number(b, 0, 4) % High>>)

Priority(v, weight) == [dep |-> v % High, exclusive |-> v >= High, weight |-> weight]

parseHeadersFrame(fh, b) ==
  LET padded == Has(fh.flags, FlagPadded)
      hasPriority == Has(fh.flags, FlagPriority)
      off == IF padded THEN 1 ELSE 0
      padLength == IF padded THEN b[1] ELSE 0
      start == off + (IF hasPriority THEN 5 ELSE 0)
      priority == IF hasPriority THEN Priority(Number(b, off, 4), b[off + 5]) ELSE NoPriority
  IN  IF fh.id = 0 THEN ConnectionError
      ELSE IF Len(b) < start THEN ErrUnexpectedEOF
      ELSE IF Len(b) - start - padLength <= 0 THEN StreamError
      ELSE Keep(b, <<Has(fh.flags, FlagFirst), Has(fh.flags, FlagEndHeaders), priority>>,
                start, Len(b) - padLength)

parsePriorityFrame(fh, b) ==
  IF fh.id = 0 \/ Len(b) # 5 THEN ConnectionError
  ELSE NoBytes(<<Priority(Number(b, 0, 4), b[5])>>)

parseRSTStreamFrame(fh, b) ==
  IF Len(b) # 4 \/ fh.id = 0 THEN ConnectionError
  ELSE NoBytes(<<Number(b, 0, 4)>>)

parseContinuationFrame(fh, b) == Keep(b, <<Has(fh.flags, FlagEndHeaders)>>, 0, Len(b))

parsePushPromise(fh, b) ==
  LET padded == Has(fh.flags, FlagPadded)
      off == IF padded THEN 1 ELSE 0
      padLength == IF padded THEN b[1] ELSE 0
  IN  IF fh.id = 0 THEN ConnectionError
      ELSE IF Len(b) < off + 4 THEN ErrUnexpectedEOF
      ELSE IF padLength > Len(b) - off - 4 THEN ConnectionError
      ELSE Keep(b, <<Has(fh.flags, FlagEndHeaders), Number(b, off, 4) % High>>, off + 4, Len(b) - padLength)

typeFrameParser(fh, b) ==
  CASE fh.type = DATA -> parseDataFrame(fh, b)
    [] fh.type = HEADERS -> parseHeadersFrame(fh, b)
    [] fh.type = PRIORITY -> parsePriorityFrame(fh, b)
    [] fh.type = RST_STREAM -> parseRSTStreamFrame(fh, b)
    [] fh.type = SETTINGS -> parseSettingsFrame(fh, b)
    [] fh.type = PUSH_PROMISE -> parsePushPromise(fh, b)
    [] fh.type = PING -> parsePingFrame(fh, b)
    [] fh.type = GOAWAY -> parseGoAwayFrame(fh, b)
    [] fh.type = WINDOW_UPDATE -> parseWindowUpdateFrame(fh, b)
    [] fh.type = CONTINUATION -> parseContinuationFrame(fh, b)
    [] OTHER -> parseUnknownFrame(fh, b)

-----------------------------------------------------------------------------
(* Reading                                                                 *)

readFrameHeader(w) ==
  [length |-> Number(w, 0, 3), type |-> w[4], flags |-> w[5], id |-> Number(w, 5, 4) % High]

\* getReadBuf: the buffer that a payload is read into, one of mem or a new one.
getReadBuf(size) == IF Len(Last(mem)) >= size THEN Len(mem) ELSE Len(mem) + 1

\* io.ReadFull into buf[:size] leaves the rest of a longer buffer alone.
Fill(buf, payload) ==
  LET old == IF buf \in DOMAIN mem THEN mem[buf] ELSE <<>>
  IN  [i \in 1 .. (IF Len(old) > Len(payload) THEN Len(old) ELSE Len(payload)) |->
         IF i <= Len(payload) THEN payload[i] ELSE old[i]]

View(m, f) == SubSeq(m[f.buf], f.lo + 1, f.hi)

\* lastFrame.invalidate(); a frame that failed to parse is not the last one.
Invalidated == [i \in DOMAIN got |-> [got[i] EXCEPT !.valid = FALSE]]

Returned(err, type, id, fields, buf, lo, hi, bytes) ==
  [err |-> err, type |-> type, id |-> id, fields |-> fields, buf |-> buf, lo |-> lo, hi |-> hi,
   valid |-> err = "nil", bytes |-> bytes]

ReadError(err) == got' = Append(Invalidated, Returned(err, 0, 0, <<>>, 1, 0, 0, <<>>))

Complete(w) == Len(w) >= frameHeaderLen /\ Len(w) >= frameHeaderLen + readFrameHeader(w).length

ReadFrame ==
  /\ got # <<>> => Last(got).err \in {"nil", "ConnectionError", "StreamError"}
  /\ UNCHANGED <<wbuf, calls, cut, maxReadSize, sent>>
  /\ \/ /\ Len(wire) < frameHeaderLen /\ cut
        /\ ReadError("EOF")
        /\ wire' = <<>>
        /\ UNCHANGED mem
     \/ /\ Len(wire) >= frameHeaderLen
        /\ readFrameHeader(wire).length > maxReadSize
        /\ ReadError("ErrFrameTooLarge")
        /\ wire' = SubSeq(wire, frameHeaderLen + 1, Len(wire))
        /\ UNCHANGED mem
     \/ /\ Len(wire) >= frameHeaderLen /\ ~Complete(wire) /\ cut
        /\ readFrameHeader(wire).length <= maxReadSize
        /\ ReadError("EOF")
        /\ LET buf == getReadBuf(readFrameHeader(wire).length)
               rest == SubSeq(wire, frameHeaderLen + 1, Len(wire))
           IN  mem' = IF buf \in DOMAIN mem
                      THEN [mem EXCEPT ![buf] = Fill(buf, rest)]
                      ELSE Append(mem, rest \o Zeros(readFrameHeader(wire).length - Len(rest)))
        /\ wire' = <<>>
     \/ /\ Complete(wire)
        /\ readFrameHeader(wire).length <= maxReadSize
        /\ LET fh == readFrameHeader(wire)
               end == frameHeaderLen + fh.length
               payload == SubSeq(wire, frameHeaderLen + 1, end)
               buf == getReadBuf(fh.length)
               p == typeFrameParser(fh, payload)
           IN  /\ mem' = IF buf \in DOMAIN mem THEN [mem EXCEPT ![buf] = Fill(buf, payload)]
                         ELSE Append(mem, payload)
               /\ wire' = SubSeq(wire, end + 1, Len(wire))
               /\ got' = Append(Invalidated,
                           Returned(p.err, fh.type, fh.id, p.fields, buf, p.lo, p.hi,
                                    SubSeq(payload, p.lo + 1, p.hi)))

SetMaxReadFrameSize(v) ==
  /\ maxReadSize' = IF v > maxFrameSize THEN maxFrameSize ELSE v
  /\ maxReadSize' # maxReadSize
  /\ UNCHANGED <<wbuf, calls, wire, cut, mem, sent, got>>

\* The connection ends, possibly inside a frame that has been written.
Cut ==
  /\ ~cut /\ MaxCuts > 0
  /\ cut' = TRUE
  /\ \E n \in 0 .. Len(wire) : wire' = SubSeq(wire, 1, n)
  /\ UNCHANGED <<wbuf, calls, maxReadSize, mem, sent, got>>

EightBytes == [i \in 1 .. 8 |-> i % B]

Write ==
  /\ calls < MaxCalls /\ ~cut
  /\ calls' = calls + 1
  /\ \/ \E id \in StreamIDs, e \in BOOLEAN, d \in Payloads : WriteData(id, e, d)
     \/ \E s \in SettingLists : WriteSettings(s)
     \/ WriteSettingsAck
     \/ \E a \in BOOLEAN : WritePing(a, EightBytes)
     \/ \E id \in StreamIDs, c \in Words, d \in Payloads : WriteGoAway(id, c, d)
     \/ \E id \in StreamIDs, v \in Words : WriteWindowUpdate(id, v)
     \/ \E id \in StreamIDs, d \in Payloads, e \in BOOLEAN, h \in BOOLEAN, n \in Pads, p \in Priorities :
          WriteHeaders(id, d, e, h, n, p)
     \/ \E id \in StreamIDs, p \in Priorities : WritePriority(id, p)
     \/ \E id \in StreamIDs, c \in Words : WriteRSTStream(id, c)
     \/ \E id \in StreamIDs, h \in BOOLEAN, d \in Payloads : WriteContinuation(id, h, d)
     \/ \E id \in StreamIDs, q \in StreamIDs, d \in Payloads, h \in BOOLEAN, n \in Pads :
          WritePushPromise(id, q, d, h, n)
     \/ \E t \in RawTypes, f \in RawFlags, id \in StreamIDs, d \in Payloads : WriteRawFrame(t, f, id, d)

Next ==
  \/ Write
  \/ ReadFrame
  \/ \E v \in ReadSizes : SetMaxReadFrameSize(v)
  \/ Cut

Spec == Init /\ [][Next]_vars

-----------------------------------------------------------------------------
(* Properties                                                              *)

TypeOK ==
  /\ calls \in 0 .. MaxCalls
  /\ cut \in BOOLEAN
  /\ maxReadSize \in 0 .. maxFrameSize
  /\ \A i \in DOMAIN wbuf : wbuf[i] \in Nat
  /\ Len(got) <= Len(sent) + 1

\* The writer's arguments that the wire cannot carry: a reserved high bit
\* that the reader masks off, a header block its reader refuses when empty,
\* and a window size that the reader refuses.
Carried(m) ==
  /\ m.type # Raw
  /\ m.id < High
  /\ m.type = HEADERS => m.bytes # <<>>
  /\ m.type = PRIORITY => m.fields[1].dep < High
  /\ m.type = SETTINGS => FirstValue(m.fields[2], SettingInitialWindowSize) < High

\* Every frame that a Write method accepted is read as that frame, in order:
\* the same type, stream, fields and bytes, whatever refused or oversized
\* calls came between (frame.go:289 resets wbuf, frame.go:303 fills in the
\* length), and a connection that ends inside a frame gives an error and
\* never a shorter frame.
RoundTrip ==
  \A i \in DOMAIN got :
    /\ got[i].err = "nil" =>
         /\ i \in DOMAIN sent
         /\ Carried(sent[i]) => /\ <<got[i].type, got[i].id>> = <<sent[i].type, sent[i].id>>
                                /\ <<got[i].fields, got[i].bytes>> = <<sent[i].fields, sent[i].bytes>>
    /\ got[i].err = "EOF" => cut
    /\ i \in DOMAIN sent /\ Carried(sent[i]) => got[i].err \in {"nil", "EOF", "ErrFrameTooLarge"}

\* The bytes of a frame whose accessors do not panic are the bytes that were
\* read for it, although ReadFrame reads every payload into the same buffer
\* (frame.go:245, "Frames are only valid until the next call").
ValidFramesKeepTheirBytes ==
  \A i \in DOMAIN got : got[i].valid => View(mem, got[i]) = got[i].bytes

\* No payload, of any type, flags, stream and length, makes a parser slice out
\* of range (frame.go:437, 774, 1031).
NoParserPanics == \A i \in DOMAIN got : got[i].err # "panic"
=============================================================================
