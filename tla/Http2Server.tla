---------------------------- MODULE Http2Server ----------------------------
(***************************************************************************)
(* One connection of the HTTP/2 server (bradfitz/http2: server.go,         *)
(* writesched.go, flow.go, pipe.go, buffer.go, write.go).  The serve loop  *)
(* owns the state s and runs one case of its select at a time; handlers,   *)
(* the frame writer and the frame reader are goroutines of their own and   *)
(* meet it on channels.  Sizes are in units of a few bytes.                *)
(***************************************************************************)
EXTENDS Integers, Sequences, FiniteSets, FiniteSetsExt

CONSTANTS
    Ids,                \* stream identifiers the client may use
    Frames,             \* what the client may send
    ReadErrors,         \* how ReadFrame may fail
    advMaxStreams,
    initialWindowSize, MaxWindow, maxFrameSize,
    WantCap,            \* the buffer of wantWriteFrameCh
    Chunks,             \* sizes of a handler's writes
    MaxFrames           \* a bound on what the client sends

VARIABLES
    s,      \* the serve loop: serverConn, its streams, queues and channels,
            \* frame writers (async) and what curWrite of each response
            \* writer holds (cur).  History: peer, what the client lets us
            \* send; lost, what it sent to a body that was closed; skipped
            \* and swapped, see startFrameWrite and writeFrameAsync
    h,      \* the handlers
    want,   \* wantWriteFrameCh
    reader, \* readFrames: "on", or "off" after its first error
    left    \* frames the client may still send

vars == <<s, h, want, reader, left>>

NewStream == [state |-> "idle", gotReset |-> FALSE, sentReset |-> FALSE, flow |-> 0,
              inflow |-> 0, unread |-> 0, body |-> "none", bytes |-> 0, decl |-> -1,
              rws |-> 0, run |-> FALSE, cw |-> FALSE, peer |-> 0]

\* A frame to write.  st is the stream of frameWriteMsg, 0 for nil.  The DATA of
\* a handler is no copy: it is in curWrite of the response writer own.
Msg(kind, st) == [kind |-> kind, st |-> st, n |-> 0, end |-> FALSE, done |-> FALSE,
                  own |-> 0, written |-> FALSE]
NoData == [st |-> 0, n |-> 0, end |-> FALSE]

\* handleConn, and the SETTINGS that serve sends first.
Init ==
    /\ s = [pc |-> "preface", first |-> TRUE, sawFirstSettings |-> FALSE, unacked |-> 1,
            inGoAway |-> FALSE, needGoAway |-> FALSE, needAck |-> FALSE,
            writing |-> TRUE, flush |-> TRUE, maxStreamID |-> 0, open |-> 0,
            flow |-> initialWindowSize, inflow |-> initialWindowSize,
            init |-> initialWindowSize, req |-> 0, timer |-> FALSE,
            zero |-> <<>>, sq |-> [i \in Ids |-> <<>>], st |-> [i \in Ids |-> NewStream],
            wrote |-> 0, async |-> <<Msg("settings", 0)>>,
            cur |-> [i \in Ids |-> NoData], peer |-> initialWindowSize, lost |-> 0,
            skipped |-> FALSE, swapped |-> FALSE, panic |-> "none"]
    /\ h = [i \in Ids |-> [pc |-> "none", sentHeader |-> FALSE, n |-> 0,
                           done |-> FALSE, err |-> FALSE, ch |-> 0]]
    /\ want = <<>>
    /\ reader = "on"
    /\ left = MaxFrames

Panic(k, why) == [k EXCEPT !.pc = "panic", !.panic = why]

\* sc.streams: closeStream deletes a stream as it becomes closed.
InMap(k, i) == i \in Ids /\ k.st[i].state \notin {"idle", "closed"}

-----------------------------------------------------------------------------
(* flow.go: a stream's window is also limited by the connection's. *)

available(k, i) == Min({k.st[i].flow, k.flow})

inAvailable(k, i) == Min({k.st[i].inflow, k.inflow})

\* add: what remains of a window is an int32 and wraps when the window is negative.
Wrap(x) == ((x + MaxWindow + 1) % (2 * (MaxWindow + 1))) - (MaxWindow + 1)
Fits(w, n) == n <= Wrap(MaxWindow - w)

-----------------------------------------------------------------------------
(* writesched.go *)

add(k, wm) == IF wm.st = 0 THEN [k EXCEPT !.zero = Append(@, wm)]
              ELSE [k EXCEPT !.sq[wm.st] = Append(@, wm)]

Size(k, wm) == IF wm.own = 0 THEN 0 ELSE k.cur[wm.own].n
Costs(k, wm) == wm.kind = "data" /\ Size(k, wm) > 0

\* The head of a stream's queue or, as far as flow control allows, the first
\* part of it, which is cut off the handler's curWrite.
Taken(paid, i, n, wm) ==
    IF n < Size(paid, wm)
    THEN [s |-> [paid EXCEPT !.cur[wm.own].n = @ - n],
          wm |-> [wm EXCEPT !.n = n, !.own = 0, !.done = FALSE]]
    ELSE [s |-> [paid EXCEPT !.sq[i] = Tail(@)],
          wm |-> IF wm.own = 0 THEN wm ELSE [wm EXCEPT !.n = n, !.end = paid.cur[wm.own].end]]

\* A mutant: only the stream pays for a chunk.
BugTakeFrom(k, i) ==
    LET wm == Head(k.sq[i])
        n == IF Costs(k, wm) THEN Min({Size(k, wm), available(k, i), maxFrameSize}) ELSE 0
    IN  Taken([k EXCEPT !.st[i].flow = @ - n], i, n, wm)

takeFrom(k, i) ==
    LET wm == Head(k.sq[i])
        n == IF Costs(k, wm) THEN Min({Size(k, wm), available(k, i), maxFrameSize}) ELSE 0
    IN  Taken([k EXCEPT !.flow = @ - n, !.st[i].flow = @ - n], i, n, wm)

\* What may be written next: map order decides between streams.
take(k) ==
    LET waiting == {i \in Ids : k.sq[i] # <<>>}
        free == {i \in waiting : ~Costs(k, Head(k.sq[i]))}
        canSend == {i \in waiting : available(k, i) > 0}
    IN  IF k.zero # <<>> THEN {[s |-> [k EXCEPT !.zero = Tail(@)], wm |-> Head(k.zero)]}
        ELSE {takeFrom(k, i) : i \in IF free # {} THEN free ELSE canSend}

-----------------------------------------------------------------------------
(* The serve loop's own functions.  take is a choice, so those that may    *)
(* reach it return the set of states they may end in.                      *)

\* A mutant: a stream that is closed is not counted down.
BugCloseStream(k, i) ==
    IF k.st[i].state \in {"idle", "closed"} THEN Panic(k, "closeStream")
    ELSE [k EXCEPT !.st[i].state = "closed", !.st[i].cw = TRUE, !.sq[i] = <<>>,
                   !.st[i].body = IF @ = "open" THEN "closed" ELSE @]

closeStream(k, i) ==
    IF k.st[i].state \in {"idle", "closed"} THEN Panic(k, "closeStream")
    ELSE [k EXCEPT !.open = @ - 1,
                   !.st[i].state = "closed", !.st[i].cw = TRUE, !.sq[i] = <<>>,
                   !.st[i].body = IF @ = "open" THEN "closed" ELSE @]

\* END_STREAM on an open stream also resets it: the handler reads no more.
EndStream(k, i) ==
    IF k.st[i].state = "open"
    THEN closeStream(add([k EXCEPT !.st[i].sentReset = TRUE], Msg("rst", 0)), i)
    ELSE closeStream(k, i)

\* A frame writer is started.  Two that write at a time race for the Framer,
\* the hpack encoder and the buffer: nothing is said of what comes of that.
Started(k, wm) ==
    IF \E j \in DOMAIN k.async : ~k.async[j].written THEN [k EXCEPT !.pc = "race"]
    ELSE [k EXCEPT !.writing = TRUE, !.flush = TRUE, !.async = Append(@, wm)]

\* A frame of a stream that was reset is skipped and its write faked, which
\* blocks when wroteFrameCh, of capacity 1, is full.
startFrameWrite(k, wm) ==
    IF k.writing THEN Panic(k, "two writers")
    ELSE IF wm.st # 0 /\ k.st[wm.st].state = "halfClosedLocal" THEN Panic(k, "half-closed-local")
    ELSE IF wm.st # 0 /\ k.st[wm.st].state = "closed"
    THEN IF ~(k.st[wm.st].sentReset \/ k.st[wm.st].gotReset)
         THEN Panic(k, "write on a closed stream")
         ELSE IF k.wrote = 1 THEN [k EXCEPT !.skipped = TRUE, !.pc = "stuck"]
              ELSE [k EXCEPT !.skipped = TRUE, !.wrote = 1]
    ELSE IF wm.end THEN EndStream(Started(k, wm), wm.st)
    ELSE Started(k, wm)

scheduleFrameWrite(k) ==
    IF k.writing \/ k.pc # "run" THEN {k}
    ELSE IF k.needGoAway
    THEN {startFrameWrite([k EXCEPT !.needGoAway = FALSE], Msg("goaway", 0))}
    ELSE IF k.needAck
    THEN {startFrameWrite([k EXCEPT !.needAck = FALSE], Msg("ack", 0))}
    ELSE IF ~k.inGoAway /\ take(k) # {}
    THEN {startFrameWrite(t.s, t.wm) : t \in take(k)}
    ELSE IF k.flush
    THEN {[startFrameWrite(k, Msg("flush", 0)) EXCEPT !.flush = FALSE]}
    ELSE {k}

writeFrame(k, wm) == scheduleFrameWrite(add(k, wm))

resetStream(k, i) ==
    {IF InMap(t, i) THEN closeStream([t EXCEPT !.st[i].sentReset = TRUE], i) ELSE t :
       t \in writeFrame(k, Msg("rst", 0))}

goAway(k) ==
    IF k.inGoAway THEN {k}
    ELSE scheduleFrameWrite([k EXCEPT !.inGoAway = TRUE, !.needGoAway = TRUE, !.timer = TRUE])

sendWindowUpdate(k, i, n) ==
    {IF i = 0 THEN IF Fits(t.inflow, n) THEN [t EXCEPT !.inflow = @ + n] ELSE Panic(t, "updates")
     ELSE IF Fits(t.st[i].inflow, n) THEN [t EXCEPT !.st[i].inflow = @ + n] ELSE Panic(t, "updates") :
       t \in writeFrame(k, [Msg("wu", i) EXCEPT !.n = 0])}

noteBodyRead(k, i, n) ==
    UNION {IF t.st[i].state \in {"halfClosedRemote", "closed"} THEN {t}
           ELSE sendWindowUpdate(t, i, n) : t \in sendWindowUpdate(k, 0, n)}

-----------------------------------------------------------------------------
(* processFrame: every outcome is a state and an error. *)

Ok(k) == {[s |-> k, err |-> "nil"]}
Err(k, e) == {[s |-> k, err |-> e]}
Oks(ks) == {[s |-> k, err |-> "nil"] : k \in ks}

\* A setting that does not fit every stream's window ends the connection;
\* nothing of a stream is written from then on.
processSettings(k, f) ==
    LET growth == f.n - k.init
        grown == {i \in Ids : InMap(k, i)}
    IN  IF f.ack
        THEN IF k.unacked = 0 THEN Err([k EXCEPT !.unacked = @ - 1], "conn")
             ELSE Ok([k EXCEPT !.unacked = @ - 1])
        ELSE IF f.bad \/ (\E i \in grown : ~Fits(k.st[i].flow, growth)) THEN Err(k, "conn")
        ELSE Oks(scheduleFrameWrite(
                [k EXCEPT !.init = f.n, !.needAck = TRUE,
                          !.st = [i \in Ids |-> IF i \in grown
                                                THEN [@[i] EXCEPT !.flow = @ + growth, !.peer = @ + growth]
                                                ELSE @[i]]]))

processWindowUpdate(k, f) ==
    LET ledger == IF f.id = 0 THEN [k EXCEPT !.peer = @ + f.n]
                  ELSE IF f.id \in Ids THEN [k EXCEPT !.st[f.id].peer = @ + f.n] ELSE k
    IN  IF f.id = 0
        THEN IF ~Fits(k.flow, f.n) THEN Err(ledger, "conn")
             ELSE Oks(scheduleFrameWrite([ledger EXCEPT !.flow = @ + f.n]))
        ELSE IF ~InMap(k, f.id) THEN Ok(ledger)
        ELSE IF ~Fits(k.st[f.id].flow, f.n) THEN Err(ledger, "stream")
        ELSE Oks(scheduleFrameWrite([ledger EXCEPT !.st[f.id].flow = @ + f.n]))

processResetStream(k, f) ==
    IF InMap(k, f.id) THEN Ok(closeStream([k EXCEPT !.st[f.id].gotReset = TRUE], f.id))
    ELSE IF f.id > k.maxStreamID THEN Err(k, "conn") ELSE Ok(k)

\* The client has flow control quota and the body takes what it sends.
processData(k, f) ==
    LET i == f.id
        t == k.st[i]
        got == [k EXCEPT !.st[i].inflow = @ - f.n, !.inflow = @ - f.n]
        lost == [got EXCEPT !.lost = @ + f.n]
        kept == [got EXCEPT !.st[i].unread = @ + f.n, !.st[i].bytes = @ + f.n]
        to == IF f.n = 0 THEN k ELSE kept
    IN  IF ~InMap(k, i) \/ t.state # "open" THEN Err(k, "stream")
        ELSE IF t.body = "none" THEN Ok(Panic(k, "no body"))
        ELSE IF t.decl # -1 /\ t.bytes + f.n > t.decl
        THEN Err([k EXCEPT !.st[i].body = "closed"], "stream")
        ELSE IF f.n > 0 /\ inAvailable(k, i) < f.n THEN Err(k, "stream")
        ELSE IF f.n > 0 /\ (t.body = "closed" \/ t.unread + f.n > initialWindowSize)
        THEN Err(lost, "stream")
        ELSE IF f.end THEN Ok([to EXCEPT !.st[i].body = "closed", !.st[i].state = "halfClosedRemote"])
        ELSE Ok(to)

\* newWriterAndRequest: a response writer comes from the pool, where those of
\* handlers that have ended are, or is new; in either case it is zeroed.
Pooled(k) == {k.st[j].rws : j \in {o \in Ids : h[o].pc = "end"}}
             \ {k.st[j].rws : j \in {o \in Ids : k.st[o].run /\ h[o].pc # "end"}}

\* The last fragment of a header block starts the handler.
processHeaderBlockFragment(k, i, f) ==
    IF f.bad THEN Err(k, "other")
    ELSE IF ~f.endHeaders THEN Ok(k)
    ELSE LET r == [k EXCEPT !.req = 0] IN
         IF k.open > advMaxStreams \/ f.malformed THEN Err(r, "stream")
         ELSE Oks({[r EXCEPT !.st[i].run = TRUE, !.st[i].rws = w, !.cur[w] = NoData,
                             !.st[i].body = IF k.st[i].state = "open" THEN "open" ELSE "none",
                             !.st[i].decl = IF k.st[i].state = "open" THEN f.decl ELSE 0] :
                      w \in {i} \cup Pooled(k)})

processHeaders(k, f) ==
    IF k.inGoAway THEN Ok(k)
    ELSE IF f.id % 2 # 1 \/ f.id <= k.maxStreamID \/ k.req # 0 THEN Err(k, "conn")
    ELSE processHeaderBlockFragment(
            [k EXCEPT !.maxStreamID = f.id, !.open = @ + 1, !.req = f.id,
                      !.st[f.id] = [NewStream EXCEPT
                          !.state = IF f.end THEN "halfClosedRemote" ELSE "open",
                          !.flow = k.init, !.peer = k.init, !.inflow = initialWindowSize]],
            f.id, f)

processContinuation(k, f) ==
    IF ~InMap(k, f.id) \/ k.req # f.id THEN Err(k, "conn")
    ELSE processHeaderBlockFragment(k, f.id, f)

processFrame(k, f) ==
    LET saw == [k EXCEPT !.sawFirstSettings = TRUE] IN
    CASE ~k.sawFirstSettings /\ f.type # "settings" -> Err(k, "conn")
      [] k.req # 0 /\ ~(f.type = "continuation" /\ f.id = k.req) -> Err(saw, "conn")
      [] f.type = "settings" -> processSettings(saw, f)
      [] f.type = "headers" -> processHeaders(saw, f)
      [] f.type = "continuation" -> processContinuation(saw, f)
      [] f.type = "window_update" -> processWindowUpdate(saw, f)
      [] f.type = "ping" -> Oks(writeFrame(saw, Msg("ping", 0)))
      [] f.type = "data" -> processData(saw, f)
      [] f.type = "rst_stream" -> processResetStream(saw, f)
      [] f.type = "push_promise" -> Err(saw, "conn")

-----------------------------------------------------------------------------
(* The cases of serve's select. *)

\* serve returns: handlers are told, streams closed, the connection closed.
Return(k) ==
    [k EXCEPT !.pc = "done",
              !.st = [i \in Ids |-> IF InMap(k, i)
                                    THEN [@[i] EXCEPT !.state = "closed", !.cw = TRUE,
                                                      !.body = IF @ = "open" THEN "closed" ELSE @]
                                    ELSE @[i]],
              !.open = 0, !.sq = [i \in Ids |-> <<>>]]

AfterError(k, e, i) ==
    CASE e = "nil" -> {k}
      [] e = "stream" -> resetStream(k, i)
      [] e = "conn" -> goAway(k)
      [] e = "other" -> {Return(k)}

readPreface ==
    /\ s.pc = "preface"
    /\ s' \in {[s EXCEPT !.pc = "run"], Return(s)}
    /\ UNCHANGED <<h, want, reader, left>>

ServeWantWrite ==
    /\ s.pc = "run" /\ want # <<>>
    /\ s' \in writeFrame(s, Head(want))
    /\ want' = Tail(want)
    /\ UNCHANGED <<h, reader, left>>

ServeWroteFrame ==
    /\ s.pc = "run" /\ s.wrote = 1
    /\ s' \in scheduleFrameWrite([s EXCEPT !.wrote = 0, !.writing = FALSE])
    /\ UNCHANGED <<h, want, reader, left>>

processFrameFromReader ==
    /\ s.pc = "run" /\ reader = "on" /\ left > 0
    /\ \E f \in Frames : \E r \in processFrame(s, f) :
          \E t \in AfterError(r.s, r.err, f.id) : s' = [t EXCEPT !.first = FALSE]
    /\ left' = left - 1
    /\ UNCHANGED <<h, want, reader>>

\* ReadFrame failed: the reader is gone whatever serve makes of the error.
ServeReadError ==
    /\ s.pc = "run" /\ reader = "on"
    /\ reader' = "off"
    /\ \E e \in ReadErrors : \E t \in AfterError(s, e.err, e.id) :
          s' = [t EXCEPT !.first = FALSE]
    /\ UNCHANGED <<h, want, left>>

ServeBodyRead(i) ==
    /\ s.pc = "run" /\ h[i].pc = "note"
    /\ s' \in noteBodyRead(s, i, h[i].n)
    /\ h' = [h EXCEPT ![i].pc = "run", ![i].n = 0]
    /\ UNCHANGED <<want, reader, left>>

\* No SETTINGS in time, or the time after a GOAWAY is up.
ServeTimer ==
    /\ s.pc = "run" /\ (s.first \/ s.timer)
    /\ s' = Return(s)
    /\ UNCHANGED <<h, want, reader, left>>

-----------------------------------------------------------------------------
(* writeFrameAsync *)

\* The frame goes out as it is by now: the client takes what a recycled curWrite
\* holds (swapped) for what was charged.  Then the handler is told.
writeFrameAsync ==
    \E j \in DOMAIN s.async :
        /\ ~s.async[j].written
        /\ LET wm == s.async[j]
               data == IF wm.own = 0 THEN [st |-> wm.st, n |-> wm.n, end |-> wm.end] ELSE s.cur[wm.own]
               out == [s EXCEPT !.async[j].written = TRUE, !.peer = @ - data.n,
                                !.swapped = @ \/ <<data.st, data.n, data.end>> # <<wm.st, wm.n, wm.end>>,
                                !.st = IF data.st = 0 THEN @ ELSE [@ EXCEPT ![data.st].peer = @ - data.n]]
           IN  IF ~wm.done THEN s' = out /\ UNCHANGED h
               ELSE IF h[wm.st].ch = 1 THEN s' = Panic(s, "unbuffered done") /\ UNCHANGED h
               ELSE s' = out /\ h' = [h EXCEPT ![wm.st].ch = 1]
        /\ UNCHANGED <<want, reader, left>>

\* Then the serve loop is told, on wroteFrameCh.
TellServe ==
    \E j \in DOMAIN s.async :
        /\ s.async[j].written /\ s.wrote = 0
        /\ s' = [s EXCEPT !.wrote = 1, !.async = SubSeq(@, 1, j - 1) \o SubSeq(@, j + 1, Len(@))]
        /\ UNCHANGED <<h, want, reader, left>>

-----------------------------------------------------------------------------
(* The handlers. *)

runHandler(i) ==
    /\ h[i].pc = "none" /\ s.st[i].run
    /\ h' = [h EXCEPT ![i].pc = "run"]
    /\ UNCHANGED <<s, want, reader, left>>

\* requestBody.Read, past the wait of pipe.Read.
ReadBody(i) ==
    /\ h[i].pc = "run" /\ ~h[i].done /\ s.st[i].unread > 0
    /\ h' = [h EXCEPT ![i].pc = "note", ![i].n = s.st[i].unread]
    /\ s' = [s EXCEPT !.st[i].unread = 0]
    /\ UNCHANGED <<want, reader, left>>

CloseBody(i) ==
    /\ h[i].pc = "run" /\ ~h[i].done /\ s.st[i].body = "open"
    /\ s' = [s EXCEPT !.st[i].body = "closed"]
    /\ UNCHANGED <<h, want, reader, left>>

\* Write with a flush; or handlerDone, which flushes an empty chunk.  After
\* an error the bufio.Writer writes no more and may keep what it holds.
WriteChunk(i) ==
    /\ h[i].pc = "run" /\ ~h[i].done
    /\ \/ h[i].err /\ h' = [h EXCEPT ![i].pc = "end", ![i].done = TRUE]
       \/ \E n \in Chunks : ~h[i].err /\ h' = [h EXCEPT ![i].pc = "headers", ![i].n = n]
       \/ h' = [h EXCEPT ![i].pc = "headers", ![i].n = 0, ![i].done = TRUE]
    /\ UNCHANGED <<s, want, reader, left>>

\* writeFrameFromHandler: it gives up when serve has returned.
Room == Len(want) < WantCap
Send(wm) == IF s.pc = "done" THEN UNCHANGED want ELSE Room /\ want' = Append(want, wm)

Finished(k) == [k EXCEPT !.pc = IF k.done THEN "end" ELSE "run", !.n = 0]

\* The response headers go before the first chunk.  The handler waits for
\* them when they refer to its header map.
writeHeaders(i) ==
    /\ h[i].pc = "headers"
    /\ IF h[i].sentHeader THEN h' = [h EXCEPT ![i].pc = "data"] /\ UNCHANGED want
       ELSE LET end == h[i].done /\ h[i].n = 0
                next == IF end THEN [h[i] EXCEPT !.pc = "end"] ELSE [h[i] EXCEPT !.pc = "data"]
            IN  \E wait \in BOOLEAN :
                   /\ Send([Msg("headers", i) EXCEPT !.end = end, !.done = wait])
                   /\ h' = [h EXCEPT ![i] = [IF wait THEN [@ EXCEPT !.pc = "waitHeaders"] ELSE next
                                             EXCEPT !.sentHeader = TRUE]]
    /\ UNCHANGED <<s, reader, left>>

HeadersWritten(i) ==
    /\ h[i].pc = "waitHeaders"
    /\ h[i].ch = 1 \/ s.pc = "done"
    /\ LET pc == IF h[i].done /\ h[i].n = 0 THEN "end" ELSE "data" IN
       \/ h[i].ch = 1 /\ h' = [h EXCEPT ![i].pc = pc, ![i].ch = 0]
       \/ s.pc = "done" /\ h' = [h EXCEPT ![i].pc = pc]
    /\ UNCHANGED <<s, want, reader, left>>

\* The chunk is in curWrite before it is known that there is room for a frame.
SetCurWrite(i) ==
    /\ h[i].pc = "data"
    /\ s' = [s EXCEPT !.cur[s.st[i].rws] = [st |-> i, n |-> h[i].n, end |-> h[i].done]]
    /\ h' = [h EXCEPT ![i].pc = "send"]
    /\ UNCHANGED <<want, reader, left>>

writeDataFromHandler(i) ==
    /\ h[i].pc = "send"
    /\ Send([Msg("data", i) EXCEPT !.own = s.st[i].rws, !.done = TRUE])
    /\ h' = [h EXCEPT ![i].pc = "waitData"]
    /\ UNCHANGED <<s, reader, left>>

\* Written, or the connection has gone, or the stream is closed.
DataWritten(i) ==
    /\ h[i].pc = "waitData"
    /\ \/ h[i].ch = 1 /\ h' = [h EXCEPT ![i] = [Finished(@) EXCEPT !.ch = 0]]
       \/ (s.pc = "done" \/ s.st[i].cw) /\ h' = [h EXCEPT ![i] = [Finished(@) EXCEPT !.err = TRUE]]
    /\ UNCHANGED <<s, want, reader, left>>

-----------------------------------------------------------------------------

Handler(i) ==
    \/ runHandler(i) \/ ReadBody(i) \/ CloseBody(i) \/ WriteChunk(i)
    \/ writeHeaders(i) \/ HeadersWritten(i) \/ SetCurWrite(i)
    \/ writeDataFromHandler(i) \/ DataWritten(i)

Serve ==
    \/ readPreface \/ ServeWantWrite \/ ServeWroteFrame \/ processFrameFromReader
    \/ ServeReadError \/ ServeTimer \/ \E i \in Ids : ServeBodyRead(i)

\* A panic ends the process, and after a race anything may happen.
Next ==
    /\ s.pc \notin {"panic", "race"}
    /\ Serve \/ writeFrameAsync \/ TellServe \/ \E i \in Ids : Handler(i)

Spec == Init /\ [][Next]_vars

-----------------------------------------------------------------------------

States == {"idle", "open", "halfClosedRemote", "closed"}

TypeOK ==
    /\ s.pc \in {"preface", "run", "stuck", "race", "done", "panic"}
    /\ s.unacked <= 1 /\ s.wrote \in 0 .. 1 /\ s.inflow \in 0 .. MaxWindow
    /\ \A i \in Ids : s.st[i].state \in States /\ s.st[i].flow <= MaxWindow
                      /\ s.st[i].inflow \in 0 .. MaxWindow
    /\ Len(want) <= WantCap
    /\ left \in 0 .. MaxFrames /\ reader \in {"on", "off"}

(***************************************************************************)
(* None of the "internal error" panics of the connection is reached: no    *)
(* frame is started on a stream closed without a reset, no stream closed   *)
(* twice, no DATA without a body, no update beyond what was taken, and no  *)
(* second result for a handler that has left its first one unread.         *)
(***************************************************************************)
NoPanic == s.panic = "none"

(***************************************************************************)
(* Two frame writers at a time, and a serve loop that waits for itself on  *)
(* wroteFrameCh, come of one thing only: a frame of a stream that was      *)
(* reset, skipped with a faked write.                                      *)
(***************************************************************************)
SkipsAlone == s.pc \in {"stuck", "race"} => s.skipped

(***************************************************************************)
(* curOpenStreams, an unsigned counter that limits the client, is exactly  *)
(* the number of streams in the map.                                       *)
(***************************************************************************)
StreamsCounted == s.pc # "panic" => s.open = Cardinality({i \in Ids : InMap(s, i)})

(***************************************************************************)
(* The server never believes in more credit than the client has given: not *)
(* after splitting a chunk, closing a stream or a smaller initial window.  *)
(* Only a chunk that is replaced in a recycled curWrite before it is       *)
(* written makes it send what it has not charged.                          *)
(***************************************************************************)
CreditIsReal ==
    /\ 0 <= s.flow
    /\ ~s.swapped => s.flow <= s.peer /\ \A i \in Ids : s.st[i].flow <= s.st[i].peer

RECURSIVE Held(_)
Held(I) == IF I = {} THEN 0
           ELSE LET i == CHOOSE j \in I : TRUE IN
                s.st[i].unread + (IF h[i].pc = "note" THEN h[i].n ELSE 0) + Held(I \ {i})

(***************************************************************************)
(* The connection's inbound window is conserved: what it has shrunk by is  *)
(* in a body that waits for its handler, or was sent to a closed body.     *)
(***************************************************************************)
WindowConserved == s.pc # "panic" => s.inflow + Held(Ids) + s.lost = initialWindowSize

=============================================================================
