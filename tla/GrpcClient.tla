----------------------------- MODULE GrpcClient -----------------------------
(***************************************************************************)
(* The gRPC client that the generated DevicePresenceManagerClient runs on: *)
(* ClientConn with the goroutine that replaces a broken transport          *)
(* (clientconn.go), the calls (call.go, stream.go), and the transports     *)
(* with their reader (transport/http2_client.go).  A transport is the      *)
(* number of the dial that made it.  Flow control is that of the server's  *)
(* transport (GrpcTransport): a message here fits its windows.             *)
(***************************************************************************)
EXTENDS Naturals, FiniteSets, Sequences

CONSTANTS
    Calls,            \* goroutines that make one call each
    Streaming,        \* those among them that use NewClientStream
    ServerFrames,     \* what the server sends: "headers", "data", "status", "rst", "bad"
    Limits,           \* values of SETTINGS_MAX_CONCURRENT_STREAMS it may send
    Deadlines,        \* whether the calls' contexts expire
    Closes,           \* whether the application calls ClientConn.Close
    MaxTransports,    \* bounds: successful and failed dials
    MaxFails,
    None

\* What the reader puts into the buffer of a stream besides its messages.
Marks == {"eof", "streamError", "closing"}

ASSUME GrpcClientAssumption ==
    /\ IsFiniteSet(Calls) /\ Calls \cap Marks = {} /\ None \notin Calls
    /\ MaxTransports \in Nat \ {0}

VARIABLES
    cc,       \* ClientConn: seq, cur, closing
    mon,      \* transportMonitor: pc, the seq it read, whether to close, dials
    tr,       \* the transports
    call,     \* the calls, with the Stream each works on
    wire,     \* per transport: who wrote the headers of stream i
    srv       \* per transport: how far the server is with stream i

vars == <<cc, mon, tr, call, wire, srv>>

Transports == 1 .. MaxTransports
Ids == 1 .. Cardinality(Calls)
unlimited == Cardinality(Calls) + 1

NewTransport == [state |-> "reachable", open |-> TRUE, down |-> FALSE, writable |-> TRUE,
                 nextID |-> 1, active |-> {}, maxStreams |-> unlimited, control |-> 0]
NoTransport == [NewTransport EXCEPT !.state = "none", !.open = FALSE, !.writable = FALSE]

NewCall == [pc |-> "idle", ts |-> 0, t |-> 0, id |-> 0, lastErr |-> None, expired |-> FALSE,
            state |-> "active", headerDone |-> FALSE, buf |-> <<>>, got |-> {}]

\* Dial has returned: the first transport is up and is watched.
Init ==
    /\ cc = [seq |-> 1, cur |-> 1, closing |-> FALSE]
    /\ mon = [pc |-> "watch", ts |-> 0, close |-> FALSE, made |-> 1, fails |-> 0]
    /\ tr = [i \in Transports |-> IF i = 1 THEN NewTransport ELSE NoTransport]
    /\ call = [c \in Calls |-> NewCall]
    /\ wire = [i \in Transports |-> [n \in Ids |-> None]]
    /\ srv = [i \in Transports |-> [n \in Ids |-> "idle"]]

-----------------------------------------------------------------------------
(* http2_client.go *)

\* notifyError: errorChan is closed when the state leaves reachable this way.
notifyError(k) == IF k.state = "reachable" THEN [k EXCEPT !.state = "unreachable"] ELSE k

\* The streams of a transport and their recipients.
Has(i, c) == c \in tr[i].active /\ call[c].t = i

\* Close: everyone who waits selects on shutdownChan or is told by its buffer.
CloseTransport(i) ==
    IF tr[i].state = "closing" THEN tr
    ELSE [tr EXCEPT ![i].state = "closing", ![i].open = FALSE, ![i].down = TRUE, ![i].active = {}]

NotifyStreams(i) ==
    [c \in Calls |-> IF tr[i].state # "closing" /\ Has(i, c)
                     THEN [call[c] EXCEPT !.headerDone = TRUE, !.buf = Append(@, "closing")]
                     ELSE call[c]]

\* reader: a frame for stream n of transport i, and whom it reaches.
Reads(i, n) == tr[i].open /\ wire[i][n] # None
getStream(i, n) == {c \in Calls : Has(i, c) /\ call[c].id = n}

Deliver(i, n, F(_)) == call' = [c \in Calls |-> IF c \in getStream(i, n) THEN F(call[c]) ELSE call[c]]

handleHeaders(i, n) ==
    /\ "headers" \in ServerFrames /\ Reads(i, n) /\ srv[i][n] = "open"
    /\ srv' = [srv EXCEPT ![i][n] = "headers"]
    /\ Deliver(i, n, LAMBDA k : [k EXCEPT !.headerDone = TRUE])
    /\ UNCHANGED <<cc, mon, tr, wire>>

handleData(i, n) ==
    /\ "data" \in ServerFrames /\ Reads(i, n) /\ srv[i][n] = "headers"
    /\ srv' = [srv EXCEPT ![i][n] = "data"]
    /\ Deliver(i, n, LAMBDA k : [k EXCEPT !.buf = Append(@, wire[i][n])])
    /\ UNCHANGED <<cc, mon, tr, wire>>

\* Headers with END_STREAM carry the status, at any time.
handleStatus(i, n) ==
    /\ "status" \in ServerFrames /\ Reads(i, n) /\ srv[i][n] \in {"open", "headers", "data"}
    /\ srv' = [srv EXCEPT ![i][n] = "status"]
    /\ Deliver(i, n, LAMBDA k : IF k.state = "done" THEN [k EXCEPT !.headerDone = TRUE]
                                ELSE [k EXCEPT !.headerDone = TRUE, !.state = "done", !.buf = Append(@, "eof")])
    /\ UNCHANGED <<cc, mon, tr, wire>>

handleRSTStream(i, n) ==
    /\ "rst" \in ServerFrames /\ Reads(i, n) /\ srv[i][n] \in {"open", "headers", "data"}
    /\ srv' = [srv EXCEPT ![i][n] = "reset"]
    /\ Deliver(i, n, LAMBDA k : IF k.state = "done" THEN k
                                ELSE [k EXCEPT !.state = "done", !.buf = Append(@, "eof")])
    /\ UNCHANGED <<cc, mon, tr, wire>>

\* Headers that cannot be decoded.
handleBad(i, n) ==
    /\ "bad" \in ServerFrames /\ Reads(i, n) /\ srv[i][n] = "open"
    /\ srv' = [srv EXCEPT ![i][n] = "status"]
    /\ Deliver(i, n, LAMBDA k : [k EXCEPT !.buf = Append(@, "streamError")])
    /\ UNCHANGED <<cc, mon, tr, wire>>

handleSettings(i) ==
    /\ tr[i].open
    /\ \E v \in Limits : tr[i].maxStreams # v /\ tr' = [tr EXCEPT ![i].maxStreams = v]
    /\ UNCHANGED <<cc, mon, call, wire, srv>>

\* The connection breaks; the reader is the first to know, or a writer.
Break(i) ==
    /\ tr[i].open
    /\ tr' = [tr EXCEPT ![i].open = FALSE]
    /\ UNCHANGED <<cc, mon, call, wire, srv>>

ReadFails(i) ==
    /\ tr[i].state = "reachable" /\ ~tr[i].open
    /\ tr' = [tr EXCEPT ![i] = notifyError(@)]
    /\ UNCHANGED <<cc, mon, call, wire, srv>>

\* The controller sends the resets of CloseStream.
controller(i) ==
    /\ tr[i].control > 0 /\ tr[i].writable /\ ~tr[i].down
    /\ tr' = [tr EXCEPT ![i].control = @ - 1]
    /\ UNCHANGED <<cc, mon, call, wire, srv>>

-----------------------------------------------------------------------------
(* clientconn.go *)

\* transportMonitor: the connection is closed, or the transport is broken.
Monitor ==
    /\ mon.pc = "watch"
    /\ \/ cc.closing /\ mon' = [mon EXCEPT !.pc = "ended"]
       \/ tr[cc.cur].state = "unreachable" /\ mon' = [mon EXCEPT !.pc = "reset", !.close = TRUE]
    /\ UNCHANGED <<cc, tr, call, wire, srv>>

\* resetTransport, one section under the mutex after the other.
resetTransport ==
    /\ mon.pc = "reset"
    /\ cc' = [cc EXCEPT !.seq = 0]
    /\ mon' = [mon EXCEPT !.ts = cc.seq,
                          !.pc = IF cc.closing THEN "ended" ELSE IF mon.close THEN "close" ELSE "dial"]
    /\ UNCHANGED <<tr, call, wire, srv>>

CloseOld ==
    /\ mon.pc = "close"
    /\ tr' = CloseTransport(cc.cur)
    /\ call' = NotifyStreams(cc.cur)
    /\ mon' = [mon EXCEPT !.pc = "dial"]
    /\ UNCHANGED <<cc, wire, srv>>

newHTTP2Client ==
    /\ mon.pc = "dial"
    /\ \/ /\ mon.made < MaxTransports
          /\ tr' = [tr EXCEPT ![mon.made + 1] = NewTransport]
          /\ mon' = [mon EXCEPT !.pc = "install", !.made = @ + 1]
       \/ /\ mon.fails < MaxFails
          /\ mon' = [mon EXCEPT !.pc = "reset", !.close = FALSE, !.fails = @ + 1]
          /\ UNCHANGED tr
    /\ UNCHANGED <<cc, call, wire, srv>>

\* The new transport is put in place and ready is closed.
Install ==
    /\ mon.pc = "install"
    /\ cc' = [cc EXCEPT !.cur = mon.made, !.seq = mon.ts + 1]
    /\ call' = [c \in Calls |-> IF call[c].pc = "ready" THEN [call[c] EXCEPT !.pc = "wait"] ELSE call[c]]
    /\ mon' = [mon EXCEPT !.pc = "watch"]
    /\ UNCHANGED <<tr, wire, srv>>

\* ClientConn.Close, with its mutex held throughout.
Close ==
    /\ Closes /\ ~cc.closing
    /\ cc' = [cc EXCEPT !.closing = TRUE]
    /\ tr' = CloseTransport(cc.cur)
    /\ call' = NotifyStreams(cc.cur)
    /\ UNCHANGED <<mon, wire, srv>>

-----------------------------------------------------------------------------
(* The calls: Invoke, and NewClientStream with what the generated code does *)
(* on the stream.                                                          *)

Goes(c, k) == call' = [call EXCEPT ![c] = k]
Done(k, err) == [k EXCEPT !.pc = "done", !.lastErr = err]

\* A ConnectionError: Invoke tries the next transport, a stream is over.
Again(c, k) == IF c \in Streaming THEN Done(k, "connection") ELSE [k EXCEPT !.pc = "wait", !.lastErr = "connection"]

\* What the call returns when err ends it: the error of an earlier attempt, if any.
Fail(k, err) == Done(k, IF k.lastErr # None THEN k.lastErr ELSE err)

Start(c) ==
    /\ call[c].pc = "idle"
    /\ Goes(c, [call[c] EXCEPT !.pc = "wait"])
    /\ UNCHANGED <<cc, mon, tr, wire, srv>>

\* ClientConn.wait.
wait(c) ==
    /\ call[c].pc = "wait"
    /\ Goes(c, CASE cc.closing -> Fail(call[c], "closing")
                 [] ~cc.closing /\ call[c].ts < cc.seq ->
                      [call[c] EXCEPT !.pc = "writable", !.ts = cc.seq, !.t = cc.cur, !.id = 0, !.state = "active",
                                      !.headerDone = FALSE, !.buf = <<>>]
                 [] OTHER -> [call[c] EXCEPT !.pc = "ready"])
    /\ UNCHANGED <<cc, mon, tr, wire, srv>>

waitExpires(c) ==
    /\ call[c].pc = "ready" /\ call[c].expired
    /\ Goes(c, Fail(call[c], "context"))
    /\ UNCHANGED <<cc, mon, tr, wire, srv>>

T(c) == tr[call[c].t]

\* CloseStream.
Closed(i, c, k, err) ==
    tr' = [tr EXCEPT ![i].active = @ \ {c},
                     ![i].control = IF k.state # "done" /\ err \in {"context", "streamError"} THEN @ + 1 ELSE @]

\* NewStream: the right to write, the header frames, the stream.
NewStream(c) ==
    /\ call[c].pc = "writable"
    /\ \/ /\ T(c).writable
          /\ tr' = [tr EXCEPT ![call[c].t].writable = FALSE]
          /\ Goes(c, [call[c] EXCEPT !.pc = "headers"])
       \/ call[c].expired /\ Goes(c, Fail(call[c], "context")) /\ UNCHANGED tr
       \/ T(c).down /\ Goes(c, Again(c, call[c])) /\ UNCHANGED tr
    /\ UNCHANGED <<cc, mon, wire, srv>>

\* A mutant: others may write between the headers and the new id.
BugWriteHeaders(c) ==
    /\ call[c].pc = "headers" /\ T(c).open
    /\ wire' = [wire EXCEPT ![call[c].t][T(c).nextID] = c]
    /\ srv' = [srv EXCEPT ![call[c].t][T(c).nextID] = "open"]
    /\ tr' = [tr EXCEPT ![call[c].t].writable = TRUE]
    /\ Goes(c, [call[c] EXCEPT !.pc = "register"])
    /\ UNCHANGED <<cc, mon>>

WriteHeaders(c) ==
    /\ call[c].pc = "headers"
    /\ \/ /\ call[c].expired          \* the deadline check
          /\ tr' = [tr EXCEPT ![call[c].t].writable = TRUE]
          /\ Goes(c, Fail(call[c], "context"))
          /\ UNCHANGED <<wire, srv>>
       \/ /\ T(c).open
          /\ wire' = [wire EXCEPT ![call[c].t][T(c).nextID] = c]
          /\ srv' = [srv EXCEPT ![call[c].t][T(c).nextID] = "open"]
          /\ Goes(c, [call[c] EXCEPT !.pc = "register"])
          /\ UNCHANGED tr
       \/ /\ ~T(c).open
          /\ tr' = [tr EXCEPT ![call[c].t] = notifyError(@)]
          /\ Goes(c, Again(c, call[c]))
          /\ UNCHANGED <<wire, srv>>
    /\ UNCHANGED <<cc, mon>>

Register(c) ==
    /\ call[c].pc = "register"
    /\ LET i == call[c].t
           n == tr[i].nextID
       IN  \/ /\ tr[i].state # "reachable"
              /\ tr' = [tr EXCEPT ![i].nextID = n + 1]
              /\ Goes(c, Again(c, call[c]))
           \/ /\ tr[i].state = "reachable" /\ Cardinality(tr[i].active) >= tr[i].maxStreams
              /\ tr' = [tr EXCEPT ![i].nextID = n + 1, ![i].writable = TRUE]
              /\ Goes(c, Fail(call[c], "limit"))
           \/ /\ tr[i].state = "reachable" /\ Cardinality(tr[i].active) < tr[i].maxStreams
              /\ tr' = [tr EXCEPT ![i].nextID = n + 1, ![i].writable = TRUE, ![i].active = @ \cup {c}]
              /\ Goes(c, [call[c] EXCEPT !.pc = "write", !.id = n])
    /\ UNCHANGED <<cc, mon, wire, srv>>

\* Write, with Last set; SendProto and CloseSend of a streaming call in one.
Write(c) ==
    /\ call[c].pc = "write"
    /\ LET k == call[c] IN
       \/ /\ T(c).writable /\ T(c).open
          /\ Goes(c, [k EXCEPT !.pc = IF c \in Streaming THEN "recv" ELSE "header",
                               !.state = IF k.state = "done" THEN @ ELSE "writeDone"])
          /\ UNCHANGED tr
       \/ /\ T(c).writable /\ ~T(c).open
          /\ tr' = [tr EXCEPT ![k.t] = [notifyError(@) EXCEPT !.writable = FALSE]]
          /\ Goes(c, Again(c, k))
       \/ k.expired /\ Closed(k.t, c, k, "context") /\ Goes(c, Fail(k, "context"))
       \/ T(c).down /\ Goes(c, Again(c, k)) /\ UNCHANGED tr
    /\ UNCHANGED <<cc, mon, wire, srv>>

\* Stream.Header, for unary calls.
Header(c) ==
    /\ call[c].pc = "header"
    /\ \/ call[c].headerDone /\ Goes(c, [call[c] EXCEPT !.pc = "recv"]) /\ UNCHANGED tr
       \/ call[c].expired /\ Closed(call[c].t, c, call[c], "context") /\ Goes(c, Done(call[c], "context"))
    /\ UNCHANGED <<cc, mon, wire, srv>>

\* recvProto until the end; then CloseStream, unless the transport has failed.
Recv(c) ==
    /\ call[c].pc = "recv"
    /\ LET k == call[c]
           item == Head(k.buf)
           rest == [k EXCEPT !.buf = Tail(@)]
           End(err) == Closed(k.t, c, k, err) /\ Goes(c, Done(rest, err))
       IN  \/ k.expired /\ Closed(k.t, c, k, "context") /\ Goes(c, Done(k, "context"))
           \/ /\ k.buf # <<>>
              /\ CASE item \in Calls -> Goes(c, [rest EXCEPT !.got = @ \cup {item}]) /\ UNCHANGED tr
                   [] item = "eof" -> End("status")
                   [] item = "streamError" -> End("streamError")
                   [] item = "closing" -> Goes(c, Again(c, rest)) /\ UNCHANGED tr
    /\ UNCHANGED <<cc, mon, wire, srv>>

Expire(c) ==
    /\ Deadlines /\ call[c].pc \notin {"idle", "done"} /\ ~call[c].expired
    /\ Goes(c, [call[c] EXCEPT !.expired = TRUE])
    /\ UNCHANGED <<cc, mon, tr, wire, srv>>

-----------------------------------------------------------------------------

Reader(i) ==
    \/ ReadFails(i) \/ handleSettings(i)
    \/ \E n \in Ids : handleHeaders(i, n) \/ handleData(i, n) \/ handleStatus(i, n)
                      \/ handleRSTStream(i, n) \/ handleBad(i, n)

Replace == Monitor \/ resetTransport \/ CloseOld \/ newHTTP2Client \/ Install

Call(c) ==
    \/ wait(c) \/ waitExpires(c) \/ NewStream(c) \/ WriteHeaders(c) \/ Register(c)
    \/ Write(c) \/ Header(c) \/ Recv(c)

Next ==
    \/ \E i \in Transports : Reader(i) \/ Break(i) \/ controller(i)
    \/ Replace \/ Close
    \/ \E c \in Calls : Start(c) \/ Call(c) \/ Expire(c)

Spec == Init /\ [][Next]_vars

-----------------------------------------------------------------------------
(* Properties *)

(***************************************************************************)
(* A call receives nothing but the answer to the request it sent, and its  *)
(* stream has the number its header frame had, although the number is read *)
(* for the frame and taken later.                                          *)
(***************************************************************************)
OwnAnswer ==
    \A c \in Calls :
        /\ call[c].got \subseteq {c}
        /\ call[c].id # 0 /\ call[c].pc # "done" => wire[call[c].t][call[c].id] = c

=============================================================================
