--------------------------- MODULE GrpcTransport ---------------------------
(***************************************************************************)
(* One connection of the gRPC server: transport/http2_server.go with the   *)
(* quota pools of control.go, and the goroutines grpc/server.go runs on    *)
(* it.  The reader (HandleStreams) starts a handler per stream; handlers   *)
(* and the controller write frames one at a time, holding writableChan.    *)
(* stream.mu is only ever seen locked when closeStream returns holding it. *)
(***************************************************************************)
EXTENDS Integers, Sequences, FiniteSets

CONSTANTS
    Streams,          \* stream identifiers, odd
    ClientFrames,     \* what the client sends: "headers", "data", "rst", "update"
    Kinds,            \* what it calls: "unary", "stream", "unknown" or "malformed"
    Contents,         \* of its DATA frames: "data", "part", "bad" or "eof"
    StreamLimits,     \* what maxStreams can be (MaxUint32 when none is set)
    initialWindowSize, MaxFrameLen,
    Sizes,            \* sizes of the messages handlers write
    MaxWrites,        \* bounds: messages a handler writes, window updates,
    MaxUpdates,       \* frames that wait in the buffer of a stream
    MaxBuffer,
    Expires,          \* whether the streams' contexts have a deadline
    NoStream

ASSUME GrpcTransportAssumption ==
    /\ Streams \subseteq Nat \ {0} /\ IsFiniteSet(Streams)
    /\ initialWindowSize \in Nat \ {0} /\ MaxFrameLen \in Nat \ {0}
    /\ StreamLimits \subseteq Nat \ {0} /\ Sizes \subseteq Nat
    /\ Contents \subseteq {"data", "part", "bad", "eof"}

VARIABLES
    t,        \* http2Server
    st,       \* the Streams
    h,        \* their handlers
    rst,      \* the stream handleRSTStream is at work on
    granted,  \* history: the window the client gave, for 0 and per stream
    written   \* history: per stream, what was written: bytes, how often
              \* END_STREAM, and whether bytes came after it

serverVars == <<t, st, h, rst, granted, written>>

-----------------------------------------------------------------------------
(* control.go: the quota that can be acquired is in a channel of size 1. *)

newQuotaPool(n) == [c |-> n, quota |-> 0]

\* A mutant: what goes into the channel stays in quota.
BugAdd(p, n) ==
    IF p.quota + n > 0 /\ p.c = 0 THEN [c |-> p.quota + n, quota |-> p.quota + n]
    ELSE [p EXCEPT !.quota = @ + n]

add(p, n) ==
    IF p.quota + n > 0 /\ p.c = 0 THEN [c |-> p.quota + n, quota |-> 0]
    ELSE [p EXCEPT !.quota = @ + n]

cancel(p) == [c |-> 0, quota |-> p.quota + p.c]

-----------------------------------------------------------------------------

NoHandler == [pc |-> "none", unary |-> FALSE, then |-> "end", todo |-> 0, writes |-> 0, sq |-> 0, frame |-> 0]

ServerInit ==
    /\ \E n \in StreamLimits :
          t = [state |-> "reachable", active |-> {}, maxStreams |-> n, maxStreamID |-> 0,
               writer |-> NoStream, pool |-> newQuotaPool(initialWindowSize), control |-> 0]
    /\ st = [i \in Streams |-> [state |-> "none", locked |-> FALSE, done |-> FALSE,
                            headerOk |-> FALSE, pool |-> newQuotaPool(initialWindowSize),
                            buf |-> <<>>]]
    /\ h = [i \in Streams |-> NoHandler]
    /\ rst = NoStream
    /\ granted = [i \in Streams \cup {0} |-> initialWindowSize]
    /\ written = [i \in Streams |-> [bytes |-> 0, ends |-> 0, late |-> FALSE]]

ServerClosed(k) == [k EXCEPT !.state = "closing", !.active = {}]

\* A mutant: nobody is told.
BugNotified == st

\* Close: active streams are told through their buffers, not their contexts.
Notified == [i \in Streams |-> IF i \in t.active THEN [st[i] EXCEPT !.buf = Append(@, "closing")]
                           ELSE st[i]]

-----------------------------------------------------------------------------
(* HandleStreams *)

ServerReads == t.state = "reachable" /\ rst = NoStream

\* operateHeaders: a new stream, unless its headers cannot be decoded or there
\* are too many.  handleStream answers an unknown method with a status.
operateHeaders(i, end, kind) ==
    /\ ServerReads /\ "headers" \in ClientFrames /\ i > t.maxStreamID
    /\ IF kind = "malformed" \/ Cardinality(t.active) >= t.maxStreams
       THEN /\ t' = [t EXCEPT !.maxStreamID = i, !.control = @ + 1]
            /\ UNCHANGED <<st, h>>
       ELSE /\ t' = [t EXCEPT !.maxStreamID = i, !.active = @ \cup {i}]
            /\ st' = [st EXCEPT ![i].state = IF end THEN "readDone" ELSE "active"]
            /\ h' = [h EXCEPT ![i].pc = IF kind = "unknown" THEN "status" ELSE "recv",
                              ![i].unary = kind = "unary"]
    /\ UNCHANGED <<rst, granted, written>>

\* handleData, for a stream that is active, even one the client has ended: a
\* message ("data") or part of one, one of an unknown format ("bad"), or nothing,
\* which reads like the end ("eof"); and then the end of the stream.
serverHandleData(i, content, end) ==
    /\ ServerReads /\ "data" \in ClientFrames /\ i \in t.active
    /\ Len(st[i].buf) < MaxBuffer /\ (end => ~st[i].locked)
    /\ st' = [st EXCEPT ![i].buf = @ \o (IF end THEN <<content, "eof">> ELSE <<content>>),
                        ![i].state = IF end /\ @ # "done" THEN "readDone" ELSE @]
    /\ UNCHANGED <<t, h, rst, granted, written>>

\* handleRSTStream: the stream is looked up, then marked, then closed.
serverHandleRSTStream(i) ==
    /\ ServerReads /\ "rst" \in ClientFrames /\ i \in t.active
    /\ rst' = [id |-> i, pc |-> "mark"]
    /\ UNCHANGED <<t, st, h, granted, written>>

MarkReset ==
    /\ rst # NoStream /\ rst.pc = "mark" /\ ~st[rst.id].locked
    /\ st' = [st EXCEPT ![rst.id].state = "done"]
    /\ rst' = [rst EXCEPT !.pc = "close"]
    /\ UNCHANGED <<t, h, granted, written>>

handleWindowUpdate(i) ==
    /\ ServerReads /\ "update" \in ClientFrames /\ granted[i] < initialWindowSize + MaxUpdates
    /\ granted' = [granted EXCEPT ![i] = @ + 1]
    /\ t' = IF i = 0 THEN [t EXCEPT !.pool = add(@, 1)] ELSE t
    /\ st' = IF i \in t.active THEN [st EXCEPT ![i].pool = add(@, 1)] ELSE st
    /\ UNCHANGED <<h, rst, written>>

\* ReadFrame fails, or the server is stopped, at any moment.
ServerClose ==
    /\ t.state = "reachable"
    /\ t' = ServerClosed(t)
    /\ st' = Notified
    /\ UNCHANGED <<h, rst, granted, written>>

\* closeStream: a stream that is done is returned from with its lock held;
\* any other is marked done and its context cancelled.
closeStream(i) ==
    /\ ~st[i].locked
    /\ st' = [st EXCEPT ![i] = IF @.state = "done" THEN [@ EXCEPT !.locked = TRUE]
                               ELSE [@ EXCEPT !.state = "done", !.done = TRUE]]

CloseReset ==
    /\ rst # NoStream /\ rst.pc = "close"
    /\ closeStream(rst.id)
    /\ t' = [t EXCEPT !.active = @ \ {rst.id}]
    /\ rst' = NoStream
    /\ UNCHANGED <<h, granted, written>>

\* The deadline of a stream passes.
ExpireStream(i) ==
    /\ Expires /\ st[i].state # "none" /\ ~st[i].done
    /\ st' = [st EXCEPT ![i].done = TRUE]
    /\ UNCHANGED <<t, h, rst, granted, written>>

-----------------------------------------------------------------------------
(* wait: the context, the end of the transport, or what is waited for.  Close  *)
(* tells of the end before it closes the connection, and a write may still     *)
(* succeed.                                                                    *)

Down == t.state = "closing"
Finish(i, pc) == h' = [h EXCEPT ![i].pc = pc, ![i].then = "end"]

\* A wait within Write is given up.  processUnaryRPC writes no status when the
\* transport is down; a streaming handler returns the error, and has it written.
GivesUpWrite(i, onDone) ==
    \/ st[i].done /\ h' = [h EXCEPT ![i].pc = onDone]
    \/ Down /\ h' = [h EXCEPT ![i].pc = IF h[i].unary THEN "end" ELSE "status"]

\* recvMsg, between messages ("recv") and inside one ("rest").  What the client
\* sends can be more than processUnaryRPC expects: an end inside a message and
\* an unknown format panic, and nothing recovers.
Receive(i) ==
    /\ h[i].pc \in {"recv", "rest"}
    /\ \/ /\ st[i].buf # <<>>
          /\ st' = [st EXCEPT ![i].buf = Tail(@)]
          /\ LET item == Head(st[i].buf)
                 panics == item = "bad" \/ (item = "eof" /\ h[i].pc = "rest")
             IN  CASE item = "data" -> h' = [h EXCEPT ![i].pc = "run"]
                   [] item = "part" -> h' = [h EXCEPT ![i].pc = "rest"]
                   [] OTHER -> Finish(i, IF ~h[i].unary THEN "status"
                                         ELSE IF panics THEN "panic" ELSE "end")
       \/ st[i].done /\ Finish(i, "status") /\ UNCHANGED st
    /\ UNCHANGED <<t, rst, granted, written>>

\* The application writes a message or is finished.  A unary call that has a
\* reply goes on to the next message when reply and status are written.
Run(i) ==
    /\ h[i].pc = "run"
    /\ \/ \E n \in Sizes :
             /\ h[i].writes < MaxWrites
             /\ h' = [h EXCEPT ![i].pc = "header", ![i].todo = n, ![i].writes = @ + 1,
                              ![i].then = IF h[i].unary THEN "recv" ELSE "end"]
       \/ Finish(i, "status")
    /\ UNCHANGED <<t, st, rst, granted, written>>

\* Write: the header frame goes before the first message.
WriteHeaderFrame(i) ==
    /\ h[i].pc = "header" /\ ~st[i].locked
    /\ h' = [h EXCEPT ![i].pc = IF st[i].headerOk THEN "loop" ELSE "headerWait"]
    /\ st' = [st EXCEPT ![i].headerOk = TRUE]
    /\ UNCHANGED <<t, rst, granted, written>>

HeaderWait(i) ==
    /\ \/ h[i].pc = "headerWait" /\ t.writer = NoStream /\ h' = [h EXCEPT ![i].pc = "loop"]
       \/ h[i].pc = "headerWait" /\ GivesUpWrite(i, "status")
    /\ UNCHANGED <<t, st, rst, granted, written>>

\* One round of Write's loop: quota of the stream, quota of the transport.
WriteLoop(i) ==
    /\ h[i].pc = "loop"
    /\ h' = [h EXCEPT ![i].pc = IF h[i].todo # 0 THEN "streamQuota"
                               ELSE IF h[i].unary THEN "status" ELSE "run"]
    /\ st' = IF h[i].todo = 0 THEN st ELSE [st EXCEPT ![i].pool = add(@, 0)]
    /\ UNCHANGED <<t, rst, granted, written>>

StreamQuota(i) ==
    \/ /\ h[i].pc = "streamQuota" /\ st[i].pool.c > 0
       /\ h' = [h EXCEPT ![i].pc = "quota", ![i].sq = st[i].pool.c]
       /\ st' = [st EXCEPT ![i].pool.c = 0]
       /\ t' = [t EXCEPT !.pool = add(@, 0)]
       /\ UNCHANGED <<rst, granted, written>>
    \/ /\ h[i].pc = "streamQuota" /\ GivesUpWrite(i, "status")
       /\ UNCHANGED <<t, st, rst, granted, written>>

Least(S) == CHOOSE n \in S : \A m \in S : n <= m

\* With both, the frame is cut and what is left over given back.
TransportQuota(i) ==
    /\ h[i].pc = "quota" /\ t.pool.c > 0
    /\ LET n == Least({h[i].todo, h[i].sq, t.pool.c, MaxFrameLen}) IN
       /\ h' = [h EXCEPT ![i].pc = "writeWait", ![i].frame = n, ![i].sq = 0]
       /\ st' = [st EXCEPT ![i].pool = IF n < h[i].sq THEN add(@, h[i].sq - n) ELSE @]
       /\ t' = [t EXCEPT !.pool = LET took == [@ EXCEPT !.c = 0] IN
                                  IF n < t.pool.c THEN add(took, t.pool.c - n) ELSE took]
    /\ UNCHANGED <<rst, granted, written>>

\* The stream ends first: the quota it has not taken is cancelled, in a step
\* of its own.
QuotaRefused(i) ==
    \/ /\ h[i].pc = "quota" /\ GivesUpWrite(i, "cancel")
       /\ UNCHANGED <<t, st, rst, granted, written>>
    \/ /\ h[i].pc = "cancel"
       /\ t' = [t EXCEPT !.pool = cancel(@)]
       /\ h' = [h EXCEPT ![i].pc = "status"]
       /\ UNCHANGED <<st, rst, granted, written>>

\* The frame is written.
WriteData(i) ==
    \/ /\ h[i].pc = "writeWait" /\ t.writer = NoStream
       /\ h' = [h EXCEPT ![i].pc = "loop", ![i].todo = @ - h[i].frame, ![i].frame = 0]
       /\ written' = [written EXCEPT ![i].bytes = @ + h[i].frame,
                                     ![i].late = @ \/ written[i].ends > 0]
       /\ UNCHANGED <<t, st, rst, granted>>
    \/ /\ h[i].pc = "writeWait" /\ GivesUpWrite(i, "status")
       /\ UNCHANGED <<t, st, rst, granted, written>>

\* The write of a frame fails: the transport is closed, nobody writes again.
WriteFails(i) ==
    /\ h[i].pc \in {"headerWait", "writeWait", "statusWait"} /\ t.writer = NoStream
    /\ t' = ServerClosed([t EXCEPT !.writer = i])
    /\ st' = Notified
    /\ h' = [h EXCEPT ![i].pc = IF @ = "statusWait" THEN h[i].then
                               ELSE IF h[i].unary THEN "end" ELSE "status"]
    /\ UNCHANGED <<rst, granted, written>>

\* A mutant: a stream that is done gets a status all the same.
BugWriteStatus(i) ==
    /\ h[i].pc = "status" /\ ~st[i].locked
    /\ h' = [h EXCEPT ![i].pc = "statusWait"]
    /\ UNCHANGED <<t, st, rst, granted, written>>

\* WriteStatus: nothing to do for a stream that is done.
WriteStatus(i) ==
    /\ h[i].pc = "status" /\ ~st[i].locked
    /\ h' = [h EXCEPT ![i].pc = IF st[i].state = "done" THEN h[i].then ELSE "statusWait"]
    /\ UNCHANGED <<t, st, rst, granted, written>>

StatusWait(i) ==
    \/ /\ h[i].pc = "statusWait" /\ t.writer = NoStream
       /\ t' = [t EXCEPT !.writer = i]
       /\ h' = [h EXCEPT ![i].pc = "close"]
       /\ written' = [written EXCEPT ![i].ends = @ + 1]
       /\ UNCHANGED <<st, rst, granted>>
    \/ /\ h[i].pc = "statusWait" /\ (st[i].done \/ Down)
       /\ h' = [h EXCEPT ![i].pc = h[i].then]
       /\ UNCHANGED <<t, st, rst, granted, written>>

\* closeStream, then the others may write.  A unary call that was answered
\* reads on: a further message is handled like the first.
StatusWritten(i) ==
    /\ h[i].pc = "close"
    /\ closeStream(i)
    /\ t' = [t EXCEPT !.active = @ \ {i}, !.writer = NoStream]
    /\ h' = [h EXCEPT ![i].pc = h[i].then]
    /\ UNCHANGED <<rst, granted, written>>

\* The controller writes what is in its buffer.
serverController ==
    /\ t.control > 0 /\ t.writer = NoStream
    /\ t' = [t EXCEPT !.control = @ - 1]
    /\ UNCHANGED <<st, h, rst, granted, written>>

-----------------------------------------------------------------------------

Handler(i) ==
    \/ Receive(i) \/ Run(i) \/ WriteHeaderFrame(i) \/ HeaderWait(i) \/ WriteLoop(i)
    \/ StreamQuota(i) \/ TransportQuota(i) \/ QuotaRefused(i) \/ WriteData(i) \/ WriteFails(i)
    \/ WriteStatus(i) \/ StatusWait(i) \/ StatusWritten(i)

ServerReader ==
    \/ ServerClose \/ MarkReset \/ CloseReset
    \/ \E i \in Streams, end \in BOOLEAN :
          \/ \E kind \in Kinds : operateHeaders(i, end, kind)
          \/ \E content \in Contents : serverHandleData(i, content, end)
    \/ \E i \in Streams : serverHandleRSTStream(i)
    \/ \E i \in Streams \cup {0} : handleWindowUpdate(i)

\* A panic ends the process.
Alive == \A i \in Streams : h[i].pc # "panic"

ServerNext ==
    /\ Alive
    /\ ServerReader \/ serverController \/ \E i \in Streams : Handler(i) \/ ExpireStream(i)

ServerSpec == ServerInit /\ [][ServerNext]_serverVars

-----------------------------------------------------------------------------

PCs == {"none", "recv", "rest", "panic", "run", "header", "headerWait", "loop", "streamQuota", "quota",
        "cancel", "writeWait", "status", "statusWait", "close", "end"}

ServerTypeOK ==
    /\ t.state \in {"reachable", "closing"} /\ t.active \subseteq Streams
    /\ t.writer \in Streams \cup {NoStream} /\ t.pool.c >= 0 /\ t.pool.quota >= 0
    /\ \A i \in Streams : /\ st[i].state \in {"none", "active", "readDone", "done"}
                      /\ st[i].pool.c >= 0 /\ st[i].pool.quota >= 0
                      /\ h[i].pc \in PCs /\ h[i].then \in {"recv", "end"} /\ h[i].todo >= 0 /\ h[i].frame >= 0

\* What the f[i] add up to, as the number of their units.
Sum(f) == Cardinality(UNION {{i} \X (1 .. f[i]) : i \in Streams})
Total(p) == p.c + p.quota

\* The bytes that were sent on the connection or are cut for a frame.
Taken == Sum([i \in Streams |-> written[i].bytes + h[i].frame])

(***************************************************************************)
(* The server never sends more than the client's windows allow, on a       *)
(* stream or on the connection, however quota is acquired, cut, given back *)
(* and cancelled by the handlers that share a connection.                  *)
(***************************************************************************)
WithinWindow ==
    /\ Taken + Total(t.pool) <= granted[0]
    /\ \A i \in Streams :
          written[i].bytes + h[i].sq + h[i].frame + Total(st[i].pool) <= granted[i]

(***************************************************************************)
(* The stream ends once, although a reset, a deadline and the handler race *)
(* for it: END_STREAM is written at most once, and bytes follow it only on *)
(* a unary call to which the client sent a further message, which is       *)
(* handled and may be replied to before the end of the context is noticed. *)
(***************************************************************************)
StatusOnce ==
    \A i \in Streams :
        /\ written[i].ends <= 1
        /\ written[i].late => h[i].unary /\ h[i].writes > 1

=============================================================================
