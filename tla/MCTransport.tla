---------------------------- MODULE MCTransport ----------------------------
(***************************************************************************)
(* The transports under TLC: the gRPC client (extended, its names are its  *)
(* own), a connection of the gRPC server, a connection of the HTTP/2       *)
(* server and its priority tree.  A behaviour is one of them (part); the   *)
(* others rest in their initial states.                                    *)
(***************************************************************************)
EXTENDS Integers, GrpcClient, GrpcTransport

CONSTANTS Parts, OneStream, ManyStreams

VARIABLES part,
    \* Http2Server
    s, serving, want, reader, left,
    \* Http2Priority
    open, used, parent

http2Vars == <<s, serving, want, reader, left>>
priorityVars == <<open, used, parent>>
allVars == <<part, vars, serverVars, http2Vars, priorityVars>>

-----------------------------------------------------------------------------
\* Two streaming calls share a connection of the gRPC server, with a message
\* each way: messages are cut and quota given back.
SharingNext ==
    /\ Alive
    /\ \/ ServerClose \/ serverController
       \/ \E i \in Streams, end \in BOOLEAN :
             operateHeaders(i, end, "stream") \/ serverHandleData(i, "data", end)
       \/ \E i \in Streams \cup {0} : handleWindowUpdate(i)
       \/ \E i \in Streams : Handler(i)
    /\ \A i \in Streams : h'[i].writes <= 1 /\ (st'[i].buf # st[i].buf => st[i].state = "active")

\* A call with a deadline, which the client may reset, and to which it sends
\* whatever it likes; and another for a method that is unknown.
ResettingNext ==
    /\ Alive
    /\ \/ ServerClose \/ MarkReset \/ CloseReset \/ serverController
       \/ \E end \in BOOLEAN :
             \/ \E kind \in Kinds : operateHeaders(1, end, kind)
             \/ \E content \in Contents : serverHandleData(1, content, end)
       \/ operateHeaders(3, TRUE, "unknown") \/ serverHandleRSTStream(1) \/ ExpireStream(1)
       \/ \E i \in Streams : Handler(i)

-----------------------------------------------------------------------------
F(type, i) == [type |-> type, id |-> i, n |-> 0, end |-> FALSE, ack |-> FALSE, bad |-> FALSE,
               endHeaders |-> TRUE, malformed |-> FALSE, decl |-> -1]
Settings(n) == [F("settings", 0) EXCEPT !.n = n]
Get(i) == [F("headers", i) EXCEPT !.end = TRUE]
Post(i) == F("headers", i)
Data(i, n, end) == [F("data", i) EXCEPT !.n = n, !.end = end]
Update(i, n) == [F("window_update", i) EXCEPT !.n = n]

\* One stream, any sequence of frames.
EveryFrame ==
    {Settings(2), [Settings(2) EXCEPT !.ack = TRUE], [Settings(2) EXCEPT !.bad = TRUE],
     Get(1), Post(1), Get(2),
     [Post(1) EXCEPT !.endHeaders = FALSE], [Post(1) EXCEPT !.malformed = TRUE],
     [Post(1) EXCEPT !.bad = TRUE], [Post(1) EXCEPT !.decl = 1],
     F("continuation", 1), F("ping", 0), F("push_promise", 1), F("rst_stream", 1),
     Data(1, 1, FALSE), Data(1, 2, TRUE), Data(1, 0, TRUE), Update(1, 1), Update(0, 9)}
AnyError == {[err |-> e, id |-> 1] : e \in {"stream", "conn", "other"}}
Small == {1}
Frame == INSTANCE Http2Server WITH
    h <- serving, Ids <- OneStream, Frames <- EveryFrame, ReadErrors <- AnyError, advMaxStreams <- 1,
    initialWindowSize <- 2, MaxWindow <- 5, maxFrameSize <- 1, WantCap <- 2, Chunks <- Small,
    MaxFrames <- 3

\* Two requests whose responses and bodies share the windows; the initial
\* window may shrink.
Flow == {Settings(2), Settings(1), Get(1), Post(3), Data(3, 1, FALSE), Data(3, 2, TRUE),
         Update(0, 1), F("rst_stream", 3)}
NoErrors == {}
Twos == {2}
Window == INSTANCE Http2Server WITH
    h <- serving, Ids <- Streams, Frames <- Flow, ReadErrors <- NoErrors, advMaxStreams <- 2,
    initialWindowSize <- 2, MaxWindow <- 5, maxFrameSize <- 1, WantCap <- 2, Chunks <- Twos,
    MaxFrames <- 4

\* Four streams that open, close and change priority.
Priority == INSTANCE Http2Priority WITH Ids <- ManyStreams

-----------------------------------------------------------------------------
InitAll ==
    /\ part \in Parts
    /\ Init
    /\ ServerInit /\ t.maxStreams = IF part = "sharing" THEN 2 ELSE 1
    /\ IF part = "frames" THEN Frame!Init ELSE Window!Init
    /\ Priority!Init

InClient(A) == part = "client" /\ A /\ UNCHANGED <<part, serverVars, http2Vars, priorityVars>>
InServer(p, A) == part = p /\ A /\ UNCHANGED <<part, vars, http2Vars, priorityVars>>
InHttp2(p, A) == part = p /\ A /\ UNCHANGED <<part, vars, serverVars, priorityVars>>
InPriority(A) == part = "priority" /\ A /\ UNCHANGED <<part, vars, serverVars, http2Vars>>

NextAll ==
    \/ InClient(Next)
    \/ InServer("sharing", SharingNext) \/ InServer("resetting", ResettingNext)
    \/ InHttp2("frames", Frame!Next) \/ InHttp2("windows", Window!Next)
    \/ InPriority(Priority!Next)

SpecAll == InitAll /\ [][NextAll]_allVars

-----------------------------------------------------------------------------
(***************************************************************************)
(* Whatever the client sends, none of the "internal error" panics of the   *)
(* serve loop is reached, the unsigned curOpenStreams is the number of     *)
(* streams in the map, and no stream becomes its own ancestor in the       *)
(* priority tree.  The loop blocks for ever, or starts a frame writer      *)
(* beside another, only after it has skipped a frame of a stream that was  *)
(* reset.                                                                  *)
(***************************************************************************)
ServeSurvives ==
    /\ IF part = "frames" THEN Frame!NoPanic /\ Frame!SkipsAlone /\ Frame!StreamsCounted
       ELSE Window!NoPanic /\ Window!SkipsAlone /\ Window!StreamsCounted
    /\ Priority!Acyclic

(***************************************************************************)
(* The HTTP/2 server never sends more than the client's windows allow, on  *)
(* a stream or on the connection, as long as no chunk was replaced in a    *)
(* recycled curWrite; and what its own window shrank by waits for a        *)
(* handler or was sent to a closed body.                                   *)
(***************************************************************************)
WindowsKept == part = "windows" => Window!CreditIsReal /\ Window!WindowConserved
=============================================================================
