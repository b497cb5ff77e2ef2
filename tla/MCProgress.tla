----------------------------- MODULE MCProgress -----------------------------
(***************************************************************************)
(* What is begun must end, in every component that waits for another, on   *)
(* instances small enough for liveness: the process and the contexts       *)
(* (extended, their names are their own), the logger, both ends of gRPC,   *)
(* and sarama.  A behaviour is one of them (part); the others rest in      *)
(* their initial states.                                                   *)
(***************************************************************************)
EXTENDS Integers, Sequences, SequencesExt, TLC, Lifecycle, Context

CONSTANTS Parts, Users, Nil

VARIABLES part,
    \* Breaker
    breakerNow, b, timers, work, openedAt, seen,
    \* KafkaClient
    seedBrokerAddrs, seedBroker, deadBrokerAddrs, brokers, metadata,
    cachedPartitionsResults, closed, obj, closing, proc, up, panicked,
    \* KafkaConsumer
    child, kids, brokerConsumers, worker, broken,
    \* KafkaBroker
    isOpened, lock, brokerConn, connErr, correlationID, responses, responsesOpen,
    receiver, awaited, responseStream, aligned, cut, brokerPc, result,
    \* Producer
    user, closer, td, pd, ld, fl, current, rh, out, log, entered, acked, producerDied,
    \* GrpcTransport
    transport, stream, handler, resetting, granted, written,
    \* GrpcClient
    cc, mon, tr, rpc, clientWire, peer,
    \* Glog
    logMu, pc, line, sev, buf, text, freeList, lines, file, disk, stderr, order, second,
    createFails, exited, timedOut,
    \* GlogV
    vMu, verbosity, filterLength, filter, vmap, set, vCall, could, conf, sets

breakerVars == <<breakerNow, b, timers, work, openedAt, seen>>
clientVars == <<seedBrokerAddrs, seedBroker, deadBrokerAddrs, brokers, metadata,
                cachedPartitionsResults, closed, obj, closing, proc, up, panicked>>
consumerVars == <<child, kids, brokerConsumers, worker, broken>>
brokerVars == <<isOpened, lock, brokerConn, connErr, correlationID, responses, responsesOpen,
                receiver, awaited, responseStream, aligned, cut, brokerPc, result>>
producerVars == <<user, closer, td, pd, ld, fl, current, rh, out, log, entered, acked, producerDied>>
serverVars == <<transport, stream, handler, resetting, granted, written>>
rpcVars == <<cc, mon, tr, rpc, clientWire, peer>>
glogVars == <<logMu, pc, line, sev, buf, text, freeList, lines, file, disk, stderr, order, second,
              createFails, exited, timedOut>>
vVars == <<vMu, verbosity, filterLength, filter, vmap, set, vCall, could, conf, sets>>
saramaVars == <<breakerVars, clientVars, consumerVars, brokerVars, producerVars>>
grpcVars == <<serverVars, rpcVars>>
supportVars == <<contextVars, glogVars, vVars>>
allVars == <<part, vars, saramaVars, grpcVars, supportVars>>

OneEach == [k \in Calls |-> IF k = 1 THEN "c1" ELSE "c2"]

No == {}
One == {1}

-----------------------------------------------------------------------------
(* sarama.  An open breaker is half-closed by its timer.                   *)
OneWorker == {"w"}
Brk == INSTANCE Breaker WITH
    Workers <- OneWorker, errorThreshold <- 2, successThreshold <- 2, timeout <- 1, MaxTime <- 3,
    now <- breakerNow

\* One seed, which the broker may move away from.
Seeds == <<"a">>
Objs == 1 .. 6
Answer(addr, e) == [brokers |-> 1 :> addr, topics |-> "t" :> [err |-> e, parts |-> 1 :> [err |-> e, leader |-> 1]]]
Answers == {Answer("a", "nil"), Answer("b", "nil"), Answer("a", "LeaderNotAvailable")}
Topics == {"t"}
Finds == {"Leader"}
OneUser == {"p"}
Asking == INSTANCE KafkaClient WITH
    Callers <- OneUser, Background <- "p", Closers <- OneUser, Ops <- Finds,
    RetryMax <- 1, Once <- FALSE, MaxClosing <- 1

\* A consumer of a partition that moves between two brokers is closed.
Kids == {"c1"}
Two == {1, 2}
Same == [k \in Kids |-> k]
Constant(o) == 1
Leaving == INSTANCE KafkaConsumer WITH
    Children <- Kids, PartitionOf <- Same, Brokers <- Two, BrokerWorkers <- Two, LogEnd <- 0,
    children <- kids, Size <- Constant, Default <- 1, MaxFetch <- 4, MaxResponseSize <- 7, Width <- 4

\* Goroutines on a broker, the first of which may close it.
Closes1 == {"u1"}
Broker == INSTANCE KafkaBroker WITH
    Procs <- Users, MayClose <- Closes1, MaxOpenRequests <- 1, MaxRequests <- 3,
    opened <- isOpened, conn <- brokerConn, current <- awaited, stream <- responseStream, torn <- cut,
    pc <- brokerPc

\* A call of SendMessage, and Close.
Message == {"m1"}
ToPart == [m \in Message |-> "p"]
Connections == {"f1", "f2"}
Closing == INSTANCE Producer WITH
    Msgs <- Message, Big <- No, Parts <- OneUser, PartOf <- ToPart, RetryMax <- 1,
    Flushers <- Connections, ShutsDown <- TRUE, None <- Nil, panicked <- producerDied

-----------------------------------------------------------------------------
(* gRPC.  A call with a deadline, on a connection that may be closed, whose *)
(* client may send no whole message, or reset the stream.                  *)
Sends == {"headers", "data", "rst"}
Either == {"unary", "stream"}
Pieces == {"data", "part", "bad"}
Serving == INSTANCE GrpcTransport WITH
    Streams <- One, ClientFrames <- Sends, Kinds <- Either, Contents <- Pieces, StreamLimits <- One,
    initialWindowSize <- 2, MaxFrameLen <- 1, Sizes <- One, MaxWrites <- 1, MaxUpdates <- 0,
    MaxBuffer <- 1, Expires <- TRUE,
    NoStream <- Nil, t <- transport, st <- stream, h <- handler, rst <- resetting

\* The server may answer with anything or nothing; the client may be closed.
Call == {"a"}
Ends1 == {"status", "bad"}
Calling == INSTANCE GrpcClient WITH
    Calls <- Call, Streaming <- No, ServerFrames <- Ends1, Limits <- No, Deadlines <- TRUE,
    Closes <- TRUE, MaxTransports <- 2, MaxFails <- 1, None <- Nil,
    call <- rpc, wire <- clientWire, srv <- peer

-----------------------------------------------------------------------------
(* f: of another kind or WithCancel(Background); v: WithValue(f);           *)
(* t: WithDeadline(v); d: WithDeadline(t).                                 *)
Chain == "f" :> "bg" @@ "v" :> "f" @@ "t" :> "v" @@ "d" :> "t"
Made == "f" :> "foreign" @@ "v" :> "value" @@ "t" :> "deadline" @@ "d" :> "deadline"
Mixed == {Made, [Made EXCEPT !["f"] = "cancel"]}
Late == "t" :> 1 @@ "d" :> 2

\* Two goroutines log three lines, one of which may be fatal.
Goroutines == {1, 2}
Severe == {0, 3}
Logging == INSTANCE Glog WITH
    Severities <- Severe, MaxSize <- 3, bufferSize <- 1, stderrThreshold <- 2, toStderr <- FALSE,
    FilesFillSlowly <- TRUE, MaxLines <- 3, MaxCreateFails <- 1, MaxTime <- 3, now <- second,
    mu <- logMu

Pattern(sites, level) == [sites |-> sites, level |-> level]
Filters == {<<>>, <<Pattern({"a"}, 2)>>, <<Pattern({"a"}, 0), Pattern({"a", "b"}, 1)>>, <<Pattern({"a"}, -1)>>}
Callers == {"c"}
Setters == {"s", "t"}
Sites == {"a"}
Levels == {1, 2}
Verbose == INSTANCE GlogV WITH MaxSets <- 2, mu <- vMu, call <- vCall

-----------------------------------------------------------------------------
InitAll ==
    /\ part \in Parts
    /\ Init /\ (part # "process" => \A v \in {"REDIS", "KAFKA"} : env[v] = "good")
    /\ Brk!Init /\ Asking!Init /\ Leaving!ConsumerInit /\ Broker!BrokerInit /\ Closing!Init
    /\ Serving!ServerInit /\ Calling!Init
    /\ ContextInit /\ (part # "contexts" => kind = Made)
    /\ Logging!Init /\ Verbose!Init

In(p, A) == part = p /\ A /\ UNCHANGED part
InProcess(A) == In("process", A) /\ UNCHANGED <<saramaVars, grpcVars, supportVars>>
InBreaker(A) ==
    In("breaker", A) /\ UNCHANGED <<vars, clientVars, consumerVars, brokerVars, producerVars, grpcVars, supportVars>>
InAsking(A) ==
    In("asking", A) /\ UNCHANGED <<vars, breakerVars, consumerVars, brokerVars, producerVars, grpcVars, supportVars>>
InLeaving(A) ==
    In("leaving", A) /\ UNCHANGED <<vars, breakerVars, clientVars, brokerVars, producerVars, grpcVars, supportVars>>
InBroker(A) ==
    In("broker", A) /\ UNCHANGED <<vars, breakerVars, clientVars, consumerVars, producerVars, grpcVars, supportVars>>
InClosing(A) ==
    In("closing", A) /\ UNCHANGED <<vars, breakerVars, clientVars, consumerVars, brokerVars, grpcVars, supportVars>>
InServing(A) == In("serving", A) /\ UNCHANGED <<vars, saramaVars, rpcVars, supportVars>>
InCalling(A) == In("calling", A) /\ UNCHANGED <<vars, saramaVars, serverVars, supportVars>>
InContexts(A) == In("contexts", A) /\ UNCHANGED <<vars, saramaVars, grpcVars, glogVars, vVars>>
InLogging(A) == In("logging", A) /\ UNCHANGED <<vars, saramaVars, grpcVars, contextVars, vVars>>
InVerbose(A) == In("verbose", A) /\ UNCHANGED <<vars, saramaVars, grpcVars, contextVars, glogVars>>

NextAll ==
    \/ InProcess(Next)
    \/ InBreaker(Brk!Next) \/ InAsking(Asking!Next) \/ InLeaving(Leaving!ConsumerNext)
    \/ InBroker(Broker!BrokerNext) \/ InClosing(Closing!Next)
    \/ InServing(Serving!ServerNext) \/ InCalling(Calling!Next)
    \/ InContexts(ContextNext)
    \/ InLogging(Logging!Next) \/ InVerbose(Verbose!Next)

\* The steps that do not depend on a peer's or a client's goodwill: a goroutine
\* that can run, a request, a dial and a sleep that end, time that goes on, a
\* timer that fires.  One of them at a time is enough, since all but the
\* consumer's select loops end.
Steps ==
    \/ InProcess(Main \/ (AcceptFails /\ srv.stopped) \/ \E c \in Conns : StartTransport(c))
    \/ InBreaker(Brk!Timer \/ Brk!Tick)
    \/ InAsking(~panicked /\ \E p \in Asking!Goroutines : Asking!Step(p))
    \/ InBroker(\/ Broker!Dial \/ Broker!Receiver
                \/ \E u \in Users : Broker!CloseDone(u) \/ Broker!Promise(u) \/ Broker!OpenLock(u))
    \/ InClosing(Closing!Step \/ Closing!Close)
    \/ InServing(Serving!Alive /\ (\/ Serving!Handler(1) \/ Serving!serverController \/ Serving!ServerClose
                                   \/ Serving!MarkReset \/ Serving!CloseReset))
    \/ InCalling(\/ Calling!Replace \/ Calling!Call("a") \/ Calling!Expire("a")
                 \/ \E i \in Calling!Transports : Calling!ReadFails(i) \/ Calling!controller(i))
    \/ InContexts(\/ Tick \/ \E t \in Threads : Run(t)
                  \/ \E c \in Ctx : Construct(c) \/ TimerFires(c) \/ Watch(c))
    \/ InLogging(\/ Logging!lockAndFlushAll \/ Logging!Tick
                 \/ \E g \in Goroutines : Logging!Step(g))

\* A select that keeps finding a case ready takes it at some time.
Selects ==
    /\ WF_consumerVars(part = "leaving" /\ Leaving!Dispatcher("c1"))
    /\ SF_consumerVars(part = "leaving" /\ Leaving!Input("c1"))
    /\ SF_consumerVars(part = "leaving" /\ Leaving!Dying("c1"))
    /\ \A w \in Two : /\ WF_consumerVars(part = "leaving" /\ Leaving!Manager(w))
                      /\ WF_consumerVars(part = "leaving" /\ Leaving!Fetcher(w))

\* The producer answers what it took.
Results == WF_vars(part = "process" /\ \E k \in Calls : Result(k))

Fairness == WF_allVars(Steps) /\ Results /\ Selects

SpecAll == InitAll /\ [][NextAll]_allVars /\ Fairness

-----------------------------------------------------------------------------
(***************************************************************************)
(* While the logger's mutex is free the file of every severity holds the   *)
(* lines of that severity and above, whole, once and in order, across      *)
(* rotations; a fatal line or a failed write leaves on disk what came      *)
(* before it; and outside a setting the cache of V agrees with -vmodule,   *)
(* whose answers no mixture of an old and a new setting makes.             *)
(***************************************************************************)
LogsComplete ==
    /\ Logging!FilesComplete /\ Logging!ExitFlushes
    /\ Verbose!CacheFresh /\ Verbose!VAnswersSettings

\* Nothing that was begun in a part is still under way.
Settled ==
    CASE part = "process" -> srv.stopped => died # "no"
      [] part = "breaker" -> b.state = "open" => breakerNow = 3
      [] part = "asking" -> \A p \in Asking!Goroutines : Asking!AtRest(p)
      [] part = "leaving" -> child["c1"].dying => child["c1"].at = "done"
      [] part = "broker" -> \A u \in Users : Broker!Resting(u)
      [] part = "closing" -> \/ producerDied # "alive"
                             \/ (closer = "sending" => td.pc = "done") /\ user["m1"] # "waiting"
      [] part = "serving" -> transport.state = "closing" => handler[1].pc \in {"none", "end", "panic"} \/ stream[1].locked
      [] part = "calling" -> rpc["a"].expired => rpc["a"].pc = "done"
      [] part = "contexts" ->
            \A c \in {"t", "d"} :
                made[c] = "yes" /\ (err[Above(c)] # "nil" \/ now >= Late[c]) => err[c] # "nil"
      [] part = "logging" -> exited # -1 \/ \A n \in ToSet(order) : n \in ToSet(Logging!OnDisk(0))
      [] OTHER -> TRUE

(***************************************************************************)
(* What is begun ends: a stopped server lets main return, an open breaker  *)
(* half-closes, a lookup and NewClient return, a closed consumer is done,  *)
(* a request and a Close on a broker end, Close lets the producer flush    *)
(* and answers the call it races, the handlers of a closed transport end   *)
(* unless a reset has left the stream's mutex locked (http2_server.go:594), *)
(* an expired call returns, a context is done by its deadline and with its *)
(* parent, and a line that was logged reaches the disk.                    *)
(***************************************************************************)
CallsReturn == []<>Settled
=============================================================================
