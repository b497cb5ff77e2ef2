----------------------------- MODULE Lifecycle -----------------------------
(***************************************************************************)
(* The process: main.go and the gRPC server it serves with                 *)
(* (grpc/server.go).  main builds the pool, the producer and the listener  *)
(* in order and serves until Accept fails; its deferred calls then close   *)
(* the producer and the pool while the handlers of open connections still  *)
(* run.  A call reads its message, takes a Redis connection and, if it     *)
(* sets a status, publishes it; the pool and the producer are modules of   *)
(* their own and appear here by what main and a handler see of them.       *)
(***************************************************************************)
EXTENDS Naturals, FiniteSets

CONSTANTS
    Conns,       \* client connections
    Calls,       \* the calls of all clients
    ConnOf,      \* the connection a call comes on
    Methods,     \* "SetStatus", "GetDevices" and a method nobody registered
    MaxIdle,     \* of the pool
    Stops        \* whether something calls Server.Stop

ASSUME LifecycleAssumption ==
    /\ ConnOf \in [Calls -> Conns] /\ MaxIdle \in Nat /\ Stops \in BOOLEAN

VARIABLES
    env,       \* the environment variables: missing, without "//", or good
    main,      \* where main is
    pool,      \* redisPool: open, connections idle
    producer,  \* "none", "open", "closing", and "closed" once its Input is
    published, \* the calls whose message the producer took
    srv,       \* grpc.Server: registered, lis, conns (None once stopped)
    conn,      \* connections: "none", "accepted", "open", "closed"
    call,      \* handlers: pc, method, and the message they are about to read
    died       \* how the process ended, "no" while it runs

vars == <<env, main, pool, producer, published, srv, conn, call, died>>

Init ==
    /\ env \in [{"REDIS", "KAFKA"} -> {"missing", "malformed", "good"}]
    /\ main = "pool" /\ producer = "none" /\ published = {} /\ died = "no"
    /\ pool = [open |-> FALSE, idle |-> 0]
    /\ srv = [registered |-> FALSE, listening |-> FALSE, stopped |-> FALSE, conns |-> {}]
    /\ conn = [c \in Conns |-> "none"]
    /\ call = [k \in Calls |-> [pc |-> "none", method |-> "none", message |-> "none"]]

Runs == died = "no"

-----------------------------------------------------------------------------
(* main *)

\* glog.Fatalf ends the process without the deferred calls.
Fatal(why) == died' = why

CreatePool ==
    /\ Runs /\ main = "pool"
    /\ pool' = [pool EXCEPT !.open = TRUE]
    /\ main' = "producer"
    /\ UNCHANGED <<env, producer, published, srv, conn, call, died>>

\* The calls whose message has no result yet.
Waiting == {k \in Calls : call[k].pc = "wait"}

\* A missing variable is fatal, one without "//" an index out of range.
ParseLinkEnv(name) == env[name] = "good"

\* NewSyncProducer: the variable is missing, Kafka is not reached, or it works.
CreateProducer ==
    /\ Runs /\ main = "producer"
    /\ \/ ~ParseLinkEnv("KAFKA") /\ Fatal("KAFKA_PORT") /\ UNCHANGED <<main, producer>>
       \/ ParseLinkEnv("KAFKA") /\ Fatal("kafka") /\ UNCHANGED <<main, producer>>
       \/ ParseLinkEnv("KAFKA") /\ producer' = "open" /\ main' = "listen" /\ UNCHANGED died
    /\ UNCHANGED <<env, pool, published, srv, conn, call>>

Listen ==
    /\ Runs /\ main = "listen"
    /\ \/ Fatal("listen") /\ UNCHANGED <<main, srv>>
       \/ srv' = [srv EXCEPT !.listening = TRUE] /\ main' = "register" /\ UNCHANGED died
    /\ UNCHANGED <<env, pool, producer, published, conn, call>>

RegisterService ==
    /\ Runs /\ main = "register"
    /\ srv' = [srv EXCEPT !.registered = TRUE]
    /\ main' = "serve"
    /\ UNCHANGED <<env, pool, producer, published, conn, call, died>>

\* Serve: Accept gives a connection,
Accept(c) ==
    /\ Runs /\ main = "serve" /\ srv.listening /\ conn[c] = "none"
    /\ \A d \in Conns : conn[d] # "accepted"
    /\ conn' = [conn EXCEPT ![c] = "accepted"]
    /\ UNCHANGED <<env, main, pool, producer, published, srv, call, died>>

\* which gets a transport, unless its handshake fails or the server was stopped.
StartTransport(c) ==
    /\ Runs /\ conn[c] = "accepted"
    /\ \/ /\ srv.stopped
          /\ conn' = [conn EXCEPT ![c] = "closed"]
          /\ main' = "closeProducer"
          /\ UNCHANGED srv
       \/ /\ ~srv.stopped
          /\ conn' = [conn EXCEPT ![c] = "open"]
          /\ srv' = [srv EXCEPT !.conns = @ \cup {c}]
          /\ UNCHANGED main
       \/ /\ ~srv.stopped
          /\ conn' = [conn EXCEPT ![c] = "closed"]
          /\ UNCHANGED <<srv, main>>
    /\ UNCHANGED <<env, pool, producer, published, call, died>>

\* Accept fails, because the listener is closed or otherwise: Serve returns.
AcceptFails ==
    /\ Runs /\ main = "serve" /\ \A c \in Conns : conn[c] # "accepted"
    /\ srv' = [srv EXCEPT !.listening = FALSE]
    /\ main' = "closeProducer"
    /\ UNCHANGED <<env, pool, producer, published, conn, call, died>>

\* The deferred calls, last one first.  producer.Close has the producer shut
\* down, which closes Input once no message is in flight, and waits until every
\* result was handed out.
CloseProducer ==
    /\ Runs /\ main = "closeProducer"
    /\ \/ producer = "open" /\ producer' = "closing" /\ UNCHANGED main
       \/ producer = "closing" /\ producer' = "closed" /\ UNCHANGED main
       \/ producer = "closed" /\ Waiting = {} /\ main' = "closePool" /\ UNCHANGED producer
    /\ UNCHANGED <<env, pool, published, srv, conn, call, died>>

\* Then redisPool.Close.
ClosePool ==
    /\ Runs /\ main = "closePool"
    /\ pool' = [pool EXCEPT !.open = FALSE, !.idle = 0]
    /\ main' = "return"
    /\ UNCHANGED <<env, producer, published, srv, conn, call, died>>

Return ==
    /\ Runs /\ main = "return"
    /\ died' = "returned"
    /\ UNCHANGED <<env, main, pool, producer, published, srv, conn, call>>

-----------------------------------------------------------------------------
(* The server *)

\* Stop closes the listeners and every transport it knows.
Stop ==
    /\ Runs /\ Stops /\ ~srv.stopped
    /\ srv' = [srv EXCEPT !.stopped = TRUE, !.listening = FALSE, !.conns = {}]
    /\ conn' = [c \in Conns |-> IF c \in srv.conns THEN "closed" ELSE conn[c]]
    /\ UNCHANGED <<env, main, pool, producer, published, call, died>>

\* The client goes away: HandleStreams returns, and the server forgets it.
Disconnect(c) ==
    /\ Runs /\ conn[c] = "open"
    /\ conn' = [conn EXCEPT ![c] = "closed"]
    /\ srv' = [srv EXCEPT !.conns = @ \ {c}]
    /\ UNCHANGED <<env, main, pool, producer, published, call, died>>

\* A message comes whole, or is cut by the end of the stream, or names a
\* payload format other than "not compressed".
Messages == {"whole", "cut", "format"}

\* handleStream: the method is looked up; a method nobody has is unimplemented.
handleStream(k, m) ==
    /\ Runs /\ call[k].pc = "none" /\ conn[ConnOf[k]] = "open"
    /\ \E msg \in Messages :
          call' = [call EXCEPT ![k] =
                      IF srv.registered /\ m \in {"SetStatus", "GetDevices"}
                      THEN [pc |-> "recv", method |-> m, message |-> msg]
                      ELSE [pc |-> "unimplemented", method |-> m, message |-> "none"]]
    /\ UNCHANGED <<env, main, pool, producer, published, srv, conn, died>>

-----------------------------------------------------------------------------
(* A handler *)

Handler(k, pc) == Runs /\ call[k].pc = pc
At(k, pc) == call' = [call EXCEPT ![k].pc = pc]

\* recvMsg.  There is no message, or the handler refuses it, or the stream is
\* gone; processUnaryRPC panics over one it cannot read, where RecvProto of a
\* streaming call returns an error.
Receive(k) ==
    /\ Handler(k, "recv")
    /\ \/ /\ call[k].message = "whole"
          /\ call' = [call EXCEPT ![k].pc = "get", ![k].message = "none"] /\ UNCHANGED died
       \/ call' = [call EXCEPT ![k].pc = "done", ![k].message = "none"] /\ UNCHANGED died
       \/ /\ call[k].message \in {"cut", "format"} /\ call[k].method = "SetStatus"
          /\ Fatal("bad message") /\ UNCHANGED call
    /\ UNCHANGED <<env, main, pool, producer, published, srv, conn>>

\* A mutant: Dial gives up the process when Redis is not there.
BugGet(k) ==
    /\ Handler(k, "get") /\ pool.open /\ pool.idle = 0
    /\ Fatal("redis")
    /\ UNCHANGED <<env, main, pool, producer, published, srv, conn, call>>

\* Redis.Get: an idle connection that answers PING, or Dial, which looks the
\* address up; the call fails without a connection.
Get(k) ==
    /\ Handler(k, "get")
    /\ \/ /\ pool.open /\ pool.idle > 0
          /\ pool' = [pool EXCEPT !.idle = @ - 1]
          /\ At(k, "redis") /\ UNCHANGED died
       \/ /\ pool.open /\ pool.idle = 0 /\ ~ParseLinkEnv("REDIS")
          /\ Fatal("REDIS_PORT") /\ UNCHANGED <<pool, call>>
       \/ /\ pool.open /\ pool.idle = 0 /\ ParseLinkEnv("REDIS")
          /\ At(k, "redis") /\ UNCHANGED <<pool, died>>
       \/ /\ pool.open => pool.idle = 0 /\ ParseLinkEnv("REDIS")
          /\ At(k, "failed") /\ UNCHANGED <<pool, died>>
    /\ UNCHANGED <<env, main, producer, published, srv, conn>>

\* TestOnBorrow: an idle connection does not answer, and is closed.
BorrowFails(k) ==
    /\ Handler(k, "get") /\ pool.open /\ pool.idle > 0
    /\ pool' = [pool EXCEPT !.idle = @ - 1]
    /\ UNCHANGED <<env, main, producer, published, srv, conn, call, died>>

\* The commands of SetStatus, or SUNION and GET, which may fail.
UseRedis(k) ==
    /\ Handler(k, "redis")
    /\ \/ At(k, IF call[k].method = "SetStatus" THEN "publish" ELSE "stream")
       \/ At(k, "abort")
       \/ call[k].method = "GetDevices" /\ At(k, "release")
    /\ UNCHANGED <<env, main, pool, producer, published, srv, conn, died>>

\* SendMessage: Input takes the message for as long as it is not closed; a send
\* on it then is a panic.
Publish(k) ==
    /\ Handler(k, "publish")
    /\ \/ /\ producer \in {"open", "closing"}
          /\ At(k, "wait") /\ published' = published \cup {k} /\ UNCHANGED died
       \/ producer = "closed" /\ Fatal("send on closed channel") /\ UNCHANGED <<call, published>>
    /\ UNCHANGED <<env, main, pool, producer, srv, conn>>

\* The result: written or not, and not when the producer is shutting down.
Result(k) ==
    /\ Handler(k, "wait")
    /\ \/ At(k, "release")
       \/ At(k, "abort")
    /\ UNCHANGED <<env, main, pool, producer, published, srv, conn, died>>

\* A chaser, which has no owner, comes back while the producer shuts down, is
\* answered like a message, and handleErrors panics.
ChaserAnswered ==
    /\ Runs /\ main = "closeProducer" /\ producer \in {"closing", "closed"} /\ published # {}
    /\ Fatal("result without an owner")
    /\ UNCHANGED <<env, main, pool, producer, published, srv, conn, call>>

\* stream.Send: the client takes a device or all of them, or has gone.
Send(k) ==
    /\ Handler(k, "stream")
    /\ \/ conn[ConnOf[k]] = "open" /\ At(k, "redis")
       \/ At(k, "abort")
    /\ UNCHANGED <<env, main, pool, producer, published, srv, conn, died>>

\* defer conn.Close: idle again, or closed when the connection is broken, the
\* pool closed or full.  After the status of a reply processUnaryRPC reads on.
Release(k) ==
    /\ Runs /\ call[k].pc \in {"release", "abort"}
    /\ \/ pool.open /\ pool' = [pool EXCEPT !.idle = IF @ < MaxIdle THEN @ + 1 ELSE @]
       \/ UNCHANGED pool
    /\ IF call[k].pc = "release" /\ call[k].method = "SetStatus"
       THEN \E msg \in Messages : call' = [call EXCEPT ![k].pc = "recv", ![k].message = msg]
       ELSE At(k, "done")
    /\ UNCHANGED <<env, main, producer, published, srv, conn, died>>

-----------------------------------------------------------------------------

Main == CreatePool \/ CreateProducer \/ Listen \/ RegisterService \/ CloseProducer \/ ClosePool \/ Return

Next ==
    \/ Main \/ AcceptFails \/ Stop \/ ChaserAnswered
    \/ \E c \in Conns : Accept(c) \/ StartTransport(c) \/ Disconnect(c)
    \/ \E k \in Calls :
          \/ \E m \in Methods : handleStream(k, m)
          \/ Receive(k) \/ Get(k) \/ BorrowFails(k) \/ UseRedis(k)
          \/ Publish(k) \/ Result(k) \/ Send(k) \/ Release(k)

Spec == Init /\ [][Next]_vars

-----------------------------------------------------------------------------

TypeOK ==
    /\ producer \in {"none", "open", "closing", "closed"} /\ published \subseteq Calls
    /\ pool.idle \in 0 .. MaxIdle
    /\ conn \in [Conns -> {"none", "accepted", "open", "closed"}] /\ srv.conns \subseteq Conns

(***************************************************************************)
(* Once a client has called, the process ends for one of these reasons,    *)
(* each with its cause still to be seen: REDIS_PORT was never set right    *)
(* (ParseLinkEnv inside Dial); a SetStatus is reading a message that is    *)
(* cut or of an unknown format (processUnaryRPC; the same message of       *)
(* GetDevices is an error); main has stopped serving and its deferred      *)
(* producer.Close has closed Input under a call that is about to publish,  *)
(* or has a chaser of an earlier message answered; or main returned, and   *)
(* then no call waits for the result of a message the producer took.       *)
(***************************************************************************)
DeathsExplained ==
    (\E k \in Calls : call[k].pc # "none") =>
        /\ died \in {"no", "returned", "REDIS_PORT", "bad message",
                    "send on closed channel", "result without an owner"}
        /\ died = "REDIS_PORT" => env["REDIS"] # "good"
        /\ died = "bad message" =>
              \E k \in Calls : call[k].method = "SetStatus" /\ call[k].message \in {"cut", "format"}
        /\ died = "send on closed channel" =>
              /\ main \in {"closeProducer", "closePool", "return"}
              /\ \E k \in Calls : call[k].pc = "publish"
        /\ died = "result without an owner" => main = "closeProducer" /\ published # {}
        /\ died = "returned" => Waiting = {}

(***************************************************************************)
(* "Once Stop returns, the server stops accepting connection requests and  *)
(* closes all the connected connections" (server.go), a connection that    *)
(* was accepted before Stop and gets its transport after it included.      *)
(***************************************************************************)
StopIsFinal == srv.stopped => \A c \in Conns : conn[c] # "open"

=============================================================================
