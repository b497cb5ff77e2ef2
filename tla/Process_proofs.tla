--------------------------- MODULE Process_proofs ---------------------------
(***************************************************************************)
(* What is proved of the process, for any number of connections and calls: *)
(* what can end it, and what Stop ends.  And what is proved of the         *)
(* contexts its calls run in, for any tree of them.                        *)
(***************************************************************************)
EXTENDS Lifecycle, Context, SequenceTheorems, TLAPS

Places == {"pool", "producer", "listen", "register", "serve", "closeProducer", "closePool", "return"}
HandlerPlaces == {"none", "unimplemented", "recv", "get", "redis", "publish", "wait", "stream",
                  "release", "abort", "failed", "done"}
CallDeaths == {"REDIS_PORT", "bad message", "send on closed channel", "result without an owner"}
BuildDeaths == {"KAFKA_PORT", "kafka", "listen"}

Pools == [open : BOOLEAN, idle : 0 .. MaxIdle]
Handlers == [pc : HandlerPlaces, method : Methods \cup {"none"}, message : Messages \cup {"none"}]

TypeInv ==
    /\ env \in [{"REDIS", "KAFKA"} -> {"missing", "malformed", "good"}]
    /\ main \in Places
    /\ died \in {"no", "returned"} \cup CallDeaths \cup BuildDeaths
    /\ pool \in Pools
    /\ producer \in {"none", "open", "closing", "closed"} /\ published \in SUBSET Calls
    /\ srv \in [registered : BOOLEAN, listening : BOOLEAN, stopped : BOOLEAN, conns : SUBSET Conns]
    /\ conn \in [Conns -> {"none", "accepted", "open", "closed"}]
    /\ call \in [Calls -> Handlers]

(***************************************************************************)
(* Before main serves nobody has connected, and the deaths of that time    *)
(* leave it there.  One connection at a time is between Accept and its     *)
(* transport, and only while main serves; the open ones are those the      *)
(* server knows.  The producer goes through its states with main, which    *)
(* leaves producer.Close once no result is owed.  A dead process shows     *)
(* what it died of.                                                        *)
(***************************************************************************)
Building == main \in {"pool", "producer", "listen", "register"}

Began ==
    /\ Building => \A c \in Conns : conn[c] = "none"
    /\ Building => \A k \in Calls : call[k].pc = "none"

Serving ==
    /\ \A c \in Conns : conn[c] = "accepted" => main = "serve"
    /\ srv.conns = {c \in Conns : conn[c] = "open"}
    /\ srv.stopped => srv.conns = {}
    /\ \A c, d \in Conns : conn[c] = "accepted" /\ conn[d] = "accepted" => c = d

Closes ==
    /\ producer = "closing" => main = "closeProducer"
    /\ producer = "closed" => main \in {"closeProducer", "closePool", "return"}
    /\ main \in {"closePool", "return"} => producer = "closed" /\ Waiting = {}

Causes ==
    /\ died \in BuildDeaths => Building
    /\ died = "REDIS_PORT" => env["REDIS"] # "good"
    /\ died = "bad message" =>
          \E k \in Calls : call[k].method = "SetStatus" /\ call[k].message \in {"cut", "format"}
    /\ died = "send on closed channel" => producer = "closed" /\ \E k \in Calls : call[k].pc = "publish"
    /\ died = "result without an owner" => main = "closeProducer" /\ published # {}
    /\ died = "returned" => main = "return"

ProcessInv == TypeInv /\ Began /\ Serving /\ Closes /\ Causes

-----------------------------------------------------------------------------

\* The pool after a Get, a Put or Close.
LEMMA PoolTyped ==
  ASSUME NEW p \in Pools, NEW i \in 0 .. MaxIdle
  PROVE  [p EXCEPT !.idle = i] \in Pools /\ [p EXCEPT !.open = FALSE, !.idle = i] \in Pools
BY DEF Pools

\* The idle connections stay within MaxIdle.
LEMMA IdleTyped ==
  ASSUME NEW i \in 0 .. MaxIdle
  PROVE  /\ 0 \in 0 .. MaxIdle /\ (i > 0 => i - 1 \in 0 .. MaxIdle)
         /\ (IF i < MaxIdle THEN i + 1 ELSE i) \in 0 .. MaxIdle
BY LifecycleAssumption

\* No variable is set right by chance, nobody has called.
LEMMA ProcessInitially == Init => ProcessInv
<1> SUFFICES ASSUME Init PROVE ProcessInv
  OBVIOUS
<1>1. TypeInv
  BY LifecycleAssumption DEF Init, TypeInv, Pools, Places, Handlers, HandlerPlaces
<1>2. Began /\ Serving /\ Closes /\ Causes
  BY DEF Init, Began, Building, Serving, Closes, Causes, BuildDeaths
<1> QED BY <1>1, <1>2 DEF ProcessInv

\* A living process has no cause of death to show.
LEMMA Living == died' = "no" => Causes'
BY DEF Causes, BuildDeaths

\* The steps of main that open nothing to clients.
LEMMA MainKeeps == ASSUME ProcessInv, Main PROVE ProcessInv'
<1> USE DEF ProcessInv
<1>0. UNCHANGED <<env, conn, call, published>> /\ died = "no" /\ Waiting' = Waiting
  BY DEF Main, CreatePool, CreateProducer, Listen, RegisterService, CloseProducer, ClosePool, Return, Runs,
         Waiting
<1>2. CASE CreatePool
  <2>1. TypeInv'
    BY <1>0, <1>2 DEF CreatePool, TypeInv, Places, Pools
  <2>2. Began' /\ Serving' /\ Closes' /\ Causes'
    BY <1>0, <1>2, Living DEF CreatePool, Began, Building, Serving, Closes
  <2> QED BY <2>1, <2>2
<1>3. CASE CreateProducer
  <2>1. TypeInv'
    BY <1>0, <1>3 DEF CreateProducer, Fatal, TypeInv, Places, BuildDeaths
  <2>2. Began' /\ Serving' /\ Closes' /\ Causes'
    BY <1>0, <1>3 DEF CreateProducer, Fatal, Began, Building, Serving, Closes, Causes, BuildDeaths
  <2> QED BY <2>1, <2>2
<1>4. CASE Listen
  <2>1. TypeInv'
    BY <1>0, <1>4 DEF Listen, Fatal, TypeInv, Places, BuildDeaths
  <2>2. srv'.conns = srv.conns /\ srv'.stopped = srv.stopped
    BY <1>4 DEF Listen, TypeInv
  <2>3. Began' /\ Serving' /\ Closes' /\ Causes'
    BY <1>0, <1>4, <2>2 DEF Listen, Fatal, Began, Building, Serving, Closes, Causes, BuildDeaths
  <2> QED BY <2>1, <2>3
<1>5. CASE RegisterService
  <2>1. TypeInv'
    BY <1>0, <1>5 DEF RegisterService, TypeInv, Places
  <2>2. srv'.conns = srv.conns /\ srv'.stopped = srv.stopped
    BY <1>5 DEF RegisterService, TypeInv
  <2>3. Began' /\ Serving' /\ Closes' /\ Causes'
    BY <1>0, <1>5, <2>2, Living DEF RegisterService, Began, Building, Serving, Closes
  <2> QED BY <2>1, <2>3
<1>6. CASE CloseProducer
  <2>1. TypeInv'
    BY <1>0, <1>6 DEF CloseProducer, TypeInv, Places
  <2>2. Began' /\ Serving' /\ Closes' /\ Causes'
    BY <1>0, <1>6, Living DEF CloseProducer, Began, Building, Serving, Closes
  <2> QED BY <2>1, <2>2
<1>7. CASE ClosePool
  <2>1. pool' \in Pools
    <3>1. pool \in Pools /\ pool' = [pool EXCEPT !.open = FALSE, !.idle = 0] /\ 0 \in 0 .. MaxIdle
      BY <1>7, LifecycleAssumption DEF ClosePool, TypeInv
    <3> QED BY <3>1, PoolTyped
  <2>2. TypeInv'
    BY <1>0, <1>7, <2>1 DEF ClosePool, TypeInv, Places
  <2>3. Began' /\ Serving' /\ Closes' /\ Causes'
    BY <1>0, <1>7, Living DEF ClosePool, Began, Building, Serving, Closes
  <2> QED BY <2>2, <2>3
<1>8. CASE Return
  <2>1. TypeInv'
    BY <1>0, <1>8 DEF Return, TypeInv
  <2>2. Began' /\ Serving' /\ Closes' /\ Causes'
    BY <1>0, <1>8 DEF Return, Began, Building, Serving, Closes, Causes, BuildDeaths
  <2> QED BY <2>1, <2>2
<1> QED BY <1>2, <1>3, <1>4, <1>5, <1>6, <1>7, <1>8 DEF Main

\* Connections: Accept, the transport, the end of one or, with Stop, of all.
LEMMA ServerKeeps ==
  ASSUME ProcessInv,
         AcceptFails \/ Stop \/ \E c \in Conns : Accept(c) \/ StartTransport(c) \/ Disconnect(c)
  PROVE  ProcessInv'
<1> USE DEF ProcessInv
<1>0. UNCHANGED <<env, pool, producer, published, call, died>> /\ died = "no"
  BY DEF AcceptFails, Stop, Accept, StartTransport, Disconnect, Runs
<1>1. Causes' /\ Waiting' = Waiting
  BY <1>0, Living DEF Waiting
<1>2. CASE AcceptFails
  <2>1. TypeInv' /\ srv'.conns = srv.conns /\ srv'.stopped = srv.stopped
    BY <1>0, <1>2 DEF AcceptFails, TypeInv, Places
  <2>2. Began' /\ Serving' /\ Closes'
    BY <1>0, <1>1, <1>2, <2>1 DEF AcceptFails, Began, Building, Serving, Closes
  <2> QED BY <1>1, <2>1, <2>2
<1>3. CASE Stop
  <2>1. TypeInv' /\ srv'.conns = {} /\ srv'.stopped = TRUE /\ main' = main
    BY <1>0, <1>3 DEF Stop, TypeInv
  <2>2. \A c \in Conns : conn'[c] = IF conn[c] = "open" THEN "closed" ELSE conn[c]
    BY <1>3 DEF Stop, Serving
  <2>3. Began' /\ Serving' /\ Closes'
    BY <1>0, <1>1, <2>1, <2>2 DEF Began, Building, Serving, Closes
  <2> QED BY <1>1, <2>1, <2>3
<1>4. ASSUME NEW c \in Conns, Accept(c) PROVE ProcessInv'
  <2>1. TypeInv' /\ srv' = srv /\ main' = main /\ main = "serve" /\ conn[c] = "none"
        /\ (\A d \in Conns : conn[d] # "accepted")
        /\ conn' = [conn EXCEPT ![c] = "accepted"]
    BY <1>0, <1>4 DEF Accept, TypeInv
  <2>2. \A d \in Conns : conn'[d] = IF d = c THEN "accepted" ELSE conn[d]
    BY <2>1 DEF TypeInv
  <2>3. Began' /\ Serving' /\ Closes'
    BY <1>0, <1>1, <2>1, <2>2 DEF Began, Building, Serving, Closes
  <2> QED BY <1>1, <2>1, <2>3
<1>5. ASSUME NEW c \in Conns, StartTransport(c) PROVE ProcessInv'
  <2>1. conn[c] = "accepted" /\ main = "serve" /\ conn \in [Conns -> {"none", "accepted", "open", "closed"}]
    BY <1>5 DEF StartTransport, Serving, TypeInv
  <2>2. CASE srv.stopped /\ conn' = [conn EXCEPT ![c] = "closed"] /\ main' = "closeProducer" /\ UNCHANGED srv
    <3>1. TypeInv'
      BY <1>0, <2>2 DEF TypeInv, Places
    <3>2. \A d \in Conns : conn'[d] = IF d = c THEN "closed" ELSE conn[d]
      BY <2>1, <2>2
    <3>3. \A d \in Conns : conn'[d] # "accepted"
      BY <3>2, <2>1 DEF Serving
    <3>4. Began' /\ Serving' /\ Closes'
      BY <1>0, <1>1, <2>1, <2>2, <3>2, <3>3 DEF Began, Building, Serving, Closes
    <3> QED BY <1>1, <3>1, <3>4
  <2>3. CASE ~srv.stopped /\ conn' = [conn EXCEPT ![c] = "open"] /\ srv' = [srv EXCEPT !.conns = @ \cup {c}]
             /\ UNCHANGED main
    <3>1. TypeInv' /\ srv'.conns = srv.conns \cup {c} /\ srv'.stopped = FALSE
      BY <1>0, <2>3 DEF TypeInv
    <3>2. \A d \in Conns : conn'[d] = IF d = c THEN "open" ELSE conn[d]
      BY <2>1, <2>3
    <3>3. Began' /\ Serving' /\ Closes'
      BY <1>0, <1>1, <2>1, <2>3, <3>1, <3>2 DEF Began, Building, Serving, Closes
    <3> QED BY <1>1, <3>1, <3>3
  <2>4. CASE ~srv.stopped /\ conn' = [conn EXCEPT ![c] = "closed"] /\ UNCHANGED <<srv, main>>
    <3>1. TypeInv'
      BY <1>0, <2>4 DEF TypeInv
    <3>2. \A d \in Conns : conn'[d] = IF d = c THEN "closed" ELSE conn[d]
      BY <2>1, <2>4
    <3>3. Began' /\ Serving' /\ Closes'
      BY <1>0, <1>1, <2>1, <2>4, <3>2 DEF Began, Building, Serving, Closes
    <3> QED BY <1>1, <3>1, <3>3
  <2> QED BY <1>5, <2>2, <2>3, <2>4 DEF StartTransport
<1>6. ASSUME NEW c \in Conns, Disconnect(c) PROVE ProcessInv'
  <2>1. TypeInv' /\ srv'.conns = srv.conns \ {c} /\ srv'.stopped = srv.stopped /\ main' = main
        /\ conn[c] = "open" /\ conn' = [conn EXCEPT ![c] = "closed"]
    BY <1>0, <1>6 DEF Disconnect, TypeInv
  <2>2. \A d \in Conns : conn'[d] = IF d = c THEN "closed" ELSE conn[d]
    BY <2>1 DEF TypeInv
  <2>3. Began' /\ Serving' /\ Closes'
    BY <1>0, <1>1, <2>1, <2>2 DEF Began, Building, Serving, Closes
  <2> QED BY <1>1, <2>1, <2>3
<1> QED BY <1>2, <1>3, <1>4, <1>5, <1>6

\* handleStream and the steps of a handler.
LEMMA HandlerKeeps ==
  ASSUME ProcessInv, NEW k \in Calls,
         \/ \E m \in Methods : handleStream(k, m)
         \/ Receive(k) \/ Get(k) \/ BorrowFails(k) \/ UseRedis(k)
         \/ Publish(k) \/ Result(k) \/ Send(k) \/ Release(k)
  PROVE  ProcessInv'
<1> USE DEF ProcessInv
<1>0. UNCHANGED <<env, main, producer, srv, conn>> /\ died = "no" /\ ~Building
  <2>1. UNCHANGED <<env, main, producer, srv, conn>> /\ died = "no"
    BY DEF handleStream, Receive, Get, BorrowFails, UseRedis, Publish, Result, Send, Release, Handler, Runs
  <2>2. ConnOf[k] \in Conns
    BY LifecycleAssumption
  <2>3. conn[ConnOf[k]] # "none" \/ call[k].pc # "none"
    BY <2>2 DEF handleStream, Receive, Get, BorrowFails, UseRedis, Publish, Result, Send, Release, Handler
  <2> QED BY <2>1, <2>2, <2>3 DEF Began
<1>1. Began' /\ Serving'
  BY <1>0 DEF Began, Building, Serving
<1>2. ASSUME NEW h \in Handlers, call' = [call EXCEPT ![k] = h],
             h.pc = "wait" => producer \in {"open", "closing"} \/ call[k].pc = "wait"
      PROVE  call' \in [Calls -> Handlers] /\ Closes'
  <2>1. \A j \in Calls : call'[j] = IF j = k THEN h ELSE call[j]
    BY <1>2 DEF TypeInv
  <2>2. call' \in [Calls -> Handlers]
    BY <1>2 DEF TypeInv
  <2>3. Waiting' \subseteq Waiting \/ producer \in {"open", "closing"}
    BY <1>2, <2>1 DEF Waiting
  <2> QED BY <1>0, <2>2, <2>3 DEF Closes
<1>3. ASSUME NEW pc \in HandlerPlaces, At(k, pc), pc # "wait"
      PROVE  call' \in [Calls -> Handlers] /\ Closes'
  <2> DEFINE h == [call[k] EXCEPT !.pc = pc]
  <2>1. h \in Handlers /\ h.pc = pc
    BY <1>3 DEF TypeInv, Handlers
  <2>2. call' = [call EXCEPT ![k] = h]
    BY <1>3 DEF At
  <2> HIDE DEF h
  <2> QED BY <1>2, <1>3, <2>1, <2>2
<1>4. ASSUME NEW pc \in HandlerPlaces, NEW msg \in Messages \cup {"none"},
             call' = [call EXCEPT ![k].pc = pc, ![k].message = msg], pc # "wait"
      PROVE  call' \in [Calls -> Handlers] /\ Closes'
  <2> DEFINE h == [call[k] EXCEPT !.pc = pc, !.message = msg]
  <2>1. h \in Handlers /\ h.pc = pc
    BY DEF TypeInv, Handlers
  <2>2. call' = [call EXCEPT ![k] = h]
    BY <1>4 DEF TypeInv
  <2> HIDE DEF h
  <2> QED BY <1>2, <1>4, <2>1, <2>2
<1>5. ASSUME call' \in [Calls -> Handlers], Closes', pool' \in Pools, UNCHANGED <<published, died>>
      PROVE  ProcessInv'
  BY <1>0, <1>1, <1>5, Living DEF TypeInv
<1>6. ASSUME UNCHANGED <<pool, call, published>>, died' \in CallDeaths, Causes'
      PROVE  ProcessInv'
  <2>1. TypeInv'
    BY <1>0, <1>6 DEF TypeInv
  <2>2. Closes'
    BY <1>0, <1>6 DEF Closes, Waiting
  <2> QED BY <1>1, <1>6, <2>1, <2>2
<1>7. pool \in Pools /\ pool.idle \in 0 .. MaxIdle
  BY DEF TypeInv, Pools
<1>8. ASSUME NEW m \in Methods, handleStream(k, m) PROVE ProcessInv'
  <2>1. PICK h \in Handlers : call' = [call EXCEPT ![k] = h] /\ h.pc # "wait"
    <3>1. PICK msg \in Messages : call' = [call EXCEPT ![k] =
                      IF srv.registered /\ m \in {"SetStatus", "GetDevices"}
                      THEN [pc |-> "recv", method |-> m, message |-> msg]
                      ELSE [pc |-> "unimplemented", method |-> m, message |-> "none"]]
      BY <1>8 DEF handleStream
    <3>2. /\ [pc |-> "recv", method |-> m, message |-> msg] \in Handlers
          /\ [pc |-> "unimplemented", method |-> m, message |-> "none"] \in Handlers
      BY DEF Handlers, HandlerPlaces
    <3>3. CASE srv.registered /\ m \in {"SetStatus", "GetDevices"}
      BY <3>1, <3>2, <3>3
    <3>4. CASE ~(srv.registered /\ m \in {"SetStatus", "GetDevices"})
      BY <3>1, <3>2, <3>4
    <3> QED BY <3>3, <3>4
  <2> QED BY <1>2, <1>5, <1>7, <1>8, <2>1 DEF handleStream
<1>9. CASE Receive(k)
  <2>1. CASE call' = [call EXCEPT ![k].pc = "get", ![k].message = "none"] /\ UNCHANGED died
    BY <1>4, <1>5, <1>7, <1>9, <2>1 DEF Receive, HandlerPlaces
  <2>2. CASE call' = [call EXCEPT ![k].pc = "done", ![k].message = "none"] /\ UNCHANGED died
    BY <1>4, <1>5, <1>7, <1>9, <2>2 DEF Receive, HandlerPlaces
  <2>3. CASE /\ call[k].message \in {"cut", "format"} /\ call[k].method = "SetStatus"
             /\ Fatal("bad message") /\ UNCHANGED call
    <3>1. call[k].message \in {"cut", "format"}
      BY <2>3
    <3>2. Causes'
      BY <2>3, <3>1 DEF Causes, Fatal, BuildDeaths
    <3> QED BY <1>6, <1>9, <2>3, <3>2 DEF Receive, Fatal, CallDeaths
  <2> QED BY <1>9, <2>1, <2>2, <2>3 DEF Receive
<1>10. CASE Get(k)
  <2>1. CASE At(k, "redis") /\ pool.idle > 0 /\ pool' = [pool EXCEPT !.idle = @ - 1] /\ UNCHANGED died
    <3>1. pool' \in Pools
      BY <1>7, <2>1, IdleTyped, PoolTyped
    <3> QED BY <1>3, <1>5, <1>10, <2>1, <3>1 DEF Get, HandlerPlaces
  <2>2. CASE ~ParseLinkEnv("REDIS") /\ Fatal("REDIS_PORT") /\ UNCHANGED <<pool, call>>
    <3>1. Causes'
      BY <1>0, <2>2 DEF Causes, Fatal, BuildDeaths, ParseLinkEnv
    <3> QED BY <1>6, <1>10, <2>2, <3>1 DEF Get, Fatal, CallDeaths
  <2>3. CASE At(k, "redis") /\ UNCHANGED <<pool, died>>
    BY <1>3, <1>5, <1>7, <1>10, <2>3 DEF Get, HandlerPlaces
  <2>4. CASE At(k, "failed") /\ UNCHANGED <<pool, died>>
    BY <1>3, <1>5, <1>7, <1>10, <2>4 DEF Get, HandlerPlaces
  <2> QED BY <1>10, <2>1, <2>2, <2>3, <2>4 DEF Get
<1>11. CASE BorrowFails(k)
  <2>1. pool' \in Pools
    BY <1>7, <1>11, IdleTyped, PoolTyped DEF BorrowFails
  <2>2. call' \in [Calls -> Handlers] /\ Closes'
    BY <1>0, <1>11 DEF BorrowFails, TypeInv, Closes, Waiting
  <2> QED BY <1>5, <1>11, <2>1, <2>2 DEF BorrowFails
<1>12. CASE UseRedis(k)
  <2>1. PICK pc \in {"publish", "stream", "abort", "release"} : At(k, pc)
    BY <1>12 DEF UseRedis
  <2> QED BY <1>3, <1>5, <1>7, <1>12, <2>1 DEF UseRedis, HandlerPlaces
<1>13. CASE Publish(k)
  <2>1. CASE producer \in {"open", "closing"} /\ At(k, "wait") /\ published' = published \cup {k} /\ UNCHANGED died
    <3> DEFINE h == [call[k] EXCEPT !.pc = "wait"]
    <3>1. h \in Handlers
      BY DEF TypeInv, Handlers, HandlerPlaces
    <3>2. call' = [call EXCEPT ![k] = h]
      BY <2>1 DEF At
    <3> HIDE DEF h
    <3>3. call' \in [Calls -> Handlers] /\ Closes'
      BY <1>2, <2>1, <3>1, <3>2
    <3>4. UNCHANGED pool /\ published' \in SUBSET Calls
      BY <1>13, <2>1 DEF Publish, TypeInv
    <3> QED BY <1>0, <1>1, <2>1, <3>3, <3>4, Living DEF TypeInv
  <2>2. CASE producer = "closed" /\ Fatal("send on closed channel") /\ UNCHANGED <<call, published>>
    <3>1. Causes'
      BY <1>0, <1>13, <2>2 DEF Causes, Fatal, BuildDeaths, Publish, Handler
    <3> QED BY <1>6, <1>13, <2>2, <3>1 DEF Publish, Fatal, CallDeaths
  <2> QED BY <1>13, <2>1, <2>2 DEF Publish
<1>14. CASE Result(k)
  BY <1>3, <1>5, <1>7, <1>14 DEF Result, HandlerPlaces
<1>15. CASE Send(k)
  BY <1>3, <1>5, <1>7, <1>15 DEF Send, HandlerPlaces
<1>16. CASE Release(k)
  <2>1. pool' \in Pools
    <3> DEFINE i == IF pool.idle < MaxIdle THEN pool.idle + 1 ELSE pool.idle
    <3>1. i \in 0 .. MaxIdle
      BY <1>7, IdleTyped
    <3>2. pool' = [pool EXCEPT !.idle = i] \/ UNCHANGED pool
      BY <1>16 DEF Release
    <3> HIDE DEF i
    <3> QED BY <1>7, <3>1, <3>2, PoolTyped
  <2>2. CASE At(k, "done")
    BY <1>3, <1>5, <1>16, <2>1, <2>2 DEF Release, HandlerPlaces
  <2>3. CASE \E msg \in Messages : call' = [call EXCEPT ![k].pc = "recv", ![k].message = msg]
    BY <1>4, <1>5, <1>16, <2>1, <2>3 DEF Release, HandlerPlaces
  <2> QED BY <1>16, <2>2, <2>3 DEF Release
<1> QED BY <1>8, <1>9, <1>10, <1>11, <1>12, <1>13, <1>14, <1>15, <1>16

\* A result without an owner ends the process.
LEMMA ChaserKeeps == ASSUME ProcessInv, ChaserAnswered PROVE ProcessInv'
<1> USE DEF ProcessInv
<1>0. UNCHANGED <<env, main, pool, producer, published, srv, conn, call>>
      /\ main = "closeProducer" /\ published # {} /\ died' = "result without an owner"
  BY DEF ChaserAnswered, Fatal
<1>1. TypeInv' /\ Causes'
  BY <1>0 DEF TypeInv, CallDeaths, Causes, BuildDeaths
<1>2. Began' /\ Serving' /\ Closes'
  BY <1>0 DEF Began, Building, Serving, Closes, Waiting
<1> QED BY <1>1, <1>2

\* Every step keeps ProcessInv.
LEMMA ProcessKept == ProcessInv /\ [Next]_vars => ProcessInv'
<1> SUFFICES ASSUME ProcessInv, [Next]_vars PROVE ProcessInv'
  OBVIOUS
<1>1. CASE Main
  BY <1>1, MainKeeps
<1>2. CASE AcceptFails \/ Stop \/ \E c \in Conns : Accept(c) \/ StartTransport(c) \/ Disconnect(c)
  BY <1>2, ServerKeeps
<1>3. ASSUME NEW k \in Calls,
             \/ \E m \in Methods : handleStream(k, m)
             \/ Receive(k) \/ Get(k) \/ BorrowFails(k) \/ UseRedis(k)
             \/ Publish(k) \/ Result(k) \/ Send(k) \/ Release(k)
      PROVE  ProcessInv'
  BY <1>3, HandlerKeeps
<1>4. CASE ChaserAnswered
  BY <1>4, ChaserKeeps
<1>5. CASE UNCHANGED vars
  <2>1. UNCHANGED <<env, main, pool, producer, published, srv, conn, call, died>>
    BY <1>5 DEF vars
  <2>2. TypeInv' /\ Began' /\ Serving'
    BY <2>1 DEF ProcessInv, TypeInv, Began, Building, Serving
  <2>3. Closes' /\ Causes'
    BY <2>1 DEF ProcessInv, Closes, Waiting, Causes, Building
  <2> QED BY <2>2, <2>3 DEF ProcessInv
<1> QED BY <1>1, <1>2, <1>3, <1>4, <1>5 DEF Next

\* The process always satisfies ProcessInv.
LEMMA ProcessAlways == Spec => []ProcessInv
<1> QED BY ProcessInitially, ProcessKept, PTL DEF Spec

-----------------------------------------------------------------------------

(***************************************************************************)
(* The pool, the producer, the connections and the server's set of them    *)
(* keep their types.                                                       *)
(***************************************************************************)
THEOREM LifecycleTypeCorrect == Spec => []TypeOK
<1>1. ProcessInv => TypeOK
  BY DEF ProcessInv, TypeInv, Pools, TypeOK
<1> QED BY <1>1, ProcessAlways, PTL

(***************************************************************************)
(* Once a client has called, the process dies of four things only, and     *)
(* each shows its cause: a REDIS_PORT that ParseLinkEnv cannot read, a     *)
(* message of SetStatus that processUnaryRPC cannot read, a send on the    *)
(* Input that the deferred producer.Close has closed, a chaser answered    *)
(* while it closes.  A call that exists shows that main was done building  *)
(* (Began), and main leaves producer.Close only when every message the     *)
(* producer took has its result (Closes), so none is lost when it returns. *)
(***************************************************************************)
THEOREM DeathsAreExplained == Spec => []DeathsExplained
<1>1. ProcessInv => DeathsExplained
  BY DEF ProcessInv, TypeInv, Began, Closes, Causes, CallDeaths, BuildDeaths, DeathsExplained
<1> QED BY <1>1, ProcessAlways, PTL

(***************************************************************************)
(* After Server.Stop no connection is open, the one that was accepted      *)
(* before it and reaches addConn after it included.                        *)
(***************************************************************************)
THEOREM StoppedIsFinal == Spec => []StopIsFinal
<1>1. ProcessInv => StopIsFinal
  BY DEF ProcessInv, Serving, StopIsFinal
<1> QED BY <1>1, ProcessAlways, PTL

-----------------------------------------------------------------------------
(* Looking through value contexts comes to an end, since no context is its     *)
(* own ancestor.  Solves(f, D, k): f is the answer on D.                       *)
Nodes == Ctx \cup {Root}
Rule(f, k, p) == IF p # Root /\ k[p] = "value" THEN f[Parent[p]] ELSE p
Solves(f, D, k) ==
    /\ D \subseteq Nodes /\ f \in [D -> Nodes]
    /\ \A p \in D : p # Root => Parent[p] \in D
    /\ \A p \in D : f[p] = Rule(f, k, p)

LEMMA SolvedBelow ==
  ASSUME NEW k, NEW p \in Nodes
  PROVE  \E D \in SUBSET Nodes : \E f \in [D -> Nodes] : p \in D /\ Solves(f, D, k)
<1> DEFINE Good(x) == \E D \in SUBSET Nodes : \E f \in [D -> Nodes] : x \in D /\ Solves(f, D, k)
           Bad == {x \in Ctx : ~Good(x)}
<1>1. Good(Root)
  <2> DEFINE D == {Root}
             f == [x \in D |-> Root]
  <2>1. D \in SUBSET Nodes /\ f \in [D -> Nodes] /\ Root \in D
    BY DEF Nodes
  <2>2. Solves(f, D, k)
    BY <2>1 DEF Solves, Rule
  <2> QED
    BY <2>1, <2>2
<1>2. ASSUME Bad # {} PROVE FALSE
  <2>1. PICK c \in Bad : Parent[c] \notin Bad
    BY <1>2, ContextAssumption
  <2>2. c \in Ctx /\ c # Root /\ Parent[c] \in Nodes /\ c \in Nodes
    BY ContextAssumption DEF Nodes
  <2>3. Good(Parent[c])
    BY <1>1, <2>1, <2>2 DEF Nodes
  <2>4. PICK D \in SUBSET Nodes : \E f \in [D -> Nodes] : Parent[c] \in D /\ Solves(f, D, k)
    BY <2>3
  <2>7. PICK f \in [D -> Nodes] : Parent[c] \in D /\ Solves(f, D, k)
    BY <2>4
  <2>5. CASE c \in D
    BY <2>1, <2>7, <2>5
  <2>6. CASE c \notin D
    <3> DEFINE E == D \cup {c}
               g == [x \in E |-> IF x = c THEN Rule(f, k, c) ELSE f[x]]
    <3>1. E \in SUBSET Nodes /\ c \in E
      BY <2>2
    <3>2. Rule(f, k, c) \in Nodes
      BY <2>2, <2>7 DEF Rule
    <3>3. g \in [E -> Nodes]
      BY <2>7, <3>2
    <3>4. ASSUME NEW x \in E PROVE g[x] = Rule(g, k, x) /\ (x # Root => Parent[x] \in E)
      <4>1. CASE x = c
        <5>1. g[x] = Rule(f, k, c) /\ Parent[c] # c /\ g[Parent[c]] = f[Parent[c]]
          BY <2>7, <2>6, <4>1
        <5> QED
          BY <2>2, <2>7, <4>1, <5>1 DEF Rule
      <4>2. CASE x # c
        <5>1. x \in D /\ g[x] = f[x] /\ f[x] = Rule(f, k, x)
          BY <2>7, <4>2 DEF Solves
        <5>2. CASE x # Root
          <6>1. Parent[x] \in D /\ Parent[x] # c
            BY <2>7, <2>6, <5>1, <5>2 DEF Solves
          <6>2. g[Parent[x]] = f[Parent[x]]
            BY <6>1
          <6> QED
            BY <5>1, <6>1, <6>2 DEF Rule
        <5>3. CASE x = Root
          BY <5>1, <5>3 DEF Rule
        <5> QED
          BY <5>2, <5>3
      <4> QED
        BY <4>1, <4>2
    <3>5. Solves(g, E, k)
      <4> HIDE DEF g, E
      <4> QED
        BY <3>1, <3>3, <3>4 DEF Solves
    <3>6. Good(c)
      BY <3>1, <3>3, <3>5
    <3> QED
      BY <3>6, <2>1
  <2> QED
    BY <2>5, <2>6
<1>3. CASE p = Root
  BY <1>1, <1>3
<1>4. CASE p # Root
  BY <1>2, <1>4 DEF Nodes
<1> QED
  BY <1>3, <1>4

LEMMA SolvedOnce ==
  ASSUME NEW k, NEW D, NEW f, Solves(f, D, k), NEW E, NEW g, Solves(g, E, k), NEW p \in D \cap E
  PROVE  f[p] = g[p]
<1> DEFINE Bad == {x \in Ctx : x \in D \cap E /\ f[x] # g[x]}
<1>1. CASE p = Root
  BY <1>1 DEF Solves, Rule
<1>2. ASSUME Bad # {} PROVE FALSE
  <2>1. PICK c \in Bad : Parent[c] \notin Bad
    BY <1>2, ContextAssumption
  <2>2. c # Root /\ c \in D \cap E
    BY ContextAssumption
  <2>3. Parent[c] \in D \cap E
    BY <2>2 DEF Solves
  <2>4. f[Parent[c]] = g[Parent[c]]
    <3>1. CASE Parent[c] = Root
      BY <2>3, <3>1 DEF Solves, Rule
    <3>2. CASE Parent[c] # Root
      BY <2>1, <2>3, <3>2, ContextAssumption DEF Nodes, Solves
    <3> QED
      BY <3>1, <3>2
  <2>5. f[c] = Rule(f, k, c) /\ g[c] = Rule(g, k, c)
    BY <2>2 DEF Solves
  <2> QED
    BY <2>1, <2>4, <2>5 DEF Rule
<1>3. CASE p # Root
  BY <1>2, <1>3 DEF Solves, Nodes
<1> QED
  BY <1>1, <1>3

LEMMA RuleFunction ==
  ASSUME NEW k, NEW h, h = [p \in Nodes |-> h[p]], \A p \in Nodes : h[p] = Rule(h, k, p)
  PROVE  h = [p \in Nodes |-> Rule(h, k, p)]
<1> DEFINE g == [p \in Nodes |-> Rule(h, k, p)]
<1>1. \A p \in Nodes : g[p] = h[p]
  OBVIOUS
<1>2. g = [p \in Nodes |-> g[p]]
  OBVIOUS
<1> HIDE DEF g
<1>3. g = h
  BY <1>1, <1>2
<1> QED
  BY <1>3 DEF g

LEMMA ThroughSolves ==
  ASSUME NEW k
  PROVE  Solves(Through(k), Nodes, k)
<1> DEFINE h == [p \in Nodes |-> CHOOSE v \in Nodes :
                    \E D \in SUBSET Nodes : \E f \in [D -> Nodes] : p \in D /\ Solves(f, D, k) /\ f[p] = v]
<1>1. ASSUME NEW D \in SUBSET Nodes, NEW f \in [D -> Nodes], Solves(f, D, k), NEW p \in D
      PROVE  h[p] = f[p]
  <2>1. f[p] \in Nodes
    OBVIOUS
  <2>2. \E v \in Nodes : \E E \in SUBSET Nodes : \E g \in [E -> Nodes] : p \in E /\ Solves(g, E, k) /\ g[p] = v
    BY <1>1, <2>1
  <2>3. PICK E \in SUBSET Nodes : \E g \in [E -> Nodes] : p \in E /\ Solves(g, E, k) /\ g[p] = h[p]
    BY <1>1, <2>2
  <2>4. PICK g \in [E -> Nodes] : p \in E /\ Solves(g, E, k) /\ g[p] = h[p]
    BY <2>3
  <2> QED
    BY <1>1, <2>4, SolvedOnce
<1>2. ASSUME NEW p \in Nodes PROVE h[p] \in Nodes /\ h[p] = Rule(h, k, p) /\ (p # Root => Parent[p] \in Nodes)
  <2>1. PICK D \in SUBSET Nodes : \E f \in [D -> Nodes] : p \in D /\ Solves(f, D, k)
    BY SolvedBelow
  <2>4. PICK f \in [D -> Nodes] : p \in D /\ Solves(f, D, k)
    BY <2>1
  <2>2. h[p] = f[p] /\ f[p] = Rule(f, k, p) /\ f[p] \in Nodes
    BY <1>1, <2>4 DEF Solves
  <2>5. p # Root => Parent[p] \in D
    BY <2>4 DEF Solves
  <2> HIDE DEF h
  <2>3. p # Root => Parent[p] \in D /\ h[Parent[p]] = f[Parent[p]]
    BY <1>1, <2>4, <2>5
  <2> QED
    BY <2>1, <2>2, <2>3 DEF Rule
<1>3. h = [p \in Nodes |-> Rule(h, k, p)]
  <2>1. h = [p \in Nodes |-> h[p]]
    OBVIOUS
  <2> HIDE DEF h
  <2> QED
    BY <1>2, <2>1, RuleFunction
<1>4. Through(k) = [p \in Nodes |-> Rule(Through(k), k, p)]
  <2> HIDE DEF h
  <2> QED
    BY <1>3 DEF Through, Rule, Nodes
<1> HIDE DEF h
<1> DEFINE u == Through(k)
           Bad == {c \in Ctx : u[c] \notin Nodes}
<1>5. \A p \in Nodes : u[p] = Rule(u, k, p)
  BY <1>4
<1> HIDE DEF u
<1>6. u[Root] \in Nodes
  BY <1>5 DEF Rule, Nodes
<1>7. ASSUME Bad # {} PROVE FALSE
  <2>1. PICK c \in Bad : Parent[c] \notin Bad
    BY <1>7, ContextAssumption
  <2>2. c \in Ctx /\ Parent[c] \in Nodes
    BY ContextAssumption DEF Nodes
  <2>3. u[Parent[c]] \in Nodes
    BY <1>6, <2>1, <2>2 DEF Nodes
  <2> QED
    BY <1>5, <2>1, <2>2, <2>3 DEF Rule, Nodes
<1>8. \A p \in Nodes : u[p] \in Nodes /\ (p # Root => Parent[p] \in Nodes)
  BY <1>6, <1>7, ContextAssumption DEF Nodes
<1>9. u \in [Nodes -> Nodes]
  BY <1>4, <1>8 DEF u
<1> QED
  BY <1>5, <1>8, <1>9 DEF Solves, u

-----------------------------------------------------------------------------
(* The tree and the goroutines. *)

Errors == {"Canceled", "DeadlineExceeded"}
Frames == [c : Ctx, at : {"enter", "children", "remove", "stop"}, remove : BOOLEAN, err : Errors,
           todo : SUBSET Ctx]

ContextType ==
    /\ kind \in Kinds
    /\ made \in [Ctx -> {"no", "propagate", "arm", "yes"}]
    /\ timed \in [Ctx -> BOOLEAN] /\ timer \in [Ctx -> BOOLEAN]
    /\ err \in [Ctx -> Errors \cup {"nil"}]
    /\ children \in [Ctx -> SUBSET Ctx]
    /\ watched \subseteq Ctx
    /\ stack \in [Threads -> Seq(Frames)]
    /\ started \subseteq Threads

\* The frames of all goroutines.
Live == UNION {{stack[t][i] : i \in 1 .. Len(stack[t])} : t \in Threads}

\* A context others can reach: one that is still being made is its maker's own.
Published(c) == made[c] \in {"arm", "yes"}
MadeInOrder ==
    \A c \in Ctx :
        /\ made[c] # "no" /\ Above(c) # Root => made[Above(c)] = "yes"
        /\ made[c] \in {"propagate", "arm"} => IsCancel(c)
        /\ made[c] \in {"no", "propagate"} => err[c] = "nil"
        /\ timed[c] => kind[c] = "deadline"
        /\ made[c] = "arm" => timed[c]

\* Children are published, and children of the nearest context that can have
\* any; a foreign context has none, but who watches it.
ChildrenPublished ==
    /\ \A p \in Ctx : \A c \in children[p] : Published(c) /\ IsCancel(c) /\ Above(c) = p
    /\ \A c \in watched : Published(c) /\ Above(c) # Root /\ ~IsCancel(Above(c))

\* A goroutine is started once.
StartedOnce ==
    /\ \A t \in Threads : t \notin started => stack[t] = <<>>
    /\ \A c \in Ctx :
          /\ timer[c] => made[c] = "yes" /\ timed[c] /\ <<"timer", c>> \notin started
          /\ made[c] # "yes" => <<"new", c>> \notin started /\ <<"timer", c>> \notin started
          /\ ~Published(c) => <<"watch", c>> \notin started
          /\ c \in watched => <<"watch", c>> \notin started

\* What a frame says is so: its context is done once it has entered, and what it
\* has still to cancel are published children.
Truthful(f) ==
    /\ Published(f.c)
    /\ f.at # "enter" => err[f.c] # "nil"
    /\ f.todo # {} => f.at = "children"
    /\ \A k \in f.todo : Published(k) /\ Above(k) = f.c
FramesTrue == \A f \in Live : Truthful(f)

\* A context is cancelled without being removed by its parent, which waits for
\* it, or where it has none to be removed from.
Nested ==
    \A t \in Threads : \A i \in 1 .. Len(stack[t]) :
        /\ i > 1 => stack[t][i - 1].at = "children" /\ Above(stack[t][i].c) = stack[t][i - 1].c
        /\ i = 1 /\ ~stack[t][i].remove => ~IsCancel(Above(stack[t][i].c))

Kept ==
    \A c \in Ctx :
        IsCancel(c) /\ Published(c) /\ IsCancel(Above(c)) /\ err[c] = "nil"
            => IF err[Above(c)] = "nil" THEN c \in children[Above(c)]
               ELSE \E f \in Live : f.c = c \/ (f.c = Above(c) /\ c \in f.todo)

\* The timer of a context that is done will be stopped.
TimersStopping ==
    \A c \in Ctx : timer[c] /\ err[c] # "nil" => \E f \in Live : f.c = c /\ f.at # "enter"

\* A context that is done and among its parent's children is being removed, or
\* its parent is about to drop them all.
Forgetting ==
    \A c \in Ctx :
        ~timed[c] /\ err[c] # "nil" /\ IsCancel(Above(c)) /\ c \in children[Above(c)] =>
            \E f \in Live : \/ f.c = c /\ f.remove /\ f.at \in {"children", "remove"}
                            \/ f.c = Above(c) /\ f.at = "children"

ContextInv ==
    /\ ContextType /\ MadeInOrder /\ ChildrenPublished /\ StartedOnce /\ FramesTrue /\ Nested
    /\ Kept /\ TimersStopping /\ Forgetting

-----------------------------------------------------------------------------
(* What is above a context does not change. *)

LEMMA Upward ==
  ASSUME kind \in Kinds, NEW c \in Ctx
  PROVE  /\ Above(c) \in Nodes /\ Parent[c] \in Nodes /\ c # Root
         /\ Above(c) = IF Parent[c] # Root /\ kind[Parent[c]] = "value" THEN Above(Parent[c]) ELSE Parent[c]
<1>1. Parent[c] \in Nodes /\ c # Root
  BY ContextAssumption DEF Nodes
<1>2. Solves(Through(kind), Nodes, kind)
  BY ThroughSolves
<1>3. Through(kind) \in [Nodes -> Nodes]
  BY <1>2 DEF Solves
<1>4. Through(kind)[Parent[c]] = Rule(Through(kind), kind, Parent[c])
  BY <1>1, <1>2 DEF Solves
<1> QED
  BY <1>1, <1>3, <1>4 DEF Above, Rule

-----------------------------------------------------------------------------
(* The stacks.  A step of a goroutine takes one frame away and brings others.  *)

Swapped(o, N) == Live \ {o} \subseteq Live' /\ Live' \subseteq Live \cup N /\ N \subseteq Live'

LEMMA Member ==
  ASSUME NEW f
  PROVE  f \in Live <=> \E t \in Threads : \E i \in 1 .. Len(stack[t]) : f = stack[t][i]
BY DEF Live

LEMMA MemberNext ==
  ASSUME NEW f
  PROVE  f \in Live' <=> \E t \in Threads : \E i \in 1 .. Len(stack'[t]) : f = stack'[t][i]
BY DEF Live

LEMMA LiveType ==
  ASSUME ContextType, NEW f \in Live
  PROVE  f \in Frames
BY Member DEF ContextType

LEMMA TopLive ==
  ASSUME ContextType, NEW t \in Threads, stack[t] # <<>>
  PROVE  top(t) \in Live /\ top(t) \in Frames /\ Len(stack[t]) \in Nat \ {0} /\ stack[t] \in Seq(Frames)
<1>1. stack[t] \in Seq(Frames)
  BY DEF ContextType
<1>2. Len(stack[t]) \in Nat \ {0}
  BY <1>1
<1> QED
  BY <1>1, <1>2, Member DEF top

LEMMA SetTopSwaps ==
  ASSUME ContextType, NEW t \in Threads, stack[t] # <<>>, NEW g \in Frames, SetTop(t, g)
  PROVE  /\ Swapped(top(t), {g}) /\ stack' \in [Threads -> Seq(Frames)]
         /\ \A u \in Threads \ {t} : stack'[u] = stack[u]
         /\ Len(stack'[t]) = Len(stack[t])
         /\ \A i \in 1 .. Len(stack[t]) : stack'[t][i] = IF i = Len(stack[t]) THEN g ELSE stack[t][i]
<1> DEFINE n == Len(stack[t])
<1>1. stack[t] \in Seq(Frames) /\ n \in Nat \ {0} /\ stack \in [Threads -> Seq(Frames)]
  BY TopLive DEF ContextType
<1>2. stack' = [stack EXCEPT ![t] = [stack[t] EXCEPT ![n] = g]]
  BY DEF SetTop
<1>3. [stack[t] EXCEPT ![n] = g] \in Seq(Frames) /\ Len([stack[t] EXCEPT ![n] = g]) = n
  BY <1>1
<1>4. stack'[t] = [stack[t] EXCEPT ![n] = g]
  BY <1>1, <1>2
<1>5. \A u \in Threads \ {t} : stack'[u] = stack[u]
  BY <1>1, <1>2
<1>6. \A i \in 1 .. n : stack'[t][i] = IF i = n THEN g ELSE stack[t][i]
  BY <1>1, <1>4
<1>7. Len(stack'[t]) = n
  BY <1>3, <1>4
<1>8. stack' \in [Threads -> Seq(Frames)]
  BY <1>1, <1>2, <1>3
<1>9. g \in Live'
  BY <1>1, <1>6, <1>7, MemberNext
<1>10. ASSUME NEW f \in Live, f # top(t) PROVE f \in Live'
  <2>1. PICK u \in Threads : \E i \in 1 .. Len(stack[u]) : f = stack[u][i]
    BY Member
  <2>2. PICK i \in 1 .. Len(stack[u]) : f = stack[u][i]
    BY <2>1
  <2>3. CASE u = t
    <3>1. i # n /\ i \in 1 .. Len(stack'[t])
      BY <1>7, <1>10, <2>2, <2>3 DEF top
    <3> QED
      BY <1>6, <2>2, <2>3, <3>1, MemberNext
  <2>4. CASE u # t
    BY <1>5, <2>2, <2>4, MemberNext
  <2> QED
    BY <2>3, <2>4
<1>11. ASSUME NEW f \in Live' PROVE f \in Live \cup {g}
  <2>1. PICK u \in Threads : \E i \in 1 .. Len(stack'[u]) : f = stack'[u][i]
    BY MemberNext
  <2>2. PICK i \in 1 .. Len(stack'[u]) : f = stack'[u][i]
    BY <2>1
  <2>3. CASE u = t
    BY <1>6, <1>7, <2>2, <2>3, Member
  <2>4. CASE u # t
    BY <1>5, <2>2, <2>4, Member
  <2> QED
    BY <2>3, <2>4
<1> QED
  BY <1>5, <1>6, <1>7, <1>8, <1>9, <1>10, <1>11 DEF Swapped

LEMMA StartSwaps ==
  ASSUME ContextType, NEW t \in Threads, stack[t] = <<>>, NEW c \in Ctx, NEW remove \in BOOLEAN,
         NEW e \in Errors, Start(t, c, remove, e)
  PROVE  /\ \A f \in Live : f \in Live'
         /\ Live' \subseteq Live \cup {Frame(c, remove, e)} /\ Frame(c, remove, e) \in Live'
         /\ stack' \in [Threads -> Seq(Frames)] /\ started' = started \cup {t}
         /\ \A u \in Threads \ {t} : stack'[u] = stack[u]
         /\ stack'[t] = <<Frame(c, remove, e)>>
<1> DEFINE g == Frame(c, remove, e)
<1>1. g \in Frames
  BY DEF Frame, Frames
<1>2. stack \in [Threads -> Seq(Frames)]
  BY DEF ContextType
<1>3. stack' = [stack EXCEPT ![t] = <<g>>] /\ started' = started \cup {t}
  BY DEF Start
<1> HIDE DEF g
<1>4. <<g>> \in Seq(Frames) /\ Len(<<g>>) = 1 /\ <<g>>[1] = g
  BY <1>1
<1>5. stack'[t] = <<g>> /\ \A u \in Threads \ {t} : stack'[u] = stack[u]
  BY <1>2, <1>3
<1>6. stack' \in [Threads -> Seq(Frames)]
  BY <1>2, <1>3, <1>4
<1>7. g \in Live'
  BY <1>4, <1>5, MemberNext
<1>8. ASSUME NEW f \in Live PROVE f \in Live'
  <2>1. PICK u \in Threads : \E i \in 1 .. Len(stack[u]) : f = stack[u][i]
    BY Member
  <2>2. u # t
    BY <2>1
  <2> QED
    BY <1>5, <2>1, <2>2, MemberNext
<1>9. ASSUME NEW f \in Live' PROVE f \in Live \cup {g}
  <2>1. PICK u \in Threads : \E i \in 1 .. Len(stack'[u]) : f = stack'[u][i]
    BY MemberNext
  <2>2. CASE u = t
    BY <1>4, <1>5, <2>1, <2>2
  <2>3. CASE u # t
    BY <1>5, <2>1, <2>3, Member
  <2> QED
    BY <2>2, <2>3
<1> QED
  BY <1>3, <1>5, <1>6, <1>7, <1>8, <1>9 DEF g

\* A child's frame on top of its parent's.
LEMMA PushSwaps ==
  ASSUME ContextType, NEW t \in Threads, stack[t] # <<>>, NEW g \in Frames, NEW f \in Frames,
         stack' = [stack EXCEPT ![t] = Append([stack[t] EXCEPT ![Len(stack[t])] = g], f)]
  PROVE  /\ Swapped(top(t), {g, f}) /\ stack' \in [Threads -> Seq(Frames)]
         /\ \A u \in Threads \ {t} : stack'[u] = stack[u]
         /\ Len(stack'[t]) = Len(stack[t]) + 1
         /\ \A i \in 1 .. Len(stack[t]) : stack'[t][i] = IF i = Len(stack[t]) THEN g ELSE stack[t][i]
         /\ stack'[t][Len(stack[t]) + 1] = f
<1> DEFINE n == Len(stack[t])
           q == [stack[t] EXCEPT ![n] = g]
<1>1. stack[t] \in Seq(Frames) /\ n \in Nat \ {0} /\ stack \in [Threads -> Seq(Frames)]
  BY TopLive DEF ContextType
<1>2. q \in Seq(Frames) /\ Len(q) = n /\ \A i \in 1 .. n : q[i] = IF i = n THEN g ELSE stack[t][i]
  BY <1>1
<1>3. stack' = [stack EXCEPT ![t] = Append(q, f)]
  OBVIOUS
<1> HIDE DEF q
<1>4. /\ Append(q, f) \in Seq(Frames) /\ Len(Append(q, f)) = n + 1
      /\ \A i \in 1 .. n : Append(q, f)[i] = q[i]
      /\ Append(q, f)[n + 1] = f
  BY <1>1, <1>2
<1>5. stack'[t] = Append(q, f) /\ stack' \in [Threads -> Seq(Frames)]
  BY <1>1, <1>3, <1>4
<1>6. \A u \in Threads \ {t} : stack'[u] = stack[u]
  BY <1>1, <1>3
<1>7. /\ Len(stack'[t]) = n + 1 /\ stack'[t][n + 1] = f
      /\ \A i \in 1 .. n : stack'[t][i] = IF i = n THEN g ELSE stack[t][i]
  BY <1>2, <1>4, <1>5
<1>8. g \in Live' /\ f \in Live'
  <2>1. n \in 1 .. Len(stack'[t]) /\ n + 1 \in 1 .. Len(stack'[t])
    BY <1>1, <1>7
  <2>2. stack'[t][n] = g
    BY <1>1, <1>7
  <2> QED
    BY <1>7, <2>1, <2>2, MemberNext
<1>9. ASSUME NEW x \in Live, x # top(t) PROVE x \in Live'
  <2>1. PICK u \in Threads : \E i \in 1 .. Len(stack[u]) : x = stack[u][i]
    BY Member
  <2>2. PICK i \in 1 .. Len(stack[u]) : x = stack[u][i]
    BY <2>1
  <2>3. CASE u = t
    <3>1. i # n /\ i \in 1 .. n /\ i \in 1 .. Len(stack'[t])
      BY <1>1, <1>7, <1>9, <2>2, <2>3 DEF top
    <3> QED
      BY <1>7, <2>2, <2>3, <3>1, MemberNext
  <2>4. CASE u # t
    BY <1>6, <2>2, <2>4, MemberNext
  <2> QED
    BY <2>3, <2>4
<1>10. ASSUME NEW x \in Live' PROVE x \in Live \cup {g, f}
  <2>1. PICK u \in Threads : \E i \in 1 .. Len(stack'[u]) : x = stack'[u][i]
    BY MemberNext
  <2>2. PICK i \in 1 .. Len(stack'[u]) : x = stack'[u][i]
    BY <2>1
  <2>3. CASE u = t
    <3>1. i = n + 1 \/ i \in 1 .. n
      BY <1>1, <1>7, <2>2, <2>3
    <3> QED
      BY <1>7, <2>2, <2>3, <3>1, Member
  <2>4. CASE u # t
    BY <1>6, <2>2, <2>4, Member
  <2> QED
    BY <2>3, <2>4
<1> QED
  BY <1>5, <1>6, <1>7, <1>8, <1>9, <1>10 DEF Swapped

\* The end of a frame.
LEMMA PopSwaps ==
  ASSUME ContextType, NEW t \in Threads, stack[t] # <<>>,
         stack' = [stack EXCEPT ![t] = SubSeq(stack[t], 1, Len(stack[t]) - 1)]
  PROVE  /\ Swapped(top(t), {}) /\ stack' \in [Threads -> Seq(Frames)]
         /\ \A u \in Threads \ {t} : stack'[u] = stack[u]
         /\ Len(stack'[t]) = Len(stack[t]) - 1
         /\ \A i \in 1 .. Len(stack[t]) - 1 : stack'[t][i] = stack[t][i]
<1> DEFINE n == Len(stack[t])
           q == SubSeq(stack[t], 1, n - 1)
<1>1. stack[t] \in Seq(Frames) /\ n \in Nat \ {0} /\ stack \in [Threads -> Seq(Frames)]
  BY TopLive DEF ContextType
<1>2. q \in Seq(Frames) /\ Len(q) = n - 1 /\ \A i \in 1 .. n - 1 : q[i] = stack[t][i]
  <2>1. \A i \in 1 .. n - 1 : stack[t][i] \in Frames
    BY <1>1
  <2>2. /\ q \in Seq(Frames) /\ Len(q) = IF 1 <= n - 1 THEN n - 1 - 1 + 1 ELSE 0
        /\ \A i \in 1 .. n - 1 - 1 + 1 : q[i] = stack[t][1 + i - 1]
    BY <1>1, <2>1, SubSeqProperties
  <2> HIDE DEF q
  <2>3. n - 1 \in Nat /\ (1 .. n - 1 - 1 + 1) = (1 .. n - 1)
    BY <1>1
  <2>4. ASSUME NEW i \in 1 .. n - 1 PROVE q[i] = stack[t][i]
    <3>1. 1 + i - 1 = i
      BY <1>1
    <3>2. q[i] = stack[t][1 + i - 1]
      BY <2>2, <2>3
    <3> QED
      BY <3>1, <3>2
  <2>6. ASSUME NEW m \in Nat \ {0} PROVE (IF 1 <= m - 1 THEN m - 1 - 1 + 1 ELSE 0) = m - 1
    OBVIOUS
  <2>7. (IF 1 <= n - 1 THEN n - 1 - 1 + 1 ELSE 0) = n - 1
    BY <1>1, <2>6
  <2>5. Len(q) = n - 1
    BY <2>2, <2>7
  <2> QED
    BY <2>2, <2>4, <2>5
<1>3. stack' = [stack EXCEPT ![t] = q]
  OBVIOUS
<1> HIDE DEF q
<1>4. stack'[t] = q /\ stack' \in [Threads -> Seq(Frames)] /\ \A u \in Threads \ {t} : stack'[u] = stack[u]
  BY <1>1, <1>2, <1>3
<1>5. ASSUME NEW x \in Live, x # top(t) PROVE x \in Live'
  <2>1. PICK u \in Threads : \E i \in 1 .. Len(stack[u]) : x = stack[u][i]
    BY Member
  <2>2. PICK i \in 1 .. Len(stack[u]) : x = stack[u][i]
    BY <2>1
  <2>3. CASE u = t
    <3>1. i # n /\ i \in 1 .. n - 1
      BY <1>1, <1>5, <2>2, <2>3 DEF top
    <3> QED
      BY <1>2, <1>4, <2>2, <2>3, <3>1, MemberNext
  <2>4. CASE u # t
    BY <1>4, <2>2, <2>4, MemberNext
  <2> QED
    BY <2>3, <2>4
<1>6. ASSUME NEW x \in Live' PROVE x \in Live
  <2>1. PICK u \in Threads : \E i \in 1 .. Len(stack'[u]) : x = stack'[u][i]
    BY MemberNext
  <2>2. PICK i \in 1 .. Len(stack'[u]) : x = stack'[u][i]
    BY <2>1
  <2>3. CASE u = t
    <3>1. i \in 1 .. n - 1 /\ i \in 1 .. n
      BY <1>1, <1>2, <1>4, <2>2, <2>3
    <3> QED
      BY <1>2, <1>4, <2>2, <2>3, <3>1, Member
  <2>4. CASE u # t
    BY <1>4, <2>2, <2>4, Member
  <2> QED
    BY <2>3, <2>4
<1> QED
  BY <1>2, <1>4, <1>5, <1>6 DEF Swapped

-----------------------------------------------------------------------------
(* Types. *)

LEMMA ThreadOf ==
  ASSUME NEW c \in Ctx, NEW s \in {"user", "timer", "watch", "new"}
  PROVE  <<s, c>> \in Threads
BY DEF Threads

LEMMA TypeMakers ==
  ASSUME ContextType, MadeInOrder, ChildrenPublished, StartedOnce, NEW c \in Ctx,
         New(c) \/ Construct(c) \/ Cancel(c) \/ TimerFires(c) \/ Watch(c) \/ ForeignDone(c)
  PROVE  ContextType'
<1>0. Above(c) \in Nodes
  BY Upward DEF ContextType
<1>1. CASE New(c)
  <2>1. timed' \in [Ctx -> BOOLEAN]
    BY <1>1 DEF New, ContextType
  <2>2. made' \in [Ctx -> {"no", "propagate", "arm", "yes"}]
    BY <1>1 DEF New, ContextType
  <2> QED
    BY <1>1, <2>1, <2>2 DEF New, ContextType
<1>2. CASE propagateCancel(c)
  <2>1. made' \in [Ctx -> {"no", "propagate", "arm", "yes"}]
    BY <1>2 DEF propagateCancel, ContextType
  <2>2. UNCHANGED <<kind, timed, mu, timer, stack, started, now>>
    BY <1>2 DEF propagateCancel
  <2>3. CASE Above(c) = Root
    <3>1. UNCHANGED <<err, children, watched>>
      BY <1>2, <2>3 DEF propagateCancel, IsCancel
    <3> QED
      BY <2>1, <2>2, <3>1 DEF ContextType
  <2>4. CASE Above(c) # Root /\ IsCancel(Above(c))
    <3>1. Above(c) \in Ctx
      BY <1>0, <2>4 DEF Nodes
    <3>2. watched' = watched
      BY <1>2, <2>4 DEF propagateCancel
    <3>3. \/ err' = [err EXCEPT ![c] = err[Above(c)]] /\ children' = children
          \/ err' = err /\ children' = [children EXCEPT ![Above(c)] = @ \cup {c}]
      BY <1>2, <2>4 DEF propagateCancel
    <3> QED
      BY <2>1, <2>2, <3>1, <3>2, <3>3 DEF ContextType
  <2>5. CASE Above(c) # Root /\ ~IsCancel(Above(c))
    BY <1>2, <2>1, <2>2, <2>5 DEF propagateCancel, ContextType
  <2> QED
    BY <2>3, <2>4, <2>5
<1>3. CASE Arm(c)
  <2>1. made' \in [Ctx -> {"no", "propagate", "arm", "yes"}]
    BY <1>3 DEF Arm, ContextType
  <2>2. UNCHANGED <<kind, timed, err, children, mu, watched, now>>
    BY <1>3 DEF Arm
  <2>3. CASE Start(<<"new", c>>, c, TRUE, "DeadlineExceeded") /\ UNCHANGED timer
    <3>1. stack[<<"new", c>>] = <<>> /\ <<"new", c>> \in Threads
      BY <1>3, ThreadOf DEF Arm, StartedOnce
    <3>2. stack' \in [Threads -> Seq(Frames)] /\ started' = started \cup {<<"new", c>>}
      BY <2>3, <3>1, StartSwaps DEF Errors
    <3> QED
      BY <2>1, <2>2, <2>3, <3>1, <3>2 DEF ContextType
  <2>4. CASE timer' = [timer EXCEPT ![c] = err[c] = "nil"] /\ UNCHANGED <<stack, started>>
    <3>1. timer' \in [Ctx -> BOOLEAN]
      BY <2>4 DEF ContextType
    <3> QED
      BY <2>1, <2>2, <2>4, <3>1 DEF ContextType
  <2> QED
    BY <1>3, <2>3, <2>4 DEF Arm
<1>4. CASE Cancel(c)
  <2>1. stack[<<"user", c>>] = <<>> /\ <<"user", c>> \in Threads
    BY <1>4, ThreadOf DEF Cancel, StartedOnce
  <2>2. Start(<<"user", c>>, c, TRUE, "Canceled")
    BY <1>4 DEF Cancel
  <2>3. stack' \in [Threads -> Seq(Frames)] /\ started' = started \cup {<<"user", c>>}
    BY <2>1, <2>2, StartSwaps DEF Errors
  <2> QED
    BY <1>4, <2>1, <2>3 DEF Cancel, ContextType
<1>5. CASE TimerFires(c)
  <2>1. stack[<<"timer", c>>] = <<>> /\ <<"timer", c>> \in Threads
    BY <1>5, ThreadOf DEF TimerFires, StartedOnce
  <2>2. Start(<<"timer", c>>, c, TRUE, "DeadlineExceeded")
    BY <1>5 DEF TimerFires
  <2>3. stack' \in [Threads -> Seq(Frames)] /\ started' = started \cup {<<"timer", c>>}
    BY <2>1, <2>2, StartSwaps DEF Errors
  <2> QED
    BY <1>5, <2>1, <2>3 DEF TimerFires, ContextType
<1>6. CASE Watch(c)
  <2>1. Above(c) \in Ctx /\ stack[<<"watch", c>>] = <<>> /\ <<"watch", c>> \in Threads
    BY <1>0, <1>6, ThreadOf DEF Watch, StartedOnce, ChildrenPublished, Nodes
  <2>2. CASE err[Above(c)] # "nil" /\ Start(<<"watch", c>>, c, FALSE, err[Above(c)])
    <3>1. err[Above(c)] \in Errors
      BY <2>1, <2>2 DEF ContextType
    <3>2. stack' \in [Threads -> Seq(Frames)] /\ started' = started \cup {<<"watch", c>>}
      BY <2>1, <2>2, <3>1, StartSwaps
    <3> QED
      BY <1>6, <2>1, <3>2 DEF Watch, ContextType
  <2>3. CASE UNCHANGED <<stack, started>>
    BY <1>6, <2>3 DEF Watch, ContextType
  <2> QED
    BY <1>6, <2>2, <2>3 DEF Watch
<1>7. CASE ForeignDone(c)
  BY <1>7 DEF ForeignDone, ContextType, Errors
<1> QED
  BY <1>1, <1>2, <1>3, <1>4, <1>5, <1>6, <1>7 DEF Construct

\* What the steps of cancel do, in terms of the top frame o.
EnterKnown(t, o) ==
    /\ o.at = "enter" /\ err[o.c] # "nil" /\ SetTop(t, [o EXCEPT !.at = "stop"])
    /\ UNCHANGED <<kind, made, timed, err, children, timer, watched, started>>
EnterNew(t, o) ==
    /\ o.at = "enter" /\ err[o.c] = "nil" /\ err' = [err EXCEPT ![o.c] = o.err]
    /\ SetTop(t, [o EXCEPT !.at = "children", !.todo = children[o.c]])
    /\ UNCHANGED <<kind, made, timed, children, timer, watched, started>>
Descend(t, o, k) ==
    /\ o.at = "children" /\ k \in o.todo
    /\ stack' = [stack EXCEPT ![t] = Append([stack[t] EXCEPT ![Len(stack[t])] = [o EXCEPT !.todo = @ \ {k}]],
                                            Frame(k, FALSE, o.err))]
    /\ UNCHANGED <<kind, made, timed, err, children, timer, watched, started>>
DropChildren(t, o) ==
    /\ o.at = "children" /\ o.todo = {} /\ children' = [children EXCEPT ![o.c] = {}]
    /\ SetTop(t, [o EXCEPT !.at = IF o.remove THEN "remove" ELSE "stop"])
    /\ UNCHANGED <<kind, made, timed, err, timer, watched, started>>
Delete(t, o) ==
    /\ o.at = "remove" /\ SetTop(t, [o EXCEPT !.at = "stop"])
    /\ children' = IF IsCancel(Above(o.c)) THEN [children EXCEPT ![Above(o.c)] = @ \ Key(o.c)] ELSE children
    /\ UNCHANGED <<kind, made, timed, err, timer, watched, started>>
Unwind(t, o) ==
    /\ o.at = "stop" /\ stack' = [stack EXCEPT ![t] = SubSeq(stack[t], 1, Len(stack[t]) - 1)]
    /\ timer' = IF timed[o.c] THEN [timer EXCEPT ![o.c] = FALSE] ELSE timer
    /\ UNCHANGED <<kind, made, timed, err, children, watched, started>>

LEMMA RunCases ==
  ASSUME ContextType, NEW t \in Threads, Run(t)
  PROVE  /\ stack[t] # <<>>
         /\ \/ EnterKnown(t, top(t)) \/ EnterNew(t, top(t)) \/ DropChildren(t, top(t))
            \/ Delete(t, top(t)) \/ Unwind(t, top(t)) \/ \E k \in top(t).todo : Descend(t, top(t), k)
<1>1. CASE Enter(t)
  BY <1>1 DEF Enter, AtTop, EnterKnown, EnterNew
<1>2. CASE CancelChild(t)
  <2>1. PICK k \in top(t).todo :
            stack' = [stack EXCEPT ![t] = Append([stack[t] EXCEPT ![Len(stack[t])].todo = @ \ {k}],
                                                 Frame(k, FALSE, top(t).err))]
    BY <1>2 DEF CancelChild
  <2>2. stack[t] # <<>> /\ stack[t] \in Seq(Frames) /\ Len(stack[t]) \in 1 .. Len(stack[t]) /\ stack \in [Threads -> Seq(Frames)]
    BY <1>2, TopLive DEF CancelChild, AtTop, ContextType
  <2>3. stack' = [stack EXCEPT ![t] =
                     Append([stack[t] EXCEPT ![Len(stack[t])] = [top(t) EXCEPT !.todo = @ \ {k}]], Frame(k, FALSE, top(t).err))]
    BY <2>1, <2>2 DEF top
  <2>4. Descend(t, top(t), k)
    BY <1>2, <2>3 DEF CancelChild, Descend, AtTop
  <2> QED
    BY <2>2, <2>4
<1>3. CASE ChildrenDone(t)
  BY <1>3 DEF ChildrenDone, AtTop, DropChildren
<1>4. CASE RemoveFromParent(t)
  BY <1>4 DEF RemoveFromParent, AtTop, Delete
<1>5. CASE StopTimer(t)
  BY <1>5 DEF StopTimer, AtTop, Unwind
<1> QED
  BY <1>1, <1>2, <1>3, <1>4, <1>5 DEF Run

LEMMA SameTree ==
  ASSUME kind' = kind
  PROVE  \A c : Above(c)' = Above(c) /\ (IsCancel(c)' <=> IsCancel(c))
BY DEF Above, IsCancel

LEMMA Changed ==
  ASSUME ContextType, NEW o \in Frames, NEW a \in {"enter", "children", "remove", "stop"}, NEW s \in SUBSET Ctx
  PROVE  /\ [o EXCEPT !.at = a] \in Frames /\ [o EXCEPT !.at = a, !.todo = s] \in Frames
         /\ [o EXCEPT !.todo = s] \in Frames
BY DEF Frames

LEMMA RunType ==
  ASSUME ContextType, FramesTrue, NEW t \in Threads, Run(t)
  PROVE  ContextType'
<1> DEFINE o == top(t)
<1>1. o \in Frames /\ stack[t] # <<>> /\ o.c \in Ctx /\ o.err \in Errors /\ o.todo \in SUBSET Ctx
  BY RunCases, TopLive DEF Frames
<1>2. children[o.c] \in SUBSET Ctx /\ stack \in [Threads -> Seq(Frames)]
  BY <1>1 DEF ContextType
<1> HIDE DEF o
<1>3. CASE EnterKnown(t, o)
  <2>1. [o EXCEPT !.at = "stop"] \in Frames
    BY <1>1, Changed
  <2>2. stack' \in [Threads -> Seq(Frames)]
    BY <1>1, <1>3, <2>1, SetTopSwaps DEF EnterKnown
  <2> QED
    BY <1>3, <2>2 DEF EnterKnown, ContextType
<1>4. CASE EnterNew(t, o)
  <2>1. [o EXCEPT !.at = "children", !.todo = children[o.c]] \in Frames
    BY <1>1, <1>2, Changed
  <2>2. stack' \in [Threads -> Seq(Frames)]
    BY <1>1, <1>4, <2>1, SetTopSwaps DEF EnterNew
  <2>3. err' \in [Ctx -> Errors \cup {"nil"}]
    BY <1>1, <1>4 DEF EnterNew, ContextType
  <2> QED
    BY <1>4, <2>2, <2>3 DEF EnterNew, ContextType
<1>5. CASE DropChildren(t, o)
  <2>1. [o EXCEPT !.at = IF o.remove THEN "remove" ELSE "stop"] \in Frames
    BY <1>1, Changed
  <2>2. stack' \in [Threads -> Seq(Frames)]
    BY <1>1, <1>5, <2>1, SetTopSwaps DEF DropChildren
  <2>3. children' \in [Ctx -> SUBSET Ctx]
    BY <1>1, <1>5 DEF DropChildren, ContextType
  <2> QED
    BY <1>5, <2>2, <2>3 DEF DropChildren, ContextType
<1>6. CASE Delete(t, o)
  <2>1. [o EXCEPT !.at = "stop"] \in Frames
    BY <1>1, Changed
  <2>2. stack' \in [Threads -> Seq(Frames)]
    BY <1>1, <1>6, <2>1, SetTopSwaps DEF Delete
  <2>3. children' \in [Ctx -> SUBSET Ctx]
    BY <1>1, <1>6 DEF Delete, ContextType
  <2> QED
    BY <1>6, <2>2, <2>3 DEF Delete, ContextType
<1>7. CASE Unwind(t, o)
  <2>2. stack' \in [Threads -> Seq(Frames)]
    BY <1>1, <1>7, PopSwaps DEF Unwind
  <2>3. timer' \in [Ctx -> BOOLEAN]
    BY <1>1, <1>7 DEF Unwind, ContextType
  <2> QED
    BY <1>7, <2>2, <2>3 DEF Unwind, ContextType
<1>8. ASSUME NEW k \in o.todo, Descend(t, o, k) PROVE ContextType'
  <2>1. [o EXCEPT !.todo = @ \ {k}] \in Frames /\ Frame(k, FALSE, o.err) \in Frames /\ k \in Ctx
    BY <1>1 DEF Frame, Frames
  <2>2. stack' \in [Threads -> Seq(Frames)]
    BY <1>1, <1>8, <2>1, PushSwaps DEF Descend
  <2> QED
    BY <1>8, <2>2 DEF Descend, ContextType
<1> QED
  BY <1>3, <1>4, <1>5, <1>6, <1>7, <1>8, RunCases DEF o

\* What every step of cancel leaves as it was, and what it can change.
LEMMA RunEffect ==
  ASSUME ContextInv, NEW t \in Threads, Run(t)
  PROVE  /\ UNCHANGED <<kind, made, timed, watched, started>>
         /\ \A c \in Ctx : err'[c] = err[c] \/ (c = top(t).c /\ err[c] = "nil" /\ err'[c] \in Errors)
         /\ \A c \in Ctx : children'[c] \subseteq children[c] /\ (timer'[c] => timer[c])
         /\ \A u \in Threads \ {t} : stack'[u] = stack[u]
<1> DEFINE o == top(t)
<1>0. ContextType
  BY DEF ContextInv
<1>1. o \in Frames /\ stack[t] # <<>> /\ o.c \in Ctx /\ o.err \in Errors /\ o.todo \in SUBSET Ctx
  BY <1>0, RunCases, TopLive DEF Frames
<1>2. children[o.c] \in SUBSET Ctx /\ stack \in [Threads -> Seq(Frames)]
  BY <1>0, <1>1 DEF ContextType
<1>3. /\ EnterKnown(t, o) \/ EnterNew(t, o) \/ DropChildren(t, o) \/ Delete(t, o)  \/ Unwind(t, o)
         \/ \E k \in o.todo : Descend(t, o, k)
  BY <1>0, RunCases
<1> HIDE DEF o
<1>4. UNCHANGED <<kind, made, timed, watched, started>>
  BY <1>3 DEF EnterKnown, EnterNew, DropChildren, Delete, Unwind, Descend
<1>5. \A c \in Ctx : err'[c] = err[c] \/ (c = o.c /\ err[c] = "nil" /\ err'[c] \in Errors)
  <2>1. CASE EnterNew(t, o)
    BY <1>0, <1>1, <2>1 DEF EnterNew, ContextType
  <2> QED
    BY <1>3, <2>1 DEF EnterKnown, DropChildren, Delete, Unwind, Descend
<1>6. \A c \in Ctx : children'[c] \subseteq children[c]
  <2>1. CASE DropChildren(t, o)
    BY <1>0, <1>1, <2>1 DEF DropChildren, ContextType
  <2>2. CASE Delete(t, o)
    BY <1>0, <1>1, <2>2 DEF Delete, ContextType
  <2> QED
    BY <1>3, <2>1, <2>2 DEF EnterKnown, EnterNew, Unwind, Descend
<1>7. \A c \in Ctx : timer'[c] => timer[c]
  <2>1. CASE Unwind(t, o)
    BY <1>0, <1>1, <2>1 DEF Unwind, ContextType
  <2> QED
    BY <1>3, <2>1 DEF EnterKnown, EnterNew, Delete, DropChildren, Descend
<1>8. \A u \in Threads \ {t} : stack'[u] = stack[u]
  <2>1. CASE \E g : SetTop(t, g)
    BY <1>2, <2>1 DEF SetTop
  <2> QED
    BY <1>2, <1>3, <2>1 DEF EnterKnown, EnterNew, DropChildren, Delete, Unwind, Descend
<1> QED
  BY <1>4, <1>5, <1>6, <1>7, <1>8 DEF o

LEMMA RunOrders ==
  ASSUME ContextInv, NEW t \in Threads, Run(t)
  PROVE  MadeInOrder' /\ ChildrenPublished' /\ StartedOnce'
<1>0. ContextType /\ MadeInOrder /\ ChildrenPublished /\ StartedOnce /\ FramesTrue
  BY DEF ContextInv
<1>1. stack[t] # <<>> /\ top(t) \in Live /\ top(t).c \in Ctx
  BY <1>0, RunCases, TopLive DEF Frames
<1>2. Published(top(t).c)
  BY <1>0, <1>1 DEF FramesTrue, Truthful
<1>3. \A c : Above(c)' = Above(c) /\ (IsCancel(c)' <=> IsCancel(c))
  BY RunEffect, SameTree
<1>4. MadeInOrder'
  <2>1. UNCHANGED <<made, timed, kind>>
    BY RunEffect
  <2>2. \A c \in Ctx : made[c] \in {"no", "propagate"} => err'[c] = err[c]
    BY <1>2, RunEffect DEF Published
  <2> QED
    BY <1>0, <1>3, <2>1, <2>2 DEF MadeInOrder
<1>5. ChildrenPublished'
  <2>1. UNCHANGED <<made, watched>> /\ \A c \in Ctx : children'[c] \subseteq children[c]
    BY RunEffect
  <2> QED
    BY <1>0, <1>3, <2>1 DEF ChildrenPublished, Published
<1>6. StartedOnce'
  <2>1. UNCHANGED <<made, watched, timed, started>> /\ \A c \in Ctx : timer'[c] => timer[c]
    BY RunEffect
  <2>2. \A u \in Threads : u \notin started' => stack'[u] = <<>>
    BY <1>0, <1>1, <2>1, RunEffect DEF StartedOnce
  <2> QED
    BY <1>0, <2>1, <2>2 DEF StartedOnce, Published
<1> QED
  BY <1>4, <1>5, <1>6

-----------------------------------------------------------------------------
(* The stacks stay nested. *)

LEMMA NestedReplaced ==
  ASSUME ContextType, Nested, NEW t \in Threads, stack[t] # <<>>, NEW g \in Frames, SetTop(t, g),
         g.c = top(t).c, g.remove = top(t).remove, kind' = kind
  PROVE  Nested'
<1> DEFINE n == Len(stack[t])
<1>1. /\ \A u \in Threads \ {t} : stack'[u] = stack[u]
      /\ Len(stack'[t]) = n /\ n \in Nat
      /\ \A i \in 1 .. n : stack'[t][i] = IF i = n THEN g ELSE stack[t][i]
  BY SetTopSwaps, TopLive
<1>2. \A c : Above(c)' = Above(c) /\ (IsCancel(c)' <=> IsCancel(c))
  BY SameTree
<1> SUFFICES ASSUME NEW u \in Threads, NEW i \in 1 .. Len(stack'[u])
             PROVE  /\ i > 1 => stack'[u][i - 1].at = "children" /\ Above(stack'[u][i].c) = stack'[u][i - 1].c
                    /\ i = 1 /\ ~stack'[u][i].remove => ~IsCancel(Above(stack'[u][i].c))
  BY <1>2 DEF Nested
<1>3. CASE u # t
  BY <1>1, <1>2, <1>3 DEF Nested
<1>4. CASE u = t
  <2>1. i \in 1 .. n /\ stack'[u][i].c = stack[t][i].c /\ stack'[u][i].remove = stack[t][i].remove
    BY <1>1, <1>4 DEF top
  <2>2. i > 1 => i - 1 \in 1 .. n /\ i - 1 # n
    BY <1>1, <2>1
  <2>3. i > 1 => stack'[u][i - 1] = stack[t][i - 1]
    BY <1>1, <1>4, <2>2
  <2> QED
    BY <1>2, <1>4, <2>1, <2>3 DEF Nested
<1> QED
  BY <1>3, <1>4

LEMMA NestedPushed ==
  ASSUME ContextType, Nested, FramesTrue, NEW t \in Threads, stack[t] # <<>>, NEW k \in top(t).todo,
         Descend(t, top(t), k)
  PROVE  Nested'
<1> DEFINE n == Len(stack[t])
           o == top(t)
           g == [o EXCEPT !.todo = @ \ {k}]
           f == Frame(k, FALSE, o.err)
<1>1. o \in Live /\ o \in Frames /\ o.todo \subseteq Ctx /\ k \in Ctx
  BY TopLive DEF Frames
<1>2. g \in Frames /\ f \in Frames /\ g.c = o.c /\ g.remove = o.remove /\ g.at = "children" /\ f.c = k
  BY <1>1 DEF Frame, Frames, Descend
<1>3. Above(k) = o.c
  BY <1>1 DEF FramesTrue, Truthful
<1>4. stack' = [stack EXCEPT ![t] = Append([stack[t] EXCEPT ![Len(stack[t])] = g], f)] /\ kind' = kind
  BY DEF Descend
<1>5. o = stack[t][n]
  BY DEF top
<1> HIDE DEF g, f, o
<1>6. /\ \A u \in Threads \ {t} : stack'[u] = stack[u]
      /\ Len(stack'[t]) = n + 1 /\ n \in Nat \ {0} /\ stack'[t][n + 1] = f
      /\ \A i \in 1 .. n : stack'[t][i] = IF i = n THEN g ELSE stack[t][i]
  <2>1. n \in Nat \ {0}
    BY TopLive
  <2>2. g \in Frames /\ f \in Frames
    BY <1>2
  <2>3. stack' = [stack EXCEPT ![t] = Append([stack[t] EXCEPT ![Len(stack[t])] = g], f)]
    BY <1>4
  <2> HIDE DEF n
  <2>4. /\ \A u \in Threads \ {t} : stack'[u] = stack[u]
        /\ Len(stack'[t]) = Len(stack[t]) + 1 /\ stack'[t][Len(stack[t]) + 1] = f
        /\ \A i \in 1 .. Len(stack[t]) : stack'[t][i] = IF i = Len(stack[t]) THEN g ELSE stack[t][i]
    BY <2>2, <2>3, PushSwaps, Zenon
  <2> QED
    BY <2>1, <2>4 DEF n
<1>7. \A c : Above(c)' = Above(c) /\ (IsCancel(c)' <=> IsCancel(c))
  BY <1>4, SameTree
<1> SUFFICES ASSUME NEW u \in Threads, NEW i \in 1 .. Len(stack'[u])
             PROVE  /\ i > 1 => stack'[u][i - 1].at = "children" /\ Above(stack'[u][i].c) = stack'[u][i - 1].c
                    /\ i = 1 /\ ~stack'[u][i].remove => ~IsCancel(Above(stack'[u][i].c))
  BY <1>7 DEF Nested
<1>8. CASE u # t
  BY <1>6, <1>7, <1>8 DEF Nested
<1>9. CASE u = t /\ i = n + 1
  <2>1. i - 1 = n /\ i # 1 /\ n \in 1 .. n
    BY <1>6, <1>9
  <2>2. stack'[u][i] = f /\ stack'[u][i - 1] = g
    BY <1>6, <1>9, <2>1
  <2> QED
    BY <1>2, <1>3, <1>7, <2>1, <2>2
<1>10. CASE u = t /\ i # n + 1
  <2>1. i \in 1 .. n
    BY <1>6, <1>10
  <2>4. stack'[u][i].c = stack[t][i].c /\ stack'[u][i].remove = stack[t][i].remove
    BY <1>2, <1>5, <1>6, <1>10, <2>1
  <2>2. i > 1 => i - 1 \in 1 .. n /\ i - 1 # n
    BY <1>6, <2>1
  <2>3. i > 1 => stack'[u][i - 1] = stack[t][i - 1]
    BY <1>6, <1>10, <2>2
  <2> QED
    BY <1>7, <1>10, <2>1, <2>3, <2>4 DEF Nested
<1> QED
  BY <1>8, <1>9, <1>10

LEMMA NestedPopped ==
  ASSUME ContextType, Nested, NEW t \in Threads, stack[t] # <<>>,
         stack' = [stack EXCEPT ![t] = SubSeq(stack[t], 1, Len(stack[t]) - 1)], kind' = kind
  PROVE  Nested'
<1> DEFINE n == Len(stack[t])
<1>1. /\ \A u \in Threads \ {t} : stack'[u] = stack[u]
      /\ Len(stack'[t]) = n - 1 /\ n \in Nat \ {0}
      /\ \A i \in 1 .. n - 1 : stack'[t][i] = stack[t][i]
  BY PopSwaps, TopLive
<1>2. \A c : Above(c)' = Above(c) /\ (IsCancel(c)' <=> IsCancel(c))
  BY SameTree
<1> SUFFICES ASSUME NEW u \in Threads, NEW i \in 1 .. Len(stack'[u])
             PROVE  /\ i > 1 => stack'[u][i - 1].at = "children" /\ Above(stack'[u][i].c) = stack'[u][i - 1].c
                    /\ i = 1 /\ ~stack'[u][i].remove => ~IsCancel(Above(stack'[u][i].c))
  BY <1>2 DEF Nested
<1>3. CASE u # t
  BY <1>1, <1>2, <1>3 DEF Nested
<1>4. CASE u = t
  <2>1. i \in 1 .. n - 1 /\ i \in 1 .. n
    BY <1>1, <1>4
  <2>2. i > 1 => i - 1 \in 1 .. n - 1
    BY <1>1, <2>1
  <2>3. stack'[u][i] = stack[t][i] /\ (i > 1 => stack'[u][i - 1] = stack[t][i - 1])
    BY <1>1, <1>4, <2>1, <2>2
  <2> QED
    BY <1>2, <1>4, <2>1, <2>3 DEF Nested
<1> QED
  BY <1>3, <1>4

LEMMA NestedStarted ==
  ASSUME ContextType, Nested, NEW t \in Threads, stack[t] = <<>>, NEW c \in Ctx, NEW remove \in BOOLEAN,
         NEW e \in Errors, Start(t, c, remove, e), kind' = kind, remove \/ ~IsCancel(Above(c))
  PROVE  Nested'
<1>1. stack'[t] = <<Frame(c, remove, e)>> /\ \A u \in Threads \ {t} : stack'[u] = stack[u]
  BY StartSwaps
<1>2. \A x : Above(x)' = Above(x) /\ (IsCancel(x)' <=> IsCancel(x))
  BY SameTree
<1> SUFFICES ASSUME NEW u \in Threads, NEW i \in 1 .. Len(stack'[u])
             PROVE  /\ i > 1 => stack'[u][i - 1].at = "children" /\ Above(stack'[u][i].c) = stack'[u][i - 1].c
                    /\ i = 1 /\ ~stack'[u][i].remove => ~IsCancel(Above(stack'[u][i].c))
  BY <1>2 DEF Nested
<1>3. CASE u # t
  BY <1>1, <1>2, <1>3 DEF Nested
<1>4. CASE u = t
  <2>1. i = 1 /\ stack'[u][i] = Frame(c, remove, e)
    <3> DEFINE g == Frame(c, remove, e)
    <3>1. stack'[u] = <<g>>
      BY <1>1, <1>4
    <3> HIDE DEF g
    <3>2. i = 1 /\ stack'[u][i] = g
      BY <3>1
    <3> QED
      BY <3>2 DEF g
  <2>2. Frame(c, remove, e).c = c /\ Frame(c, remove, e).remove = remove
    BY DEF Frame
  <2> QED
    BY <1>2, <2>1, <2>2
<1> QED
  BY <1>3, <1>4

LEMMA RunNested ==
  ASSUME ContextInv, NEW t \in Threads, Run(t)
  PROVE  Nested'
<1> DEFINE o == top(t)
<1>0. ContextType /\ Nested /\ FramesTrue
  BY DEF ContextInv
<1>1. o \in Frames /\ stack[t] # <<>> /\ o.c \in Ctx /\ o.err \in Errors /\ o.todo \in SUBSET Ctx
  BY <1>0, RunCases, TopLive DEF Frames
<1>2. children[o.c] \in SUBSET Ctx
  BY <1>0, <1>1 DEF ContextType
<1>3. /\ EnterKnown(t, o) \/ EnterNew(t, o) \/ DropChildren(t, o) \/ Delete(t, o) \/ Unwind(t, o)
         \/ \E k \in o.todo : Descend(t, o, k)
  BY <1>0, RunCases
<1>4. kind' = kind
  BY RunEffect
<1>5. CASE \E g \in Frames : SetTop(t, g) /\ g.c = o.c /\ g.remove = o.remove
  BY <1>0, <1>1, <1>4, <1>5, NestedReplaced
<1> HIDE DEF o
<1>6. CASE EnterKnown(t, o) \/ Delete(t, o)
  <2>1. [o EXCEPT !.at = "stop"] \in Frames /\ [o EXCEPT !.at = "stop"].c = o.c /\ [o EXCEPT !.at = "stop"].remove = o.remove
    BY <1>1 DEF Frames
  <2> QED
    BY <1>5, <1>6, <2>1 DEF EnterKnown, Delete
<1>7. CASE EnterNew(t, o)
  <2> DEFINE g == [o EXCEPT !.at = "children", !.todo = children[o.c]]
  <2>1. g \in Frames /\ g.c = o.c /\ g.remove = o.remove
    BY <1>1, <1>2 DEF Frames
  <2>2. SetTop(t, g)
    BY <1>7 DEF EnterNew
  <2> QED
    BY <1>5, <2>1, <2>2
<1>8. CASE DropChildren(t, o)
  <2> DEFINE g == [o EXCEPT !.at = IF o.remove THEN "remove" ELSE "stop"]
  <2>1. g \in Frames /\ g.c = o.c /\ g.remove = o.remove
    BY <1>1 DEF Frames
  <2>2. SetTop(t, g)
    BY <1>8 DEF DropChildren
  <2> QED
    BY <1>5, <2>1, <2>2
<1>9. CASE Unwind(t, o)
  BY <1>0, <1>1, <1>4, <1>9, NestedPopped DEF Unwind
<1>10. CASE \E k \in o.todo : Descend(t, o, k)
  BY <1>0, <1>1, <1>10, NestedPushed DEF o
<1> QED
  BY <1>3, <1>6, <1>7, <1>8, <1>9, <1>10

-----------------------------------------------------------------------------
(* The steps of cancel, by the frames they take away and bring. *)

RunCase(t, o) ==
    \/ EnterKnown(t, o) /\ Swapped(o, {[o EXCEPT !.at = "stop"]})
    \/ EnterNew(t, o) /\ Swapped(o, {[o EXCEPT !.at = "children", !.todo = children[o.c]]})
    \/ DropChildren(t, o) /\ Swapped(o, {[o EXCEPT !.at = IF o.remove THEN "remove" ELSE "stop"]})
    \/ Delete(t, o) /\ Swapped(o, {[o EXCEPT !.at = "stop"]})
    \/ Unwind(t, o) /\ Swapped(o, {})
    \/ \E k \in o.todo : Descend(t, o, k) /\ Swapped(o, {[o EXCEPT !.todo = @ \ {k}], Frame(k, FALSE, o.err)})

LEMMA RunSwaps ==
  ASSUME ContextInv, NEW t \in Threads, Run(t)
  PROVE  \E o \in Live : o = top(t) /\ o \in Frames /\ RunCase(t, o) /\ Truthful(o)
<1> DEFINE o == top(t)
<1>0. ContextType /\ FramesTrue
  BY DEF ContextInv
<1>1. o \in Live /\ o \in Frames /\ stack[t] # <<>> /\ o.c \in Ctx /\ o.err \in Errors /\ o.todo \in SUBSET Ctx
  BY <1>0, RunCases, TopLive DEF Frames
<1>2. children[o.c] \in SUBSET Ctx
  BY <1>0, <1>1 DEF ContextType
<1>3. /\ EnterKnown(t, o) \/ EnterNew(t, o) \/ DropChildren(t, o) \/ Delete(t, o) \/ Unwind(t, o)
         \/ \E k \in o.todo : Descend(t, o, k)
  BY <1>0, RunCases
<1>4. o = top(t)
  OBVIOUS
<1> HIDE DEF o
<1>5. RunCase(t, o)
  <2>1. CASE EnterKnown(t, o)
    <3>1. [o EXCEPT !.at = "stop"] \in Frames
      BY <1>1, Changed, <1>0
    <3>2. Swapped(o, {[o EXCEPT !.at = "stop"]})
      BY <1>0, <1>1, <1>4, <2>1, <3>1, SetTopSwaps DEF EnterKnown
    <3> QED
      BY <2>1, <3>2 DEF RunCase
  <2>2. CASE EnterNew(t, o)
    <3>1. [o EXCEPT !.at = "children", !.todo = children[o.c]] \in Frames
      BY <1>0, <1>1, <1>2, Changed
    <3>2. Swapped(o, {[o EXCEPT !.at = "children", !.todo = children[o.c]]})
      BY <1>0, <1>1, <1>4, <2>2, <3>1, SetTopSwaps DEF EnterNew
    <3> QED
      BY <2>2, <3>2 DEF RunCase
  <2>3. CASE DropChildren(t, o)
    <3>1. [o EXCEPT !.at = IF o.remove THEN "remove" ELSE "stop"] \in Frames
      BY <1>0, <1>1, Changed
    <3>2. Swapped(o, {[o EXCEPT !.at = IF o.remove THEN "remove" ELSE "stop"]})
      BY <1>0, <1>1, <1>4, <2>3, <3>1, SetTopSwaps DEF DropChildren
    <3> QED
      BY <2>3, <3>2 DEF RunCase
  <2>4. CASE Delete(t, o)
    <3>1. [o EXCEPT !.at = "stop"] \in Frames
      BY <1>1, Changed, <1>0
    <3>2. Swapped(o, {[o EXCEPT !.at = "stop"]})
      BY <1>0, <1>1, <1>4, <2>4, <3>1, SetTopSwaps DEF Delete
    <3> QED
      BY <2>4, <3>2 DEF RunCase
  <2>5. CASE Unwind(t, o)
    <3>1. Swapped(o, {})
      BY <1>0, <1>1, <1>4, <2>5, PopSwaps DEF Unwind
    <3> QED
      BY <2>5, <3>1 DEF RunCase
  <2>6. ASSUME NEW k \in o.todo, Descend(t, o, k) PROVE RunCase(t, o)
    <3>1. [o EXCEPT !.todo = @ \ {k}] \in Frames /\ Frame(k, FALSE, o.err) \in Frames
      BY <1>1 DEF Frame, Frames
    <3>2. Swapped(o, {[o EXCEPT !.todo = @ \ {k}], Frame(k, FALSE, o.err)})
      BY <1>0, <1>1, <1>4, <2>6, <3>1, PushSwaps DEF Descend
    <3> QED
      BY <2>6, <3>2 DEF RunCase
  <2> QED
    BY <1>3, <2>1, <2>2, <2>3, <2>4, <2>5, <2>6
<1> QED
  BY <1>0, <1>1, <1>4, <1>5 DEF FramesTrue

LEMMA RunFrames ==
  ASSUME ContextInv, NEW t \in Threads, Run(t)
  PROVE  FramesTrue'
<1>0. ContextType /\ FramesTrue /\ ChildrenPublished
  BY DEF ContextInv
<1>1. PICK o \in Live : o = top(t) /\ o \in Frames /\ RunCase(t, o) /\ Truthful(o)
  BY RunSwaps
<1>2. o.c \in Ctx /\ o.err \in Errors /\ o.todo \in SUBSET Ctx
  BY <1>1 DEF Frames
<1>3. /\ UNCHANGED made
      /\ \A c : Above(c)' = Above(c)
      /\ \A c \in Ctx : err[c] # "nil" => err'[c] # "nil"
  <2>1. kind' = kind
    BY RunEffect
  <2> QED
    BY <2>1, RunEffect, SameTree
<1>4. ASSUME NEW f \in Frames, Truthful(f) PROVE Truthful(f)'
  BY <1>3, <1>4 DEF Truthful, Published, Frames
<1>5. ASSUME NEW N, Swapped(o, N), \A g \in N : Truthful(g)' PROVE FramesTrue'
  <2>1. ASSUME NEW f \in Live' PROVE Truthful(f)'
    <3>1. CASE f \in Live
      BY <1>0, <1>4, <3>1, LiveType DEF FramesTrue
    <3>2. CASE f \in N
      BY <1>5, <3>2
    <3> QED
      BY <1>5, <3>1, <3>2 DEF Swapped
  <2> QED
    BY <2>1 DEF FramesTrue
<1>6. CASE EnterKnown(t, o) /\ Swapped(o, {[o EXCEPT !.at = "stop"]})
  <2>1. ASSUME NEW g \in {[o EXCEPT !.at = "stop"]} PROVE Truthful(g)'
    <3>1. g.c = o.c /\ g.at = "stop" /\ g.todo = o.todo
      BY <1>1 DEF Frames
    <3>2. o.todo = {} /\ err[o.c] # "nil"
      BY <1>1, <1>6 DEF Truthful, EnterKnown
    <3> QED
      BY <1>1, <1>2, <1>3, <3>1, <3>2 DEF Truthful, Published
  <2> QED
    BY <1>5, <1>6, <2>1
<1>7. CASE EnterNew(t, o) /\ Swapped(o, {[o EXCEPT !.at = "children", !.todo = children[o.c]]})
  <2>1. ASSUME NEW g \in {[o EXCEPT !.at = "children", !.todo = children[o.c]]} PROVE Truthful(g)'
    <3>1. g.c = o.c /\ g.at = "children" /\ g.todo = children[o.c]
      BY <1>1 DEF Frames
    <3>2. err'[o.c] # "nil"
      BY <1>0, <1>2, <1>7 DEF EnterNew, ContextType, Errors
    <3>3. \A k \in children[o.c] : Published(k) /\ Above(k) = o.c
      BY <1>0, <1>2 DEF ChildrenPublished
    <3> QED
      BY <1>1, <1>2, <1>3, <3>1, <3>2, <3>3 DEF Truthful, Published
  <2> QED
    BY <1>5, <1>7, <2>1
<1>8. CASE DropChildren(t, o) /\ Swapped(o, {[o EXCEPT !.at = IF o.remove THEN "remove" ELSE "stop"]})
  <2>1. ASSUME NEW g \in {[o EXCEPT !.at = IF o.remove THEN "remove" ELSE "stop"]} PROVE Truthful(g)'
    <3>1. g.c = o.c /\ g.todo = o.todo
      BY <1>1 DEF Frames
    <3>2. o.todo = {} /\ err[o.c] # "nil"
      BY <1>1, <1>8 DEF Truthful, DropChildren
    <3> QED
      BY <1>1, <1>2, <1>3, <3>1, <3>2 DEF Truthful, Published
  <2> QED
    BY <1>5, <1>8, <2>1
<1>9. CASE Delete(t, o) /\ Swapped(o, {[o EXCEPT !.at = "stop"]})
  <2>1. ASSUME NEW g \in {[o EXCEPT !.at = "stop"]} PROVE Truthful(g)'
    <3>1. g.c = o.c /\ g.todo = o.todo
      BY <1>1 DEF Frames
    <3>2. o.todo = {} /\ err[o.c] # "nil"
      BY <1>1, <1>9 DEF Truthful, Delete
    <3> QED
      BY <1>1, <1>2, <1>3, <3>1, <3>2 DEF Truthful, Published
  <2> QED
    BY <1>5, <1>9, <2>1
<1>10. CASE Unwind(t, o) /\ Swapped(o, {})
  BY <1>5, <1>10
<1>11. ASSUME NEW k \in o.todo, Descend(t, o, k),
              Swapped(o, {[o EXCEPT !.todo = @ \ {k}], Frame(k, FALSE, o.err)})
       PROVE  FramesTrue'
  <2>1. ASSUME NEW g, g = [o EXCEPT !.todo = @ \ {k}] PROVE Truthful(g)'
    <3>1. g.c = o.c /\ g.at = "children" /\ g.todo \subseteq o.todo
      BY <1>1, <1>11, <2>1 DEF Frames, Descend
    <3>2. err[o.c] # "nil"
      BY <1>1, <1>11 DEF Truthful, Descend
    <3> QED
      BY <1>1, <1>2, <1>3, <3>1, <3>2 DEF Truthful, Published
  <2>2. ASSUME NEW g, g = Frame(k, FALSE, o.err) PROVE Truthful(g)'
    <3>1. g.c = k /\ g.at = "enter" /\ g.todo = {}
      BY <2>2 DEF Frame
    <3>2. Published(k)
      BY <1>1 DEF Truthful
    <3> QED
      BY <1>3, <3>1, <3>2 DEF Truthful, Published
  <2> DEFINE N == {[o EXCEPT !.todo = @ \ {k}], Frame(k, FALSE, o.err)}
  <2>3. \A g \in N : Truthful(g)'
    BY <2>1, <2>2
  <2>4. Swapped(o, N)
    BY <1>11
  <2> HIDE DEF N
  <2> QED
    BY <1>5, <2>3, <2>4
<1> QED
  BY <1>1, <1>6, <1>7, <1>8, <1>9, <1>10, <1>11 DEF RunCase

LEMMA RunKeepsChildren ==
  ASSUME ContextInv, NEW t \in Threads, Run(t)
  PROVE  Kept'
<1>0. ContextType /\ Kept /\ StartedOnce
  BY DEF ContextInv
<1>1. PICK o \in Live : o = top(t) /\ o \in Frames /\ RunCase(t, o) /\ Truthful(o)
  BY RunSwaps
<1>2. o.c \in Ctx /\ o.err \in Errors /\ o.todo \in SUBSET Ctx
  BY <1>1 DEF Frames
<1>3. kind' = kind /\ made' = made /\ \A c : Above(c)' = Above(c) /\ (IsCancel(c)' <=> IsCancel(c))
  BY RunEffect, SameTree
<1> SUFFICES ASSUME NEW c \in Ctx, IsCancel(c), Published(c), IsCancel(Above(c)), err'[c] = "nil"
             PROVE  IF err'[Above(c)] = "nil" THEN c \in children'[Above(c)]
                    ELSE \E f \in Live' : f.c = c \/ (f.c = Above(c) /\ c \in f.todo)
  BY <1>3 DEF Kept, Published
<1> DEFINE p == Above(c)
<1>4. p \in Ctx /\ err[c] = "nil"
  <2>1. Above(c) \in Nodes
    BY <1>0, Upward DEF ContextType
  <2> QED
    BY <2>1, RunEffect DEF Nodes, IsCancel, Errors
<1>5. IF err[p] = "nil" THEN c \in children[p] ELSE \E f \in Live : f.c = c \/ (f.c = p /\ c \in f.todo)
  BY <1>0, <1>4 DEF Kept
<1> HIDE DEF p
<1>6. p = Above(c)
  BY DEF p
<1>7. CASE err'[p] = "nil"
  <2>1. c \in children[p] /\ err[p] = "nil"
    <3>1. err[p] = "nil"
      BY <1>4, <1>7, RunEffect DEF Errors
    <3> QED
      BY <1>5, <3>1
  <2>2. c # o.c \/ o.at = "enter"
    BY <1>1, <1>4 DEF Truthful
  <2>3. p # o.c \/ o.at = "enter"
    BY <1>1, <2>1 DEF Truthful
  <2>4. c \in children'[p]
    <3>1. CASE DropChildren(t, o)
      BY <1>0, <1>2, <1>4, <2>1, <2>3, <3>1 DEF DropChildren, ContextType
    <3>2. CASE Delete(t, o)
      <4>1. c \notin Key(o.c)
        BY <2>2, <3>2 DEF Key, Delete
      <4> QED
        BY <1>0, <1>2, <1>4, <2>1, <3>2, <4>1 DEF Delete, ContextType
    <3>3. CASE children' = children
      BY <2>1, <3>3
    <3> QED
      BY <1>1, <3>1, <3>2, <3>3 DEF RunCase, EnterKnown, EnterNew, Unwind, Descend
  <2> QED
    BY <1>6, <1>7, <2>4
<1>8. CASE err'[p] # "nil"
  <2>1. CASE err[p] = "nil"
    <3>1. p = o.c /\ c \in children[p]
      BY <1>1, <1>4, <1>5, <1>8, <2>1, RunEffect
    <3>2. EnterNew(t, o) /\ Swapped(o, {[o EXCEPT !.at = "children", !.todo = children[o.c]]})
      BY <1>1, <1>8, <2>1, <3>1 DEF RunCase, EnterKnown, DropChildren, Delete, Unwind, Descend
    <3> DEFINE g == [o EXCEPT !.at = "children", !.todo = children[o.c]]
    <3>3. g.c = p /\ c \in g.todo /\ g \in Live'
      BY <1>1, <3>1, <3>2 DEF Frames, Swapped
    <3> QED
      BY <1>6, <1>8, <3>3
  <2>2. CASE err[p] # "nil"
    <3>1. PICK f \in Live : f.c = c \/ (f.c = p /\ c \in f.todo)
      BY <1>5, <2>2
    <3>2. CASE f # o
      <4>1. f \in Live'
        BY <1>1, <3>2 DEF RunCase, Swapped
      <4> QED
        BY <1>6, <1>8, <3>1, <4>1
    <3>3. CASE f = o
      <4>1. o.c = c => o.at = "enter" /\ ~EnterKnown(t, o) /\ ~EnterNew(t, o)
        BY <1>0, <1>1, <1>2, <1>4 DEF Truthful, EnterKnown, EnterNew, Errors, ContextType
      <4>2. o.c # c
        BY <1>1, <4>1 DEF RunCase, EnterKnown, EnterNew, DropChildren, Delete, Unwind, Descend
      <4>3. o.c = p /\ c \in o.todo /\ o.at = "children"
        BY <1>1, <3>1, <3>3, <4>2 DEF Truthful
      <4>4. PICK k \in o.todo : Descend(t, o, k) /\ Swapped(o, {[o EXCEPT !.todo = @ \ {k}], Frame(k, FALSE, o.err)})
        BY <1>1, <4>3 DEF RunCase, EnterKnown, EnterNew, DropChildren, Delete, Unwind
      <4>5. [o EXCEPT !.todo = @ \ {k}] \in Live' /\ Frame(k, FALSE, o.err) \in Live'
        BY <4>4 DEF Swapped
      <4>6. CASE c = k
        <5>1. Frame(k, FALSE, o.err).c = c
          BY <4>6 DEF Frame
        <5> QED
          BY <1>6, <1>8, <4>5, <5>1
      <4>7. CASE c # k
        <5>1. [o EXCEPT !.todo = @ \ {k}].c = p /\ c \in [o EXCEPT !.todo = @ \ {k}].todo
          BY <1>1, <4>3, <4>7 DEF Frames
        <5> QED
          BY <1>6, <1>8, <4>5, <5>1
      <4> QED
        BY <4>6, <4>7
    <3> QED
      BY <3>2, <3>3
  <2> QED
    BY <2>1, <2>2
<1> QED
  BY <1>7, <1>8

LEMMA RunStopsTimers ==
  ASSUME ContextInv, NEW t \in Threads, Run(t)
  PROVE  TimersStopping'
<1>0. ContextType /\ TimersStopping /\ StartedOnce
  BY DEF ContextInv
<1>1. PICK o \in Live : o = top(t) /\ o \in Frames /\ RunCase(t, o) /\ Truthful(o)
  BY RunSwaps
<1>2. o.c \in Ctx
  BY <1>1 DEF Frames
<1> SUFFICES ASSUME NEW c \in Ctx, timer'[c], err'[c] # "nil"
             PROVE  \E f \in Live' : f.c = c /\ f.at # "enter"
  BY DEF TimersStopping
<1>3. timer[c] /\ timed[c]
  BY <1>0, RunEffect DEF StartedOnce
<1>4. CASE err[c] = "nil"
  <2>1. o.c = c
    BY <1>1, <1>4, RunEffect
  <2>2. EnterNew(t, o) /\ Swapped(o, {[o EXCEPT !.at = "children", !.todo = children[o.c]]})
    BY <1>1, <1>4, <2>1 DEF RunCase, EnterKnown, DropChildren, Delete, Unwind, Descend
  <2> DEFINE g == [o EXCEPT !.at = "children", !.todo = children[o.c]]
  <2>3. g.c = c /\ g.at = "children" /\ g \in Live'
    BY <1>1, <2>1, <2>2 DEF Frames, Swapped
  <2> QED
    BY <2>3
<1>5. CASE err[c] # "nil"
  <2>1. PICK f \in Live : f.c = c /\ f.at # "enter"
    BY <1>0, <1>3, <1>5 DEF TimersStopping
  <2>2. CASE f # o
    <3>1. f \in Live'
      BY <1>1, <2>2 DEF RunCase, Swapped
    <3> QED
      BY <2>1, <3>1
  <2>3. CASE f = o
    <3>1. ~Unwind(t, o)
      BY <1>0, <1>2, <1>3, <2>1, <2>3 DEF Unwind, ContextType
    <3>2. CASE DropChildren(t, o) /\ Swapped(o, {[o EXCEPT !.at = IF o.remove THEN "remove" ELSE "stop"]})
      <4> DEFINE g == [o EXCEPT !.at = IF o.remove THEN "remove" ELSE "stop"]
      <4>1. g.c = c /\ g.at # "enter" /\ g \in Live'
        BY <1>1, <2>1, <2>3, <3>2 DEF Frames, Swapped
      <4> QED
        BY <4>1
    <3>3. CASE Delete(t, o) /\ Swapped(o, {[o EXCEPT !.at = "stop"]})
      <4> DEFINE g == [o EXCEPT !.at = "stop"]
      <4>1. g.c = c /\ g.at # "enter" /\ g \in Live'
        BY <1>1, <2>1, <2>3, <3>3 DEF Frames, Swapped
      <4> QED
        BY <4>1
    <3>4. ASSUME NEW k \in o.todo, Swapped(o, {[o EXCEPT !.todo = @ \ {k}], Frame(k, FALSE, o.err)})
          PROVE  \E g \in Live' : g.c = c /\ g.at # "enter"
      <4> DEFINE g == [o EXCEPT !.todo = @ \ {k}]
      <4>1. g.c = c /\ g.at # "enter" /\ g \in Live'
        BY <1>1, <2>1, <2>3, <3>4 DEF Frames, Swapped
      <4> QED
        BY <4>1
    <3> QED
      BY <1>1, <2>1, <2>3, <3>1, <3>2, <3>3, <3>4 DEF RunCase, EnterKnown, EnterNew
  <2> QED
    BY <2>2, <2>3
<1> QED
  BY <1>4, <1>5

\* The frame under one that will not remove its context is the parent's.
LEMMA Beneath ==
  ASSUME ContextType, Nested, NEW t \in Threads, stack[t] # <<>>, ~top(t).remove, IsCancel(Above(top(t).c))
  PROVE  \E b \in Live : b.c = Above(top(t).c) /\ b.at = "children"
<1> DEFINE n == Len(stack[t])
<1>1. n \in Nat \ {0} /\ top(t) = stack[t][n] /\ n \in 1 .. n
  BY TopLive DEF top
<1>2. n # 1
  BY <1>1 DEF Nested
<1>3. n > 1 /\ n - 1 \in 1 .. n
  <2> HIDE DEF n
  <2> QED
    BY <1>1, <1>2
<1>4. stack[t][n - 1].at = "children" /\ Above(top(t).c) = stack[t][n - 1].c
  BY <1>1, <1>3 DEF Nested
<1>5. stack[t][n - 1] \in Live
  BY <1>3, Member
<1> QED
  BY <1>4, <1>5

LEMMA RunForgets ==
  ASSUME ContextInv, NEW t \in Threads, Run(t)
  PROVE  Forgetting'
<1>0. ContextType /\ Forgetting /\ Nested
  BY DEF ContextInv
<1>1. PICK o \in Live : o = top(t) /\ o \in Frames /\ RunCase(t, o) /\ Truthful(o)
  BY RunSwaps
<1>2. o.c \in Ctx /\ o.todo \in SUBSET Ctx /\ stack[t] # <<>>
  BY <1>0, <1>1, RunCases DEF Frames
<1>3. kind' = kind /\ timed' = timed /\ \A c : Above(c)' = Above(c) /\ (IsCancel(c)' <=> IsCancel(c))
  BY RunEffect, SameTree
<1> DEFINE Good(f, c, p) == \/ f.c = c /\ f.remove /\ f.at \in {"children", "remove"}
                            \/ f.c = p /\ f.at = "children"
<1> SUFFICES ASSUME NEW c \in Ctx, ~timed[c], err'[c] # "nil", IsCancel(Above(c)), c \in children'[Above(c)]
             PROVE  \E f \in Live' : Good(f, c, Above(c))
  BY <1>3 DEF Forgetting
<1>4. Above(c) \in Ctx
  <2>1. Above(c) \in Nodes
    BY <1>0, Upward DEF ContextType
  <2> QED
    BY <2>1 DEF Nodes, IsCancel
<1>5. c \in children[Above(c)]
  BY <1>4, RunEffect
<1>6. CASE err[c] = "nil"
  <2>1. o.c = c
    BY <1>1, <1>6, RunEffect
  <2>2. EnterNew(t, o) /\ Swapped(o, {[o EXCEPT !.at = "children", !.todo = children[o.c]]})
    BY <1>1, <1>6, <2>1 DEF RunCase, EnterKnown, DropChildren, Delete, Unwind, Descend
  <2>3. CASE o.remove
    <3> DEFINE g == [o EXCEPT !.at = "children", !.todo = children[o.c]]
    <3>1. g.c = c /\ g.at = "children" /\ g.remove /\ g \in Live'
      BY <1>1, <2>1, <2>2, <2>3 DEF Frames, Swapped
    <3> QED
      BY <3>1
  <2>4. CASE ~o.remove
    <3>1. PICK b \in Live : b.c = Above(c) /\ b.at = "children"
      BY <1>0, <1>1, <1>2, <2>1, <2>4, Beneath
    <3>2. b \in Live'
      BY <2>2, <3>1 DEF EnterNew, Swapped
    <3> QED
      BY <3>1, <3>2
  <2> QED
    BY <2>3, <2>4
<1>7. CASE err[c] # "nil"
  <2>1. PICK f \in Live : Good(f, c, Above(c))
    BY <1>0, <1>5, <1>7 DEF Forgetting
  <2>2. CASE f # o
    <3>1. f \in Live'
      BY <1>1, <2>2 DEF RunCase, Swapped
    <3> QED
      BY <2>1, <3>1
  <2>3. CASE f = o
    <3>1. ~EnterKnown(t, o) /\ ~EnterNew(t, o) /\ ~Unwind(t, o)
      BY <2>1, <2>3 DEF EnterKnown, EnterNew, Unwind
    <3>2. CASE DropChildren(t, o) /\ Swapped(o, {[o EXCEPT !.at = IF o.remove THEN "remove" ELSE "stop"]})
      <4> DEFINE g == [o EXCEPT !.at = IF o.remove THEN "remove" ELSE "stop"]
      <4>1. o.c # Above(c)
        BY <1>0, <1>2, <3>2 DEF DropChildren, ContextType
      <4>2. o.c = c /\ o.remove
        BY <2>1, <2>3, <4>1
      <4>3. g.c = c /\ g.at = "remove" /\ g.remove /\ g \in Live'
        BY <1>1, <3>2, <4>2 DEF Frames, Swapped
      <4> QED
        BY <4>3
    <3>3. ~Delete(t, o)
      <4>1. ASSUME Delete(t, o) PROVE FALSE
        <5>1. o.at = "remove" /\ o.c = c
          BY <2>1, <2>3, <4>1 DEF Delete
        <5>2. Key(c) = {c}
          BY DEF Key
        <5>3. children' = [children EXCEPT ![Above(c)] = @ \ {c}]
          BY <4>1, <5>1, <5>2 DEF Delete
        <5> QED
          BY <1>0, <1>4, <5>3 DEF ContextType
      <4> QED
        BY <4>1
    <3>4. ASSUME NEW k \in o.todo, Descend(t, o, k),
                 Swapped(o, {[o EXCEPT !.todo = @ \ {k}], Frame(k, FALSE, o.err)})
          PROVE  \E g \in Live' : Good(g, c, Above(c))
      <4> DEFINE g == [o EXCEPT !.todo = @ \ {k}]
      <4>1. g.c = o.c /\ g.at = "children" /\ g.remove = o.remove /\ g \in Live' /\ o.at = "children"
        BY <1>1, <3>4 DEF Frames, Swapped, Descend
      <4> QED
        BY <2>1, <2>3, <4>1
    <3> QED
      BY <1>1, <3>1, <3>2, <3>3, <3>4 DEF RunCase
  <2> QED
    BY <2>2, <2>3
<1> QED
  BY <1>6, <1>7

LEMMA RunKeeps ==
  ASSUME ContextInv, NEW t \in Threads, Run(t)
  PROVE  ContextInv'
<1>1. ContextType'
  BY RunType DEF ContextInv
<1>2. MadeInOrder' /\ ChildrenPublished' /\ StartedOnce'
  BY RunOrders
<1>3. FramesTrue' /\ Nested' /\ Kept' /\ TimersStopping' /\ Forgetting'
  BY RunFrames, RunNested, RunKeepsChildren, RunStopsTimers, RunForgets
<1> QED
  BY <1>1, <1>2, <1>3 DEF ContextInv

-----------------------------------------------------------------------------
(* The constructors, and what calls cancel. *)

LEMMA SameStacks ==
  ASSUME ContextInv, stack' = stack, kind' = kind,
         \A x \in Ctx : Published(x) => Published(x)',
         \A x \in Ctx : err[x] # "nil" => err'[x] # "nil"
  PROVE  Live' = Live /\ FramesTrue' /\ Nested'
<1>0. ContextType /\ FramesTrue /\ Nested
  BY DEF ContextInv
<1>1. Live' = Live
  BY DEF Live
<1>2. \A c : Above(c)' = Above(c) /\ (IsCancel(c)' <=> IsCancel(c))
  BY SameTree
<1>3. ASSUME NEW f \in Live PROVE Truthful(f)'
  <2>1. f \in Frames /\ Truthful(f)
    BY <1>0, LiveType DEF FramesTrue
  <2> QED
    BY <1>2, <2>1 DEF Truthful, Frames
<1>4. Nested'
  BY <1>0, <1>2 DEF Nested
<1> QED
  BY <1>1, <1>3, <1>4 DEF FramesTrue

\* A goroutine starts to cancel c; nothing else that a frame speaks of changes.
LEMMA StartKeeps ==
  ASSUME ContextInv, NEW t \in Threads, t \notin started, NEW c \in Ctx, NEW remove \in BOOLEAN,
         NEW e \in Errors, Start(t, c, remove, e),
         kind' = kind, err' = err, Published(c), \A x \in Ctx : Published(x) => Published(x)',
         remove \/ ~IsCancel(Above(c))
  PROVE  /\ \A f \in Live : f \in Live'
         /\ FramesTrue' /\ Nested' /\ started' = started \cup {t}
         /\ \A u \in Threads : u \notin started' => stack'[u] = <<>>
<1>0. ContextType /\ FramesTrue /\ Nested /\ StartedOnce
  BY DEF ContextInv
<1>1. stack[t] = <<>>
  BY <1>0 DEF StartedOnce
<1>2. \A x : Above(x)' = Above(x)
  BY SameTree
<1> DEFINE g == Frame(c, remove, e)
<1>3. /\ \A f \in Live : f \in Live'
      /\ Live' \subseteq Live \cup {g}
      /\ started' = started \cup {t}
      /\ \A u \in Threads \ {t} : stack'[u] = stack[u]
  BY <1>0, <1>1, StartSwaps
<1>4. ASSUME NEW f \in Live PROVE Truthful(f)'
  <2>1. f \in Frames /\ Truthful(f)
    BY <1>0, LiveType DEF FramesTrue
  <2> QED
    BY <1>2, <2>1 DEF Truthful, Frames
<1>5. ASSUME NEW f, f = g PROVE Truthful(f)'
  <2>1. f.c = c /\ f.at = "enter" /\ f.todo = {}
    BY <1>5 DEF Frame
  <2> QED
    BY <2>1 DEF Truthful
<1> HIDE DEF g
<1>6. FramesTrue'
  BY <1>3, <1>4, <1>5 DEF FramesTrue
<1>7. Nested'
  BY <1>0, <1>1, NestedStarted
<1>8. \A u \in Threads : u \notin started' => stack'[u] = <<>>
  BY <1>0, <1>3 DEF StartedOnce
<1> QED
  BY <1>3, <1>6, <1>7, <1>8

\* What stays true of the tree when no context is made and none becomes done.
LEMMA TreeKeeps ==
  ASSUME ContextInv, UNCHANGED <<kind, timed, err, children>>, watched' \subseteq watched,
         \A f \in Live : f \in Live', \A x \in Ctx : Published(x)' <=> Published(x),
         \A x \in Ctx : timer'[x] => timer[x] \/ err[x] = "nil"
  PROVE  ChildrenPublished' /\ Kept' /\ TimersStopping' /\ Forgetting'
<1>0. ContextType /\ ChildrenPublished /\ Kept /\ TimersStopping /\ Forgetting
  BY DEF ContextInv
<1>1. \A c : Above(c)' = Above(c) /\ (IsCancel(c)' <=> IsCancel(c))
  BY SameTree
<1>2. ChildrenPublished'
  BY <1>0, <1>1 DEF ChildrenPublished, ContextType
<1>3. Kept'
  BY <1>0, <1>1 DEF Kept
<1>4. TimersStopping'
  BY <1>0 DEF TimersStopping
<1>5. Forgetting'
  BY <1>0, <1>1 DEF Forgetting
<1> QED
  BY <1>2, <1>3, <1>4, <1>5

LEMMA Makes ==
  ASSUME ContextInv, NEW c \in Ctx, New(c)
  PROVE  ContextInv'
<1>0. /\ ContextType /\ MadeInOrder /\ ChildrenPublished /\ StartedOnce /\ Kept /\ TimersStopping /\ Forgetting
      /\ ContextType'
  BY TypeMakers DEF ContextInv
<1>1. /\ made[c] = "no" /\ (Parent[c] # Root => made[Parent[c]] = "yes")
      /\ made' = [made EXCEPT ![c] = IF IsCancel(c) THEN "propagate" ELSE "yes"]
      /\ UNCHANGED <<kind, err, children, mu, timer, watched, stack, started, now>>
      /\ \A x \in Ctx : x # c => timed'[x] = timed[x]
      /\ timed'[c] => kind[c] = "deadline"
  BY <1>0 DEF New, ContextType
<1>2. \A x : Above(x)' = Above(x) /\ (IsCancel(x)' <=> IsCancel(x))
  BY <1>1, SameTree
<1>3. \A x \in Ctx : made'[x] = IF x = c THEN IF IsCancel(c) THEN "propagate" ELSE "yes" ELSE made[x]
  BY <1>0, <1>1 DEF ContextType
<1>4. ~Published(c) /\ \A x \in Ctx : Published(x) => Published(x)'
  BY <1>1, <1>3 DEF Published
<1>5. Live' = Live /\ FramesTrue' /\ Nested'
  BY <1>1, <1>4, SameStacks
<1>6. Above(c) # Root => Above(c) \in Ctx /\ made[Above(c)] = "yes"
  <2>1. /\ Above(c) \in Nodes /\ Parent[c] \in Nodes
        /\ Above(c) = IF Parent[c] # Root /\ kind[Parent[c]] = "value" THEN Above(Parent[c]) ELSE Parent[c]
    BY <1>0, Upward DEF ContextType
  <2> QED
    BY <1>0, <1>1, <2>1 DEF MadeInOrder, Nodes
<1>7. MadeInOrder'
  <2>1. ASSUME NEW x \in Ctx, made'[x] # "no", Above(x) # Root PROVE made'[Above(x)] = "yes"
    <3>1. Above(x) \in Ctx /\ made[Above(x)] = "yes"
      <4>1. CASE x = c
        BY <1>6, <2>1, <4>1
      <4>2. CASE x # c
        <5>1. Above(x) \in Nodes
          BY <1>0, Upward DEF ContextType
        <5> QED
          BY <1>0, <1>3, <2>1, <4>2, <5>1 DEF MadeInOrder, Nodes
      <4> QED
        BY <4>1, <4>2
    <3> QED
      BY <1>1, <1>3, <3>1
  <2> QED
    BY <1>0, <1>1, <1>2, <1>3, <2>1 DEF MadeInOrder
<1>8. ChildrenPublished'
  BY <1>0, <1>1, <1>2, <1>4 DEF ChildrenPublished, ContextType
<1>9. StartedOnce'
  BY <1>0, <1>1, <1>3 DEF StartedOnce, Published
<1>10. Kept'
  <2>1. \A x \in Ctx : IsCancel(x) /\ Published(x)' => Published(x)
    BY <1>3 DEF Published
  <2> QED
    BY <1>0, <1>1, <1>2, <1>5, <2>1 DEF Kept
<1>11. TimersStopping'
  BY <1>0, <1>1, <1>5 DEF TimersStopping
<1>12. Forgetting'
  <2>1. \A x \in Ctx : \A p \in Ctx : x \in children[p] => x # c
    BY <1>0, <1>4 DEF ChildrenPublished
  <2>2. \A x \in Ctx : Above(x) \in Nodes
    BY <1>0, Upward DEF ContextType
  <2>3. \A x \in Ctx : IsCancel(Above(x)) /\ x \in children[Above(x)] => timed'[x] = timed[x]
    BY <1>1, <2>1, <2>2 DEF IsCancel, Nodes
  <2> QED
    BY <1>0, <1>1, <1>2, <1>5, <2>3 DEF Forgetting
<1> QED
  BY <1>0, <1>5, <1>7, <1>8, <1>9, <1>10, <1>11, <1>12 DEF ContextInv

LEMMA Propagates ==
  ASSUME ContextInv, NEW c \in Ctx, propagateCancel(c)
  PROVE  ContextInv'
<1>0. /\ ContextType /\ MadeInOrder /\ ChildrenPublished /\ StartedOnce /\ Kept /\ TimersStopping /\ Forgetting
      /\ ContextType'
  BY TypeMakers DEF ContextInv, Construct
<1> DEFINE p == Above(c)
<1>1. /\ made[c] = "propagate"
      /\ made' = [made EXCEPT ![c] = IF timed[c] THEN "arm" ELSE "yes"]
      /\ UNCHANGED <<kind, timed, mu, timer, stack, started, now>>
  BY DEF propagateCancel
<1>2. err[c] = "nil" /\ IsCancel(c) /\ ~Published(c) /\ p \in Nodes /\ (p # Root => made[p] = "yes" /\ p # c)
  <2>1. p \in Nodes
    BY <1>0, Upward DEF ContextType
  <2> QED
    BY <1>0, <1>1, <2>1 DEF MadeInOrder, Published
<1>3. \/ p = Root /\ UNCHANGED <<err, children, watched>>
      \/ p \in Ctx /\ IsCancel(p) /\ err[p] # "nil" /\ err' = [err EXCEPT ![c] = err[p]] /\ UNCHANGED <<children, watched>>
      \/ p \in Ctx /\ IsCancel(p) /\ err[p] = "nil" /\ children' = [children EXCEPT ![p] = @ \cup {c}] /\ UNCHANGED <<err, watched>>
      \/ p \in Ctx /\ ~IsCancel(p) /\ watched' = watched \cup {c} /\ UNCHANGED <<err, children>>
  BY <1>2 DEF propagateCancel, Nodes, IsCancel
<1> HIDE DEF p
<1>4. p = Above(c)
  BY DEF p
<1>5. \A x : Above(x)' = Above(x) /\ (IsCancel(x)' <=> IsCancel(x))
  BY <1>1, SameTree
<1>6. \A x \in Ctx : made'[x] = IF x = c THEN IF timed[c] THEN "arm" ELSE "yes" ELSE made[x]
  BY <1>0, <1>1 DEF ContextType
<1>7. Published(c)' /\ \A x \in Ctx : x # c => (Published(x)' <=> Published(x))
  BY <1>6 DEF Published
<1>8. \A x \in Ctx : x # c => err'[x] = err[x]
  BY <1>0, <1>3 DEF ContextType
<1>9. \A x \in Ctx : err[x] # "nil" => err'[x] # "nil"
  BY <1>2, <1>8
<1>10. Live' = Live /\ FramesTrue' /\ Nested'
  BY <1>1, <1>2, <1>7, <1>9, SameStacks
<1>11. /\ \A x \in Ctx : children[x] \subseteq children'[x]
       /\ \A x \in Ctx : \A y \in children'[x] : y \in children[x] \/ (y = c /\ x = p)
       /\ \A y \in watched' : y \in watched \/ (y = c /\ p # Root /\ ~IsCancel(p))
  <2>1. c # Root /\ Root \notin Ctx
    BY ContextAssumption
  <2>2. CASE UNCHANGED <<children, watched>>
    BY <2>2
  <2>3. CASE p \in Ctx /\ children' = [children EXCEPT ![p] = @ \cup {c}] /\ watched' = watched
    <3>1. \A x \in Ctx : children'[x] = IF x = p THEN children[x] \cup {c} ELSE children[x]
      BY <1>0, <2>3 DEF ContextType
    <3> QED
      BY <2>3, <3>1
  <2>4. CASE p \in Ctx /\ ~IsCancel(p) /\ watched' = watched \cup {c} /\ children' = children
    BY <2>1, <2>4
  <2> QED
    BY <1>3, <2>2, <2>3, <2>4
<1>12. ASSUME NEW x \in Ctx PROVE Above(x) # Root => Above(x) \in Ctx /\ (made[x] # "no" => Above(x) # c)
  <2>1. Above(x) \in Nodes
    BY <1>0, Upward DEF ContextType
  <2> QED
    BY <1>0, <1>1, <2>1 DEF MadeInOrder, Nodes
<1>13. MadeInOrder'
  <2>1. ASSUME NEW x \in Ctx, made'[x] # "no", Above(x) # Root PROVE made'[Above(x)] = "yes"
    <3>1. made[x] # "no" /\ made[Above(x)] = "yes" /\ Above(x) \in Ctx /\ Above(x) # c
      BY <1>0, <1>1, <1>6, <1>12, <2>1 DEF MadeInOrder
    <3> QED
      BY <1>6, <3>1
  <2> QED
    BY <1>0, <1>1, <1>2, <1>5, <1>6, <1>8, <2>1 DEF MadeInOrder
<1>14. ChildrenPublished'
  <2>1. ASSUME NEW x \in Ctx, NEW y \in children'[x] PROVE Published(y)' /\ IsCancel(y) /\ Above(y) = x
    BY <1>0, <1>2, <1>4, <1>7, <1>11 DEF ChildrenPublished, ContextType
  <2>2. ASSUME NEW y \in watched' PROVE Published(y)' /\ Above(y) # Root /\ ~IsCancel(Above(y))
    BY <1>0, <1>4, <1>7, <1>11 DEF ChildrenPublished, ContextType
  <2> QED
    BY <1>5, <2>1, <2>2 DEF ChildrenPublished
<1>15. StartedOnce'
  BY <1>0, <1>1, <1>2, <1>6, <1>7, <1>11 DEF StartedOnce
<1>16. Kept'
  <2> SUFFICES ASSUME NEW x \in Ctx, IsCancel(x), Published(x)', IsCancel(Above(x)), err'[x] = "nil"
               PROVE  IF err'[Above(x)] = "nil" THEN x \in children'[Above(x)]
                      ELSE \E f \in Live' : f.c = x \/ (f.c = Above(x) /\ x \in f.todo)
    BY <1>5 DEF Kept
  <2>1. CASE x = c
    <3>1. p \in Ctx /\ err[p] = "nil" /\ c \in children'[p] /\ err' = err
      BY <1>0, <1>2, <1>3, <1>4, <2>1 DEF IsCancel, ContextType
    <3> QED
      BY <1>4, <2>1, <3>1
  <2>2. CASE x # c
    <3>1. Published(x) /\ err[x] = "nil" /\ Above(x) \in Ctx /\ Above(x) # c
      BY <1>7, <1>8, <1>12, <2>2 DEF IsCancel, Published
    <3>2. err'[Above(x)] = err[Above(x)] /\ children[Above(x)] \subseteq children'[Above(x)]
      BY <1>8, <1>11, <3>1
    <3>3. IF err[Above(x)] = "nil" THEN x \in children[Above(x)]
          ELSE \E f \in Live : f.c = x \/ (f.c = Above(x) /\ x \in f.todo)
      BY <1>0, <3>1 DEF Kept
    <3> QED
      BY <1>10, <3>2, <3>3
  <2> QED
    BY <2>1, <2>2
<1>17. TimersStopping'
  BY <1>0, <1>1, <1>8, <1>10 DEF TimersStopping, StartedOnce
<1>18. Forgetting'
  <2> DEFINE Good(f, x) == \/ f.c = x /\ f.remove /\ f.at \in {"children", "remove"}
                           \/ f.c = Above(x) /\ f.at = "children"
  <2> SUFFICES ASSUME NEW x \in Ctx, ~timed[x], err'[x] # "nil", IsCancel(Above(x)), x \in children'[Above(x)]
               PROVE  \E f \in Live : Good(f, x)
    BY <1>1, <1>5, <1>10 DEF Forgetting
  <2>1. Above(x) \in Ctx
    BY <1>12 DEF IsCancel
  <2>2. x # c
    <3>1. ASSUME x = c PROVE FALSE
      <4>1. c \notin children[p] /\ p \in Ctx
        BY <1>0, <1>2, <1>4, <2>1, <3>1 DEF ChildrenPublished
      <4>2. err'[c] # "nil" /\ c \in children'[p]
        BY <1>4, <3>1
      <4> QED
        BY <1>2, <1>3, <4>1, <4>2
    <3> QED
      BY <3>1
  <2>3. err[x] # "nil" /\ x \in children[Above(x)]
    BY <1>8, <1>11, <2>1, <2>2
  <2> QED
    BY <1>0, <2>3 DEF Forgetting
<1> QED
  BY <1>0, <1>10, <1>13, <1>14, <1>15, <1>16, <1>17, <1>18 DEF ContextInv

\* The steps that only start a goroutine, or let it go.
LEMMA Starts ==
  ASSUME ContextInv, NEW c \in Ctx, Cancel(c) \/ TimerFires(c) \/ Watch(c)
  PROVE  ContextInv'
<1>0. ContextType /\ MadeInOrder /\ ChildrenPublished /\ StartedOnce /\ ContextType'
  BY TypeMakers DEF ContextInv
<1>1. UNCHANGED <<kind, made, timed, err, children>>
  BY DEF Cancel, TimerFires, Watch
<1>2. Published(c)
  BY <1>0 DEF Cancel, TimerFires, Watch, Published, StartedOnce, ChildrenPublished
<1>3. \A x : Published(x)' <=> Published(x)
  BY <1>1 DEF Published
<1>4. \A x : Above(x)' = Above(x) /\ (IsCancel(x)' <=> IsCancel(x))
  BY <1>1, SameTree
<1>5. MadeInOrder'
  BY <1>0, <1>1, <1>4 DEF MadeInOrder
<1>6. watched' \subseteq watched /\ \A x \in Ctx : timer'[x] => timer[x]
  BY <1>0 DEF Cancel, TimerFires, Watch, ContextType
<1>7. ASSUME \A f \in Live : f \in Live' PROVE ChildrenPublished' /\ Kept' /\ TimersStopping' /\ Forgetting'
  BY <1>1, <1>3, <1>6, <1>7, TreeKeeps
<1>8. CASE Cancel(c)
  <2>1. /\ <<"user", c>> \in Threads /\ <<"user", c>> \notin started
        /\ Start(<<"user", c>>, c, TRUE, "Canceled") /\ UNCHANGED <<timer, watched>>
    BY <1>8, ThreadOf DEF Cancel
  <2>2. /\ \A f \in Live : f \in Live'
        /\ FramesTrue' /\ Nested' /\ started' = started \cup {<<"user", c>>}
        /\ \A u \in Threads : u \notin started' => stack'[u] = <<>>
    BY <1>1, <1>2, <1>3, <2>1, StartKeeps DEF Errors
  <2>3. StartedOnce'
    BY <1>0, <1>1, <1>3, <2>1, <2>2 DEF StartedOnce
  <2> QED
    BY <1>0, <1>5, <1>7, <2>2, <2>3 DEF ContextInv
<1>9. CASE TimerFires(c)
  <2>1. /\ <<"timer", c>> \in Threads /\ <<"timer", c>> \notin started
        /\ Start(<<"timer", c>>, c, TRUE, "DeadlineExceeded") /\ UNCHANGED watched
        /\ timer' = [timer EXCEPT ![c] = FALSE] /\ made[c] = "yes"
    BY <1>0, <1>9, ThreadOf DEF TimerFires, StartedOnce
  <2>2. /\ \A f \in Live : f \in Live'
        /\ FramesTrue' /\ Nested' /\ started' = started \cup {<<"timer", c>>}
        /\ \A u \in Threads : u \notin started' => stack'[u] = <<>>
    BY <1>1, <1>2, <1>3, <2>1, StartKeeps DEF Errors
  <2>4. ~timer'[c]
    BY <1>0, <2>1 DEF ContextType
  <2>3. StartedOnce'
    BY <1>0, <1>1, <1>3, <1>6, <2>1, <2>2, <2>4 DEF StartedOnce
  <2> QED
    BY <1>0, <1>5, <1>7, <2>2, <2>3 DEF ContextInv
<1>10. CASE Watch(c)
  <2>1. c \in watched /\ watched' = watched \ {c} /\ UNCHANGED timer
    BY <1>10 DEF Watch
  <2>2. /\ <<"watch", c>> \in Threads /\ <<"watch", c>> \notin started
        /\ ~IsCancel(Above(c)) /\ Above(c) \in Ctx
    <3>1. Above(c) \in Nodes
      BY <1>0, Upward DEF ContextType
    <3> QED
      BY <1>0, <2>1, <3>1, ThreadOf DEF StartedOnce, ChildrenPublished, Nodes
  <2>3. CASE err[Above(c)] # "nil" /\ Start(<<"watch", c>>, c, FALSE, err[Above(c)])
    <3>1. err[Above(c)] \in Errors
      BY <1>0, <2>2, <2>3 DEF ContextType
    <3>2. /\ \A f \in Live : f \in Live'
          /\ FramesTrue' /\ Nested' /\ started' = started \cup {<<"watch", c>>}
          /\ \A u \in Threads : u \notin started' => stack'[u] = <<>>
      BY <1>1, <1>2, <1>3, <2>2, <2>3, <3>1, StartKeeps
    <3>3. StartedOnce'
      BY <1>0, <1>1, <1>2, <1>3, <2>1, <3>2 DEF StartedOnce
    <3> QED
      BY <1>0, <1>5, <1>7, <3>2, <3>3 DEF ContextInv
  <2>4. CASE UNCHANGED <<stack, started>>
    <3>1. Live' = Live /\ FramesTrue' /\ Nested'
      BY <1>1, <1>3, <2>4, SameStacks
    <3>2. StartedOnce'
      BY <1>0, <1>1, <1>3, <2>1, <2>4 DEF StartedOnce
    <3> QED
      BY <1>0, <1>5, <1>7, <3>1, <3>2 DEF ContextInv
  <2> QED
    BY <1>10, <2>3, <2>4 DEF Watch
<1> QED
  BY <1>8, <1>9, <1>10

LEMMA Arms ==
  ASSUME ContextInv, NEW c \in Ctx, Arm(c)
  PROVE  ContextInv'
<1>0. ContextType /\ MadeInOrder /\ ChildrenPublished /\ StartedOnce /\ ContextType'
  BY TypeMakers DEF ContextInv, Construct
<1>1. /\ UNCHANGED <<kind, timed, err, children, watched>>
      /\ made[c] = "arm" /\ made' = [made EXCEPT ![c] = "yes"]
  BY DEF Arm
<1>2. \A x \in Ctx : made'[x] = IF x = c THEN "yes" ELSE made[x]
  BY <1>0, <1>1 DEF ContextType
<1>3. Published(c) /\ \A x \in Ctx : Published(x)' <=> Published(x)
  BY <1>1, <1>2 DEF Published
<1>4. \A x : Above(x)' = Above(x) /\ (IsCancel(x)' <=> IsCancel(x))
  BY <1>1, SameTree
<1>5. MadeInOrder'
  <2>1. \A x \in Ctx : Above(x) \in Nodes
    BY <1>0, Upward DEF ContextType
  <2> QED
    BY <1>0, <1>1, <1>2, <1>4, <2>1 DEF MadeInOrder, Nodes
<1>6. ASSUME \A f \in Live : f \in Live', \A x \in Ctx : timer'[x] => timer[x] \/ err[x] = "nil"
      PROVE  ChildrenPublished' /\ Kept' /\ TimersStopping' /\ Forgetting'
  BY <1>1, <1>3, <1>6, TreeKeeps
<1>7. <<"new", c>> \in Threads /\ <<"new", c>> \notin started /\ <<"timer", c>> \notin started /\ timed[c]
  BY <1>0, <1>1, ThreadOf DEF StartedOnce, MadeInOrder
<1>8. CASE Start(<<"new", c>>, c, TRUE, "DeadlineExceeded") /\ UNCHANGED timer
  <2>1. /\ \A f \in Live : f \in Live'
        /\ FramesTrue' /\ Nested' /\ started' = started \cup {<<"new", c>>}
        /\ \A u \in Threads : u \notin started' => stack'[u] = <<>>
    BY <1>1, <1>3, <1>7, <1>8, StartKeeps DEF Errors
  <2>2. StartedOnce'
    BY <1>0, <1>1, <1>2, <1>3, <1>8, <2>1 DEF StartedOnce
  <2> QED
    BY <1>0, <1>5, <1>6, <1>8, <2>1, <2>2 DEF ContextInv
<1>9. CASE timer' = [timer EXCEPT ![c] = err[c] = "nil"] /\ UNCHANGED <<stack, started>>
  <2>1. \A x \in Ctx : timer'[x] = IF x = c THEN err[c] = "nil" ELSE timer[x]
    BY <1>0, <1>9 DEF ContextType
  <2>2. Live' = Live /\ FramesTrue' /\ Nested'
    BY <1>1, <1>3, <1>9, SameStacks
  <2>3. StartedOnce'
    BY <1>0, <1>1, <1>2, <1>3, <1>7, <1>9, <2>1 DEF StartedOnce
  <2>4. \A x \in Ctx : timer'[x] => timer[x] \/ err[x] = "nil"
    BY <2>1
  <2> QED
    BY <1>0, <1>5, <1>6, <2>2, <2>3, <2>4 DEF ContextInv
<1> QED
  BY <1>8, <1>9 DEF Arm

LEMMA ForeignEnds ==
  ASSUME ContextInv, NEW c \in Ctx, ForeignDone(c)
  PROVE  ContextInv'
<1>0. /\ ContextType /\ MadeInOrder /\ ChildrenPublished /\ StartedOnce /\ Kept /\ TimersStopping /\ Forgetting
      /\ ContextType'
  BY TypeMakers DEF ContextInv
<1>1. /\ UNCHANGED <<kind, made, timed, children, mu, timer, watched, stack, started, now>>
      /\ kind[c] = "foreign" /\ made[c] = "yes" /\ err[c] = "nil" /\ err' = [err EXCEPT ![c] = "Canceled"]
  BY DEF ForeignDone
<1>2. \A x \in Ctx : err'[x] = IF x = c THEN "Canceled" ELSE err[x]
  BY <1>0, <1>1 DEF ContextType
<1>3. \A x : Above(x)' = Above(x) /\ (IsCancel(x)' <=> IsCancel(x)) /\ (Published(x)' <=> Published(x))
  BY <1>1, SameTree DEF Published
<1>4. ~IsCancel(c) /\ ~timed[c]
  BY <1>0, <1>1 DEF IsCancel, MadeInOrder
<1>5. Live' = Live /\ FramesTrue' /\ Nested'
  BY <1>1, <1>2, <1>3, SameStacks
<1>6. MadeInOrder'
  BY <1>0, <1>1, <1>2, <1>3 DEF MadeInOrder
<1>7. ChildrenPublished' /\ StartedOnce'
  BY <1>0, <1>1, <1>3 DEF ChildrenPublished, StartedOnce
<1>8. Kept'
  <2>1. \A x \in Ctx : IsCancel(Above(x)) => Above(x) \in Ctx /\ Above(x) # c
    <3>1. \A x \in Ctx : Above(x) \in Nodes
      BY <1>0, Upward DEF ContextType
    <3> QED
      BY <1>4, <3>1 DEF Nodes, IsCancel
  <2> QED
    BY <1>0, <1>1, <1>2, <1>3, <1>4, <1>5, <2>1 DEF Kept
<1>9. TimersStopping'
  BY <1>0, <1>1, <1>2, <1>4, <1>5 DEF TimersStopping, StartedOnce
<1>10. Forgetting'
  <2>1. \A x \in Ctx : IsCancel(Above(x)) /\ x \in children[Above(x)] => x # c
    <3>1. \A x \in Ctx : Above(x) \in Nodes
      BY <1>0, Upward DEF ContextType
    <3> QED
      BY <1>0, <1>4, <3>1 DEF Nodes, IsCancel, ChildrenPublished
  <2> QED
    BY <1>0, <1>1, <1>2, <1>3, <1>5, <2>1 DEF Forgetting
<1> QED
  BY <1>0, <1>5, <1>6, <1>7, <1>8, <1>9, <1>10 DEF ContextInv

LEMMA ContextStep ==
  ASSUME ContextInv, [ContextNext]_contextVars
  PROVE  ContextInv'
<1>1. CASE UNCHANGED <<kind, made, timed, err, children, timer, watched, stack, started>>
  <2>1. /\ ContextType' /\ (Live' = Live)
        /\ \A x : Above(x)' = Above(x) /\ (IsCancel(x)' <=> IsCancel(x)) /\ (Published(x)' <=> Published(x))
    BY <1>1, SameTree DEF ContextInv, ContextType, Live, Published
  <2>2. FramesTrue' /\ Nested'
    BY <1>1, <2>1, SameStacks
  <2>3. ChildrenPublished' /\ Kept' /\ TimersStopping' /\ Forgetting'
    BY <1>1, <2>1, TreeKeeps
  <2>4. MadeInOrder' /\ StartedOnce'
    BY <1>1, <2>1 DEF ContextInv, MadeInOrder, StartedOnce
  <2> QED
    BY <2>1, <2>2, <2>3, <2>4 DEF ContextInv
<1>2. ASSUME NEW c \in Ctx, New(c) \/ Construct(c) \/ Cancel(c) \/ TimerFires(c) \/ Watch(c) \/ ForeignDone(c)
      PROVE  ContextInv'
  BY <1>2, Makes, Propagates, Arms, Starts, ForeignEnds DEF Construct
<1>3. ASSUME NEW t \in Threads, Run(t) PROVE ContextInv'
  BY <1>3, RunKeeps
<1> QED
  BY <1>1, <1>2, <1>3 DEF ContextNext, contextVars, Tick, Over

LEMMA ContextStarts ==
  ASSUME ContextInit
  PROVE  ContextInv
<1>1. Live = {}
  BY Member DEF ContextInit
<1>2. ContextType
  BY DEF ContextInit, ContextType
<1>3. \A c \in Ctx : made[c] = "no" /\ err[c] = "nil" /\ ~timer[c] /\ ~timed[c] /\ children[c] = {} /\ ~Published(c)
  BY DEF ContextInit, Published
<1>4. MadeInOrder /\ ChildrenPublished /\ Kept /\ TimersStopping /\ Forgetting /\ FramesTrue
  BY <1>1, <1>3 DEF ContextInit, MadeInOrder, ChildrenPublished, Kept, TimersStopping, Forgetting, FramesTrue
<1>5. StartedOnce /\ Nested
  BY <1>3 DEF ContextInit, StartedOnce, Nested
<1> QED
  BY <1>2, <1>4, <1>5 DEF ContextInv

LEMMA ContextComplete ==
  ASSUME ContextInv
  PROVE  ChildrenComplete
<1>0. ContextType /\ Kept /\ TimersStopping /\ Forgetting
  BY DEF ContextInv
<1>1. ChildrenKept
  <2> SUFFICES ASSUME NEW c \in Ctx, IsCancel(c), made[c] \in {"arm", "yes"}, IsCancel(Above(c)), err[c] = "nil",
                      err[Above(c)] # "nil"
               PROVE  \E t \in Threads : \E i \in 1 .. Len(stack[t]) :
                          (stack[t][i].c = Above(c) /\ c \in stack[t][i].todo) \/ stack[t][i].c = c
    BY <1>0 DEF ChildrenKept, Kept, Published
  <2>1. PICK f \in Live : f.c = c \/ (f.c = Above(c) /\ c \in f.todo)
    BY <1>0 DEF Kept, Published
  <2> QED
    BY <2>1, Member
<1>2. ASSUME Quiet PROVE Live = {}
  BY <1>2, Member DEF Quiet
<1>3. TimersStopped
  BY <1>0, <1>2 DEF TimersStopped, TimersStopping
<1>4. CancelForgotten
  BY <1>0, <1>2 DEF CancelForgotten, Forgotten, Forgetting
<1> QED
  BY <1>1, <1>3, <1>4 DEF ChildrenComplete

(* A context keeps exactly the children it still has to cancel, from           *)
(* propagateCancel on, and when cancel has returned the timer of a done        *)
(* context is stopped and the context forgotten by its parent.                 *)
THEOREM ChildrenCompleteHolds == ContextSpec => []ChildrenComplete
<1>1. ContextInit => ContextInv
  BY ContextStarts
<1>2. ContextInv /\ [ContextNext]_contextVars => ContextInv'
  BY ContextStep
<1>3. ContextInv => ChildrenComplete
  BY ContextComplete
<1> QED
  BY <1>1, <1>2, <1>3, PTL DEF ContextSpec
=============================================================================
