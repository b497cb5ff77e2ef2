----------------------------- MODULE Grpc_proofs -----------------------------
(***************************************************************************)
(* What is proved of both ends of gRPC: for any number of calls and        *)
(* transports, that a call's answer is its own; for any streams, limits    *)
(* and windows, that the server stays within the windows and that nothing  *)
(* follows END_STREAM.                                                     *)
(***************************************************************************)
EXTENDS GrpcClient, GrpcTransport, FiniteSetTheorems, TLAPS

-----------------------------------------------------------------------------
(* The client. *)

-----------------------------------------------------------------------------
(* Types. *)

TransportState ==
    [state : {"none", "reachable", "unreachable", "closing"}, open : BOOLEAN, down : BOOLEAN,
     writable : BOOLEAN, nextID : Nat \ {0}, active : SUBSET Calls,
     maxStreams : Limits \cup {unlimited}, control : Nat]

\* A call at work on a transport.
AtWork == {"writable", "headers", "register", "write", "header", "recv"}

CallState ==
    [pc : {"idle", "wait", "ready", "done"} \cup AtWork, ts : Nat, t : 0 .. MaxTransports,
     id : Nat,
     lastErr : {None, "connection", "closing", "context", "limit", "status", "streamError"},
     expired : BOOLEAN, state : {"active", "writeDone", "done"}, headerDone : BOOLEAN,
     buf : Seq(Calls \cup Marks), got : SUBSET Calls]

TypeInv ==
    /\ cc \in [seq : Nat, cur : Transports, closing : BOOLEAN]
    /\ mon \in [pc : {"watch", "reset", "close", "dial", "install", "ended"}, ts : Nat,
                close : BOOLEAN, made : Transports, fails : Nat]
    /\ tr \in [Transports -> TransportState]
    /\ call \in [Calls -> CallState]
    /\ \A c \in Calls : call[c].pc \in AtWork => call[c].t # 0
    /\ wire \in [Transports -> [Ids -> Calls \cup {None}]]
    /\ srv \in [Transports -> [Ids -> {"idle", "open", "headers", "data", "status", "reset"}]]

-----------------------------------------------------------------------------
(***************************************************************************)
(* A call that holds the right to write is the only one at its transport.  *)
(* The header frame it wrote is the one with the next number; a call that  *)
(* has a number wrote the frame with this number.  The numbers taken have  *)
(* been written by different calls that have not come back to the          *)
(* transport: a call leaves it for a later one only.  So a number is left  *)
(* for each call, and what arrives for a number is for the call it is of.  *)
(***************************************************************************)
Holds(c) == call[c].pc \in {"headers", "register"}

Exclusive ==
    \A c \in Calls : Holds(c) =>
        /\ ~T(c).writable
        /\ \A d \in Calls : Holds(d) /\ call[d].t = call[c].t => d = c

Claimed ==
    \A c \in Calls : call[c].pc = "register" =>
        T(c).nextID \in Ids /\ wire[call[c].t][T(c).nextID] = c

Numbered ==
    \A c \in Calls : call[c].id # 0 =>
        /\ call[c].t # 0 /\ call[c].id < T(c).nextID
        /\ wire[call[c].t][call[c].id] = c

Before(i) == 1 .. tr[i].nextID - 1

TakenUp ==
    \A i \in Transports : \A n \in Before(i) :
        /\ n \in Ids /\ wire[i][n] \in Calls
        /\ \A m \in Before(i) : wire[i][m] = wire[i][n] => m = n
        /\ \A c \in Calls : wire[i][n] = c =>
              i <= call[c].t /\ (call[c].t = i => call[c].pc \notin {"writable", "headers", "register"})

Later ==
    /\ cc.cur <= mon.made /\ (mon.pc = "install" => cc.cur < mon.made)
    /\ \A i \in Transports : i > mon.made => tr[i].nextID = 1
    /\ \A c \in Calls : call[c].t <= cc.cur /\ (call[c].t = cc.cur => call[c].ts >= cc.seq)

OwnItems(c, k) ==
    /\ k.got \subseteq {c}
    /\ \A n \in DOMAIN k.buf : k.buf[n] \in Calls => k.buf[n] = c

Answered == \A c \in Calls : OwnItems(c, call[c])

ClientInv == TypeInv /\ Exclusive /\ Claimed /\ Numbered /\ TakenUp /\ Later /\ Answered

-----------------------------------------------------------------------------
(* Steps that give no number and lead to no transport. *)

InHeaders == {"headers", "register"}

\* The call c was k and is e, and has no more claim to a number than before.
Near(c, e, k) ==
    /\ e \in CallState /\ e.t = k.t /\ e.id = k.id /\ e.ts = k.ts
    /\ e.pc \in AtWork => k.pc \in AtWork
    /\ e.pc \in {"writable", "headers", "register"} => k.pc \in {"writable", "headers", "register"}
    /\ e.pc = "register" => k.pc = "register"
    /\ OwnItems(c, k) => OwnItems(c, e)

\* It has also not got the right to write.
Alike(c, e, k) ==
    Near(c, e, k) /\ (e.pc \in {"writable", "headers", "register"} => e.pc = k.pc)

Released(i) == \E c \in Calls : Holds(c) /\ call[c].t = i /\ call'[c].pc \notin {"headers", "register"}


CallsKept ==
    /\ call' \in [Calls -> CallState]
    /\ \A c \in Calls : Alike(c, call'[c], call[c])

\* No transport has a new number; one that may be written to again is new or was let go of.
TransportsKept ==
    /\ tr' \in [Transports -> TransportState]
    /\ \A i \in Transports : tr'[i].nextID = tr[i].nextID
    /\ \A i \in Transports : tr'[i].writable => tr[i].writable \/ i > mon.made \/ Released(i)

(* A call stays at an earlier transport, or keeps a later stamp. *)
LEMMA LaterCall ==
  ASSUME TypeInv, cc' \in [seq : Nat, cur : Transports, closing : BOOLEAN], NEW c \in Calls,
         call'[c].t = call[c].t /\ call'[c].ts = call[c].ts,
         call[c].t <= cc.cur /\ (call[c].t = cc.cur => call[c].ts >= cc.seq),
         cc.cur <= cc'.cur, cc'.cur = cc.cur => cc'.seq <= cc.seq
  PROVE  call'[c].t <= cc'.cur /\ (call'[c].t = cc'.cur => call'[c].ts >= cc'.seq)
<1> PICK u, s, p, q, p2, q2 : u = call[c].t /\ s = call[c].ts /\ p = cc.cur /\ q = cc.seq /\ p2 = cc'.cur /\ q2 = cc'.seq
  OBVIOUS
<1>3. u \in Nat /\ s \in Nat
  BY GrpcClientAssumption DEF TypeInv, CallState
<1>4. p \in Nat /\ q \in Nat /\ p2 \in Nat /\ q2 \in Nat
  BY GrpcClientAssumption DEF TypeInv, Transports
<1>5. (u <= p /\ (u = p => s >= q)) /\ p <= p2 /\ (p2 = p => q2 <= q)
  OBVIOUS
<1>6. u <= p2 /\ (u = p2 => s >= q2)
  BY <1>3, <1>4, <1>5
<1> QED BY <1>6

(* Such a step preserves the invariant, also if the transport in use changes for a later one. *)
LEMMA KeptExclusive ==
  ASSUME ClientInv, CallsKept, TransportsKept
  PROVE  Exclusive'
<1> USE DEF CallsKept, TransportsKept
<1>2. ASSUME NEW c \in Calls, Holds(c)' PROVE Holds(c) /\ call'[c].t = call[c].t /\ call[c].t \in Transports
  BY <1>2 DEF ClientInv, TypeInv, Holds, Alike, Near, AtWork, CallState, Transports
<1>3. Exclusive'
  <2> SUFFICES ASSUME NEW c \in Calls, Holds(c)'
               PROVE  ~tr'[call'[c].t].writable /\ \A d \in Calls : Holds(d)' /\ call'[d].t = call'[c].t => d = c
    BY Zenon DEF Exclusive, T
  <2>1. Holds(c) /\ call'[c].t = call[c].t /\ call[c].t \in Transports
    BY <1>2
  <2>2. ~tr[call[c].t].writable /\ \A d \in Calls : Holds(d) /\ call[d].t = call[c].t => d = c
    BY <2>1, Zenon DEF ClientInv, Exclusive, T
  <2>3. call[c].t <= mon.made
    BY DEF ClientInv, TypeInv, CallState, Transports, Later
  <2>4. ~ (call[c].t > mon.made)
    BY <2>3, <2>1, GrpcClientAssumption DEF ClientInv, TypeInv, Transports
  <2>5. ~Released(call[c].t)
    <3> SUFFICES ASSUME NEW d \in Calls, Holds(d), call[d].t = call[c].t, call'[d].pc \notin {"headers", "register"}
                 PROVE  FALSE
      BY Zenon DEF Released
    <3> QED BY <2>2 DEF Holds
  <2> QED BY <2>1, <2>2, <2>4, <2>5, <1>2, Zenon
<1> QED BY <1>3

\* All of the invariant but Exclusive is preserved by a step that is near in every call.
LEMMA KeptBut ==
  ASSUME ClientInv, wire' = wire,
         srv' \in [Transports -> [Ids -> {"idle", "open", "headers", "data", "status", "reset"}]],
         cc' \in [seq : Nat, cur : Transports, closing : BOOLEAN],
         mon' \in [pc : {"watch", "reset", "close", "dial", "install", "ended"}, ts : Nat,
                   close : BOOLEAN, made : Transports, fails : Nat],
         Exclusive', call' \in [Calls -> CallState], \A c \in Calls : Near(c, call'[c], call[c]),
         tr' \in [Transports -> TransportState], \A i \in Transports : tr'[i].nextID = tr[i].nextID,
         cc'.cur <= mon'.made, mon'.pc = "install" => cc'.cur < mon'.made,
         mon.made <= mon'.made, cc.cur <= cc'.cur, cc'.cur = cc.cur => cc'.seq <= cc.seq
  PROVE  ClientInv'
<1>1. TypeInv'
  BY Zenon DEF ClientInv, TypeInv, Near
<1>4. Claimed'
  <2> SUFFICES ASSUME NEW c \in Calls, call'[c].pc = "register"
               PROVE  tr'[call'[c].t].nextID \in Ids /\ wire'[call'[c].t][tr'[call'[c].t].nextID] = c
    BY Zenon DEF Claimed, T, Ids
  <2>1. call[c].pc = "register" /\ call'[c].t = call[c].t /\ call[c].t \in Transports
    BY DEF ClientInv, TypeInv, Near, AtWork, CallState, Transports
  <2>2. tr[call[c].t].nextID \in Ids /\ wire[call[c].t][tr[call[c].t].nextID] = c
    BY <2>1, Zenon DEF ClientInv, Claimed, T
  <2>3. tr'[call[c].t].nextID = tr[call[c].t].nextID
    BY <2>1
  <2> QED BY <2>1, <2>2, <2>3
<1>5. Numbered'
  <2> SUFFICES ASSUME NEW c \in Calls, call'[c].id # 0
               PROVE  call'[c].t # 0 /\ call'[c].id < tr'[call'[c].t].nextID /\ wire'[call'[c].t][call'[c].id] = c
    BY Zenon DEF Numbered, T
  <2>1. call'[c].t = call[c].t /\ call'[c].id = call[c].id
    BY DEF Near
  <2>2. call[c].t # 0 /\ call[c].id < tr[call[c].t].nextID /\ wire[call[c].t][call[c].id] = c
    BY <2>1, Zenon DEF ClientInv, Numbered, T
  <2>3. call[c].t \in Transports
    BY <2>2 DEF ClientInv, TypeInv, CallState, Transports
  <2>4. tr'[call[c].t].nextID = tr[call[c].t].nextID
    BY <2>3
  <2> QED BY <2>1, <2>2, <2>4
<1>6. TakenUp'
  <2> SUFFICES ASSUME NEW i \in Transports, NEW n \in 1 .. tr'[i].nextID - 1
               PROVE  /\ n \in Ids /\ wire'[i][n] \in Calls
                      /\ \A m \in 1 .. tr'[i].nextID - 1 : wire'[i][m] = wire'[i][n] => m = n
                      /\ \A c \in Calls : wire'[i][n] = c =>
                            i <= call'[c].t
                            /\ (call'[c].t = i => call'[c].pc \notin {"writable", "headers", "register"})
    BY Zenon DEF TakenUp, Before, Ids
  <2>1. Before(i) = 1 .. tr'[i].nextID - 1
    BY DEF Before
  <2>2. /\ n \in Ids /\ wire[i][n] \in Calls
        /\ \A m \in Before(i) : wire[i][m] = wire[i][n] => m = n
        /\ \A c \in Calls : wire[i][n] = c =>
              i <= call[c].t /\ (call[c].t = i => call[c].pc \notin {"writable", "headers", "register"})
    BY <2>1, Zenon DEF ClientInv, TakenUp
  <2>3. ASSUME NEW c \in Calls, wire'[i][n] = c
        PROVE  i <= call'[c].t /\ (call'[c].t = i => call'[c].pc \notin {"writable", "headers", "register"})
    <3>1. i <= call[c].t /\ (call[c].t = i => call[c].pc \notin {"writable", "headers", "register"})
      BY <2>2, <2>3
    <3>2. /\ call'[c].t = call[c].t
          /\ call'[c].pc \in {"writable", "headers", "register"} => call[c].pc \in {"writable", "headers", "register"}
      BY DEF Near
    <3> QED BY <3>1, <3>2
  <2> QED BY <2>1, <2>2, <2>3
<1>7. Later'
  <2>1. ASSUME NEW i \in Transports, i > mon'.made PROVE tr'[i].nextID = 1
    <3>1. i > mon.made
      BY <2>1 DEF ClientInv, TypeInv, Transports
    <3> QED BY <3>1 DEF ClientInv, Later
  <2>2. ASSUME NEW c \in Calls PROVE call'[c].t <= cc'.cur /\ (call'[c].t = cc'.cur => call'[c].ts >= cc'.seq)
    <3>1. call[c].t <= cc.cur /\ (call[c].t = cc.cur => call[c].ts >= cc.seq)
      BY DEF ClientInv, Later
    <3>2. call'[c].t = call[c].t /\ call'[c].ts = call[c].ts
      BY DEF Near
    <3> QED BY <3>1, <3>2, LaterCall DEF ClientInv
  <2> QED BY <2>1, <2>2, Zenon DEF Later
<1>8. Answered'
  BY DEF ClientInv, Answered, Near
<1> QED BY <1>1, <1>4, <1>5, <1>6, <1>7, <1>8, Zenon DEF ClientInv

\* The two together.
LEMMA Kept ==
  ASSUME ClientInv, wire' = wire,
         srv' \in [Transports -> [Ids -> {"idle", "open", "headers", "data", "status", "reset"}]],
         cc' \in [seq : Nat, cur : Transports, closing : BOOLEAN],
         mon' \in [pc : {"watch", "reset", "close", "dial", "install", "ended"}, ts : Nat,
                   close : BOOLEAN, made : Transports, fails : Nat],
         CallsKept, TransportsKept,
         cc'.cur <= mon'.made, mon'.pc = "install" => cc'.cur < mon'.made,
         mon.made <= mon'.made, cc.cur <= cc'.cur, cc'.cur = cc.cur => cc'.seq <= cc.seq
  PROVE  ClientInv'
<1>1. Exclusive'
  BY KeptExclusive
<1>2. call' \in [Calls -> CallState] /\ \A c \in Calls : Near(c, call'[c], call[c])
  BY Zenon DEF CallsKept, Alike
<1>3. tr' \in [Transports -> TransportState] /\ \A i \in Transports : tr'[i].nextID = tr[i].nextID
  BY Zenon DEF TransportsKept
<1> QED BY <1>1, <1>2, <1>3, KeptBut

(* The same, for the steps that are not of the transport monitor. *)
LEMMA KeptStep ==
  ASSUME ClientInv, CallsKept, TransportsKept, UNCHANGED <<cc, mon, wire>>,
         srv' \in [Transports -> [Ids -> {"idle", "open", "headers", "data", "status", "reset"}]]
  PROVE  ClientInv'
<1>1. cc \in [seq : Nat, cur : Transports, closing : BOOLEAN] /\ cc.seq \in Nat /\ cc.cur \in Nat
  BY DEF ClientInv, TypeInv, Transports
<1>2. mon \in [pc : {"watch", "reset", "close", "dial", "install", "ended"}, ts : Nat,
               close : BOOLEAN, made : Transports, fails : Nat] /\ mon.made \in Nat
  BY DEF ClientInv, TypeInv, Transports
<1>3. cc.cur <= mon.made /\ (mon.pc = "install" => cc.cur < mon.made)
  BY DEF ClientInv, Later
<1>4. mon.made <= mon.made /\ cc.cur <= cc.cur /\ cc.seq <= cc.seq
  BY <1>1, <1>2
<1>5. cc' = cc /\ mon' = mon /\ wire' = wire
  OBVIOUS
<1> QED BY <1>1, <1>2, <1>3, <1>4, <1>5, Kept

\* Nothing happens to the calls.
LEMMA SameCalls == ASSUME ClientInv, call' = call PROVE CallsKept
  BY DEF ClientInv, TypeInv, CallsKept, Alike, Near

\* Nothing happens to the transports.
LEMMA SameTransports == ASSUME ClientInv, tr' = tr PROVE TransportsKept
  BY DEF ClientInv, TypeInv, TransportsKept

\* Nothing happens to the server.
LEMMA SameServer ==
  ASSUME ClientInv, srv' = srv
  PROVE  srv' \in [Transports -> [Ids -> {"idle", "open", "headers", "data", "status", "reset"}]]
  BY DEF ClientInv, TypeInv

\* One call changes, and loses its claim or none of it.
LEMMA OneCall ==
  ASSUME ClientInv, NEW c \in Calls, NEW k, Alike(c, k, call[c]), Goes(c, k)
  PROVE  CallsKept
<1>1. call' = [call EXCEPT ![c] = k] /\ call \in [Calls -> CallState] /\ k \in CallState
  BY DEF ClientInv, TypeInv, Alike, Near, Goes
<1>2. call' \in [Calls -> CallState] /\ call'[c] = k /\ \A d \in Calls : d # c => call'[d] = call[d]
  BY <1>1
<1>3. ASSUME NEW d \in Calls PROVE Alike(d, call[d], call[d])
  BY <1>1 DEF Alike, Near
<1> QED BY <1>2, <1>3 DEF CallsKept

\* One transport changes, and neither its number nor, but for a release, its lock.
LEMMA OneTransport ==
  ASSUME ClientInv, NEW i \in Transports, NEW k \in TransportState, tr' = [tr EXCEPT ![i] = k],
         k.nextID = tr[i].nextID, k.writable => tr[i].writable \/ Released(i)
  PROVE  TransportsKept
<1>1. tr \in [Transports -> TransportState]
  BY DEF ClientInv, TypeInv
<1>2. tr' \in [Transports -> TransportState] /\ tr'[i] = k /\ \A j \in Transports : j # i => tr'[j] = tr[j]
  BY <1>1
<1> QED BY <1>2 DEF TransportsKept

(* What the steps write into a transport. *)
LEMMA TransportEdits ==
  ASSUME NEW k \in TransportState
  PROVE  /\ notifyError(k) \in TransportState
         /\ notifyError(k).nextID = k.nextID /\ notifyError(k).writable = k.writable
         /\ [k EXCEPT !.open = FALSE] \in TransportState
         /\ [k EXCEPT !.open = FALSE].nextID = k.nextID /\ [k EXCEPT !.open = FALSE].writable = k.writable
  BY DEF TransportState, notifyError

(* What the reader and the end of a transport write into a call. *)
LEMMA HeaderSeen ==
  ASSUME NEW c \in Calls, NEW k \in CallState
  PROVE  Alike(c, [k EXCEPT !.headerDone = TRUE], k)
<1> DEFINE e == [k EXCEPT !.headerDone = TRUE]
<1>1. e \in CallState /\ e.t = k.t /\ e.id = k.id /\ e.ts = k.ts /\ e.pc = k.pc /\ e.got = k.got /\ e.buf = k.buf
  BY DEF CallState
<1> QED BY <1>1, Zenon DEF Alike, Near, OwnItems

\* An item for the buffer, which is not of another call.
LEMMA ItemAdded ==
  ASSUME NEW c \in Calls, NEW k \in CallState, NEW x \in Calls \cup Marks, x \in Calls => x = c,
         NEW w \in BOOLEAN, NEW s \in {"active", "writeDone", "done"}, NEW e,
         e = [k EXCEPT !.headerDone = w, !.state = s, !.buf = Append(@, x)]
  PROVE  Alike(c, e, k)
<1> PICK b : b = k.buf
  OBVIOUS
<1>1. b \in Seq(Calls \cup Marks)
  BY DEF CallState
<1>2. Append(b, x) \in Seq(Calls \cup Marks)
  BY <1>1
<1> PICK q : q = Append(b, x)
  OBVIOUS
<1>3. e = [k EXCEPT !.headerDone = w, !.state = s, !.buf = q] /\ q \in Seq(Calls \cup Marks)
  BY <1>2
<1>4. e \in CallState /\ e.t = k.t /\ e.id = k.id /\ e.ts = k.ts /\ e.pc = k.pc /\ e.got = k.got /\ e.buf = q
  BY <1>3 DEF CallState
<1>5. ASSUME OwnItems(c, k) PROVE OwnItems(c, e)
  <2>1. \A n \in DOMAIN b : b[n] \in Calls => b[n] = c
    BY <1>5 DEF OwnItems
  <2>2. ASSUME NEW n \in DOMAIN q, q[n] \in Calls PROVE q[n] = c
    BY <1>1, <2>1, <2>2
  <2> QED BY <1>4, <1>5, <2>2 DEF OwnItems
<1> QED BY <1>4, <1>5, Zenon DEF Alike, Near

\* Some of the calls change.
LEMMA Delivered ==
  ASSUME ClientInv, NEW S, NEW f,
         call' = [c \in Calls |-> IF c \in S THEN f[c] ELSE call[c]],
         \A c \in Calls : c \in S => Alike(c, f[c], call[c])
  PROVE  CallsKept
<1>1. call \in [Calls -> CallState]
  BY DEF ClientInv, TypeInv
<1>2. ASSUME NEW c \in Calls PROVE Alike(c, call'[c], call[c])
  <2>1. CASE c \in S
    BY <2>1
  <2>2. CASE c \notin S
    BY <2>2, <1>1 DEF Alike, Near
  <2> QED BY <2>1, <2>2
<1>3. \A c \in Calls : call'[c] \in CallState
  BY <1>2 DEF Alike, Near
<1> QED BY <1>2, <1>3 DEF CallsKept

-----------------------------------------------------------------------------
(* The reader, the controller and the end of a connection. *)

\* The reader: a frame for a number goes to the call whose number it is.
LEMMA ReaderKeeps ==
  ASSUME ClientInv, NEW i \in Transports, Reader(i)
  PROVE  ClientInv'
<1>0. /\ tr \in [Transports -> TransportState] /\ call \in [Calls -> CallState]
      /\ srv \in [Transports -> [Ids -> {"idle", "open", "headers", "data", "status", "reset"}]]
  BY DEF ClientInv, TypeInv
<1>1. CASE ReadFails(i)
  <2>1. tr' = [tr EXCEPT ![i] = notifyError(tr[i])] /\ UNCHANGED <<cc, mon, call, wire, srv>>
    BY <1>1 DEF ReadFails
  <2> PICK k : k = notifyError(tr[i])
    OBVIOUS
  <2>2. k \in TransportState /\ k.nextID = tr[i].nextID /\ k.writable = tr[i].writable
    BY <1>0, TransportEdits
  <2>3. TransportsKept
    BY <2>1, <2>2, OneTransport
  <2> QED BY <2>1, <2>3, SameCalls, SameServer, KeptStep
<1>2. CASE handleSettings(i)
  <2>1. UNCHANGED <<cc, mon, call, wire, srv>>
    BY <1>2 DEF handleSettings
  <2> PICK v \in Limits : tr' = [tr EXCEPT ![i].maxStreams = v]
    BY <1>2 DEF handleSettings
  <2> DEFINE k == [tr[i] EXCEPT !.maxStreams = v]
  <2>2. k \in TransportState /\ k.nextID = tr[i].nextID /\ k.writable = tr[i].writable
    BY <1>0 DEF TransportState
  <2>3. tr' = [tr EXCEPT ![i] = k]
    BY <1>0
  <2>4. TransportsKept
    BY <2>2, <2>3, OneTransport
  <2> QED BY <2>1, <2>4, SameCalls, SameServer, KeptStep
<1>3. ASSUME NEW n \in Ids, handleHeaders(i, n) PROVE ClientInv'
  <2> DEFINE f == [c \in Calls |-> [call[c] EXCEPT !.headerDone = TRUE]]
  <2>1. srv' = [srv EXCEPT ![i][n] = "headers"] /\ UNCHANGED <<cc, mon, tr, wire>>
    BY <1>3 DEF handleHeaders
  <2>2. srv' \in [Transports -> [Ids -> {"idle", "open", "headers", "data", "status", "reset"}]]
    BY <1>0, <2>1
  <2>3. call' = [c \in Calls |-> IF c \in getStream(i, n) THEN f[c] ELSE call[c]]
    BY <1>3, Zenon DEF handleHeaders, Deliver
  <2>4. \A c \in Calls : Alike(c, f[c], call[c])
    BY <1>0, HeaderSeen
  <2>5. CallsKept
    BY <2>3, <2>4, Delivered
  <2> QED BY <2>1, <2>2, <2>5, SameTransports, KeptStep
<1>4. ASSUME NEW n \in Ids, handleData(i, n) PROVE ClientInv'
  <2> DEFINE f == [c \in Calls |-> [call[c] EXCEPT !.buf = Append(@, wire[i][n])]]
  <2>1. srv' = [srv EXCEPT ![i][n] = "data"] /\ UNCHANGED <<cc, mon, tr, wire>> /\ wire[i][n] # None
    BY <1>4 DEF handleData, Reads
  <2>2. srv' \in [Transports -> [Ids -> {"idle", "open", "headers", "data", "status", "reset"}]]
    BY <1>0, <2>1
  <2>3. call' = [c \in Calls |-> IF c \in getStream(i, n) THEN f[c] ELSE call[c]]
    BY <1>4, Zenon DEF handleData, Deliver
  <2>4. ASSUME NEW c \in Calls, c \in getStream(i, n) PROVE Alike(c, f[c], call[c])
    <3>1. call[c].t = i /\ call[c].id = n /\ n # 0
      BY <2>4 DEF getStream, Has, Ids
    <3>2. wire[i][n] = c
      BY <3>1 DEF ClientInv, Numbered
    <3>3. f[c] = [call[c] EXCEPT !.headerDone = call[c].headerDone, !.state = call[c].state, !.buf = Append(@, c)]
      BY <1>0, <3>2 DEF CallState
    <3>4. call[c] \in CallState /\ call[c].headerDone \in BOOLEAN /\ call[c].state \in {"active", "writeDone", "done"}
      BY <1>0 DEF CallState
    <3> QED BY <3>3, <3>4, ItemAdded
  <2>5. CallsKept
    BY <2>3, <2>4, Delivered
  <2> QED BY <2>1, <2>2, <2>5, SameTransports, KeptStep
<1>5. ASSUME NEW n \in Ids, handleStatus(i, n) PROVE ClientInv'
  <2> DEFINE f == [c \in Calls |-> IF call[c].state = "done" THEN [call[c] EXCEPT !.headerDone = TRUE]
                                   ELSE [call[c] EXCEPT !.headerDone = TRUE, !.state = "done", !.buf = Append(@, "eof")]]
  <2>1. srv' = [srv EXCEPT ![i][n] = "status"] /\ UNCHANGED <<cc, mon, tr, wire>>
    BY <1>5 DEF handleStatus
  <2>2. srv' \in [Transports -> [Ids -> {"idle", "open", "headers", "data", "status", "reset"}]]
    BY <1>0, <2>1
  <2>3. call' = [c \in Calls |-> IF c \in getStream(i, n) THEN f[c] ELSE call[c]]
    BY <1>5, Zenon DEF handleStatus, Deliver
  <2>4. ASSUME NEW c \in Calls PROVE Alike(c, f[c], call[c])
    <3>1. CASE call[c].state = "done"
      <4>1. f[c] = [call[c] EXCEPT !.headerDone = TRUE]
        BY <3>1
      <4> QED BY <1>0, <4>1, HeaderSeen
    <3>2. CASE call[c].state # "done"
      <4>1. f[c] = [call[c] EXCEPT !.headerDone = TRUE, !.state = "done", !.buf = Append(@, "eof")]
        BY <3>2
      <4> QED BY <1>0, <4>1, ItemAdded, GrpcClientAssumption DEF Marks
    <3> QED BY <3>1, <3>2
  <2>5. CallsKept
    BY <2>3, <2>4, Delivered
  <2> QED BY <2>1, <2>2, <2>5, SameTransports, KeptStep
<1>6. ASSUME NEW n \in Ids, handleRSTStream(i, n) PROVE ClientInv'
  <2> DEFINE f == [c \in Calls |-> IF call[c].state = "done" THEN call[c]
                                   ELSE [call[c] EXCEPT !.state = "done", !.buf = Append(@, "eof")]]
  <2>1. srv' = [srv EXCEPT ![i][n] = "reset"] /\ UNCHANGED <<cc, mon, tr, wire>>
    BY <1>6 DEF handleRSTStream
  <2>2. srv' \in [Transports -> [Ids -> {"idle", "open", "headers", "data", "status", "reset"}]]
    BY <1>0, <2>1
  <2>3. call' = [c \in Calls |-> IF c \in getStream(i, n) THEN f[c] ELSE call[c]]
    BY <1>6, Zenon DEF handleRSTStream, Deliver
  <2>4. ASSUME NEW c \in Calls PROVE Alike(c, f[c], call[c])
    <3>1. CASE call[c].state = "done"
      BY <1>0, <3>1 DEF Alike, Near
    <3>2. CASE call[c].state # "done"
      <4>1. f[c] = [call[c] EXCEPT !.headerDone = call[c].headerDone, !.state = "done", !.buf = Append(@, "eof")]
        BY <1>0, <3>2 DEF CallState
      <4>2. call[c].headerDone \in BOOLEAN
        BY <1>0 DEF CallState
      <4> QED BY <1>0, <4>1, <4>2, ItemAdded, GrpcClientAssumption DEF Marks
    <3> QED BY <3>1, <3>2
  <2>5. CallsKept
    BY <2>3, <2>4, Delivered
  <2> QED BY <2>1, <2>2, <2>5, SameTransports, KeptStep
<1>7. ASSUME NEW n \in Ids, handleBad(i, n) PROVE ClientInv'
  <2> DEFINE f == [c \in Calls |-> [call[c] EXCEPT !.buf = Append(@, "streamError")]]
  <2>1. srv' = [srv EXCEPT ![i][n] = "status"] /\ UNCHANGED <<cc, mon, tr, wire>>
    BY <1>7 DEF handleBad
  <2>2. srv' \in [Transports -> [Ids -> {"idle", "open", "headers", "data", "status", "reset"}]]
    BY <1>0, <2>1
  <2>3. call' = [c \in Calls |-> IF c \in getStream(i, n) THEN f[c] ELSE call[c]]
    BY <1>7, Zenon DEF handleBad, Deliver
  <2>4. ASSUME NEW c \in Calls PROVE Alike(c, f[c], call[c])
    <3>1. f[c] = [call[c] EXCEPT !.headerDone = call[c].headerDone, !.state = call[c].state, !.buf = Append(@, "streamError")]
      BY <1>0 DEF CallState
    <3>2. call[c].headerDone \in BOOLEAN /\ call[c].state \in {"active", "writeDone", "done"}
      BY <1>0 DEF CallState
    <3> QED BY <1>0, <3>1, <3>2, ItemAdded, GrpcClientAssumption DEF Marks
  <2>5. CallsKept
    BY <2>3, <2>4, Delivered
  <2> QED BY <2>1, <2>2, <2>5, SameTransports, KeptStep
<1> QED BY <1>1, <1>2, <1>3, <1>4, <1>5, <1>6, <1>7, Zenon DEF Reader

\* The connection breaks, and the resets are sent.
LEMMA ConnectionKeeps ==
  ASSUME ClientInv, NEW i \in Transports, Break(i) \/ controller(i)
  PROVE  ClientInv'
<1>0. tr \in [Transports -> TransportState] /\ UNCHANGED <<cc, mon, call, wire, srv>>
  BY DEF ClientInv, TypeInv, Break, controller
<1>1. CASE Break(i)
  <2> DEFINE k == [tr[i] EXCEPT !.open = FALSE]
  <2>1. k \in TransportState /\ k.nextID = tr[i].nextID /\ k.writable = tr[i].writable
    BY <1>0, TransportEdits
  <2>2. tr' = [tr EXCEPT ![i] = k]
    BY <1>1 DEF Break
  <2>3. TransportsKept
    BY <2>1, <2>2, OneTransport
  <2> QED BY <1>0, <2>3, SameCalls, SameServer, KeptStep
<1>2. CASE controller(i)
  <2> PICK m : m = tr[i].control
    OBVIOUS
  <2>1. m \in Nat /\ m > 0 /\ tr' = [tr EXCEPT ![i].control = m - 1]
    BY <1>0, <1>2 DEF controller, TransportState
  <2> PICK j : j = m - 1
    OBVIOUS
  <2>2. j \in Nat
    BY <2>1
  <2> DEFINE k == [tr[i] EXCEPT !.control = j]
  <2>3. k \in TransportState /\ k.nextID = tr[i].nextID /\ k.writable = tr[i].writable
    BY <1>0, <2>2 DEF TransportState
  <2>4. tr' = [tr EXCEPT ![i] = k]
    BY <2>1
  <2>5. TransportsKept
    BY <2>3, <2>4, OneTransport
  <2> QED BY <1>0, <2>5, SameCalls, SameServer, KeptStep
<1> QED BY <1>1, <1>2

-----------------------------------------------------------------------------
(* The transport monitor and Close. *)

\* Close of a transport tells its streams.
LEMMA ClosingKeeps ==
  ASSUME ClientInv, NEW i \in Transports, tr' = CloseTransport(i), call' = NotifyStreams(i)
  PROVE  TransportsKept /\ CallsKept
<1>0. tr \in [Transports -> TransportState] /\ call \in [Calls -> CallState]
  BY DEF ClientInv, TypeInv
<1>1. TransportsKept
  <2>1. CASE tr[i].state = "closing"
    BY <2>1, SameTransports DEF CloseTransport
  <2>2. CASE tr[i].state # "closing"
    <3> DEFINE k == [tr[i] EXCEPT !.state = "closing", !.open = FALSE, !.down = TRUE, !.active = {}]
    <3>1. k \in TransportState /\ k.nextID = tr[i].nextID /\ k.writable = tr[i].writable
      BY <1>0 DEF TransportState
    <3>2. tr' = [tr EXCEPT ![i] = k]
      BY <1>0, <2>2 DEF CloseTransport
    <3> QED BY <3>1, <3>2, OneTransport
  <2> QED BY <2>1, <2>2
<1>2. CallsKept
  <2> DEFINE f == [c \in Calls |-> [call[c] EXCEPT !.headerDone = TRUE, !.buf = Append(@, "closing")]]
             S == {c \in Calls : tr[i].state # "closing" /\ Has(i, c)}
  <2>1. call' = [c \in Calls |-> IF c \in S THEN f[c] ELSE call[c]]
    BY Zenon DEF NotifyStreams
  <2>2. ASSUME NEW c \in Calls PROVE Alike(c, f[c], call[c])
    <3>1. f[c] = [call[c] EXCEPT !.headerDone = TRUE, !.state = call[c].state, !.buf = Append(@, "closing")]
      BY <1>0 DEF CallState
    <3>2. call[c].state \in {"active", "writeDone", "done"}
      BY <1>0 DEF CallState
    <3> QED BY <1>0, <3>1, <3>2, ItemAdded, GrpcClientAssumption DEF Marks
  <2> QED BY <2>1, <2>2, Delivered
<1> QED BY <1>1, <1>2

\* transportMonitor, resetTransport and ClientConn.Close.
LEMMA MonitorKeeps ==
  ASSUME ClientInv, Replace \/ Close
  PROVE  ClientInv'
<1> USE DEF ClientInv, TypeInv
<1>0. /\ cc \in [seq : Nat, cur : Transports, closing : BOOLEAN]
      /\ mon \in [pc : {"watch", "reset", "close", "dial", "install", "ended"}, ts : Nat,
                  close : BOOLEAN, made : Transports, fails : Nat]
      /\ cc.cur \in Nat /\ cc.seq \in Nat /\ mon.made \in Nat /\ mon.fails \in Nat
      /\ cc.cur <= mon.made /\ (mon.pc = "install" => cc.cur < mon.made)
  BY DEF Later, Transports
<1> HIDE DEF ClientInv, TypeInv
<1>1. ASSUME call' = call, tr' = tr, srv' = srv
      PROVE  CallsKept /\ TransportsKept
                /\ srv' \in [Transports -> [Ids -> {"idle", "open", "headers", "data", "status", "reset"}]]
  BY <1>1, SameCalls, SameTransports, SameServer
<1>2. CASE Monitor
  <2>1. UNCHANGED <<cc, tr, call, wire, srv>>
    BY <1>2 DEF Monitor
  <2>2. /\ mon' \in [pc : {"watch", "reset", "close", "dial", "install", "ended"}, ts : Nat,
                     close : BOOLEAN, made : Transports, fails : Nat]
        /\ mon'.made = mon.made /\ mon'.pc # "install"
    BY <1>0, <1>2 DEF Monitor
  <2>3. /\ cc'.cur <= mon'.made /\ (mon'.pc = "install" => cc'.cur < mon'.made)
        /\ mon.made <= mon'.made /\ cc.cur <= cc'.cur /\ (cc'.cur = cc.cur => cc'.seq <= cc.seq)
    BY <1>0, <2>1, <2>2
  <2> QED BY <1>0, <1>1, <2>1, <2>2, <2>3, Kept
<1>3. CASE resetTransport
  <2>1. UNCHANGED <<tr, call, wire, srv>> /\ cc' = [cc EXCEPT !.seq = 0]
    BY <1>3 DEF resetTransport
  <2>2. /\ mon' \in [pc : {"watch", "reset", "close", "dial", "install", "ended"}, ts : Nat,
                     close : BOOLEAN, made : Transports, fails : Nat]
        /\ mon'.made = mon.made /\ mon'.pc # "install"
    BY <1>0, <1>3 DEF resetTransport
  <2>3. cc' \in [seq : Nat, cur : Transports, closing : BOOLEAN] /\ cc'.cur = cc.cur /\ cc'.seq = 0
    BY <1>0, <2>1
  <2>4. /\ cc'.cur <= mon'.made /\ (mon'.pc = "install" => cc'.cur < mon'.made)
        /\ mon.made <= mon'.made /\ cc.cur <= cc'.cur /\ (cc'.cur = cc.cur => cc'.seq <= cc.seq)
    BY <1>0, <2>2, <2>3
  <2> QED BY <1>1, <2>1, <2>2, <2>3, <2>4, Kept
<1>4. CASE CloseOld
  <2>1. UNCHANGED <<cc, wire, srv>> /\ CallsKept /\ TransportsKept
    BY <1>0, <1>4, ClosingKeeps DEF CloseOld
  <2>2. /\ mon' \in [pc : {"watch", "reset", "close", "dial", "install", "ended"}, ts : Nat,
                     close : BOOLEAN, made : Transports, fails : Nat]
        /\ mon'.made = mon.made /\ mon'.pc # "install"
    BY <1>0, <1>4 DEF CloseOld
  <2>3. /\ cc'.cur <= mon'.made /\ (mon'.pc = "install" => cc'.cur < mon'.made)
        /\ mon.made <= mon'.made /\ cc.cur <= cc'.cur /\ (cc'.cur = cc.cur => cc'.seq <= cc.seq)
    BY <1>0, <2>1, <2>2
  <2> QED BY <1>0, <2>1, <2>2, <2>3, SameServer, Kept
<1>5. CASE newHTTP2Client
  <2>1. UNCHANGED <<cc, call, wire, srv>> /\ CallsKept
    BY <1>5, SameCalls DEF newHTTP2Client
  <2>2. CASE /\ mon.made < MaxTransports /\ tr' = [tr EXCEPT ![mon.made + 1] = NewTransport]
             /\ mon' = [mon EXCEPT !.pc = "install", !.made = @ + 1]
    <3> PICK m : m = mon.made + 1
      OBVIOUS
    <3>1. m \in Transports /\ m > mon.made /\ m \in Nat
      BY <1>0, <2>2, GrpcClientAssumption DEF Transports
    <3>2. tr' = [tr EXCEPT ![m] = NewTransport] /\ mon' = [mon EXCEPT !.pc = "install", !.made = m]
      BY <2>2
    <3>3. tr \in [Transports -> TransportState] /\ tr[m].nextID = 1
      BY <3>1 DEF ClientInv, TypeInv, Later
    <3>4. NewTransport \in TransportState /\ NewTransport.nextID = 1
      BY DEF NewTransport, TransportState
    <3>5. TransportsKept
      BY <3>1, <3>2, <3>3, <3>4 DEF TransportsKept
    <3>6. /\ mon' \in [pc : {"watch", "reset", "close", "dial", "install", "ended"}, ts : Nat,
                       close : BOOLEAN, made : Transports, fails : Nat]
          /\ mon'.made = m
      BY <1>0, <3>1, <3>2
    <3>7. /\ cc'.cur <= mon'.made /\ (mon'.pc = "install" => cc'.cur < mon'.made)
          /\ mon.made <= mon'.made /\ cc.cur <= cc'.cur /\ (cc'.cur = cc.cur => cc'.seq <= cc.seq)
      BY <1>0, <2>1, <3>1, <3>6
    <3> QED BY <1>0, <2>1, <3>5, <3>6, <3>7, SameServer, Kept
  <2>3. CASE tr' = tr /\ mon' = [mon EXCEPT !.pc = "reset", !.close = FALSE, !.fails = @ + 1]
    <3> PICK m : m = mon.fails + 1
      OBVIOUS
    <3>1. m \in Nat /\ mon' = [mon EXCEPT !.pc = "reset", !.close = FALSE, !.fails = m]
      BY <1>0, <2>3
    <3>2. /\ mon' \in [pc : {"watch", "reset", "close", "dial", "install", "ended"}, ts : Nat,
                       close : BOOLEAN, made : Transports, fails : Nat]
          /\ mon'.made = mon.made /\ mon'.pc # "install"
      BY <1>0, <3>1
    <3>3. /\ cc'.cur <= mon'.made /\ (mon'.pc = "install" => cc'.cur < mon'.made)
          /\ mon.made <= mon'.made /\ cc.cur <= cc'.cur /\ (cc'.cur = cc.cur => cc'.seq <= cc.seq)
      BY <1>0, <2>1, <3>2
    <3> QED BY <1>0, <1>1, <2>1, <2>3, <3>2, <3>3, Kept
  <2> QED BY <1>5, <2>2, <2>3 DEF newHTTP2Client
<1>6. CASE Install
  <2>1. /\ UNCHANGED <<tr, wire, srv>> /\ mon.pc = "install"
        /\ cc' = [cc EXCEPT !.cur = mon.made, !.seq = mon.ts + 1] /\ mon' = [mon EXCEPT !.pc = "watch"]
    BY <1>6 DEF Install
  <2>2. /\ mon' \in [pc : {"watch", "reset", "close", "dial", "install", "ended"}, ts : Nat,
                     close : BOOLEAN, made : Transports, fails : Nat]
        /\ mon'.made = mon.made /\ mon'.pc # "install"
    BY <1>0, <2>1
  <2> PICK s : s = mon.ts + 1
    OBVIOUS
  <2>3. s \in Nat /\ cc' = [cc EXCEPT !.cur = mon.made, !.seq = s]
    BY <1>0, <2>1
  <2>4. cc' \in [seq : Nat, cur : Transports, closing : BOOLEAN] /\ cc'.cur = mon.made
    BY <1>0, <2>3
  <2>5. /\ cc'.cur <= mon'.made /\ (mon'.pc = "install" => cc'.cur < mon'.made)
        /\ mon.made <= mon'.made /\ cc.cur <= cc'.cur /\ (cc'.cur = cc.cur => cc'.seq <= cc.seq)
    BY <1>0, <2>1, <2>2, <2>4
  <2>6. CallsKept
    <3> DEFINE f == [c \in Calls |-> [call[c] EXCEPT !.pc = "wait"]]
               S == {c \in Calls : call[c].pc = "ready"}
    <3>1. call' = [c \in Calls |-> IF c \in S THEN f[c] ELSE call[c]]
      BY <1>6, Zenon DEF Install
    <3>2. ASSUME NEW c \in Calls PROVE Alike(c, f[c], call[c])
      <4> PICK e : e = f[c]
        OBVIOUS
      <4>1. call[c] \in CallState /\ e = [call[c] EXCEPT !.pc = "wait"]
        BY DEF ClientInv, TypeInv
      <4>2. /\ e \in CallState /\ e.t = call[c].t /\ e.id = call[c].id /\ e.ts = call[c].ts /\ e.pc = "wait"
            /\ e.got = call[c].got /\ e.buf = call[c].buf
        BY <4>1 DEF CallState
      <4> QED BY <4>2 DEF Alike, Near, OwnItems, AtWork
    <3> QED BY <3>1, <3>2, Delivered
  <2> QED BY <1>1, <2>1, <2>2, <2>4, <2>5, <2>6, SameTransports, SameServer, Kept
<1>7. CASE Close
  <2>1. UNCHANGED <<mon, wire, srv>> /\ CallsKept /\ TransportsKept /\ cc' = [cc EXCEPT !.closing = TRUE]
    BY <1>0, <1>7, ClosingKeeps DEF Close
  <2>2. cc' \in [seq : Nat, cur : Transports, closing : BOOLEAN] /\ cc'.cur = cc.cur /\ cc'.seq = cc.seq
    BY <1>0, <2>1
  <2>3. /\ cc'.cur <= mon'.made /\ (mon'.pc = "install" => cc'.cur < mon'.made)
        /\ mon.made <= mon'.made /\ cc.cur <= cc'.cur /\ (cc'.cur = cc.cur => cc'.seq <= cc.seq)
    BY <1>0, <2>1, <2>2
  <2> QED BY <1>0, <2>1, <2>2, <2>3, SameServer, Kept
<1> QED BY <1>2, <1>3, <1>4, <1>5, <1>6, <1>7, Zenon DEF Replace

-----------------------------------------------------------------------------
(* The calls. *)

\* Two such changes after each other are one.
LEMMA NearAgain ==
  ASSUME NEW c \in Calls, NEW k, NEW e, NEW f, Alike(c, e, k), Alike(c, f, e)
  PROVE  Alike(c, f, k)
  BY DEF Alike, Near

(* What ends an attempt leaves the call with what it has, and with no claim. *)
LEMMA Endings ==
  ASSUME NEW c \in Calls, NEW k \in CallState,
         NEW err \in {"connection", "closing", "context", "limit", "status", "streamError"}
  PROVE  Alike(c, Done(k, err), k) /\ Alike(c, Again(c, k), k) /\ Alike(c, Fail(k, err), k)
<1>1. ASSUME NEW e, NEW p \in {"wait", "done"},
             NEW l \in {None, "connection", "closing", "context", "limit", "status", "streamError"},
             e = [k EXCEPT !.pc = p, !.lastErr = l]
      PROVE  Alike(c, e, k)
  <2>1. /\ e \in CallState /\ e.t = k.t /\ e.id = k.id /\ e.ts = k.ts /\ e.pc = p
        /\ e.got = k.got /\ e.buf = k.buf
    BY <1>1 DEF CallState
  <2>2. OwnItems(c, k) => OwnItems(c, e)
    BY <2>1 DEF OwnItems
  <2> QED BY <2>1, <2>2 DEF Alike, Near, AtWork
<1>2. \A l \in {"connection", "closing", "context", "limit", "status", "streamError"} : Alike(c, Done(k, l), k)
  BY <1>1 DEF Done
<1>3. Alike(c, Again(c, k), k)
  BY <1>1, <1>2 DEF Again
<1>4. Alike(c, Fail(k, err), k)
  <2>1. k.lastErr \in {None, "connection", "closing", "context", "limit", "status", "streamError"}
    BY DEF CallState
  <2> QED BY <2>1, <1>2 DEF Fail
<1> QED BY <1>2, <1>3, <1>4


(* A stream the call still had is over for its transport. *)
LEMMA ClosedKeeps ==
  ASSUME ClientInv, NEW c \in Calls, NEW k, NEW err, call[c].t \in Transports, Closed(call[c].t, c, k, err)
  PROVE  TransportsKept
<1> PICK i : i = call[c].t
  OBVIOUS
<1>1. i \in Transports /\ tr \in [Transports -> TransportState]
  BY DEF ClientInv, TypeInv
<1> PICK m : m = tr[i].control
  OBVIOUS
<1>2. m \in Nat
  BY <1>1 DEF TransportState
<1> PICK j : j = IF k.state # "done" /\ err \in {"context", "streamError"} THEN m + 1 ELSE m
  OBVIOUS
<1>3. j \in Nat
  BY <1>2
<1> PICK a : a = tr[i].active \ {c}
  OBVIOUS
<1>4. a \in SUBSET Calls
  BY <1>1 DEF TransportState
<1> PICK e : e = [tr[i] EXCEPT !.active = a, !.control = j]
  OBVIOUS
<1>5. tr' = [tr EXCEPT ![i] = e]
  <2>1. tr' = [tr EXCEPT ![i].active = tr[i].active \ {c},
                         ![i].control = IF k.state # "done" /\ err \in {"context", "streamError"} THEN @ + 1 ELSE @]
    BY Zenon DEF Closed
  <2>2. tr' = [tr EXCEPT ![i].active = a,
                         ![i].control = IF k.state # "done" /\ err \in {"context", "streamError"} THEN m + 1 ELSE m]
    BY <2>1, <1>1
  <2>3. tr' = [tr EXCEPT ![i].active = a, ![i].control = j]
    BY <2>2
  <2> QED BY <2>3, <1>1
<1>6. e \in TransportState /\ e.nextID = tr[i].nextID /\ e.writable = tr[i].writable
  <2> PICK k0 : k0 = tr[i]
    OBVIOUS
  <2>1. k0 \in TransportState
    BY <1>1
  <2>2. e = [k0 EXCEPT !.active = a, !.control = j]
    OBVIOUS
  <2>3. e \in TransportState /\ e.nextID = k0.nextID /\ e.writable = k0.writable
    BY <2>1, <2>2, <1>3, <1>4 DEF TransportState
  <2> QED BY <2>3
<1> QED BY <1>1, <1>5, <1>6, OneTransport

\* A call at work has a transport.
LEMMA AtTransport ==
  ASSUME ClientInv, NEW c \in Calls, call[c].pc \in AtWork
  PROVE  call[c].t \in Transports
  BY GrpcClientAssumption DEF ClientInv, TypeInv, CallState, Transports

(* A call that goes on with what it has; the transport may lose the call. *)
LEMMA CallStep ==
  ASSUME ClientInv, NEW c \in Calls, NEW k, Alike(c, k, call[c]), Goes(c, k), TransportsKept,
         UNCHANGED <<cc, mon, wire, srv>>
  PROVE  ClientInv'
  BY OneCall, SameServer, KeptStep

(* A step to another control state that claims nothing. *)
LEMMA OnlyControl ==
  ASSUME NEW c \in Calls, NEW k \in CallState, NEW e, NEW p, NEW s, NEW x,
         (k.pc \in AtWork /\ p \in {"write", "header", "recv"}) \/ p = k.pc,
         s \in {"active", "writeDone", "done"}, x \in BOOLEAN,
         e = [k EXCEPT !.pc = p, !.state = s, !.expired = x]
  PROVE  Alike(c, e, k)
<1>1. p \in {"idle", "wait", "ready", "done"} \cup AtWork
  BY DEF CallState, AtWork
<1>2. /\ e \in CallState /\ e.t = k.t /\ e.id = k.id /\ e.ts = k.ts /\ e.pc = p
      /\ e.got = k.got /\ e.buf = k.buf
  BY <1>1 DEF CallState
<1>3. OwnItems(c, k) => OwnItems(c, e)
  BY <1>2 DEF OwnItems
<1> QED BY <1>2, <1>3 DEF Alike, Near, AtWork

\* A call goes to a place where it has no claim.
LEMMA OnlyWaits ==
  ASSUME NEW c \in Calls, NEW k \in CallState, NEW p \in {"wait", "ready", "done"}
  PROVE  Alike(c, [k EXCEPT !.pc = p], k)
<1> PICK e : e = [k EXCEPT !.pc = p]
  OBVIOUS
<1>1. /\ e \in CallState /\ e.t = k.t /\ e.id = k.id /\ e.ts = k.ts /\ e.pc = p
      /\ e.got = k.got /\ e.buf = k.buf
  BY DEF CallState
<1>2. Alike(c, e, k)
  BY <1>1 DEF Alike, Near, AtWork, OwnItems
<1> QED BY <1>2

\* The beginning, and a deadline that expires.
LEMMA StartKeeps ==
  ASSUME ClientInv, NEW c \in Calls, Start(c) \/ waitExpires(c) \/ Expire(c)
  PROVE  ClientInv'
<1>0. call[c] \in CallState /\ UNCHANGED <<cc, mon, tr, wire, srv>>
  BY DEF ClientInv, TypeInv, Start, waitExpires, Expire
<1>1. CASE Start(c)
  BY <1>0, <1>1, OnlyWaits, SameTransports, CallStep DEF Start
<1>2. CASE waitExpires(c)
  BY <1>0, <1>2, Endings, SameTransports, CallStep DEF waitExpires
<1>3. CASE Expire(c)
  <2> DEFINE k == [call[c] EXCEPT !.expired = TRUE]
  <2>1. k = [call[c] EXCEPT !.pc = call[c].pc, !.state = call[c].state, !.expired = TRUE]
    BY <1>0 DEF CallState
  <2>2. call[c].state \in {"active", "writeDone", "done"}
    BY <1>0 DEF CallState
  <2>3. Alike(c, k, call[c])
    BY <1>0, <2>1, <2>2, OnlyControl
  <2> QED BY <1>0, <1>3, <2>3, SameTransports, CallStep DEF Expire
<1> QED BY <1>1, <1>2, <1>3

\* Write: the message, or the error that ends the attempt.
LEMMA WriteKeeps ==
  ASSUME ClientInv, NEW c \in Calls, Write(c)
  PROVE  ClientInv'
<1>0. /\ call[c] \in CallState /\ call[c].pc \in AtWork /\ UNCHANGED <<cc, mon, wire, srv>>
      /\ call[c].state \in {"active", "writeDone", "done"} /\ call[c].expired \in BOOLEAN
  BY DEF ClientInv, TypeInv, Write, AtWork, CallState
<1> PICK i \in Transports : i = call[c].t
  BY <1>0, AtTransport
<1>1. tr \in [Transports -> TransportState] /\ tr[i] \in TransportState
  BY DEF ClientInv, TypeInv
<1>2. CASE /\ UNCHANGED tr
           /\ Goes(c, [call[c] EXCEPT !.pc = IF c \in Streaming THEN "recv" ELSE "header",
                                      !.state = IF call[c].state = "done" THEN @ ELSE "writeDone"])
  <2> PICK p : p = IF c \in Streaming THEN "recv" ELSE "header"
    OBVIOUS
  <2> PICK s : s = IF call[c].state = "done" THEN call[c].state ELSE "writeDone"
    OBVIOUS
  <2> PICK k : k = [call[c] EXCEPT !.pc = p, !.state = s, !.expired = call[c].expired]
    OBVIOUS
  <2>1. k = [call[c] EXCEPT !.pc = p, !.state = s]
    BY <1>0 DEF CallState
  <2>2. Goes(c, k)
    BY <1>2, <2>1 DEF Goes
  <2>3. p \in {"write", "header", "recv"} /\ s \in {"active", "writeDone", "done"}
    BY <1>0
  <2>4. Alike(c, k, call[c])
    BY <1>0, <2>3, OnlyControl
  <2> QED BY <1>0, <1>2, <2>2, <2>4, SameTransports, CallStep
<1>3. CASE tr' = [tr EXCEPT ![i] = [notifyError(@) EXCEPT !.writable = FALSE]] /\ Goes(c, Again(c, call[c]))
  <2> PICK m : m = notifyError(tr[i])
    OBVIOUS
  <2>1. m \in TransportState /\ m.nextID = tr[i].nextID
    BY <1>1, TransportEdits
  <2> PICK k : k = [m EXCEPT !.writable = FALSE]
    OBVIOUS
  <2>2. k \in TransportState /\ k.nextID = m.nextID /\ k.writable = FALSE
    BY <2>1 DEF TransportState
  <2>3. tr' = [tr EXCEPT ![i] = k]
    BY <1>1, <1>3
  <2>4. TransportsKept
    BY <2>1, <2>2, <2>3, OneTransport
  <2> QED BY <1>0, <1>3, <2>4, Endings, CallStep
<1>4. CASE Closed(i, c, call[c], "context") /\ Goes(c, Fail(call[c], "context"))
  BY <1>0, <1>4, ClosedKeeps, Endings, CallStep
<1>5. CASE Goes(c, Again(c, call[c])) /\ UNCHANGED tr
  BY <1>0, <1>5, Endings, SameTransports, CallStep
<1> QED BY <1>2, <1>3, <1>4, <1>5, Zenon DEF Write

\* Stream.Header.
LEMMA HeaderKeeps ==
  ASSUME ClientInv, NEW c \in Calls, Header(c)
  PROVE  ClientInv'
<1>0. /\ call[c] \in CallState /\ call[c].pc \in AtWork /\ UNCHANGED <<cc, mon, wire, srv>>
      /\ call[c].state \in {"active", "writeDone", "done"} /\ call[c].expired \in BOOLEAN
  BY DEF ClientInv, TypeInv, Header, AtWork, CallState
<1>1. call[c].t \in Transports
  BY <1>0, AtTransport
<1>2. CASE Goes(c, [call[c] EXCEPT !.pc = "recv"]) /\ UNCHANGED tr
  <2> PICK k : k = [call[c] EXCEPT !.pc = "recv", !.state = call[c].state, !.expired = call[c].expired]
    OBVIOUS
  <2>1. k = [call[c] EXCEPT !.pc = "recv"]
    BY <1>0 DEF CallState
  <2>2. Goes(c, k)
    BY <1>2, <2>1
  <2>3. Alike(c, k, call[c])
    BY <1>0, OnlyControl
  <2> QED BY <1>0, <1>2, <2>2, <2>3, SameTransports, CallStep
<1>3. CASE Closed(call[c].t, c, call[c], "context") /\ Goes(c, Done(call[c], "context"))
  BY <1>0, <1>1, <1>3, ClosedKeeps, Endings, CallStep
<1> QED BY <1>2, <1>3, Zenon DEF Header

\* recvProto: what is read is the call's own.
LEMMA RecvKeeps ==
  ASSUME ClientInv, NEW c \in Calls, Recv(c)
  PROVE  ClientInv'
<1>0. /\ call[c] \in CallState /\ call[c].pc \in AtWork /\ UNCHANGED <<cc, mon, wire, srv>>
      /\ call[c].pc = "recv"
  BY DEF ClientInv, TypeInv, Recv, AtWork, CallState
<1>1. call[c].t \in Transports
  BY <1>0, AtTransport
<1>2. CASE Closed(call[c].t, c, call[c], "context") /\ Goes(c, Done(call[c], "context"))
  BY <1>0, <1>1, <1>2, ClosedKeeps, Endings, CallStep
<1>3. CASE call[c].buf # <<>>
  <2> PICK b : b = call[c].buf
    OBVIOUS
  <2>1. b \in Seq(Calls \cup Marks) /\ b # <<>>
    BY <1>0, <1>3 DEF CallState
  <2> PICK item : item = Head(b)
    OBVIOUS
  <2>2. item \in Calls \cup Marks /\ Tail(b) \in Seq(Calls \cup Marks) /\ item = b[1] /\ 1 \in DOMAIN b
    BY <2>1
  <2> PICK q : q = Tail(b)
    OBVIOUS
  <2> PICK rest : rest = [call[c] EXCEPT !.buf = q]
    OBVIOUS
  <2>3. q \in Seq(Calls \cup Marks) /\ \A n \in DOMAIN q : n + 1 \in DOMAIN b /\ q[n] = b[n + 1]
    BY <2>1
  <2>4. /\ rest \in CallState /\ rest.t = call[c].t /\ rest.id = call[c].id /\ rest.ts = call[c].ts
        /\ rest.pc = "recv" /\ rest.got = call[c].got /\ rest.buf = q
    BY <1>0, <2>3 DEF CallState
  <2>5. call[c].got \subseteq {c} /\ \A n \in DOMAIN b : b[n] \in Calls => b[n] = c
    BY DEF ClientInv, Answered, OwnItems
  <2>6. OwnItems(c, rest)
    BY <2>3, <2>4, <2>5 DEF OwnItems
  <2>7. Alike(c, rest, call[c])
    BY <1>0, <2>4, <2>6 DEF Alike, Near, AtWork
  <2>8. CASE item \in Calls /\ Goes(c, [rest EXCEPT !.got = @ \cup {item}]) /\ UNCHANGED tr
    <3> PICK k : k = [rest EXCEPT !.got = rest.got \cup {c}]
      OBVIOUS
    <3>1. item = c
      BY <2>2, <2>5, <2>8
    <3>2. Goes(c, k)
      BY <2>8, <3>1
    <3> PICK g : g = rest.got \cup {c}
      OBVIOUS
    <3>3. g \in SUBSET Calls /\ g \subseteq {c}
      BY <2>4, <2>5
    <3>4. /\ k \in CallState /\ k.t = rest.t /\ k.id = rest.id /\ k.ts = rest.ts
          /\ k.pc = "recv" /\ k.got = g /\ k.buf = q
      BY <2>4, <3>3 DEF CallState
    <3>5. OwnItems(c, k)
      BY <2>4, <2>6, <3>3, <3>4 DEF OwnItems
    <3>6. Alike(c, k, call[c])
      BY <1>0, <2>4, <3>4, <3>5 DEF Alike, Near, AtWork
    <3> QED BY <1>0, <2>8, <3>2, <3>6, SameTransports, CallStep
  <2>9. ASSUME NEW err \in {"status", "streamError"},
               Closed(call[c].t, c, call[c], err), Goes(c, Done(rest, err))
        PROVE  ClientInv'
    <3>1. Alike(c, Done(rest, err), call[c])
      BY <2>4, <2>7, Endings, NearAgain
    <3>2. TransportsKept
      BY <1>1, <2>9, ClosedKeeps
    <3> QED BY <1>0, <2>9, <3>1, <3>2, CallStep
  <2>10. CASE Goes(c, Again(c, rest)) /\ UNCHANGED tr
    <3>1. Alike(c, Again(c, rest), call[c])
      BY <2>4, <2>7, Endings, NearAgain
    <3> QED BY <1>0, <2>10, <3>1, SameTransports, CallStep
  <2>11. rest = [call[c] EXCEPT !.buf = Tail(@)]
    BY <1>0
  <2>12. \/ Closed(call[c].t, c, call[c], "context") /\ Goes(c, Done(call[c], "context"))
         \/ item \in Calls /\ Goes(c, [rest EXCEPT !.got = @ \cup {item}]) /\ UNCHANGED tr
         \/ Closed(call[c].t, c, call[c], "status") /\ Goes(c, Done(rest, "status"))
         \/ Closed(call[c].t, c, call[c], "streamError") /\ Goes(c, Done(rest, "streamError"))
         \/ Goes(c, Again(c, rest)) /\ UNCHANGED tr
    BY <2>2, <2>11, GrpcClientAssumption DEF Recv, Marks
  <2> QED BY <1>2, <2>8, <2>9, <2>10, <2>12
<1> QED BY <1>2, <1>3, Zenon DEF Recv

\* The record of a call that starts on a transport.
LEMMA NewAttempt ==
  ASSUME NEW k \in CallState, NEW s \in Nat, NEW u \in 0 .. MaxTransports, NEW b \in Seq(Calls \cup Marks)
  PROVE  \A e : e = [k EXCEPT !.pc = "writable", !.ts = s, !.t = u, !.id = 0, !.state = "active",
                              !.headerDone = FALSE, !.buf = b]
            => /\ e \in CallState /\ e.pc = "writable" /\ e.ts = s /\ e.t = u /\ e.id = 0
               /\ e.buf = b /\ e.got = k.got
<1> SUFFICES ASSUME NEW e, e = [k EXCEPT !.pc = "writable", !.ts = s, !.t = u, !.id = 0, !.state = "active",
                                         !.headerDone = FALSE, !.buf = b]
             PROVE  /\ e \in CallState /\ e.pc = "writable" /\ e.ts = s /\ e.t = u /\ e.id = 0
                    /\ e.buf = b /\ e.got = k.got
  OBVIOUS
<1>1. DOMAIN k = {"pc", "ts", "t", "id", "lastErr", "expired", "state", "headerDone", "buf", "got"}
  BY DEF CallState
<1>2. /\ e.pc = "writable" /\ e.ts = s /\ e.t = u /\ e.id = 0 /\ e.state = "active"
      /\ e.headerDone = FALSE /\ e.buf = b /\ e.got = k.got /\ e.lastErr = k.lastErr /\ e.expired = k.expired
  BY <1>1, SMTT(30)
<1>3. e \in CallState
  <2>1. [k EXCEPT !.pc = "writable", !.ts = s, !.t = u, !.id = 0, !.state = "active",
                  !.headerDone = FALSE, !.buf = b] \in CallState
    BY DEF CallState, AtWork
  <2> QED BY <2>1
<1> QED BY <1>2, <1>3

\* ClientConn.wait: the call goes to the transport in use, which is a later one than its last.
LEMMA WaitKeeps ==
  ASSUME ClientInv, NEW c \in Calls, wait(c)
  PROVE  ClientInv'
<1>0. call[c] \in CallState /\ UNCHANGED <<cc, mon, tr, wire, srv>>
  BY DEF ClientInv, TypeInv, wait
<1>1. CASE Goes(c, Fail(call[c], "closing"))
  BY <1>0, <1>1, Endings, SameTransports, CallStep
<1>2. CASE Goes(c, [call[c] EXCEPT !.pc = "ready"])
  BY <1>0, <1>2, OnlyWaits, SameTransports, CallStep
<1>3. ASSUME call[c].ts < cc.seq,
             Goes(c, [call[c] EXCEPT !.pc = "writable", !.ts = cc.seq, !.t = cc.cur, !.id = 0, !.state = "active",
                                     !.headerDone = FALSE, !.buf = <<>>])
      PROVE  ClientInv'
  <2> PICK k : k = [call[c] EXCEPT !.pc = "writable", !.ts = cc.seq, !.t = cc.cur, !.id = 0, !.state = "active",
                                   !.headerDone = FALSE, !.buf = <<>>]
    OBVIOUS
  <2>1. cc.seq \in Nat /\ cc.cur \in Transports /\ cc.cur \in Nat /\ cc.cur # 0
        /\ call[c].ts \in Nat /\ call[c].t \in Nat
    BY <1>0, GrpcClientAssumption DEF ClientInv, TypeInv, Transports, CallState
  <2>2. /\ k \in CallState /\ k.pc = "writable" /\ k.ts = cc.seq /\ k.t = cc.cur /\ k.id = 0
        /\ k.buf = <<>> /\ k.got = call[c].got
    <3>1. cc.seq \in Nat /\ cc.cur \in 0 .. MaxTransports /\ call[c] \in CallState
      BY <1>0, <2>1 DEF Transports
    <3>2. <<>> \in Seq(Calls \cup Marks)
      OBVIOUS
    <3>3. \A s \in Nat : \A u \in 0 .. MaxTransports : \A b \in Seq(Calls \cup Marks) :
             \A e : e = [call[c] EXCEPT !.pc = "writable", !.ts = s, !.t = u, !.id = 0, !.state = "active",
                                        !.headerDone = FALSE, !.buf = b]
                => /\ e \in CallState /\ e.pc = "writable" /\ e.ts = s /\ e.t = u /\ e.id = 0
                   /\ e.buf = b /\ e.got = call[c].got
      BY <3>1, NewAttempt, Zenon
    <3>4. \A b \in Seq(Calls \cup Marks) :
             \A e : e = [call[c] EXCEPT !.pc = "writable", !.ts = cc.seq, !.t = cc.cur, !.id = 0, !.state = "active",
                                        !.headerDone = FALSE, !.buf = b]
                => /\ e \in CallState /\ e.pc = "writable" /\ e.ts = cc.seq /\ e.t = cc.cur /\ e.id = 0
                   /\ e.buf = b /\ e.got = call[c].got
      <4>1. cc.seq \in Nat
        BY <3>1
      <4>2. cc.cur \in 0 .. MaxTransports
        BY <3>1
      <4>3. \A u \in 0 .. MaxTransports : \A b \in Seq(Calls \cup Marks) :
               \A e : e = [call[c] EXCEPT !.pc = "writable", !.ts = cc.seq, !.t = u, !.id = 0, !.state = "active",
                                          !.headerDone = FALSE, !.buf = b]
                  => /\ e \in CallState /\ e.pc = "writable" /\ e.ts = cc.seq /\ e.t = u /\ e.id = 0
                     /\ e.buf = b /\ e.got = call[c].got
        BY <4>1, <3>3, Zenon
      <4> QED BY <4>2, <4>3, Zenon
    <3> QED BY <3>2, <3>4, Zenon
  <2>3. /\ call' \in [Calls -> CallState] /\ call'[c] = k
        /\ \A d \in Calls : d # c => call'[d] = call[d]
    BY <1>3, <2>2 DEF Goes, ClientInv, TypeInv
  <2>4. call[c].t < cc.cur
    <3>1. call[c].t <= cc.cur /\ (call[c].t = cc.cur => call[c].ts >= cc.seq)
      BY DEF ClientInv, Later
    <3> QED BY <3>1, <2>1, <1>3
  <2>5. TypeInv'
    <3>1. \A d \in Calls : call'[d].pc \in AtWork => call'[d].t # 0
      <4>1. \A d \in Calls : call[d].pc \in AtWork => call[d].t # 0
        BY DEF ClientInv, TypeInv
      <4> QED BY <4>1, <2>1, <2>2, <2>3
    <3> QED BY <1>0, <2>3, <3>1 DEF ClientInv, TypeInv
  <2>6. Exclusive'
    BY <1>0, <2>2, <2>3 DEF ClientInv, Exclusive, Holds, T
  <2>7. Claimed'
    <3> SUFFICES ASSUME NEW d \in Calls, call'[d].pc = "register"
                 PROVE  tr[call'[d].t].nextID \in Ids /\ wire[call'[d].t][tr[call'[d].t].nextID] = d
      BY <1>0, Zenon DEF Claimed, T, Ids
    <3>1. call'[d] = call[d]
      BY <2>2, <2>3
    <3> QED BY <3>1 DEF ClientInv, Claimed, T
  <2>8. Numbered'
    <3> SUFFICES ASSUME NEW d \in Calls, call'[d].id # 0
                 PROVE  call'[d].t # 0 /\ call'[d].id < tr[call'[d].t].nextID /\ wire[call'[d].t][call'[d].id] = d
      BY <1>0, Zenon DEF Numbered, T
    <3>1. call'[d] = call[d]
      BY <2>2, <2>3
    <3> QED BY <3>1 DEF ClientInv, Numbered, T
  <2>9. TakenUp'
    <3> SUFFICES ASSUME NEW i \in Transports, NEW n \in Before(i)
                 PROVE  /\ n \in Ids /\ wire[i][n] \in Calls
                        /\ \A m \in Before(i) : wire[i][m] = wire[i][n] => m = n
                        /\ \A d \in Calls : wire[i][n] = d =>
                              i <= call'[d].t
                              /\ (call'[d].t = i => call'[d].pc \notin {"writable", "headers", "register"})
      BY <1>0 DEF TakenUp, Before, Ids
    <3>1. /\ n \in Ids /\ wire[i][n] \in Calls
          /\ \A m \in Before(i) : wire[i][m] = wire[i][n] => m = n
          /\ \A d \in Calls : wire[i][n] = d =>
                i <= call[d].t /\ (call[d].t = i => call[d].pc \notin {"writable", "headers", "register"})
      BY Zenon DEF ClientInv, TakenUp
    <3>2. ASSUME wire[i][n] = c PROVE i <= cc.cur /\ cc.cur # i
      <4>1. i <= call[c].t /\ i \in Nat
        BY <3>1, <3>2 DEF Transports
      <4> QED BY <4>1, <2>1, <2>4
    <3> QED BY <3>1, <3>2, <2>2, <2>3
  <2>10. Later'
    <3>1. cc.cur <= mon.made /\ (mon.pc = "install" => cc.cur < mon.made)
          /\ (\A i \in Transports : i > mon.made => tr[i].nextID = 1)
          /\ \A d \in Calls : call[d].t <= cc.cur /\ (call[d].t = cc.cur => call[d].ts >= cc.seq)
      BY DEF ClientInv, Later
    <3>2. k.t <= cc.cur /\ k.ts >= cc.seq
      BY <2>1, <2>2
    <3>3. \A d \in Calls : call'[d].t <= cc.cur /\ (call'[d].t = cc.cur => call'[d].ts >= cc.seq)
      BY <3>1, <3>2, <2>3
    <3> QED BY <1>0, <3>1, <3>3, Zenon DEF Later
  <2>11. Answered'
    <3>1. \A d \in Calls : OwnItems(d, call[d])
      BY DEF ClientInv, Answered
    <3>2. OwnItems(c, k)
      BY <2>2, <3>1 DEF OwnItems
    <3>3. \A d \in Calls : OwnItems(d, call'[d])
      BY <2>3, <3>1, <3>2
    <3> QED BY <3>3, Zenon DEF Answered, OwnItems
  <2> QED BY <2>5, <2>6, <2>7, <2>8, <2>9, <2>10, <2>11 DEF ClientInv
<1> QED BY <1>1, <1>2, <1>3 DEF wait

(* The right to write: it is given to one call at a time. *)
LEMMA NewStreamKeeps ==
  ASSUME ClientInv, NEW c \in Calls, NewStream(c)
  PROVE  ClientInv'
<1>0. /\ call[c] \in CallState /\ call[c].pc = "writable" /\ call[c].pc \in AtWork
      /\ UNCHANGED <<cc, mon, wire, srv>>
  BY DEF ClientInv, TypeInv, NewStream, AtWork
<1> PICK i \in Transports : i = call[c].t
  BY <1>0, AtTransport
<1>1. CASE Goes(c, Fail(call[c], "context")) /\ UNCHANGED tr
  BY <1>0, <1>1, Endings, SameTransports, CallStep
<1>2. CASE Goes(c, Again(c, call[c])) /\ UNCHANGED tr
  BY <1>0, <1>2, Endings, SameTransports, CallStep
<1>3. CASE /\ tr[i].writable /\ tr' = [tr EXCEPT ![i].writable = FALSE]
           /\ Goes(c, [call[c] EXCEPT !.pc = "headers"])
  <2> PICK k : k = [call[c] EXCEPT !.pc = "headers"]
    OBVIOUS
  <2>1. /\ k \in CallState /\ k.pc = "headers" /\ k.t = i /\ k.id = call[c].id /\ k.ts = call[c].ts
        /\ k.got = call[c].got /\ k.buf = call[c].buf
    BY <1>0 DEF CallState, AtWork
  <2>2. Near(c, k, call[c])
    BY <1>0, <2>1 DEF Near, OwnItems, AtWork
  <2>3. call \in [Calls -> CallState] /\ tr \in [Transports -> TransportState]
    BY DEF ClientInv, TypeInv
  <2>4. /\ call' \in [Calls -> CallState] /\ call'[c] = k
        /\ \A d \in Calls : d # c => call'[d] = call[d]
    BY <1>3, <2>1, <2>3 DEF Goes
  <2>5. \A d \in Calls : Near(d, call'[d], call[d])
    <3>1. ASSUME NEW d \in Calls PROVE Near(d, call[d], call[d])
      BY <2>3 DEF Near
    <3> QED BY <2>2, <2>4, <3>1
  <2> PICK q : q = [tr[i] EXCEPT !.writable = FALSE]
    OBVIOUS
  <2>6. q \in TransportState /\ q.nextID = tr[i].nextID /\ q.writable = FALSE
    BY <2>3 DEF TransportState
  <2>7. tr' = [tr EXCEPT ![i] = q]
    BY <1>3, <2>3
  <2>8. /\ tr' \in [Transports -> TransportState] /\ tr'[i] = q
        /\ \A j \in Transports : j # i => tr'[j] = tr[j]
    BY <2>3, <2>6, <2>7
  <2>9. \A j \in Transports : tr'[j].nextID = tr[j].nextID
    BY <2>6, <2>8
  <2>10. ASSUME NEW d \in Calls, Holds(d), call[d].t = i PROVE FALSE
    BY <1>3, <2>10 DEF ClientInv, Exclusive, T
  <2>11. Exclusive'
    <3> SUFFICES ASSUME NEW d \in Calls, Holds(d)'
                 PROVE  ~tr'[call'[d].t].writable /\ \A e \in Calls : Holds(e)' /\ call'[e].t = call'[d].t => e = d
      BY Zenon DEF Exclusive, T
    <3>1. ASSUME NEW e \in Calls, Holds(e)', e # c PROVE Holds(e) /\ call'[e] = call[e] /\ call[e].t # i
      BY <2>4, <2>10, <3>1 DEF Holds
    <3>2. CASE d = c
      BY <2>1, <2>4, <2>6, <2>8, <3>1, <3>2
    <3>3. CASE d # c
      <4>1. Holds(d) /\ call'[d] = call[d] /\ call[d].t # i
        BY <3>1, <3>3
      <4>2. call[d].t \in Transports
        BY <4>1, AtTransport DEF Holds, AtWork
      <4>3. ~tr[call[d].t].writable /\ \A e \in Calls : Holds(e) /\ call[e].t = call[d].t => e = d
        BY <4>1, Zenon DEF ClientInv, Exclusive, T
      <4>4. ~tr'[call'[d].t].writable
        BY <2>8, <4>1, <4>2, <4>3
      <4>5. ASSUME NEW e \in Calls, Holds(e)', call'[e].t = call'[d].t PROVE e = d
        <5>1. e # c
          BY <2>1, <2>4, <4>1, <4>5
        <5>2. Holds(e) /\ call'[e] = call[e]
          BY <3>1, <4>5, <5>1
        <5> QED BY <4>1, <4>3, <4>5, <5>2
      <4> QED BY <4>4, <4>5
    <3> QED BY <3>2, <3>3
  <2>12. cc \in [seq : Nat, cur : Transports, closing : BOOLEAN] /\ cc.seq \in Nat /\ cc.cur \in Nat
         /\ mon \in [pc : {"watch", "reset", "close", "dial", "install", "ended"}, ts : Nat,
                     close : BOOLEAN, made : Transports, fails : Nat] /\ mon.made \in Nat
         /\ cc.cur <= mon.made /\ (mon.pc = "install" => cc.cur < mon.made)
    BY DEF ClientInv, TypeInv, Later, Transports
  <2>13. mon.made <= mon.made /\ cc.cur <= cc.cur /\ cc.seq <= cc.seq
    BY <2>12
  <2> QED BY <1>0, <2>4, <2>5, <2>8, <2>9, <2>11, <2>12, <2>13, SameServer, KeptBut
<1> QED BY <1>0, <1>1, <1>2, <1>3, Zenon DEF NewStream, T

\* A set has as many elements as different ones can be numbered.
LEMMA NoFewer ==
  ASSUME NEW n \in Nat, NEW U, IsFiniteSet(U), NEW g,
         \A m \in 1 .. n : g[m] \in U,
         \A l, m \in 1 .. n : g[l] = g[m] => l = m
  PROVE  n <= Cardinality(U)
<1> DEFINE S == 1 .. n
           f == [m \in S |-> g[m]]
<1>1. IsFiniteSet(S) /\ Cardinality(S) = n
  BY FS_Interval
<1>2. f \in [S -> U] /\ \A x \in S : f[x] = g[x]
  OBVIOUS
<1>3. Cardinality(U) \in Nat
  BY FS_CardinalityType
<1> HIDE DEF S, f
<1>4. \A x, y \in S : f[x] = f[y] => x = y
  BY <1>2 DEF S
<1>5. ~(Cardinality(U) < Cardinality(S))
  BY <1>1, <1>2, <1>4, FS_PigeonHole
<1> QED BY <1>1, <1>3, <1>5

(* A number is left for a call that has none at its transport: each other call took one at most. *)
LEMMA NumberLeft ==
  ASSUME ClientInv, NEW c \in Calls, call[c].pc \in {"writable", "headers"}
  PROVE  tr[call[c].t].nextID \in Ids
<1> PICK i \in Transports : i = call[c].t
  BY AtTransport DEF AtWork
<1> PICK n : n = tr[i].nextID
  OBVIOUS
<1>1. n \in Nat /\ n # 0
  BY DEF ClientInv, TypeInv, TransportState
<1> PICK p : p = n - 1
  OBVIOUS
<1>2. p \in Nat /\ n = p + 1
  BY <1>1
<1>3. /\ Cardinality(Calls) \in Nat /\ IsFiniteSet(Calls \ {c})
      /\ Cardinality(Calls \ {c}) = Cardinality(Calls) - 1
  BY GrpcClientAssumption, FS_CardinalityType, FS_RemoveElement
<1>4. Before(i) = 1 .. p
  BY DEF Before
<1>5. ASSUME NEW m \in 1 .. p
      PROVE  wire[i][m] \in Calls \ {c} /\ \A l \in 1 .. p : wire[i][l] = wire[i][m] => l = m
  BY <1>4 DEF ClientInv, TakenUp
<1>6. p <= Cardinality(Calls \ {c})
  <2>1. \A m \in 1 .. p : wire[i][m] \in Calls \ {c}
    BY <1>5
  <2>2. \A l, m \in 1 .. p : wire[i][l] = wire[i][m] => l = m
    BY <1>5
  <2>3. p \in Nat /\ IsFiniteSet(Calls \ {c})
    BY <1>2, <1>3
  <2>4. \A U, w : /\ IsFiniteSet(U) /\ (\A m \in 1 .. p : w[m] \in U)
                  /\ \A l, m \in 1 .. p : w[l] = w[m] => l = m
                  => p <= Cardinality(U)
    BY <2>3, NoFewer
  <2>5. \A w : /\ \A m \in 1 .. p : w[m] \in Calls \ {c}
               /\ \A l, m \in 1 .. p : w[l] = w[m] => l = m
               => p <= Cardinality(Calls \ {c})
    BY <2>3, <2>4
  <2>6. (\A m \in 1 .. p : wire[i][m] \in Calls \ {c}) /\ (\A l, m \in 1 .. p : wire[i][l] = wire[i][m] => l = m)
        => p <= Cardinality(Calls \ {c})
    BY <2>5, Zenon
  <2> QED BY <2>1, <2>2, <2>6
<1>7. n \in 1 .. Cardinality(Calls)
  BY <1>1, <1>2, <1>3, <1>6
<1> QED BY <1>7 DEF Ids

(* The header frame, with the number that is taken in the next step. *)
LEMMA WriteHeadersKeeps ==
  ASSUME ClientInv, NEW c \in Calls, WriteHeaders(c)
  PROVE  ClientInv'
<1>0. /\ call[c] \in CallState /\ call[c].pc = "headers" /\ call[c].pc \in AtWork /\ Holds(c)
      /\ UNCHANGED <<cc, mon>>
  BY DEF ClientInv, TypeInv, WriteHeaders, AtWork, Holds
<1> PICK i \in Transports : i = call[c].t
  BY <1>0, AtTransport
<1>1. /\ call \in [Calls -> CallState] /\ tr \in [Transports -> TransportState]
      /\ wire \in [Transports -> [Ids -> Calls \cup {None}]]
      /\ srv \in [Transports -> [Ids -> {"idle", "open", "headers", "data", "status", "reset"}]]
  BY DEF ClientInv, TypeInv
<1>2. CASE /\ tr' = [tr EXCEPT ![i].writable = TRUE] /\ Goes(c, Fail(call[c], "context"))
           /\ UNCHANGED <<wire, srv>>
  <2> PICK k0 \in TransportState : k0 = tr[i]
    BY <1>1
  <2> PICK k : k = [k0 EXCEPT !.writable = TRUE]
    OBVIOUS
  <2>1. k \in TransportState /\ k.nextID = k0.nextID
    BY DEF TransportState
  <2>2. tr' = [tr EXCEPT ![i] = k]
    BY <1>1, <1>2
  <2> PICK e : e = Fail(call[c], "context")
    OBVIOUS
  <2>3. Alike(c, e, call[c]) /\ call' = [call EXCEPT ![c] = e]
    BY <1>0, <1>2, Endings DEF Goes
  <2>4. e.pc = "done"
    BY <1>0 DEF Fail, Done, CallState
  <2>5. call'[c].pc = "done"
    BY <1>1, <2>3, <2>4
  <2>6. Released(i)
    BY <1>0, <2>5 DEF Released
  <2>7. TransportsKept
    BY <2>1, <2>2, <2>6, OneTransport
  <2> QED BY <1>0, <1>2, <2>3, <2>7, CallStep DEF Goes
<1>3. CASE /\ tr' = [tr EXCEPT ![i] = notifyError(@)] /\ Goes(c, Again(c, call[c])) /\ UNCHANGED <<wire, srv>>
  <2> PICK k : k = notifyError(tr[i])
    OBVIOUS
  <2>1. k \in TransportState /\ k.nextID = tr[i].nextID /\ k.writable = tr[i].writable
    BY <1>1, TransportEdits
  <2>2. tr' = [tr EXCEPT ![i] = k]
    BY <1>1, <1>3
  <2>3. TransportsKept
    BY <2>1, <2>2, OneTransport
  <2> QED BY <1>0, <1>3, <2>3, Endings, CallStep
<1>4. CASE /\ wire' = [wire EXCEPT ![i][tr[i].nextID] = c]
           /\ srv' = [srv EXCEPT ![i][tr[i].nextID] = "open"]
           /\ Goes(c, [call[c] EXCEPT !.pc = "register"]) /\ UNCHANGED tr
  <2> PICK n : n = tr[i].nextID
    OBVIOUS
  <2>1. n \in Ids /\ n \in Nat
    BY <1>0, NumberLeft DEF Ids
  <2> PICK k : k = [call[c] EXCEPT !.pc = "register"]
    OBVIOUS
  <2>2. /\ k \in CallState /\ k.pc = "register" /\ k.t = i /\ k.id = call[c].id /\ k.ts = call[c].ts
        /\ k.got = call[c].got /\ k.buf = call[c].buf
    BY <1>0 DEF CallState, AtWork
  <2>3. /\ call' \in [Calls -> CallState] /\ call'[c] = k
        /\ \A d \in Calls : d # c => call'[d] = call[d]
    BY <1>1, <1>4, <2>2 DEF Goes
  <2>4. \A d \in Calls : call'[d].t = call[d].t /\ call'[d].id = call[d].id /\ call'[d].ts = call[d].ts
    BY <2>2, <2>3
  <2>5. /\ wire' \in [Transports -> [Ids -> Calls \cup {None}]] /\ wire'[i][n] = c
        /\ \A j \in Transports : \A m \in Ids : j # i \/ m # n => wire'[j][m] = wire[j][m]
    BY <1>1, <1>4, <2>1
  <2>6. srv' \in [Transports -> [Ids -> {"idle", "open", "headers", "data", "status", "reset"}]]
    BY <1>1, <1>4, <2>1
  <2>7. TypeInv'
    <3>1. \A d \in Calls : call[d].pc \in AtWork => call[d].t # 0
      BY DEF ClientInv, TypeInv
    <3>2. \A d \in Calls : call'[d].pc \in AtWork => call'[d].t # 0
      BY <1>0, <2>3, <2>4, <3>1
    <3> QED BY <1>0, <1>4, <2>3, <2>5, <2>6, <3>2 DEF ClientInv, TypeInv
  <2>8. \A d \in Calls : Holds(d)' => Holds(d)
    BY <1>0, <2>3 DEF Holds
  <2>9. Exclusive'
    <3> SUFFICES ASSUME NEW d \in Calls, Holds(d)'
                 PROVE  ~tr[call[d].t].writable /\ \A e \in Calls : Holds(e)' /\ call[e].t = call[d].t => e = d
      BY <1>4, <2>4, Zenon DEF Exclusive, T
    <3>1. ~tr[call[d].t].writable /\ \A e \in Calls : Holds(e) /\ call[e].t = call[d].t => e = d
      BY <2>8, Zenon DEF ClientInv, Exclusive, T
    <3> QED BY <2>8, <3>1
  <2>10. Claimed'
    <3> SUFFICES ASSUME NEW d \in Calls, call'[d].pc = "register"
                 PROVE  tr[call[d].t].nextID \in Ids /\ wire'[call[d].t][tr[call[d].t].nextID] = d
      BY <1>4, <2>4, Zenon DEF Claimed, T, Ids
    <3>1. CASE d = c
      BY <2>1, <2>5, <3>1
    <3>2. CASE d # c
      <4>1. call[d].pc = "register" /\ Holds(d)
        BY <2>3, <3>2 DEF Holds
      <4>2. tr[call[d].t].nextID \in Ids /\ wire[call[d].t][tr[call[d].t].nextID] = d
        BY <4>1, Zenon DEF ClientInv, Claimed, T
      <4>3. call[d].t # i
        BY <1>0, <3>2, <4>1 DEF ClientInv, Exclusive
      <4>4. call[d].t \in Transports
        BY <4>1, AtTransport DEF AtWork
      <4> QED BY <2>5, <4>2, <4>3, <4>4
    <3> QED BY <3>1, <3>2
  <2>11. Numbered'
    <3> SUFFICES ASSUME NEW d \in Calls, call[d].id # 0
                 PROVE  call[d].t # 0 /\ call[d].id < tr[call[d].t].nextID /\ wire'[call[d].t][call[d].id] = d
      BY <1>4, <2>4, Zenon DEF Numbered, T
    <3> PICK u, m : u = call[d].t /\ m = call[d].id
      OBVIOUS
    <3>1. u # 0 /\ m < tr[u].nextID /\ wire[u][m] = d
      BY Zenon DEF ClientInv, Numbered, T
    <3>2. u \in Transports /\ m \in Nat /\ m # 0
      BY <1>1, <3>1, GrpcClientAssumption DEF CallState, Transports
    <3>3. m \in Before(u) /\ (u = i => m # n)
      <4>1. tr[u].nextID \in Nat
        BY <1>1, <3>2 DEF TransportState
      <4> QED BY <3>1, <3>2, <4>1 DEF Before
    <3>4. m \in Ids
      BY <3>2, <3>3 DEF ClientInv, TakenUp
    <3> QED BY <2>5, <3>1, <3>2, <3>3, <3>4
  <2>12. TakenUp'
    <3> SUFFICES ASSUME NEW j \in Transports, NEW m \in Before(j)
                 PROVE  /\ m \in Ids /\ wire'[j][m] \in Calls
                        /\ \A l \in Before(j) : wire'[j][l] = wire'[j][m] => l = m
                        /\ \A d \in Calls : wire'[j][m] = d =>
                              j <= call'[d].t
                              /\ (call'[d].t = j => call'[d].pc \notin {"writable", "headers", "register"})
      BY <1>4, Zenon DEF TakenUp, Before, Ids
    <3>1. ASSUME NEW l \in Before(j) PROVE l \in Ids /\ wire'[j][l] = wire[j][l]
      <4>1. l \in Ids
        BY DEF ClientInv, TakenUp
      <4>2. j = i => l # n
        BY <2>1 DEF Before
      <4> QED BY <2>5, <4>1, <4>2
    <3>2. /\ m \in Ids /\ wire[j][m] \in Calls
          /\ \A l \in Before(j) : wire[j][l] = wire[j][m] => l = m
          /\ \A d \in Calls : wire[j][m] = d =>
                j <= call[d].t /\ (call[d].t = j => call[d].pc \notin {"writable", "headers", "register"})
      BY Zenon DEF ClientInv, TakenUp
    <3>3. ASSUME NEW d \in Calls, wire[j][m] = d, call[d].t = j
          PROVE  call'[d].pc \notin {"writable", "headers", "register"}
      <4>1. call[d].pc \notin {"writable", "headers", "register"}
        BY <3>2, <3>3
      <4>2. d # c
        BY <1>0, <4>1
      <4> QED BY <2>3, <4>1, <4>2
    <3> QED BY <2>4, <3>1, <3>2, <3>3
  <2>13. Later'
    BY <1>0, <1>4, <2>4, Zenon DEF ClientInv, Later
  <2>14. Answered'
    <3>1. \A d \in Calls : OwnItems(d, call[d])
      BY DEF ClientInv, Answered
    <3>2. OwnItems(c, k)
      BY <2>2, <3>1 DEF OwnItems
    <3>3. \A d \in Calls : OwnItems(d, call'[d])
      BY <2>3, <3>1, <3>2
    <3> QED BY <3>3, Zenon DEF Answered, OwnItems
  <2> QED BY <2>7, <2>9, <2>10, <2>11, <2>12, <2>13, <2>14, Zenon DEF ClientInv
<1> QED BY <1>0, <1>2, <1>3, <1>4, Zenon DEF WriteHeaders, T

\* What is left of a call when an attempt ends.
LEMMA Ended ==
  ASSUME NEW c \in Calls, NEW k \in CallState, NEW err \in {"connection", "closing", "context", "limit", "status", "streamError"},
         NEW e \in {Again(c, k), Fail(k, err)}
  PROVE  /\ e \in CallState /\ e.pc \in {"wait", "done"} /\ e.t = k.t /\ e.ts = k.ts /\ e.id = k.id
         /\ e.got = k.got /\ e.buf = k.buf
<1>1. Alike(c, e, k)
  BY Endings
<1>2. e.pc \in {"wait", "done"} /\ e.got = k.got /\ e.buf = k.buf
  BY DEF Again, Fail, Done, CallState
<1> QED BY <1>1, <1>2 DEF Alike, Near

(* The number is taken, by the call whose header frame had it. *)
LEMMA RegisterKeeps ==
  ASSUME ClientInv, NEW c \in Calls, Register(c)
  PROVE  ClientInv'
<1>0. /\ call[c] \in CallState /\ call[c].pc = "register" /\ call[c].pc \in AtWork /\ Holds(c)
      /\ UNCHANGED <<cc, mon, wire, srv>>
  BY DEF ClientInv, TypeInv, Register, AtWork, Holds
<1> PICK i \in Transports : i = call[c].t
  BY <1>0, AtTransport
<1>1. /\ call \in [Calls -> CallState] /\ tr \in [Transports -> TransportState]
  BY DEF ClientInv, TypeInv
<1> PICK n : n = tr[i].nextID
  OBVIOUS
<1> PICK n2 : n2 = n + 1
  OBVIOUS
<1>2. n \in Nat /\ n # 0 /\ n \in Ids /\ wire[i][n] = c /\ n2 \in Nat \ {0} /\ n < n2
  <2>1. n \in Nat \ {0}
    BY <1>1 DEF TransportState
  <2> QED BY <1>0, <2>1 DEF ClientInv, Claimed, T
<1>3. ASSUME NEW q \in TransportState, q.nextID = n2, tr' = [tr EXCEPT ![i] = q],
             NEW k \in CallState, k.pc \in {"wait", "done", "write"}, k.t = i, k.ts = call[c].ts,
             k.id = call[c].id \/ k.id = n, k.got = call[c].got, k.buf = call[c].buf, Goes(c, k)
      PROVE  ClientInv'
  <2>1. /\ call' \in [Calls -> CallState] /\ call'[c] = k
        /\ \A d \in Calls : d # c => call'[d] = call[d]
    BY <1>1, <1>3 DEF Goes
  <2>2. /\ tr' \in [Transports -> TransportState] /\ tr'[i].nextID = n2
        /\ \A j \in Transports : j # i => tr'[j] = tr[j]
    BY <1>1, <1>3
  <2>3. \A d \in Calls : call'[d].t = call[d].t /\ call'[d].ts = call[d].ts
    BY <1>3, <2>1
  <2>4. TypeInv'
    <3>1. \A d \in Calls : call[d].pc \in AtWork => call[d].t # 0
      BY DEF ClientInv, TypeInv
    <3>2. \A d \in Calls : call'[d].pc \in AtWork => call'[d].t # 0
      BY <1>0, <2>1, <2>3, <3>1
    <3> QED BY <1>0, <2>1, <2>2, <3>2 DEF ClientInv, TypeInv
  <2>5. ASSUME NEW d \in Calls, Holds(d)'
        PROVE  d # c /\ Holds(d) /\ call'[d] = call[d] /\ call[d].t \in Transports /\ call[d].t # i
    <3>1. d # c
      BY <1>3, <2>1, <2>5 DEF Holds
    <3>2. call'[d] = call[d] /\ Holds(d)
      BY <2>1, <2>5, <3>1 DEF Holds
    <3>3. call[d].t # i
      BY <1>0, <3>1, <3>2 DEF ClientInv, Exclusive
    <3> QED BY <3>1, <3>2, <3>3, AtTransport DEF Holds, AtWork
  <2>6. Exclusive'
    <3> SUFFICES ASSUME NEW d \in Calls, Holds(d)'
                 PROVE  ~tr'[call'[d].t].writable /\ \A e \in Calls : Holds(e)' /\ call'[e].t = call'[d].t => e = d
      BY Zenon DEF Exclusive, T
    <3>1. ~tr[call[d].t].writable /\ \A e \in Calls : Holds(e) /\ call[e].t = call[d].t => e = d
      BY <2>5, Zenon DEF ClientInv, Exclusive, T
    <3>2. ~tr'[call'[d].t].writable
      BY <2>2, <2>5, <3>1
    <3>3. ASSUME NEW e \in Calls, Holds(e)', call'[e].t = call'[d].t PROVE e = d
      BY <2>3, <2>5, <3>1, <3>3
    <3> QED BY <3>2, <3>3
  <2>7. Claimed'
    <3> SUFFICES ASSUME NEW d \in Calls, call'[d].pc = "register"
                 PROVE  tr'[call'[d].t].nextID \in Ids /\ wire[call'[d].t][tr'[call'[d].t].nextID] = d
      BY <1>0, Zenon DEF Claimed, T, Ids
    <3>1. call'[d] = call[d] /\ call[d].t \in Transports /\ call[d].t # i
      BY <2>5 DEF Holds
    <3>2. tr[call[d].t].nextID \in Ids /\ wire[call[d].t][tr[call[d].t].nextID] = d
      BY <3>1, Zenon DEF ClientInv, Claimed, T
    <3> QED BY <2>2, <3>1, <3>2
  <2>8. ASSUME NEW d \in Calls, call'[d].id # 0
        PROVE  /\ call'[d].t # 0 /\ call'[d].id < tr'[call'[d].t].nextID
               /\ wire[call'[d].t][call'[d].id] = d
    <3>1. CASE d = c /\ k.id = n
      BY <1>2, <1>3, <2>1, <2>2, <3>1 DEF Transports
    <3>2. CASE call'[d].id = call[d].id
      <4> PICK u, m : u = call[d].t /\ m = call[d].id
        OBVIOUS
      <4>1. u # 0 /\ m < tr[u].nextID /\ wire[u][m] = d
        BY <2>8, <3>2, Zenon DEF ClientInv, Numbered, T
      <4>2. u \in Transports /\ m \in Nat
        BY <1>1, <4>1, GrpcClientAssumption DEF CallState, Transports
      <4>3. m < tr'[u].nextID
        <5>1. CASE u = i
          BY <1>2, <2>2, <4>1, <4>2, <5>1
        <5>2. CASE u # i
          BY <2>2, <4>1, <4>2, <5>2
        <5> QED BY <5>1, <5>2
      <4> QED BY <2>3, <3>2, <4>1, <4>3
    <3> QED BY <1>3, <2>1, <3>1, <3>2
  <2>9. Numbered'
    BY <1>0, <2>8, Zenon DEF Numbered, T
  <2>10. ASSUME NEW j \in Transports, NEW m \in 1 .. tr'[j].nextID - 1
         PROVE  m \in Before(j) \/ (j = i /\ m = n)
    <3>1. CASE j = i
      BY <1>2, <2>2, <2>10, <3>1 DEF Before
    <3>2. CASE j # i
      BY <2>2, <2>10, <3>2 DEF Before
    <3> QED BY <3>1, <3>2
  <2>11. ASSUME NEW j \in Transports, NEW m \in Before(j)
         PROVE  /\ m \in Ids /\ wire[j][m] \in Calls
                /\ \A l \in Before(j) : wire[j][l] = wire[j][m] => l = m
                /\ \A d \in Calls : wire[j][m] = d =>
                      j <= call[d].t /\ (call[d].t = j => call[d].pc \notin {"writable", "headers", "register"})
                /\ j = i => wire[j][m] # c
    <3>1. /\ m \in Ids /\ wire[j][m] \in Calls
          /\ \A l \in Before(j) : wire[j][l] = wire[j][m] => l = m
          /\ \A d \in Calls : wire[j][m] = d =>
                j <= call[d].t /\ (call[d].t = j => call[d].pc \notin {"writable", "headers", "register"})
      BY Zenon DEF ClientInv, TakenUp
    <3> QED BY <1>0, <3>1
  <2>12. TakenUp'
    <3> SUFFICES ASSUME NEW j \in Transports, NEW m \in 1 .. tr'[j].nextID - 1
                 PROVE  /\ m \in Ids /\ wire[j][m] \in Calls
                        /\ \A l \in 1 .. tr'[j].nextID - 1 : wire[j][l] = wire[j][m] => l = m
                        /\ \A d \in Calls : wire[j][m] = d =>
                              j <= call'[d].t
                              /\ (call'[d].t = j => call'[d].pc \notin {"writable", "headers", "register"})
      BY <1>0, Zenon DEF TakenUp, Before, Ids
    <3>1. m \in Ids /\ wire[j][m] \in Calls
      BY <1>2, <2>10, <2>11
    <3>2. ASSUME NEW l \in 1 .. tr'[j].nextID - 1, wire[j][l] = wire[j][m] PROVE l = m
      <4>1. (m \in Before(j) \/ (j = i /\ m = n)) /\ (l \in Before(j) \/ (j = i /\ l = n))
        BY <2>10
      <4> QED BY <1>2, <2>11, <3>2, <4>1
    <3>3. ASSUME NEW d \in Calls, wire[j][m] = d
          PROVE  j <= call'[d].t /\ (call'[d].t = j => call'[d].pc \notin {"writable", "headers", "register"})
      <4>1. CASE m \in Before(j)
        <5>1. j <= call[d].t /\ (call[d].t = j => call[d].pc \notin {"writable", "headers", "register"})
          BY <2>11, <3>3, <4>1
        <5> QED BY <1>3, <2>1, <2>3, <5>1
      <4>2. CASE j = i /\ m = n
        BY <1>2, <1>3, <2>1, <3>3, <4>2 DEF Transports
      <4> QED BY <2>10, <4>1, <4>2
    <3> QED BY <3>1, <3>2, <3>3
  <2>13. Later'
    <3>1. /\ cc.cur <= mon.made /\ (mon.pc = "install" => cc.cur < mon.made)
          /\ \A j \in Transports : j > mon.made => tr[j].nextID = 1
          /\ \A d \in Calls : call[d].t <= cc.cur /\ (call[d].t = cc.cur => call[d].ts >= cc.seq)
      BY DEF ClientInv, Later
    <3>2. ~(i > mon.made)
      <4>1. i <= cc.cur /\ cc.cur <= mon.made
        BY <3>1
      <4>2. cc.cur \in Nat /\ mon.made \in Nat
        BY DEF ClientInv, TypeInv, Transports
      <4> QED BY <4>1, <4>2 DEF Transports
    <3>3. \A j \in Transports : j > mon.made => tr'[j].nextID = 1
      BY <2>2, <3>1, <3>2
    <3>4. \A d \in Calls : call'[d].t <= cc.cur /\ (call'[d].t = cc.cur => call'[d].ts >= cc.seq)
      BY <2>3, <3>1
    <3> QED BY <1>0, <3>1, <3>3, <3>4, Zenon DEF Later
  <2>14. Answered'
    <3>1. \A d \in Calls : OwnItems(d, call[d])
      BY DEF ClientInv, Answered
    <3>2. OwnItems(c, k)
      BY <1>3, <3>1 DEF OwnItems
    <3>3. \A d \in Calls : OwnItems(d, call'[d])
      BY <2>1, <3>1, <3>2
    <3> QED BY <3>3, Zenon DEF Answered, OwnItems
  <2> QED BY <2>4, <2>6, <2>7, <2>9, <2>12, <2>13, <2>14, Zenon DEF ClientInv
<1>4. tr[i] \in TransportState /\ tr[i].active \in SUBSET Calls
  BY <1>1 DEF TransportState
<1>5. CASE tr' = [tr EXCEPT ![i].nextID = n + 1] /\ Goes(c, Again(c, call[c]))
  <2> PICK q : q = [tr[i] EXCEPT !.nextID = n2]
    OBVIOUS
  <2>1. q \in TransportState /\ q.nextID = n2
    BY <1>2, <1>4 DEF TransportState
  <2>2. tr' = [tr EXCEPT ![i] = q]
    BY <1>1, <1>5
  <2> PICK k \in {Again(c, call[c]), Fail(call[c], "limit")} : k = Again(c, call[c])
    OBVIOUS
  <2>3. /\ k \in CallState /\ k.pc \in {"wait", "done"} /\ k.t = i /\ k.ts = call[c].ts /\ k.id = call[c].id
        /\ k.got = call[c].got /\ k.buf = call[c].buf
    BY <1>0, Ended
  <2>4. Goes(c, k)
    BY <1>5
  <2> QED BY <1>3, <2>1, <2>2, <2>3, <2>4
<1>6. CASE /\ tr' = [tr EXCEPT ![i].nextID = n + 1, ![i].writable = TRUE]
           /\ Goes(c, Fail(call[c], "limit"))
  <2> PICK q : q = [tr[i] EXCEPT !.nextID = n2, !.writable = TRUE]
    OBVIOUS
  <2>1. q \in TransportState /\ q.nextID = n2
    BY <1>2, <1>4 DEF TransportState
  <2>2. tr' = [tr EXCEPT ![i] = q]
    BY <1>1, <1>6
  <2> QED BY <1>0, <1>3, <1>6, <2>1, <2>2, Ended
<1>7. CASE /\ tr' = [tr EXCEPT ![i].nextID = n + 1, ![i].writable = TRUE, ![i].active = @ \cup {c}]
           /\ Goes(c, [call[c] EXCEPT !.pc = "write", !.id = n])
  <2> PICK a : a = tr[i].active \cup {c}
    OBVIOUS
  <2> PICK q : q = [tr[i] EXCEPT !.nextID = n2, !.writable = TRUE, !.active = a]
    OBVIOUS
  <2>1. a \in SUBSET Calls
    BY <1>4
  <2>2. q \in TransportState /\ q.nextID = n2
    BY <1>2, <1>4, <2>1 DEF TransportState
  <2>3. tr' = [tr EXCEPT ![i] = q]
    BY <1>1, <1>7
  <2> PICK k : k = [call[c] EXCEPT !.pc = "write", !.id = n]
    OBVIOUS
  <2>4. /\ k \in CallState /\ k.pc = "write" /\ k.t = i /\ k.ts = call[c].ts /\ k.id = n
        /\ k.got = call[c].got /\ k.buf = call[c].buf
    BY <1>0, <1>2 DEF CallState, AtWork
  <2> QED BY <1>3, <1>7, <2>2, <2>3, <2>4
<1> QED BY <1>0, <1>5, <1>6, <1>7, Zenon DEF Register

-----------------------------------------------------------------------------
(* The theorem. *)

\* Dial has returned and no call is made.
LEMMA ClientInitially == Init => ClientInv
<1> SUFFICES ASSUME Init PROVE ClientInv
  OBVIOUS
<1>1. NewTransport \in TransportState /\ NoTransport \in TransportState
  <2>1. NewTransport \in TransportState
    BY DEF NewTransport, TransportState
  <2>2. NoTransport \in TransportState
    BY <2>1 DEF NoTransport, TransportState
  <2> QED BY <2>1, <2>2
<1>2. NewTransport.nextID = 1 /\ NoTransport.nextID = 1
  BY DEF NewTransport, NoTransport
<1>3. NewCall \in CallState
  BY GrpcClientAssumption DEF NewCall, CallState
<1>4. /\ NewCall.pc = "idle" /\ NewCall.t = 0 /\ NewCall.id = 0 /\ NewCall.ts = 0
      /\ NewCall.buf = <<>> /\ NewCall.got = {}
  BY DEF NewCall
<1>5. 1 \in Transports /\ \A i \in Transports : i \in Nat /\ i # 0
  BY GrpcClientAssumption DEF Transports
<1>6. /\ tr \in [Transports -> TransportState] /\ \A i \in Transports : tr[i].nextID = 1
  BY <1>1, <1>2, <1>5 DEF Init
<1>7. call \in [Calls -> CallState] /\ \A c \in Calls : call[c] = NewCall
  BY <1>3 DEF Init
<1>8. /\ cc \in [seq : Nat, cur : Transports, closing : BOOLEAN] /\ cc.seq = 1 /\ cc.cur = 1
      /\ mon \in [pc : {"watch", "reset", "close", "dial", "install", "ended"}, ts : Nat,
                  close : BOOLEAN, made : Transports, fails : Nat] /\ mon.made = 1 /\ mon.pc = "watch"
  BY <1>5 DEF Init
<1>9. TypeInv
  <2>1. /\ wire \in [Transports -> [Ids -> Calls \cup {None}]]
        /\ srv \in [Transports -> [Ids -> {"idle", "open", "headers", "data", "status", "reset"}]]
    BY DEF Init
  <2>2. \A c \in Calls : call[c].pc \in AtWork => call[c].t # 0
    BY <1>4, <1>7 DEF AtWork
  <2> QED BY <1>6, <1>7, <1>8, <2>1, <2>2 DEF TypeInv
<1>10. Exclusive /\ Claimed
  BY <1>4, <1>7 DEF Exclusive, Claimed, Holds
<1>11. Numbered
  BY <1>4, <1>7 DEF Numbered
<1>12. TakenUp
  <2>1. \A i \in Transports : Before(i) = {}
    BY <1>6 DEF Before
  <2> QED BY <2>1 DEF TakenUp
<1>13. Later
  BY <1>4, <1>5, <1>6, <1>7, <1>8 DEF Later
<1>14. Answered
  BY <1>4, <1>7 DEF Answered, OwnItems
<1> QED BY <1>9, <1>10, <1>11, <1>12, <1>13, <1>14 DEF ClientInv

\* Nothing happens at all.
LEMMA ClientStuttering == ClientInv /\ UNCHANGED vars => ClientInv'
<1> SUFFICES ASSUME ClientInv, cc' = cc, mon' = mon, tr' = tr, call' = call, wire' = wire, srv' = srv
             PROVE  ClientInv'
  BY DEF vars
<1> USE DEF ClientInv
<1>1. TypeInv'
  BY Zenon DEF TypeInv
<1>2. Exclusive'
  BY Zenon DEF Exclusive, Holds, T
<1>3. Claimed' /\ Numbered'
  BY Zenon DEF Claimed, Numbered, T, Ids
<1>4. TakenUp'
  BY DEF TakenUp, Before, Ids
<1>5. Later' /\ Answered'
  BY Zenon DEF Later, Answered, OwnItems
<1> QED BY <1>1, <1>2, <1>3, <1>4, <1>5

\* Every step preserves the invariant.
LEMMA ClientStep == ClientInv /\ [Next]_vars => ClientInv'
<1> SUFFICES ASSUME ClientInv, Next PROVE ClientInv'
  BY ClientStuttering
<1>1. ASSUME NEW i \in Transports, Reader(i) \/ Break(i) \/ controller(i) PROVE ClientInv'
  BY <1>1, ReaderKeeps, ConnectionKeeps
<1>2. CASE Replace \/ Close
  BY <1>2, MonitorKeeps
<1>3. ASSUME NEW c \in Calls, Start(c) \/ Expire(c) PROVE ClientInv'
  BY <1>3, StartKeeps
<1>4. ASSUME NEW c \in Calls, Call(c) PROVE ClientInv'
  BY <1>4, WaitKeeps, StartKeeps, NewStreamKeeps, WriteHeadersKeeps, RegisterKeeps, WriteKeeps,
     HeaderKeeps, RecvKeeps DEF Call
<1> QED BY <1>1, <1>2, <1>3, <1>4, Zenon DEF Next

(***************************************************************************)
(* Whatever the server sends, however calls and transports interleave, and *)
(* however often the connection is lost and made again, a call receives    *)
(* only messages for the request it sent, and the number its stream has is *)
(* the number it wrote into its header frame (Write and NewStream of       *)
(* http2_client.go, Invoke of call.go).                                    *)
(***************************************************************************)
THEOREM AnswersAreOwn == Spec => []OwnAnswer
<1>1. ClientInv => OwnAnswer
  BY Zenon DEF ClientInv, Answered, OwnItems, Numbered, OwnAnswer
<1> QED BY <1>1, ClientInitially, ClientStep, PTL DEF Spec

-----------------------------------------------------------------------------
(* A connection of the server. *)

Pools == [c : Nat, quota : Nat]
Pieces == {"data", "part", "bad", "eof", "closing"}
StreamType == [state : {"none", "active", "readDone", "done"}, locked : BOOLEAN, done : BOOLEAN,
               headerOk : BOOLEAN, pool : Pools, buf : Seq(Pieces)]
TransportType == [state : {"reachable", "closing"}, active : SUBSET Streams, maxStreams : Nat,
                  maxStreamID : Nat, writer : Streams \cup {NoStream}, pool : Pools, control : Nat]
HandlerType == [pc : PCs, unary : BOOLEAN, then : {"recv", "end"}, todo : Nat, writes : Nat, sq : Nat, frame : Nat]

ServerType ==
    /\ t \in TransportType
    /\ st \in [Streams -> StreamType]
    /\ h \in [Streams -> HandlerType]
    /\ rst \in {NoStream} \cup [id : Streams, pc : {"mark", "close"}]
    /\ granted \in [Streams \cup {0} -> Nat]
    /\ written \in [Streams -> [bytes : Nat, ends : Nat, late : BOOLEAN]]

\* A frame waits to be written within the message it is cut from.
FrameFits == \A i \in Streams : h[i].pc = "writeWait" => h[i].frame <= h[i].todo

\* A stream whose END_STREAM is on the wire has a handler that writes no other.
\* Only a unary call goes on, with a further message: it writes for a second time.
Writing == {"header", "headerWait", "loop", "streamQuota", "quota", "cancel", "writeWait"}
HasEnded(i) ==
    /\ h[i].pc = "close" \/ st[i].state = "done"
    /\ h[i].pc \notin {"none", "statusWait"}
    /\ h[i].unary \/ h[i].pc \in {"close", "end"}
    /\ h[i].pc \in {"recv", "rest", "run"} => h[i].writes > 0
    /\ h[i].pc \in Writing => h[i].writes > 1

\* What is true of a handler before and after it.
GoesOn(i) ==
    /\ h[i].then = "recv" => h[i].pc # "none" /\ h[i].unary /\ h[i].writes > 0
    /\ written[i].late => h[i].pc # "none" /\ h[i].unary /\ h[i].writes > 1

EndedInv ==
    \A i \in Streams : /\ h[i].pc # "none" => i <= t.maxStreamID
                       /\ written[i].ends = 0 \/ (written[i].ends = 1 /\ HasEnded(i))
                       /\ GoesOn(i)

-----------------------------------------------------------------------------

\* Quota pools: what is added is there, what is cancelled stays.
LEMMA AddPool ==
  ASSUME NEW p \in Pools, NEW n \in Nat
  PROVE  add(p, n) \in Pools /\ Total(add(p, n)) = Total(p) + n
BY DEF Pools, add, Total

LEMMA AddNothing ==
  ASSUME NEW p \in Pools
  PROVE  Total(add(p, 0)) = Total(p)
BY DEF Pools, add, Total

LEMMA CancelPool ==
  ASSUME NEW p \in Pools
  PROVE  cancel(p) \in Pools /\ Total(cancel(p)) = Total(p)
BY DEF Pools, cancel, Total

\* The quota taken out of the channel.
LEMMA TakePool ==
  ASSUME NEW p \in Pools
  PROVE  /\ [p EXCEPT !.c = 0] \in Pools
         /\ Total([p EXCEPT !.c = 0]) = Total(p) - p.c
         /\ p.c \in Nat /\ Total(p) \in Nat
BY DEF Pools, Total

LEMMA LeastOfFour ==
  ASSUME NEW a \in Nat, NEW b \in Nat, NEW c \in Nat, NEW d \in Nat
  PROVE  LET n == Least({a, b, c, d}) IN n \in Nat /\ n <= a /\ n <= b /\ n <= c
<1>1. \E n \in {a, b, c, d} : \A m \in {a, b, c, d} : n <= m
  <2>1. \E n \in {a, b} : n <= a /\ n <= b
    OBVIOUS
  <2>2. \E n \in {c, d} : n <= c /\ n <= d
    OBVIOUS
  <2> QED
    BY <2>1, <2>2
<1> QED
  BY <1>1 DEF Least

-----------------------------------------------------------------------------
\* The handler of a stream: what a step makes of its record.
LEMMA HandlerUpdates ==
  ASSUME NEW k \in HandlerType, NEW pc \in PCs, NEW n \in Nat, NEW m \in Nat, NEW q \in {"recv", "end"},
         NEW u \in BOOLEAN
  PROVE  /\ [k EXCEPT !.pc = pc] \in HandlerType
         /\ [k EXCEPT !.pc = pc, !.unary = u] \in HandlerType
         /\ [k EXCEPT !.pc = pc, !.then = q] \in HandlerType
         /\ [k EXCEPT !.pc = pc, !.todo = n, !.writes = m, !.then = q] \in HandlerType
         /\ [k EXCEPT !.pc = pc, !.sq = n] \in HandlerType
         /\ [k EXCEPT !.pc = pc, !.frame = n, !.sq = 0] \in HandlerType
         /\ [k EXCEPT !.pc = pc, !.todo = n, !.frame = 0] \in HandlerType
BY DEF HandlerType

\* Most steps only move a handler on.
Moves(i, p) == h' = [h EXCEPT ![i].pc = p] \/ Finish(i, p)

LEMMA Moved ==
  ASSUME h \in [Streams -> HandlerType], NEW i \in Streams, NEW p \in PCs, Moves(i, p)
  PROVE  /\ h' \in [Streams -> HandlerType]
         /\ h'[i].pc = p /\ h'[i].then \in {h[i].then, "end"} /\ h'[i].unary = h[i].unary
         /\ h'[i].todo = h[i].todo /\ h'[i].writes = h[i].writes /\ h'[i].sq = h[i].sq /\ h'[i].frame = h[i].frame
         /\ \A j \in Streams \ {i} : h'[j] = h[j]
<1>1. h[i] \in HandlerType
  OBVIOUS
<1>2. \/ h' = [h EXCEPT ![i] = [h[i] EXCEPT !.pc = p]]
      \/ h' = [h EXCEPT ![i] = [h[i] EXCEPT !.pc = p, !.then = "end"]]
  BY DEF Moves, Finish
<1>3. /\ [h[i] EXCEPT !.pc = p] \in HandlerType
      /\ [h[i] EXCEPT !.pc = p, !.then = "end"] \in HandlerType
  BY <1>1, HandlerUpdates
<1>4. CASE h' = [h EXCEPT ![i] = [h[i] EXCEPT !.pc = p]]
  <2>1. h'[i] = [h[i] EXCEPT !.pc = p] /\ \A j \in Streams \ {i} : h'[j] = h[j]
    BY <1>4
  <2>2. h' \in [Streams -> HandlerType]
    BY <1>3, <1>4
  <2> QED
    BY <1>1, <2>1, <2>2 DEF HandlerType
<1>5. CASE h' = [h EXCEPT ![i] = [h[i] EXCEPT !.pc = p, !.then = "end"]]
  <2>1. h'[i] = [h[i] EXCEPT !.pc = p, !.then = "end"] /\ \A j \in Streams \ {i} : h'[j] = h[j]
    BY <1>5
  <2>2. h' \in [Streams -> HandlerType]
    BY <1>3, <1>5
  <2> QED
    BY <1>1, <2>1, <2>2 DEF HandlerType
<1> QED
  BY <1>2, <1>4, <1>5

\* Where each of these steps moves it.
LEMMA Moving ==
  ASSUME NEW i \in Streams, h[i].then \in {"recv", "end"}
  PROVE  /\ Receive(i) => \E p \in {"run", "rest", "status", "panic", "end"} : Moves(i, p)
         /\ WriteHeaderFrame(i) => \E p \in {"loop", "headerWait"} : Moves(i, p)
         /\ HeaderWait(i) => \E p \in {"loop", "end", "status"} : Moves(i, p)
         /\ WriteLoop(i) => \E p \in {"streamQuota", "status", "run"} : Moves(i, p)
         /\ QuotaRefused(i) => \E p \in {"end", "status", "cancel"} : Moves(i, p)
         /\ WriteFails(i) => \E p \in {"recv", "end", "status"} : Moves(i, p)
         /\ WriteStatus(i) => \E p \in {"recv", "end", "statusWait"} : Moves(i, p)
         /\ StatusWait(i) => \E p \in {"recv", "end", "close"} : Moves(i, p)
         /\ StatusWritten(i) => \E p \in {"recv", "end"} : Moves(i, p)
<1>1. \A p : GivesUpWrite(i, p) => Moves(i, p) \/ Moves(i, "end") \/ Moves(i, "status")
  BY DEF GivesUpWrite, Moves
<1>2. Receive(i) => \E p \in {"run", "rest", "status", "panic", "end"} : Moves(i, p)
  <2> SUFFICES ASSUME Receive(i) PROVE \E p \in {"run", "rest", "status", "panic", "end"} : Moves(i, p)
    OBVIOUS
  <2>1. \/ h' = [h EXCEPT ![i].pc = "run"] \/ h' = [h EXCEPT ![i].pc = "rest"]
        \/ \E p \in {"status", "panic", "end"} : Finish(i, p)
    BY DEF Receive
  <2> QED
    BY <2>1 DEF Moves
<1>3. WriteHeaderFrame(i) => \E p \in {"loop", "headerWait"} : Moves(i, p)
  BY DEF WriteHeaderFrame, Moves
<1>4. HeaderWait(i) => \E p \in {"loop", "end", "status"} : Moves(i, p)
  BY <1>1 DEF HeaderWait, Moves
<1>5. WriteLoop(i) => \E p \in {"streamQuota", "status", "run"} : Moves(i, p)
  BY DEF WriteLoop, Moves
<1>6. QuotaRefused(i) => \E p \in {"end", "status", "cancel"} : Moves(i, p)
  BY <1>1 DEF QuotaRefused, Moves
<1>7. WriteFails(i) => \E p \in {"recv", "end", "status"} : Moves(i, p)
  BY DEF WriteFails, Moves
<1>8. WriteStatus(i) => \E p \in {"recv", "end", "statusWait"} : Moves(i, p)
  BY DEF WriteStatus, Moves
<1>9. StatusWait(i) => \E p \in {"recv", "end", "close"} : Moves(i, p)
  BY DEF StatusWait, Moves
<1>10. StatusWritten(i) => \E p \in {"recv", "end"} : Moves(i, p)
  BY DEF StatusWritten, Moves
<1> QED
  BY <1>2, <1>3, <1>4, <1>5, <1>6, <1>7, <1>8, <1>9, <1>10

\* The transport and a stream, likewise.
LEMMA TransportUpdates ==
  ASSUME NEW k \in TransportType, NEW A \in SUBSET Streams, NEW n \in Nat, NEW p \in Pools,
         NEW w \in Streams \cup {NoStream}
  PROVE  /\ [k EXCEPT !.maxStreamID = n, !.control = @ + 1] \in TransportType
         /\ [k EXCEPT !.maxStreamID = n, !.active = A] \in TransportType
         /\ [k EXCEPT !.pool = p] \in TransportType
         /\ [k EXCEPT !.active = A] \in TransportType
         /\ [k EXCEPT !.active = A, !.writer = w] \in TransportType
         /\ [k EXCEPT !.writer = w] \in TransportType
         /\ [k EXCEPT !.control = n] \in TransportType
         /\ ServerClosed(k) \in TransportType /\ ServerClosed([k EXCEPT !.writer = w]) \in TransportType
<1>5. [k EXCEPT !.maxStreamID = n, !.control = @ + 1] \in TransportType
  <2>1. k.control + 1 \in Nat
    BY DEF TransportType
  <2> QED
    BY <2>1 DEF TransportType
<1>1. /\ [k EXCEPT !.maxStreamID = n, !.active = A] \in TransportType
      /\ [k EXCEPT !.pool = p] \in TransportType
      /\ [k EXCEPT !.control = n] \in TransportType
  BY DEF TransportType
<1>2. /\ [k EXCEPT !.active = A] \in TransportType
      /\ [k EXCEPT !.active = A, !.writer = w] \in TransportType
  BY DEF TransportType
<1>3. [k EXCEPT !.writer = w] \in TransportType
  BY DEF TransportType
<1>4. \A q \in TransportType : ServerClosed(q) \in TransportType
  BY DEF TransportType, ServerClosed
<1> QED
  BY <1>1, <1>2, <1>3, <1>4, <1>5

LEMMA StreamUpdates ==
  ASSUME NEW k \in StreamType, NEW s \in {"none", "active", "readDone", "done"}, NEW p \in Pools,
         NEW d \in BOOLEAN, NEW b \in Seq(Pieces)
  PROVE  /\ [k EXCEPT !.state = s] \in StreamType
         /\ [k EXCEPT !.buf = b, !.state = s] \in StreamType
         /\ [k EXCEPT !.buf = b] \in StreamType
         /\ [k EXCEPT !.pool = p] \in StreamType
         /\ [k EXCEPT !.pool.c = 0] \in StreamType
         /\ [k EXCEPT !.locked = TRUE] \in StreamType
         /\ [k EXCEPT !.state = s, !.done = TRUE] \in StreamType
         /\ [k EXCEPT !.done = TRUE] \in StreamType
         /\ [k EXCEPT !.headerOk = TRUE] \in StreamType
         /\ k.buf \in Seq(Pieces) /\ k.state \in {"none", "active", "readDone", "done"} /\ k.pool \in Pools
<1>1. [k.pool EXCEPT !.c = 0] \in Pools
  BY DEF StreamType, Pools
<1> QED
  BY <1>1 DEF StreamType

-----------------------------------------------------------------------------
\* The types, by action.
LEMMA ServerTypeParts ==
  ASSUME ServerType
  PROVE  /\ t \in TransportType /\ t.pool \in Pools /\ t.active \in SUBSET Streams
         /\ t.control \in Nat /\ t.maxStreamID \in Nat
         /\ \A i \in Streams : /\ st[i] \in StreamType /\ st[i].pool \in Pools /\ st[i].buf \in Seq(Pieces)
                               /\ h[i] \in HandlerType /\ h[i].pc \in PCs
                               /\ h[i].todo \in Nat /\ h[i].writes \in Nat /\ h[i].sq \in Nat /\ h[i].frame \in Nat
         /\ Streams \subseteq Nat \ {0} /\ 0 \notin Streams
BY GrpcTransportAssumption DEF ServerType, TransportType, StreamType, HandlerType

LEMMA NotifiedType ==
  ASSUME ServerType
  PROVE  /\ Notified \in [Streams -> StreamType]
         /\ \A i \in Streams : /\ Notified[i].pool = st[i].pool /\ Notified[i].state = st[i].state
                               /\ i \notin t.active => Notified[i] = st[i]
<1>1. ASSUME NEW i \in Streams
      PROVE  /\ [st[i] EXCEPT !.buf = Append(@, "closing")] \in StreamType
             /\ [st[i] EXCEPT !.buf = Append(@, "closing")].pool = st[i].pool
             /\ [st[i] EXCEPT !.buf = Append(@, "closing")].state = st[i].state
  <2>1. st[i] \in StreamType /\ st[i].buf \in Seq(Pieces)
    BY ServerTypeParts
  <2>2. Append(st[i].buf, "closing") \in Seq(Pieces)
    BY <2>1 DEF Pieces
  <2> QED
    BY <2>1, <2>2 DEF StreamType
<1> QED
  BY <1>1, ServerTypeParts DEF Notified

LEMMA CloseType ==
  ASSUME ServerType, NEW i \in Streams, closeStream(i)
  PROVE  st' \in [Streams -> StreamType]
<1>1. /\ [st[i] EXCEPT !.locked = TRUE] \in StreamType
      /\ [st[i] EXCEPT !.state = "done", !.done = TRUE] \in StreamType
  BY ServerTypeParts, StreamUpdates
<1> QED
  BY <1>1 DEF closeStream, ServerType

LEMMA ServerTypeReader ==
  ASSUME ServerType, ServerReader
  PROVE  ServerType'
<1>1. ASSUME NEW i \in Streams, NEW end \in BOOLEAN, NEW kind \in Kinds, operateHeaders(i, end, kind)
      PROVE  ServerType'
  <2>1. i \in Nat /\ t.active \cup {i} \in SUBSET Streams
    BY ServerTypeParts
  <2>2. t' \in TransportType
    <3>1. /\ [t EXCEPT !.maxStreamID = i, !.control = @ + 1] \in TransportType
          /\ [t EXCEPT !.maxStreamID = i, !.active = t.active \cup {i}] \in TransportType
      BY <2>1, ServerTypeParts, TransportUpdates
    <3> QED
      BY <1>1, <3>1 DEF operateHeaders
  <2>3. st' \in [Streams -> StreamType]
    <3>1. [st[i] EXCEPT !.state = IF end THEN "readDone" ELSE "active"] \in StreamType
      BY ServerTypeParts, StreamUpdates
    <3> QED
      BY <1>1, <3>1 DEF operateHeaders, ServerType
  <2>4. h' \in [Streams -> HandlerType]
    <3>1. (IF kind = "unknown" THEN "status" ELSE "recv") \in PCs /\ (kind = "unary") \in BOOLEAN
      BY DEF PCs
    <3>2. [h[i] EXCEPT !.pc = IF kind = "unknown" THEN "status" ELSE "recv", !.unary = (kind = "unary")]
             \in HandlerType
      BY <3>1, ServerTypeParts, HandlerUpdates
    <3> QED
      BY <1>1, <3>2 DEF operateHeaders, ServerType
  <2> QED
    BY <1>1, <2>2, <2>3, <2>4 DEF operateHeaders, ServerType
<1>2. ASSUME NEW i \in Streams, NEW end \in BOOLEAN, NEW content \in Contents, serverHandleData(i, content, end)
      PROVE  ServerType'
  <2> DEFINE more == IF end THEN <<content, "eof">> ELSE <<content>>
  <2>1. st[i].buf \o more \in Seq(Pieces)
    <3>1. content \in Pieces /\ "eof" \in Pieces
      BY GrpcTransportAssumption DEF Pieces
    <3>2. more \in Seq(Pieces)
      BY <3>1
    <3> QED
      BY <3>2, ServerTypeParts
  <2> DEFINE ended == IF end /\ st[i].state # "done" THEN "readDone" ELSE st[i].state
  <2>2. ended \in {"none", "active", "readDone", "done"}
    BY ServerTypeParts DEF StreamType
  <2>5. st' = st \/ st' = [st EXCEPT ![i] = [st[i] EXCEPT !.buf = st[i].buf \o more, !.state = ended]]
    BY <1>2 DEF serverHandleData
  <2> HIDE DEF more, ended
  <2>3. [st[i] EXCEPT !.buf = st[i].buf \o more, !.state = ended] \in StreamType
    BY <2>1, <2>2, ServerTypeParts, StreamUpdates
  <2>4. st' \in [Streams -> StreamType]
    BY <2>3, <2>5 DEF ServerType
  <2> QED
    BY <1>2, <2>4 DEF serverHandleData, ServerType
<1>3. ASSUME NEW i \in Streams, serverHandleRSTStream(i) PROVE ServerType'
  BY <1>3 DEF serverHandleRSTStream, ServerType
<1>4. ASSUME NEW i \in Streams \cup {0}, handleWindowUpdate(i) PROVE ServerType'
  <2>1. granted' \in [Streams \cup {0} -> Nat]
    BY <1>4 DEF handleWindowUpdate, ServerType
  <2>2. t' \in TransportType
    BY <1>4, ServerTypeParts, AddPool, TransportUpdates DEF handleWindowUpdate
  <2>3. st' \in [Streams -> StreamType]
    <3>1. \A j \in Streams : [st[j] EXCEPT !.pool = add(@, 1)] \in StreamType
      BY ServerTypeParts, AddPool, StreamUpdates
    <3> QED
      BY <1>4, <3>1 DEF handleWindowUpdate, ServerType
  <2> QED
    BY <1>4, <2>1, <2>2, <2>3 DEF handleWindowUpdate, ServerType
<1>5. ASSUME ServerClose PROVE ServerType'
  <2>1. t' \in TransportType
    BY <1>5, ServerTypeParts, TransportUpdates DEF ServerClose
  <2> QED
    BY <1>5, <2>1, NotifiedType DEF ServerClose, ServerType
<1>6. ASSUME MarkReset PROVE ServerType'
  <2>1. rst \in [id : Streams, pc : {"mark", "close"}]
    BY <1>6 DEF MarkReset, ServerType
  <2>2. st' \in [Streams -> StreamType]
    <3>1. rst.id \in Streams /\ [st[rst.id] EXCEPT !.state = "done"] \in StreamType
      BY <2>1, ServerTypeParts, StreamUpdates
    <3> QED
      BY <1>6, <3>1 DEF MarkReset, ServerType
  <2> QED
    BY <1>6, <2>1, <2>2 DEF MarkReset, ServerType
<1>7. ASSUME CloseReset PROVE ServerType'
  <2>1. rst \in [id : Streams, pc : {"mark", "close"}]
    BY <1>7 DEF CloseReset, ServerType
  <2>2. st' \in [Streams -> StreamType]
    <3>1. rst.id \in Streams
      BY <2>1
    <3> QED
      BY <1>7, <3>1, CloseType DEF CloseReset
  <2>3. t' \in TransportType
    BY <1>7, ServerTypeParts, TransportUpdates DEF CloseReset
  <2> QED
    BY <1>7, <2>2, <2>3 DEF CloseReset, ServerType
<1> QED
  BY <1>1, <1>2, <1>3, <1>4, <1>5, <1>6, <1>7 DEF ServerReader

\* The quota a frame is cut from: what is taken and what goes back.
LEMMA CutFacts ==
  ASSUME ServerType, NEW i \in Streams
  PROVE  LET n == Least({h[i].todo, h[i].sq, t.pool.c, MaxFrameLen})
             took == [t.pool EXCEPT !.c = 0]
             sp == IF n < h[i].sq THEN add(st[i].pool, h[i].sq - n) ELSE st[i].pool
             tp == IF n < t.pool.c THEN add(took, t.pool.c - n) ELSE took
         IN  /\ n \in Nat /\ n <= h[i].todo
             /\ sp \in Pools /\ Total(sp) = Total(st[i].pool) + h[i].sq - n
             /\ tp \in Pools /\ Total(tp) = Total(t.pool) - n
<1> DEFINE n == Least({h[i].todo, h[i].sq, t.pool.c, MaxFrameLen})
           took == [t.pool EXCEPT !.c = 0]
<1>1. t.pool \in Pools /\ st[i].pool \in Pools /\ h[i].todo \in Nat /\ h[i].sq \in Nat /\ t.pool.c \in Nat
  BY ServerTypeParts, TakePool
<1>2. n \in Nat /\ n <= h[i].todo /\ n <= h[i].sq /\ n <= t.pool.c
  BY <1>1, LeastOfFour, GrpcTransportAssumption
<1>3. took \in Pools /\ Total(took) = Total(t.pool) - t.pool.c /\ Total(t.pool) \in Nat /\ Total(st[i].pool) \in Nat
  BY <1>1, TakePool
<1> HIDE DEF n, took
<1>4. (IF n < t.pool.c THEN add(took, t.pool.c - n) ELSE took) \in Pools
      /\ Total(IF n < t.pool.c THEN add(took, t.pool.c - n) ELSE took) = Total(t.pool) - n
  <2>1. CASE n < t.pool.c
    <3>1. t.pool.c - n \in Nat
      BY <1>1, <1>2, <2>1
    <3>2. add(took, t.pool.c - n) \in Pools /\ Total(add(took, t.pool.c - n)) = Total(took) + (t.pool.c - n)
      BY <1>3, <3>1, AddPool
    <3> QED
      BY <1>1, <1>2, <1>3, <2>1, <3>2
  <2>2. CASE ~(n < t.pool.c)
    BY <1>1, <1>2, <1>3, <2>2
  <2> QED
    BY <2>1, <2>2
<1>5. (IF n < h[i].sq THEN add(st[i].pool, h[i].sq - n) ELSE st[i].pool) \in Pools
      /\ Total(IF n < h[i].sq THEN add(st[i].pool, h[i].sq - n) ELSE st[i].pool) = Total(st[i].pool) + h[i].sq - n
  <2>1. CASE n < h[i].sq
    <3>1. h[i].sq - n \in Nat
      BY <1>1, <1>2, <2>1
    <3>2. add(st[i].pool, h[i].sq - n) \in Pools
          /\ Total(add(st[i].pool, h[i].sq - n)) = Total(st[i].pool) + (h[i].sq - n)
      BY <1>1, <3>1, AddPool
    <3> QED
      BY <1>1, <1>2, <1>3, <2>1, <3>2
  <2>2. CASE ~(n < h[i].sq)
    BY <1>1, <1>2, <1>3, <2>2
  <2> QED
    BY <2>1, <2>2
<1> QED
  BY <1>2, <1>4, <1>5 DEF n, took

LEMMA ServerTypeHandler ==
  ASSUME ServerType, FrameFits, NEW i \in Streams, Handler(i)
  PROVE  ServerType'
<1>a. /\ st[i] \in StreamType /\ st[i].pool \in Pools /\ st[i].buf \in Seq(Pieces)
      /\ h[i] \in HandlerType /\ h[i].todo \in Nat /\ h[i].writes \in Nat /\ h[i].sq \in Nat /\ h[i].frame \in Nat
  BY ServerTypeParts
<1>b. h \in [Streams -> HandlerType] /\ h[i].then \in {"recv", "end"}
  BY <1>a DEF ServerType, HandlerType
<1>c. ASSUME NEW p \in {"none", "recv", "rest", "panic", "run", "header", "headerWait", "loop", "streamQuota",
                        "quota", "cancel", "writeWait", "status", "statusWait", "close", "end"},
             Moves(i, p)
      PROVE  h' \in [Streams -> HandlerType]
  <2>1. p \in PCs
    BY DEF PCs
  <2> QED
    BY <1>b, <1>c, <2>1, Moved
<1>d. ASSUME NEW p \in {"status", "cancel"}, GivesUpWrite(i, p) PROVE h' \in [Streams -> HandlerType]
  <2>1. Moves(i, p) \/ Moves(i, "end") \/ Moves(i, "status")
    BY <1>d DEF GivesUpWrite, Moves
  <2> QED
    BY <1>c, <2>1
<1>1. CASE Receive(i)
  <2>1. st' = st \/ (st[i].buf # <<>> /\ st' = [st EXCEPT ![i] = [st[i] EXCEPT !.buf = Tail(@)]])
    <3>1. st' = st \/ (st[i].buf # <<>> /\ st' = [st EXCEPT ![i].buf = Tail(@)])
      BY <1>1 DEF Receive
    <3> QED
      BY <3>1
  <2>2. st[i].buf # <<>> => Tail(st[i].buf) \in Seq(Pieces)
    BY <1>a
  <2>3. st' \in [Streams -> StreamType]
    <3>1. st[i].buf # <<>> => [st[i] EXCEPT !.buf = Tail(@)] \in StreamType
      BY <2>2, <1>a, StreamUpdates
    <3> QED
      BY <2>1, <3>1 DEF ServerType
  <2>4. h' \in [Streams -> HandlerType]
    BY <1>1, <1>b, <1>c, Moving
  <2> QED
    BY <1>1, <2>3, <2>4 DEF Receive, ServerType
<1>2. CASE Run(i)
  <2>1. h' \in [Streams -> HandlerType]
    <3>1. CASE Finish(i, "status")
      BY <1>c, <3>1 DEF Moves
    <3>2. ASSUME NEW n \in Sizes,
                 h' = [h EXCEPT ![i].pc = "header", ![i].todo = n, ![i].writes = @ + 1,
                                ![i].then = IF h[i].unary THEN "recv" ELSE "end"]
          PROVE  h' \in [Streams -> HandlerType]
      <4>1. n \in Nat /\ h[i].writes + 1 \in Nat /\ "header" \in PCs
            /\ (IF h[i].unary THEN "recv" ELSE "end") \in {"recv", "end"}
        BY <1>a, GrpcTransportAssumption DEF PCs
      <4>2. [h[i] EXCEPT !.pc = "header", !.todo = n, !.writes = h[i].writes + 1,
                         !.then = IF h[i].unary THEN "recv" ELSE "end"] \in HandlerType
        BY <1>a, <4>1, HandlerUpdates
      <4> QED
        BY <1>b, <3>2, <4>2
    <3> QED
      BY <1>2, <3>1, <3>2 DEF Run
  <2> QED
    BY <1>2, <2>1 DEF Run, ServerType
<1>3. CASE WriteHeaderFrame(i)
  <2>2. h' \in [Streams -> HandlerType]
    BY <1>3, <1>b, <1>c, Moving
  <2>3. [st[i] EXCEPT !.headerOk = TRUE] \in StreamType
    BY <1>a, StreamUpdates
  <2>4. st' \in [Streams -> StreamType]
    BY <1>3, <2>3 DEF WriteHeaderFrame, ServerType
  <2> QED
    BY <1>3, <2>2, <2>4 DEF WriteHeaderFrame, ServerType
<1>4. CASE HeaderWait(i)
  <2>1. h' \in [Streams -> HandlerType]
    BY <1>4, <1>b, <1>c, Moving
  <2> QED
    BY <1>4, <2>1 DEF HeaderWait, ServerType
<1>5. CASE WriteLoop(i)
  <2>2. h' \in [Streams -> HandlerType]
    BY <1>5, <1>b, <1>c, Moving
  <2>3. [st[i] EXCEPT !.pool = add(st[i].pool, 0)] \in StreamType
    BY <1>a, AddPool, StreamUpdates
  <2>4. st' \in [Streams -> StreamType]
    BY <1>5, <2>3 DEF WriteLoop, ServerType
  <2> QED
    BY <1>5, <2>2, <2>4 DEF WriteLoop, ServerType
<1>6. CASE StreamQuota(i)
  <2>1. CASE GivesUpWrite(i, "status") /\ UNCHANGED <<t, st, rst, granted, written>>
    <3>1. h' \in [Streams -> HandlerType]
      BY <2>1, <1>d
    <3> QED
      BY <2>1, <3>1 DEF ServerType
  <2>2. CASE /\ h' = [h EXCEPT ![i].pc = "quota", ![i].sq = st[i].pool.c]
             /\ st' = [st EXCEPT ![i].pool.c = 0]
             /\ t' = [t EXCEPT !.pool = add(@, 0)]
             /\ UNCHANGED <<rst, granted, written>>
    <3>1. [h[i] EXCEPT !.pc = "quota", !.sq = st[i].pool.c] \in HandlerType
      BY <1>a, HandlerUpdates, TakePool DEF PCs
    <3>2. [st[i] EXCEPT !.pool.c = 0] \in StreamType
      BY <1>a, StreamUpdates
    <3>3. [t EXCEPT !.pool = add(t.pool, 0)] \in TransportType
      BY ServerTypeParts, AddPool, TransportUpdates
    <3> QED
      BY <2>2, <3>1, <3>2, <3>3 DEF ServerType
  <2> QED
    BY <1>6, <2>1, <2>2 DEF StreamQuota
<1>7. CASE TransportQuota(i)
  <2> DEFINE n == Least({h[i].todo, h[i].sq, t.pool.c, MaxFrameLen})
             took == [t.pool EXCEPT !.c = 0]
             sp == IF n < h[i].sq THEN add(st[i].pool, h[i].sq - n) ELSE st[i].pool
             tp == IF n < t.pool.c THEN add(took, t.pool.c - n) ELSE took
  <2>1. n \in Nat /\ sp \in Pools /\ tp \in Pools
    BY CutFacts
  <2>2. /\ h' = [h EXCEPT ![i] = [h[i] EXCEPT !.pc = "writeWait", !.frame = n, !.sq = 0]]
        /\ st' = [st EXCEPT ![i] = [st[i] EXCEPT !.pool = sp]]
        /\ t' = [t EXCEPT !.pool = tp]
        /\ UNCHANGED <<rst, granted, written>>
    BY <1>7 DEF TransportQuota
  <2> HIDE DEF n, sp, tp
  <2>3. /\ [h[i] EXCEPT !.pc = "writeWait", !.frame = n, !.sq = 0] \in HandlerType
        /\ [st[i] EXCEPT !.pool = sp] \in StreamType
        /\ [t EXCEPT !.pool = tp] \in TransportType
    BY <1>a, <2>1, ServerTypeParts, HandlerUpdates, StreamUpdates, TransportUpdates DEF PCs
  <2> QED
    BY <2>2, <2>3 DEF ServerType
<1>8. CASE QuotaRefused(i)
  <2>1. h' \in [Streams -> HandlerType]
    BY <1>8, <1>b, <1>c, Moving
  <2>2. [t EXCEPT !.pool = cancel(t.pool)] \in TransportType
    BY ServerTypeParts, CancelPool, TransportUpdates
  <2> QED
    BY <1>8, <2>1, <2>2 DEF QuotaRefused, ServerType
<1>9. CASE WriteData(i)
  <2>1. CASE GivesUpWrite(i, "status") /\ UNCHANGED <<t, st, rst, granted, written>>
    <3>1. h' \in [Streams -> HandlerType]
      BY <2>1, <1>d
    <3> QED
      BY <2>1, <3>1 DEF ServerType
  <2>2. CASE /\ h[i].pc = "writeWait"
             /\ h' = [h EXCEPT ![i].pc = "loop", ![i].todo = @ - h[i].frame, ![i].frame = 0]
             /\ written' = [written EXCEPT ![i].bytes = @ + h[i].frame, ![i].late = @ \/ written[i].ends > 0]
             /\ UNCHANGED <<t, st, rst, granted>>
    <3>1. h[i].todo - h[i].frame \in Nat
      BY <1>a, <2>2 DEF FrameFits
    <3>2. [h[i] EXCEPT !.pc = "loop", !.todo = h[i].todo - h[i].frame, !.frame = 0] \in HandlerType
      BY <1>a, <3>1, HandlerUpdates DEF PCs
    <3>3. written' \in [Streams -> [bytes : Nat, ends : Nat, late : BOOLEAN]]
      <4>1. written[i].bytes + h[i].frame \in Nat
        BY <1>a DEF ServerType
      <4> QED
        BY <4>1, <2>2 DEF ServerType
    <3> QED
      BY <2>2, <3>2, <3>3 DEF ServerType
  <2> QED
    BY <1>9, <2>1, <2>2 DEF WriteData
<1>10. CASE WriteFails(i)
  <2>1. h' \in [Streams -> HandlerType]
    BY <1>10, <1>b, <1>c, Moving
  <2>2. t' \in TransportType
    BY <1>10, ServerTypeParts, TransportUpdates DEF WriteFails
  <2> QED
    BY <1>10, <2>1, <2>2, NotifiedType DEF WriteFails, ServerType
<1>11. CASE WriteStatus(i)
  <2>1. h' \in [Streams -> HandlerType]
    BY <1>11, <1>b, <1>c, Moving
  <2> QED
    BY <1>11, <2>1 DEF WriteStatus, ServerType
<1>12. CASE StatusWait(i)
  <2>1. h' \in [Streams -> HandlerType]
    BY <1>12, <1>b, <1>c, Moving
  <2>2. [t EXCEPT !.writer = i] \in TransportType
    BY ServerTypeParts, TransportUpdates
  <2>3. [written EXCEPT ![i].ends = @ + 1] \in [Streams -> [bytes : Nat, ends : Nat, late : BOOLEAN]]
    <3>1. written[i].ends + 1 \in Nat
      BY DEF ServerType
    <3> QED
      BY <3>1 DEF ServerType
  <2> QED
    BY <1>12, <2>1, <2>2, <2>3 DEF StatusWait, ServerType
<1>13. CASE StatusWritten(i)
  <2>2. h' \in [Streams -> HandlerType]
    BY <1>13, <1>b, <1>c, Moving
  <2>3. st' \in [Streams -> StreamType]
    BY <1>13, CloseType DEF StatusWritten
  <2>4. t' \in TransportType
    BY <1>13, ServerTypeParts, TransportUpdates DEF StatusWritten
  <2> QED
    BY <1>13, <2>2, <2>3, <2>4 DEF StatusWritten, ServerType
<1> QED
  BY <1>1, <1>2, <1>3, <1>4, <1>5, <1>6, <1>7, <1>8, <1>9, <1>10, <1>11, <1>12, <1>13 DEF Handler

LEMMA ServerTypeStep ==
  ASSUME ServerType, FrameFits, [ServerNext]_serverVars
  PROVE  ServerType'
<1>1. CASE serverController
  <2>1. t.control - 1 \in Nat
    BY <1>1, ServerTypeParts DEF serverController
  <2>2. [t EXCEPT !.control = t.control - 1] \in TransportType
    BY <2>1, ServerTypeParts, TransportUpdates
  <2> QED
    BY <1>1, <2>2 DEF serverController, ServerType
<1>2. ASSUME NEW i \in Streams, ExpireStream(i) PROVE ServerType'
  <2>1. [st[i] EXCEPT !.done = TRUE] \in StreamType
    BY ServerTypeParts, StreamUpdates
  <2> QED
    BY <1>2, <2>1 DEF ExpireStream, ServerType
<1>3. CASE UNCHANGED serverVars
  BY <1>3 DEF serverVars, ServerType
<1> QED
  BY <1>1, <1>2, <1>3, ServerTypeReader, ServerTypeHandler DEF ServerNext

-----------------------------------------------------------------------------
\* What a step of a handler leaves to the other streams.
LEMMA OtherStreams ==
  ASSUME ServerType, NEW j \in Streams, Handler(j), NEW i \in Streams, i # j
  PROVE  /\ h'[i] = h[i] /\ written'[i] = written[i]
         /\ st'[i].state = st[i].state /\ st'[i].pool = st[i].pool
         /\ i \notin t.active => st'[i] = st[i]
<1>a. h \in [Streams -> HandlerType] /\ h[j].then \in {"recv", "end"}
  BY ServerTypeParts DEF ServerType, HandlerType
<1>b. ASSUME NEW p \in {"none", "recv", "rest", "panic", "run", "header", "headerWait", "loop", "streamQuota",
                        "quota", "cancel", "writeWait", "status", "statusWait", "close", "end"},
             Moves(j, p)
      PROVE  h'[i] = h[i]
  <2>1. p \in PCs
    BY DEF PCs
  <2> QED
    BY <1>a, <1>b, <2>1, Moved
<1>c. ASSUME NEW p \in {"status", "cancel"}, GivesUpWrite(j, p) PROVE h'[i] = h[i]
  <2>1. Moves(j, p) \/ Moves(j, "end") \/ Moves(j, "status")
    BY <1>c DEF GivesUpWrite, Moves
  <2> QED
    BY <1>b, <2>1
<1>1. CASE Receive(j)
  BY <1>1, <1>a, <1>b, Moving DEF Receive, ServerType
<1>2. CASE Run(j)
  <2>1. h'[i] = h[i]
    <3>1. CASE Finish(j, "status")
      BY <1>b, <3>1 DEF Moves
    <3>2. CASE \E n \in Sizes : h' = [h EXCEPT ![j].pc = "header", ![j].todo = n, ![j].writes = @ + 1,
                                               ![j].then = IF h[j].unary THEN "recv" ELSE "end"]
      BY <1>a, <3>2
    <3> QED
      BY <1>2, <3>1, <3>2 DEF Run
  <2> QED
    BY <1>2, <2>1 DEF Run
<1>3. CASE WriteHeaderFrame(j)
  BY <1>3, <1>a, <1>b, Moving DEF WriteHeaderFrame, ServerType
<1>4. CASE HeaderWait(j)
  BY <1>4, <1>a, <1>b, Moving DEF HeaderWait
<1>5. CASE WriteLoop(j)
  BY <1>5, <1>a, <1>b, Moving DEF WriteLoop, ServerType
<1>6. CASE StreamQuota(j)
  <2>1. h'[i] = h[i]
    BY <1>6, <1>a, <1>c DEF StreamQuota
  <2> QED
    BY <1>6, <2>1 DEF StreamQuota, ServerType
<1>7. CASE TransportQuota(j)
  BY <1>7 DEF TransportQuota, ServerType
<1>8. CASE QuotaRefused(j)
  BY <1>8, <1>a, <1>b, Moving DEF QuotaRefused
<1>9. CASE WriteData(j)
  <2>1. h'[i] = h[i]
    BY <1>9, <1>a, <1>c DEF WriteData
  <2> QED
    BY <1>9, <2>1 DEF WriteData, ServerType
<1>10. CASE WriteFails(j)
  <2>1. st' = Notified /\ written' = written /\ h'[i] = h[i]
    BY <1>10, <1>a, <1>b, Moving DEF WriteFails
  <2>3. /\ Notified[i].pool = st[i].pool /\ Notified[i].state = st[i].state
        /\ i \notin t.active => Notified[i] = st[i]
    BY NotifiedType
  <2> QED
    BY <2>1, <2>3
<1>11. CASE WriteStatus(j)
  BY <1>11, <1>a, <1>b, Moving DEF WriteStatus
<1>12. CASE StatusWait(j)
  BY <1>12, <1>a, <1>b, Moving DEF StatusWait, ServerType
<1>13. CASE StatusWritten(j)
  <2>1. h'[i] = h[i]
    BY <1>13, <1>a, <1>b, Moving
  <2> QED
    BY <1>13, <2>1 DEF StatusWritten, closeStream, ServerType
<1> QED
  BY <1>1, <1>2, <1>3, <1>4, <1>5, <1>6, <1>7, <1>8, <1>9, <1>10, <1>11, <1>12, <1>13 DEF Handler

\* What a handler never does to the transport.
LEMMA HandlerKeeps ==
  ASSUME ServerType, NEW j \in Streams, Handler(j)
  PROVE  t'.active \subseteq t.active /\ t'.maxStreamID = t.maxStreamID /\ granted' = granted
<1>1. /\ ServerClosed([t EXCEPT !.writer = j]).active = {}
      /\ ServerClosed([t EXCEPT !.writer = j]).maxStreamID = t.maxStreamID
  BY DEF ServerClosed, ServerType, TransportType
<1>2. CASE WriteFails(j)
  BY <1>1, <1>2 DEF WriteFails
<1>3. CASE TransportQuota(j)
  BY <1>3 DEF TransportQuota, ServerType, TransportType
<1>4. CASE StreamQuota(j) \/ QuotaRefused(j)
  BY <1>4 DEF StreamQuota, QuotaRefused, ServerType, TransportType
<1>5. CASE StatusWait(j)
  BY <1>5 DEF StatusWait, ServerType, TransportType
<1>7. CASE StatusWritten(j)
  <2>1. t' = [t EXCEPT !.active = @ \ {j}, !.writer = NoStream] /\ granted' = granted
    BY <1>7 DEF StatusWritten
  <2> QED
    BY <2>1 DEF ServerType, TransportType
<1>6. CASE \/ Receive(j) \/ Run(j) \/ WriteHeaderFrame(j) \/ HeaderWait(j)
           \/ WriteLoop(j) \/ WriteData(j) \/ WriteStatus(j)
  BY <1>6 DEF Receive, Run, WriteHeaderFrame, HeaderWait, WriteLoop, WriteData, WriteStatus
<1> QED
  BY <1>2, <1>3, <1>4, <1>5, <1>6, <1>7 DEF Handler

\* What the reader leaves to the handlers.
HandlerKept(i) ==
    /\ h'[i].todo = h[i].todo /\ h'[i].sq = h[i].sq /\ h'[i].frame = h[i].frame
    /\ h'[i].then = h[i].then /\ h'[i].writes = h[i].writes
    /\ h'[i].pc \in {h[i].pc, "recv", "status"}
    /\ i <= t.maxStreamID => h'[i] = h[i]

\* A new stream has a handler that starts.
Starts(j) == \E p \in {"recv", "status"}, u \in BOOLEAN : h' = [h EXCEPT ![j].pc = p, ![j].unary = u]

LEMMA HeadersStart ==
  ASSUME ServerType, NEW j \in Streams, NEW end \in BOOLEAN, NEW kind \in Kinds, operateHeaders(j, end, kind)
  PROVE  /\ written' = written /\ t'.maxStreamID = j /\ j > t.maxStreamID /\ (h' = h \/ Starts(j))
         /\ t'.active \subseteq t.active \cup {j}
         /\ st' = st \/ \E s \in {"readDone", "active"} : st' = [st EXCEPT ![j].state = s]
         /\ t'.pool = t.pool /\ granted' = granted
<1>1. h' = h \/ Starts(j)
  <2>1. CASE h' = [h EXCEPT ![j].pc = IF kind = "unknown" THEN "status" ELSE "recv", ![j].unary = kind = "unary"]
    <3>1. (kind = "unary") \in BOOLEAN /\ (IF kind = "unknown" THEN "status" ELSE "recv") \in {"recv", "status"}
      OBVIOUS
    <3> QED
      BY <2>1, <3>1 DEF Starts
  <2> QED
    BY <2>1 DEF operateHeaders
<1>2. /\ written' = written /\ t'.maxStreamID = j /\ j > t.maxStreamID
      /\ t'.active \subseteq t.active \cup {j} /\ t'.pool = t.pool /\ granted' = granted
  BY ServerTypeParts DEF operateHeaders, TransportType
<1>3. st' = st \/ \E s \in {"readDone", "active"} : st' = [st EXCEPT ![j].state = s]
  BY DEF operateHeaders
<1> QED
  BY <1>1, <1>2, <1>3

LEMMA ServerReaderKeeps ==
  ASSUME ServerType, ServerReader \/ serverController \/ (\E i \in Streams : ExpireStream(i))
  PROVE  /\ written' = written
         /\ \A i \in Streams : HandlerKept(i)
         /\ t'.maxStreamID >= t.maxStreamID
<1> USE DEF HandlerType
<1>2. ASSUME NEW j \in Streams, NEW end \in BOOLEAN, NEW content \in Contents, serverHandleData(j, content, end)
      PROVE  written' = written /\ t'.maxStreamID >= t.maxStreamID /\ h' = h
  BY <1>2, ServerTypeParts DEF serverHandleData
<1>3. ASSUME NEW j \in Streams, serverHandleRSTStream(j)
      PROVE  written' = written /\ t'.maxStreamID >= t.maxStreamID /\ h' = h
  BY <1>3, ServerTypeParts DEF serverHandleRSTStream
<1>4. ASSUME NEW j \in Streams \cup {0}, handleWindowUpdate(j)
      PROVE  written' = written /\ t'.maxStreamID >= t.maxStreamID /\ h' = h
  BY <1>4, ServerTypeParts DEF handleWindowUpdate, TransportType
<1>5. ASSUME ServerClose \/ MarkReset \/ CloseReset \/ serverController \/ \E i \in Streams : ExpireStream(i)
      PROVE  written' = written /\ t'.maxStreamID >= t.maxStreamID /\ h' = h
  <2>1. written' = written /\ t'.maxStreamID = t.maxStreamID /\ h' = h
    BY <1>5, ServerTypeParts DEF ServerClose, MarkReset, CloseReset, serverController, ExpireStream, ServerClosed, TransportType
  <2> QED
    BY <2>1, ServerTypeParts
<1>6. ASSUME NEW j \in Streams, j > t.maxStreamID, Starts(j)
      PROVE  \A i \in Streams : HandlerKept(i)
  <2>1. PICK p \in {"recv", "status"}, u \in BOOLEAN : h' = [h EXCEPT ![j].pc = p, ![j].unary = u]
    BY <1>6 DEF Starts
  <2>2. h[j] \in HandlerType /\ j \in Nat /\ t.maxStreamID \in Nat
    BY ServerTypeParts
  <2>3. h'[j] = [h[j] EXCEPT !.pc = p, !.unary = u] /\ \A i \in Streams \ {j} : h'[i] = h[i]
    BY <2>1 DEF ServerType
  <2>4. HandlerKept(j)
    BY <1>6, <2>3, <2>2 DEF HandlerKept
  <2> QED
    BY <2>3, <2>4 DEF HandlerKept
<1>7. \A j \in Streams : j \in Nat /\ t.maxStreamID \in Nat
  BY ServerTypeParts
<1>8. ASSUME h' = h
      PROVE  \A i \in Streams : HandlerKept(i)
  BY <1>8 DEF HandlerKept
<1>9. ASSUME NEW j \in Streams, NEW end \in BOOLEAN, NEW kind \in Kinds, operateHeaders(j, end, kind)
      PROVE  /\ written' = written /\ t'.maxStreamID >= t.maxStreamID
             /\ h' = h \/ (j > t.maxStreamID /\ Starts(j))
  BY <1>7, <1>9, HeadersStart
<1>10. /\ written' = written /\ t'.maxStreamID >= t.maxStreamID
       /\ h' = h \/ (\E j \in Streams : j > t.maxStreamID /\ Starts(j))
  <2>1. CASE ServerClose \/ MarkReset \/ CloseReset \/ serverController \/ \E i \in Streams : ExpireStream(i)
    BY <1>5, <2>1
  <2>2. CASE ServerReader
    BY <1>2, <1>3, <1>4, <1>5, <1>7, <1>9, <2>2 DEF ServerReader
  <2> QED
    BY <2>1, <2>2
<1> QED
  BY <1>6, <1>8, <1>10

\* A handler is started once its stream is counted.
LEMMA HeadersCount ==
  ASSUME ServerType, ServerReader \/ serverController \/ (\E j \in Streams : ExpireStream(j))
  PROVE  \A i \in Streams : h'[i] # h[i] => i = t'.maxStreamID
<1>1. ASSUME NEW j \in Streams, NEW end \in BOOLEAN, NEW kind \in Kinds, operateHeaders(j, end, kind)
      PROVE  \A i \in Streams : h'[i] # h[i] => i = t'.maxStreamID
  <2>1. t'.maxStreamID = j /\ (h' = h \/ Starts(j))
    BY <1>1, HeadersStart
  <2> QED
    BY <2>1 DEF ServerType, Starts
<1>2. CASE \/ \E j \in Streams : ExpireStream(j) \/ serverHandleRSTStream(j)
           \/ \E j \in Streams, end \in BOOLEAN, content \in Contents : serverHandleData(j, content, end)
           \/ \E j \in Streams \cup {0} : handleWindowUpdate(j)
           \/ serverController \/ ServerClose \/ MarkReset \/ CloseReset
  BY <1>2 DEF ExpireStream, serverHandleRSTStream, serverHandleData, handleWindowUpdate,
              serverController, ServerClose, MarkReset, CloseReset
<1> QED
  BY <1>1, <1>2 DEF ServerReader

LEMMA FitsStep ==
  ASSUME ServerType, FrameFits, [ServerNext]_serverVars
  PROVE  FrameFits'
<1>1. CASE ServerReader \/ serverController \/ (\E i \in Streams : ExpireStream(i))
  BY <1>1, ServerReaderKeeps DEF FrameFits, HandlerKept
<1>2. ASSUME NEW j \in Streams, Handler(j) PROVE FrameFits'
  <2>1. h'[j].pc = "writeWait" => h'[j].frame <= h'[j].todo
    <3>1. CASE TransportQuota(j)
      <4> DEFINE n == Least({h[j].todo, h[j].sq, t.pool.c, MaxFrameLen})
      <4>1. n <= h[j].todo
        BY CutFacts
      <4>2. h' = [h EXCEPT ![j] = [h[j] EXCEPT !.pc = "writeWait", !.frame = n, !.sq = 0]]
        BY <3>1 DEF TransportQuota
      <4> HIDE DEF n
      <4>3. h'[j] = [h[j] EXCEPT !.pc = "writeWait", !.frame = n, !.sq = 0] /\ h[j] \in HandlerType
        BY <4>2, ServerTypeParts DEF ServerType
      <4> QED
        BY <4>1, <4>3 DEF HandlerType
    <3>2. CASE ~TransportQuota(j)
      <4>1. h'[j].pc # "writeWait"
        <5>1. h \in [Streams -> HandlerType] /\ h[j].then \in {"recv", "end"}
          BY ServerTypeParts DEF ServerType, HandlerType
        <5>2. ASSUME NEW p \in PCs \ {"writeWait"}, Moves(j, p) PROVE h'[j].pc # "writeWait"
          BY <5>1, <5>2, Moved
        <5>3. {"none", "recv", "rest", "panic", "run", "header", "headerWait", "loop", "streamQuota", "quota",
               "cancel", "status", "statusWait", "close", "end"} \subseteq PCs \ {"writeWait"}
          BY DEF PCs
        <5>4. ASSUME NEW p \in {"status", "cancel"}, GivesUpWrite(j, p) PROVE h'[j].pc # "writeWait"
          <6>1. Moves(j, p) \/ Moves(j, "end") \/ Moves(j, "status")
            BY <5>4 DEF GivesUpWrite, Moves
          <6> QED
            BY <5>2, <5>3, <6>1
        <5>5. CASE Run(j)
          <6>1. CASE Finish(j, "status")
            BY <5>2, <5>3, <6>1 DEF Moves
          <6>2. CASE \E n \in Sizes : h' = [h EXCEPT ![j].pc = "header", ![j].todo = n, ![j].writes = @ + 1,
                                                     ![j].then = IF h[j].unary THEN "recv" ELSE "end"]
            BY <5>1, <6>2 DEF HandlerType
          <6> QED
            BY <5>5, <6>1, <6>2 DEF Run
        <5>6. CASE StreamQuota(j)
          <6>1. CASE h' = [h EXCEPT ![j].pc = "quota", ![j].sq = st[j].pool.c]
            BY <5>1, <6>1 DEF HandlerType
          <6> QED
            BY <5>4, <5>6, <6>1 DEF StreamQuota
        <5>7. CASE WriteData(j)
          <6>1. CASE h' = [h EXCEPT ![j].pc = "loop", ![j].todo = @ - h[j].frame, ![j].frame = 0]
            BY <5>1, <6>1 DEF HandlerType
          <6> QED
            BY <5>4, <5>7, <6>1 DEF WriteData
        <5>8. CASE \/ Receive(j) \/ WriteHeaderFrame(j) \/ HeaderWait(j) \/ WriteLoop(j) \/ QuotaRefused(j)
                   \/ WriteFails(j) \/ WriteStatus(j) \/ StatusWait(j) \/ StatusWritten(j)
          BY <5>1, <5>2, <5>3, <5>8, Moving
        <5> QED
          BY <1>2, <3>2, <5>5, <5>6, <5>7, <5>8 DEF Handler
      <4> QED
        BY <4>1
    <3> QED
      BY <3>1, <3>2
  <2> QED
    BY <1>2, <2>1, OtherStreams DEF FrameFits
<1>3. CASE UNCHANGED serverVars
  BY <1>3 DEF serverVars, FrameFits
<1> QED
  BY <1>1, <1>2, <1>3 DEF ServerNext

\* A deadline that passes leaves state and buffer alone.
LEMMA DeadlineKeeps ==
  ASSUME ServerType, NEW i \in Streams, NEW j \in Streams,
         st' = st \/ st' = [st EXCEPT ![j].done = TRUE]
  PROVE  st'[i].state = st[i].state /\ st'[i].buf = st[i].buf
<1>1. st \in [Streams -> StreamType] /\ st[i] \in StreamType
  BY ServerTypeParts DEF ServerType
<1>2. CASE st' = st
  BY <1>2
<1>3. CASE st' = [st EXCEPT ![j].done = TRUE] /\ i # j
  <2>1. st'[i] = st[i]
    BY <1>1, <1>3
  <2> QED
    BY <2>1
<1>4. CASE st' = [st EXCEPT ![j].done = TRUE] /\ i = j
  <2>1. st'[i] = [st[i] EXCEPT !.done = TRUE]
    BY <1>1, <1>4
  <2> QED
    BY <1>1, <2>1 DEF StreamType
<1> QED
  BY <1>2, <1>3, <1>4

-----------------------------------------------------------------------------
\* The end of a stream.  The reader may reset it or close the transport, but
\* a stream that has ended stays out of the active ones.
LEMMA EndedReader ==
  ASSUME ServerType, NEW i \in Streams, i <= t.maxStreamID, st[i].state = "done",
         ServerReader \/ serverController \/ (\E j \in Streams : ExpireStream(j))
  PROVE  st'[i].state = "done"
<1>2. st[i] \in StreamType /\ i \in Nat /\ t.maxStreamID \in Nat
  BY ServerTypeParts
<1> USE <1>2 DEF ServerType, StreamType
<1>1. ASSUME NEW j \in Streams, NEW end \in BOOLEAN, NEW kind \in Kinds, operateHeaders(j, end, kind)
      PROVE  st'[i].state = st[i].state
  <2>0. i # j
    BY <1>1 DEF operateHeaders
  <2>1. st' = st \/ \E s \in {"readDone", "active"} : st' = [st EXCEPT ![j].state = s]
    BY <1>1, HeadersStart
  <2> QED
    BY <2>0, <2>1
<1>3. ASSUME NEW j \in Streams, NEW end \in BOOLEAN, NEW content \in Contents, serverHandleData(j, content, end)
      PROVE  st'[i].state = "done"
  BY <1>3 DEF serverHandleData
<1>4. ASSUME NEW j \in Streams \cup {0}, handleWindowUpdate(j)
      PROVE  st'[i].state = st[i].state
  BY <1>4 DEF handleWindowUpdate
<1>5. CASE ServerClose
  BY <1>5, NotifiedType DEF ServerClose
<1>6. CASE MarkReset
  BY <1>6 DEF MarkReset
<1>7. CASE CloseReset
  BY <1>7 DEF CloseReset, closeStream
<1>8. ASSUME NEW j \in Streams, serverHandleRSTStream(j) \/ ExpireStream(j)
      PROVE  st'[i].state = st[i].state
  <2>1. st' = st \/ st' = [st EXCEPT ![j].done = TRUE]
    BY <1>8 DEF serverHandleRSTStream, ExpireStream
  <2> QED
    BY <2>1, DeadlineKeeps
<1>9. CASE serverController
  BY <1>9 DEF serverController
<1> QED
  BY <1>1, <1>3, <1>4, <1>5, <1>6, <1>7, <1>8, <1>9 DEF ServerReader

\* Of a stream that has ended a handler's step keeps what has ended.
LEMMA StateKept ==
  ASSUME ServerType, NEW i \in Streams, Handler(i)
  PROVE  st'[i].state \in {st[i].state, "done"}
<1> USE DEF ServerType
<1>1. st[i] \in StreamType
  BY ServerTypeParts
<1>2. CASE Receive(i) \/ WriteHeaderFrame(i)
  BY <1>1, <1>2 DEF Receive, WriteHeaderFrame, StreamType
<1>3. CASE StreamQuota(i) \/ TransportQuota(i) \/ WriteLoop(i)
  BY <1>1, <1>3 DEF StreamQuota, TransportQuota, WriteLoop, StreamType
<1>4. CASE WriteFails(i)
  BY <1>4, NotifiedType DEF WriteFails
<1>5. CASE StatusWritten(i)
  BY <1>1, <1>5 DEF StatusWritten, closeStream, StreamType
<1>6. CASE Run(i) \/ HeaderWait(i) \/ QuotaRefused(i) \/ WriteData(i) \/ WriteStatus(i) \/ StatusWait(i)
  <2>1. st' = st
    BY <1>6 DEF Run, HeaderWait, QuotaRefused, WriteData, WriteStatus, StatusWait
  <2> QED
    BY <2>1
<1> QED
  BY <1>2, <1>3, <1>4, <1>5, <1>6 DEF Handler

\* Where a handler's step leads, as far as the end of the stream goes.
EndsOnce(i) == written[i].ends = 0 \/ (written[i].ends = 1 /\ HasEnded(i))

LEMMA EndedHandler ==
  ASSUME ServerType, NEW i \in Streams, EndsOnce(i), GoesOn(i), Handler(i)
  PROVE  EndsOnce(i)' /\ GoesOn(i)' /\ h[i].pc # "none"
<1>a. /\ h \in [Streams -> HandlerType] /\ h[i] \in HandlerType /\ h[i].then \in {"recv", "end"}
      /\ written \in [Streams -> [bytes : Nat, ends : Nat, late : BOOLEAN]]
      /\ h[i].writes \in Nat /\ h[i].unary \in BOOLEAN
  BY ServerTypeParts DEF ServerType, HandlerType
<1>b. st'[i].state \in {st[i].state, "done"}
  BY StateKept
<1>c. ASSUME NEW p \in PCs \ {"none"}, Moves(i, p), written' = written,
             written[i].ends # 0 =>
                /\ p # "statusWait" /\ (p = "close" \/ st[i].state = "done" \/ st'[i].state = "done")
                /\ h[i].unary \/ p \in {"close", "end"}
                /\ p \in {"recv", "rest", "run"} => h[i].writes > 0
                /\ p \in Writing => h[i].writes > 1
      PROVE  EndsOnce(i)' /\ GoesOn(i)'
  <2>1. /\ h'[i].pc = p /\ h'[i].then \in {h[i].then, "end"} /\ h'[i].unary = h[i].unary
        /\ h'[i].writes = h[i].writes
    BY <1>a, <1>c, Moved
  <2>2. GoesOn(i)'
    BY <1>c, <2>1 DEF GoesOn
  <2>3. EndsOnce(i)'
    BY <1>b, <1>c, <2>1 DEF EndsOnce, HasEnded
  <2> QED
    BY <2>2, <2>3
<1>d. {"recv", "rest", "panic", "run", "header", "headerWait", "loop", "streamQuota", "quota",
       "cancel", "writeWait", "status", "statusWait", "close", "end"} = PCs \ {"none"}
  BY DEF PCs
<1>e. written[i].ends # 0 => HasEnded(i)
  BY DEF EndsOnce
<1> USE DEF Writing
<1>1. CASE Receive(i)
  <2>1. PICK p \in {"run", "rest", "status", "panic", "end"} : Moves(i, p)
    BY <1>1, <1>a, Moving
  <2>2. h[i].pc \in {"recv", "rest"} /\ written' = written
    BY <1>1 DEF Receive
  <2>3. EndsOnce(i)' /\ GoesOn(i)'
    BY <1>c, <1>d, <1>e, <2>1, <2>2 DEF HasEnded
  <2> QED
    BY <2>2, <2>3
<1>2. CASE Run(i)
  <2>1. h[i].pc = "run" /\ written' = written /\ st' = st
    BY <1>2 DEF Run
  <2>2. CASE Finish(i, "status")
    <3>1. Moves(i, "status")
      BY <2>2 DEF Moves
    <3> QED
      BY <1>c, <1>d, <1>e, <2>1, <3>1 DEF HasEnded
  <2>3. CASE \E n \in Sizes : h' = [h EXCEPT ![i].pc = "header", ![i].todo = n, ![i].writes = @ + 1,
                                             ![i].then = IF h[i].unary THEN "recv" ELSE "end"]
    <3>1. /\ h'[i].pc = "header" /\ h'[i].writes = h[i].writes + 1 /\ h'[i].unary = h[i].unary
          /\ h'[i].then = "recv" => h[i].unary
      BY <1>a, <2>3 DEF HandlerType
    <3>2. GoesOn(i)'
      BY <1>a, <2>1, <3>1 DEF GoesOn
    <3>3. EndsOnce(i)'
      BY <1>a, <1>e, <2>1, <3>1 DEF EndsOnce, HasEnded
    <3> QED
      BY <2>1, <3>2, <3>3
  <2> QED
    BY <1>2, <2>2, <2>3 DEF Run
<1>3. CASE WriteHeaderFrame(i)
  <2>1. PICK p \in {"loop", "headerWait"} : Moves(i, p)
    BY <1>3, <1>a, Moving
  <2>2. h[i].pc = "header" /\ written' = written
    BY <1>3 DEF WriteHeaderFrame
  <2> QED
    BY <1>c, <1>d, <1>e, <2>1, <2>2 DEF HasEnded
<1>4. CASE HeaderWait(i)
  <2>1. PICK p \in {"loop", "end", "status"} : Moves(i, p)
    BY <1>4, <1>a, Moving
  <2>2. h[i].pc = "headerWait" /\ written' = written
    BY <1>4 DEF HeaderWait
  <2> QED
    BY <1>c, <1>d, <1>e, <2>1, <2>2 DEF HasEnded
<1>5. CASE WriteLoop(i)
  <2>1. h[i].pc = "loop" /\ written' = written
    BY <1>5 DEF WriteLoop
  <2>2. PICK p \in {"streamQuota", "status", "run"} : Moves(i, p)
    BY <1>5, <1>a, Moving
  <2>3. written[i].ends # 0 => h[i].unary /\ h[i].writes > 1
    BY <1>e, <2>1 DEF HasEnded
  <2> QED
    BY <1>a, <1>c, <1>d, <1>e, <2>1, <2>2, <2>3 DEF HasEnded
<1>6. CASE StreamQuota(i)
  <2>1. h[i].pc = "streamQuota" /\ written' = written
    BY <1>6 DEF StreamQuota
  <2>2. CASE GivesUpWrite(i, "status")
    <3>1. PICK p \in {"end", "status"} : Moves(i, p)
      BY <2>2 DEF GivesUpWrite, Moves
    <3> QED
      BY <1>c, <1>d, <1>e, <2>1, <3>1 DEF HasEnded
  <2>3. CASE h' = [h EXCEPT ![i].pc = "quota", ![i].sq = st[i].pool.c]
    <3>1. /\ h'[i].pc = "quota" /\ h'[i].writes = h[i].writes /\ h'[i].unary = h[i].unary
          /\ h'[i].then = h[i].then
      BY <1>a, <2>3 DEF HandlerType
    <3> QED
      BY <1>b, <1>e, <2>1, <3>1 DEF GoesOn, EndsOnce, HasEnded
  <2> QED
    BY <1>6, <2>2, <2>3 DEF StreamQuota
<1>7. CASE TransportQuota(i)
  <2>1. h[i].pc = "quota" /\ written' = written
    BY <1>7 DEF TransportQuota
  <2>2. /\ h'[i].pc = "writeWait" /\ h'[i].writes = h[i].writes /\ h'[i].unary = h[i].unary
        /\ h'[i].then = h[i].then
    BY <1>7, <1>a DEF TransportQuota, HandlerType
  <2> QED
    BY <1>b, <1>e, <2>1, <2>2 DEF GoesOn, EndsOnce, HasEnded
<1>8. CASE QuotaRefused(i)
  <2>1. PICK p \in {"end", "status", "cancel"} : Moves(i, p)
    BY <1>8, <1>a, Moving
  <2>2. h[i].pc \in {"quota", "cancel"} /\ written' = written
    BY <1>8 DEF QuotaRefused
  <2> QED
    BY <1>c, <1>d, <1>e, <2>1, <2>2 DEF HasEnded
<1>9. CASE WriteData(i)
  <2>1. h[i].pc = "writeWait"
    BY <1>9 DEF WriteData
  <2>2. CASE GivesUpWrite(i, "status") /\ written' = written
    <3>1. PICK p \in {"end", "status"} : Moves(i, p)
      BY <2>2 DEF GivesUpWrite, Moves
    <3> QED
      BY <1>c, <1>d, <1>e, <2>1, <2>2, <3>1 DEF HasEnded
  <2>3. CASE /\ h' = [h EXCEPT ![i].pc = "loop", ![i].todo = @ - h[i].frame, ![i].frame = 0]
             /\ written' = [written EXCEPT ![i].bytes = @ + h[i].frame, ![i].late = @ \/ written[i].ends > 0]
    <3>1. /\ h'[i].pc = "loop" /\ h'[i].writes = h[i].writes /\ h'[i].unary = h[i].unary
          /\ h'[i].then = h[i].then
      BY <1>a, <2>3 DEF HandlerType
    <3>2. written'[i].ends = written[i].ends /\ (written'[i].late => written[i].late \/ written[i].ends # 0)
      BY <1>a, <2>3
    <3>3. written[i].ends # 0 => h[i].unary /\ h[i].writes > 1
      BY <1>e, <2>1 DEF HasEnded
    <3>4. GoesOn(i)'
      BY <2>1, <3>1, <3>2, <3>3 DEF GoesOn
    <3> QED
      BY <1>b, <1>e, <2>1, <3>1, <3>2, <3>4 DEF EndsOnce, HasEnded
  <2> QED
    BY <1>9, <2>1, <2>2, <2>3 DEF WriteData
<1>10. CASE WriteFails(i)
  <2>1. h[i].pc \in {"headerWait", "writeWait", "statusWait"} /\ written' = written
    BY <1>10 DEF WriteFails
  <2>2. CASE h[i].pc = "statusWait"
    <3>1. PICK p \in {"recv", "end", "status"} : Moves(i, p)
      BY <1>10, <1>a, Moving
    <3>2. written[i].ends = 0
      BY <1>e, <2>2 DEF HasEnded, EndsOnce
    <3> QED
      BY <1>c, <1>d, <2>1, <3>1, <3>2
  <2>3. CASE h[i].pc # "statusWait"
    <3>1. PICK p \in {"end", "status"} : Moves(i, p)
      BY <1>10, <2>3 DEF WriteFails, Moves
    <3> QED
      BY <1>c, <1>d, <1>e, <2>1, <2>3, <3>1 DEF HasEnded
  <2> QED
    BY <2>2, <2>3
<1>11. CASE WriteStatus(i)
  <2>1. h[i].pc = "status" /\ written' = written
    BY <1>11 DEF WriteStatus
  <2>2. CASE written[i].ends = 0
    <3>1. PICK p \in {"recv", "end", "statusWait"} : Moves(i, p)
      BY <1>11, <1>a, Moving
    <3> QED
      BY <1>c, <1>d, <2>1, <2>2, <3>1
  <2>3. CASE written[i].ends # 0
    <3>1. st[i].state = "done" /\ h[i].unary
      BY <1>e, <2>1, <2>3 DEF HasEnded
    <3>2. Moves(i, h[i].then)
      BY <1>11, <3>1 DEF WriteStatus, Moves
    <3>3. h[i].then = "recv" => h[i].writes > 0
      BY DEF GoesOn
    <3>4. h[i].then \in PCs \ {"none"} /\ h[i].then \notin Writing
      BY <1>a, <1>d
    <3> QED
      BY <1>a, <1>c, <2>1, <3>1, <3>2, <3>3, <3>4
  <2> QED
    BY <2>2, <2>3
<1>12. CASE StatusWait(i)
  <2>1. h[i].pc = "statusWait"
    BY <1>12 DEF StatusWait
  <2>2. written[i].ends = 0
    BY <1>e, <2>1 DEF HasEnded, EndsOnce
  <2>3. CASE h' = [h EXCEPT ![i].pc = h[i].then] /\ written' = written
    <3>1. Moves(i, h[i].then) /\ h[i].then \in PCs \ {"none"}
      BY <1>a, <1>d, <2>3 DEF Moves
    <3> QED
      BY <1>c, <2>1, <2>2, <2>3, <3>1
  <2>4. CASE h' = [h EXCEPT ![i].pc = "close"] /\ written' = [written EXCEPT ![i].ends = @ + 1]
    <3>1. /\ h'[i].pc = "close" /\ h'[i].writes = h[i].writes /\ h'[i].unary = h[i].unary
          /\ h'[i].then = h[i].then
      BY <1>a, <2>4 DEF HandlerType
    <3>2. written'[i].ends = 1 /\ written'[i].late = written[i].late
      BY <1>a, <2>2, <2>4
    <3> QED
      BY <2>1, <3>1, <3>2 DEF GoesOn, EndsOnce, HasEnded
  <2> QED
    BY <1>12, <2>3, <2>4 DEF StatusWait
<1>13. CASE StatusWritten(i)
  <2>1. st'[i].state = "done" \/ st[i].state = "done"
    BY <1>13 DEF StatusWritten, closeStream, ServerType
  <2>2. h[i].pc = "close" /\ written' = written /\ Moves(i, h[i].then)
    BY <1>13 DEF StatusWritten, Moves
  <2>3. h[i].then = "recv" => h[i].writes > 0 /\ h[i].unary
    BY DEF GoesOn
  <2>4. h[i].then \in PCs \ {"none"} /\ h[i].then \notin Writing
    BY <1>a, <1>d
  <2> QED
    BY <1>a, <1>c, <2>1, <2>2, <2>3, <2>4
<1> QED
  BY <1>1, <1>2, <1>3, <1>4, <1>5, <1>6, <1>7, <1>8, <1>9, <1>10, <1>11, <1>12, <1>13 DEF Handler

LEMMA EndedStep ==
  ASSUME ServerType, FrameFits, EndedInv, [ServerNext]_serverVars
  PROVE  EndedInv'
<1>0. \A i \in Streams : i \in Nat /\ t.maxStreamID \in Nat
  BY ServerTypeParts
<1>4. t'.maxStreamID \in Nat
  BY ServerTypeStep DEF ServerType, TransportType
<1>5. \A i \in Streams : (h[i].pc # "none" => i <= t.maxStreamID) /\ EndsOnce(i) /\ GoesOn(i)
  BY DEF EndedInv, EndsOnce
<1>6. (\A i \in Streams : (h[i].pc # "none" => i <= t.maxStreamID) /\ EndsOnce(i) /\ GoesOn(i))' => EndedInv'
  BY DEF EndedInv, EndsOnce
<1>1. CASE ServerReader \/ serverController \/ (\E i \in Streams : ExpireStream(i))
  <2>1. ASSUME NEW i \in Streams, h'[i].pc # "none" PROVE i <= t'.maxStreamID
    <3>1. CASE h'[i] = h[i]
      <4>1. t'.maxStreamID \in Nat /\ t'.maxStreamID >= t.maxStreamID
        BY <1>1, <1>4, ServerReaderKeeps
      <4> QED
        BY <2>1, <3>1, <4>1, <1>0, <1>5
    <3>2. CASE h'[i] # h[i]
      BY <1>0, <1>1, <3>2, HeadersCount
    <3> QED
      BY <3>1, <3>2
  <2>2. ASSUME NEW i \in Streams PROVE EndsOnce(i)' /\ GoesOn(i)'
    <3>1. written' = written /\ HandlerKept(i)
      BY <1>1, ServerReaderKeeps
    <3>2. CASE h[i].pc = "none"
      <4>1. h[i].then # "recv" /\ ~written[i].late /\ h'[i].then = h[i].then
        BY <1>5, <3>1, <3>2 DEF GoesOn, HandlerKept
      <4>2. written[i].ends = 0
        BY <1>5, <3>2 DEF EndsOnce, HasEnded
      <4> QED
        BY <3>1, <4>1, <4>2 DEF GoesOn, EndsOnce
    <3>3. CASE h[i].pc # "none"
      <4>1. i <= t.maxStreamID
        BY <1>5, <3>3
      <4>2. h'[i] = h[i]
        BY <3>1, <4>1 DEF HandlerKept
      <4>3. st[i].state = "done" => st'[i].state = "done"
        BY <1>1, <4>1, EndedReader
      <4> QED
        BY <1>5, <3>1, <4>2, <4>3 DEF GoesOn, EndsOnce, HasEnded
    <3> QED
      BY <3>2, <3>3
  <2> QED
    BY <1>6, <2>1, <2>2
<1>2. ASSUME NEW j \in Streams, Handler(j) PROVE EndedInv'
  <2>1. ASSUME NEW i \in Streams, i # j PROVE EndsOnce(i)' /\ GoesOn(i)' /\ h'[i] = h[i]
    <3>1. h'[i] = h[i] /\ written'[i] = written[i] /\ st'[i].state = st[i].state
      BY <1>2, <2>1, OtherStreams
    <3> QED
      BY <1>5, <3>1 DEF EndsOnce, HasEnded, GoesOn
  <2>2. EndsOnce(j)' /\ GoesOn(j)' /\ h[j].pc # "none"
    BY <1>2, <1>5, EndedHandler
  <2>3. t'.maxStreamID = t.maxStreamID
    BY <1>2, HandlerKeeps
  <2>4. ASSUME NEW i \in Streams
        PROVE  (h'[i].pc # "none" => i <= t'.maxStreamID) /\ EndsOnce(i)' /\ GoesOn(i)'
    <3>1. CASE i = j
      BY <1>5, <2>2, <2>3, <3>1
    <3>2. CASE i # j
      BY <1>5, <2>1, <2>3, <3>2
    <3> QED
      BY <3>1, <3>2
  <2> QED
    BY <1>6, <2>4
<1>3. CASE UNCHANGED serverVars
  BY <1>3 DEF serverVars, EndedInv, HasEnded, GoesOn
<1> QED
  BY <1>1, <1>2, <1>3 DEF ServerNext

-----------------------------------------------------------------------------
\* What f adds up to: one stream, and the others.
Others(f, i) == UNION {{j} \X (1 .. f[j]) : j \in Streams \ {i}}

LEMMA UnitsFinite ==
  ASSUME NEW f \in [Streams -> Nat], NEW Part \in SUBSET Streams
  PROVE  IsFiniteSet(UNION {{j} \X (1 .. f[j]) : j \in Part})
<1> DEFINE U == {{j} \X (1 .. f[j]) : j \in Part}
           g == [j \in Part |-> {j} \X (1 .. f[j])]
<1>1. IsFiniteSet(Part)
  BY FS_Subset, GrpcTransportAssumption
<1>2. IsFiniteSet(U)
  <2>1. g \in Surjection(Part, U)
    BY DEF Surjection
  <2> QED
    BY <1>1, <2>1, FS_Surjection
<1>3. ASSUME NEW V \in U PROVE IsFiniteSet(V)
  <2>1. PICK j \in Part : V = {j} \X (1 .. f[j])
    OBVIOUS
  <2>2. f[j] \in Nat
    OBVIOUS
  <2>3. IsFiniteSet(1 .. f[j])
    BY <2>2, FS_Interval
  <2>4. IsFiniteSet({j})
    BY FS_Singleton
  <2> QED
    BY <2>1, <2>3, <2>4, FS_Product
<1> QED
  BY <1>2, <1>3, FS_UNION

LEMMA SumSplit ==
  ASSUME NEW f \in [Streams -> Nat], NEW i \in Streams
  PROVE  Sum(f) = Cardinality(Others(f, i)) + f[i] /\ Cardinality(Others(f, i)) \in Nat
<1> DEFINE A == {i} \X (1 .. f[i])
           B == Others(f, i)
<1>1. IsFiniteSet(B)
  BY UnitsFinite DEF Others
<1>2. IsFiniteSet(A) /\ Cardinality(A) = f[i]
  <2>1. f[i] \in Nat
    OBVIOUS
  <2>2. IsFiniteSet(1 .. f[i]) /\ Cardinality(1 .. f[i]) = f[i]
    BY <2>1, FS_Interval
  <2>3. IsFiniteSet({i}) /\ Cardinality({i}) = 1
    BY FS_Singleton
  <2>4. IsFiniteSet(A) /\ Cardinality(A) = 1 * f[i]
    BY <2>2, <2>3, FS_Product
  <2> QED
    BY <2>1, <2>4
<1>3. UNION {{j} \X (1 .. f[j]) : j \in Streams} = A \cup B
  BY DEF Others
<1>7. Sum(f) = Cardinality(A \cup B)
  BY <1>3, Zenon DEF Sum
<1>4. A \cap B = {}
  BY DEF Others
<1> HIDE DEF A, B
<1>5. Cardinality(A \cup B) = Cardinality(A) + Cardinality(B) - 0
  BY <1>1, <1>2, <1>4, FS_Union, FS_EmptySet
<1>6. Cardinality(A) \in Nat /\ Cardinality(B) \in Nat
  BY <1>1, <1>2, FS_CardinalityType
<1> QED
  BY <1>2, <1>5, <1>6, <1>7 DEF B

\* One stream has n in place of f[i].
LEMMA SumUpdate ==
  ASSUME NEW f \in [Streams -> Nat], NEW g \in [Streams -> Nat], NEW i \in Streams,
         \A j \in Streams \ {i} : g[j] = f[j]
  PROVE  Sum(g) + f[i] = Sum(f) + g[i] /\ Sum(f) \in Nat /\ Sum(g) \in Nat
<1>1. Others(f, i) = Others(g, i)
  BY DEF Others
<1>2. /\ Sum(f) = Cardinality(Others(f, i)) + f[i] /\ Cardinality(Others(f, i)) \in Nat
      /\ Sum(g) = Cardinality(Others(g, i)) + g[i] /\ f[i] \in Nat /\ g[i] \in Nat
  BY SumSplit
<1> QED
  BY <1>1, <1>2

LEMMA SumIsNat ==
  ASSUME NEW f \in [Streams -> Nat]
  PROVE  Sum(f) \in Nat
BY UnitsFinite, FS_CardinalityType DEF Sum

-----------------------------------------------------------------------------
\* The windows.  Each step is one of the pool of the connection, of a stream,
\* or of what the client has granted; the others leave the accounts alone.
Units == [i \in Streams |-> written[i].bytes + h[i].frame]
Account(i) == written[i].bytes + h[i].sq + h[i].frame + Total(st[i].pool)

LEMMA UnitsType ==
  ASSUME ServerType
  PROVE  /\ Units \in [Streams -> Nat] /\ Taken = Sum(Units)
         /\ Total(t.pool) \in Nat /\ granted[0] \in Nat
         /\ \A i \in Streams : /\ written[i].bytes \in Nat /\ h[i].sq \in Nat /\ h[i].frame \in Nat
                               /\ Total(st[i].pool) \in Nat /\ granted[i] \in Nat
                               /\ Units[i] = written[i].bytes + h[i].frame
<1>1. \A i \in Streams : written[i].bytes \in Nat /\ h[i].sq \in Nat /\ h[i].frame \in Nat /\ granted[i] \in Nat
  BY ServerTypeParts DEF ServerType
<1>2. Units \in [Streams -> Nat]
  BY <1>1 DEF Units
<1>3. Total(t.pool) \in Nat /\ \A i \in Streams : Total(st[i].pool) \in Nat
  BY ServerTypeParts, TakePool
<1>4. Taken = Sum(Units) /\ \A i \in Streams : Units[i] = written[i].bytes + h[i].frame
  BY DEF Taken, Units
<1> QED
  BY <1>1, <1>2, <1>3, <1>4 DEF ServerType

\* The accounts of the handler that steps.
LEMMA AccountHandler ==
  ASSUME ServerType, ServerType', NEW i \in Streams, Handler(i)
  PROVE  /\ Account(i)' <= Account(i)
         /\ Units'[i] + Total(t'.pool) <= Units[i] + Total(t.pool)
<1> USE DEF ServerType
<1>a. /\ h[i] \in HandlerType /\ st[i] \in StreamType /\ st[i].pool \in Pools /\ t \in TransportType /\ t.pool \in Pools
      /\ written[i].bytes \in Nat /\ h[i].sq \in Nat /\ h[i].frame \in Nat /\ Total(st[i].pool) \in Nat /\ Total(t.pool) \in Nat
  BY ServerTypeParts, UnitsType
<1>b. /\ Units[i] = written[i].bytes + h[i].frame
      /\ Units'[i] = written'[i].bytes + h'[i].frame
  BY DEF Units
<1>c. ASSUME /\ written'[i].bytes = written[i].bytes /\ h'[i].sq = h[i].sq /\ h'[i].frame = h[i].frame
             /\ Total(st'[i].pool) = Total(st[i].pool) /\ Total(t'.pool) = Total(t.pool)
      PROVE  /\ Account(i)' <= Account(i)
             /\ Units'[i] + Total(t'.pool) <= Units[i] + Total(t.pool)
  BY <1>a, <1>b, <1>c DEF Account
<1>d. h \in [Streams -> HandlerType] /\ h[i].then \in {"recv", "end"}
  BY <1>a DEF HandlerType
<1>e. ASSUME NEW p \in {"none", "recv", "rest", "panic", "run", "header", "headerWait", "loop", "streamQuota",
                        "quota", "cancel", "writeWait", "status", "statusWait", "close", "end"},
             Moves(i, p)
      PROVE  h'[i].sq = h[i].sq /\ h'[i].frame = h[i].frame
  <2>1. p \in PCs
    BY DEF PCs
  <2> QED
    BY <1>d, <1>e, <2>1, Moved
<1>f. ASSUME NEW p \in {"status", "cancel"}, GivesUpWrite(i, p)
      PROVE  h'[i].sq = h[i].sq /\ h'[i].frame = h[i].frame
  <2>1. Moves(i, p) \/ Moves(i, "end") \/ Moves(i, "status")
    BY <1>f DEF GivesUpWrite, Moves
  <2> QED
    BY <1>e, <2>1
<1>1. CASE Receive(i) \/ WriteHeaderFrame(i)
  <2>1. st'[i].pool = st[i].pool /\ t' = t /\ written' = written
    BY <1>1, <1>a DEF Receive, WriteHeaderFrame, StreamType
  <2>2. h'[i].sq = h[i].sq /\ h'[i].frame = h[i].frame
    BY <1>1, <1>d, <1>e, Moving
  <2> QED
    BY <1>c, <2>1, <2>2
<1>2. CASE Run(i)
  <2>1. h'[i].sq = h[i].sq /\ h'[i].frame = h[i].frame
    <3>1. CASE Finish(i, "status")
      BY <1>e, <3>1 DEF Moves
    <3>2. CASE \E n \in Sizes : h' = [h EXCEPT ![i].pc = "header", ![i].todo = n, ![i].writes = @ + 1,
                                               ![i].then = IF h[i].unary THEN "recv" ELSE "end"]
      BY <3>2, <1>a DEF HandlerType
    <3>3. Finish(i, "status") \/ (\E n \in Sizes : h' = [h EXCEPT ![i].pc = "header", ![i].todo = n,
                                          ![i].writes = @ + 1, ![i].then = IF h[i].unary THEN "recv" ELSE "end"])
      BY <1>2 DEF Run
    <3> QED
      BY <3>1, <3>2, <3>3
  <2>2. UNCHANGED <<t, st, written>>
    BY <1>2 DEF Run
  <2> QED
    BY <1>c, <2>1, <2>2
<1>3. CASE HeaderWait(i) \/ WriteStatus(i)
  <2>1. h'[i].sq = h[i].sq /\ h'[i].frame = h[i].frame
    BY <1>3, <1>d, <1>e, Moving
  <2>2. UNCHANGED <<t, st, written>>
    BY <1>3 DEF HeaderWait, WriteStatus
  <2> QED
    BY <1>c, <2>1, <2>2
<1>4. CASE WriteLoop(i)
  <2>1. h'[i].sq = h[i].sq /\ h'[i].frame = h[i].frame /\ t' = t /\ written' = written
    BY <1>4, <1>d, <1>e, Moving DEF WriteLoop
  <2>2. st'[i].pool = st[i].pool \/ st'[i].pool = add(st[i].pool, 0)
    BY <1>4, <1>a DEF WriteLoop, StreamType
  <2>3. Total(add(st[i].pool, 0)) = Total(st[i].pool)
    BY <1>a, AddNothing
  <2> QED
    BY <1>c, <2>1, <2>2, <2>3
<1>5. CASE StreamQuota(i)
  <2>1. CASE GivesUpWrite(i, "status") /\ UNCHANGED <<t, st, rst, granted, written>>
    BY <2>1, <1>c, <1>f
  <2>2. CASE /\ h' = [h EXCEPT ![i].pc = "quota", ![i].sq = st[i].pool.c]
             /\ st' = [st EXCEPT ![i].pool.c = 0]
             /\ t' = [t EXCEPT !.pool = add(@, 0)]
             /\ UNCHANGED <<rst, granted, written>>
    <3>1. h'[i].sq = st[i].pool.c /\ h'[i].frame = h[i].frame /\ written' = written
      BY <2>2, <1>a DEF HandlerType
    <3>2. st'[i].pool = [st[i].pool EXCEPT !.c = 0] /\ t'.pool = add(t.pool, 0)
      BY <2>2, <1>a DEF StreamType, TransportType
    <3>3. /\ Total([st[i].pool EXCEPT !.c = 0]) = Total(st[i].pool) - st[i].pool.c /\ st[i].pool.c \in Nat
          /\ Total(add(t.pool, 0)) = Total(t.pool)
      BY <1>a, TakePool, AddNothing
    <3>4. Units'[i] = Units[i] /\ Total(t'.pool) = Total(t.pool)
      BY <1>b, <3>1, <3>2, <3>3
    <3>5. Account(i)' = written[i].bytes + st[i].pool.c + h[i].frame + (Total(st[i].pool) - st[i].pool.c)
      BY <3>1, <3>2, <3>3 DEF Account
    <3> QED
      BY <1>a, <1>b, <3>3, <3>4, <3>5 DEF Account
  <2> QED
    BY <1>5, <2>1, <2>2 DEF StreamQuota
<1>6. CASE TransportQuota(i)
  <2> DEFINE n == Least({h[i].todo, h[i].sq, t.pool.c, MaxFrameLen})
             took == [t.pool EXCEPT !.c = 0]
             sp == IF n < h[i].sq THEN add(st[i].pool, h[i].sq - n) ELSE st[i].pool
             tp == IF n < t.pool.c THEN add(took, t.pool.c - n) ELSE took
  <2>1. n \in Nat /\ Total(sp) = Total(st[i].pool) + h[i].sq - n /\ Total(tp) = Total(t.pool) - n
    BY CutFacts
  <2>2. /\ h' = [h EXCEPT ![i] = [h[i] EXCEPT !.pc = "writeWait", !.frame = n, !.sq = 0]]
        /\ st' = [st EXCEPT ![i] = [st[i] EXCEPT !.pool = sp]]
        /\ t' = [t EXCEPT !.pool = tp]
        /\ UNCHANGED <<rst, granted, written>>
    BY <1>6 DEF TransportQuota
  <2> HIDE DEF n, sp, tp
  <2>3. h'[i].sq = 0 /\ h'[i].frame = n /\ st'[i].pool = sp /\ t'.pool = tp /\ written' = written
    BY <2>2, <1>a DEF HandlerType, StreamType, TransportType
  <2>4. Account(i)' = written[i].bytes + 0 + n + (Total(st[i].pool) + h[i].sq - n)
    BY <2>1, <2>3 DEF Account
  <2>5. Units'[i] + Total(t'.pool) = written[i].bytes + n + (Total(t.pool) - n)
    BY <1>b, <2>1, <2>3
  <2> QED
    BY <1>a, <1>b, <2>1, <2>4, <2>5 DEF Account
<1>7. CASE QuotaRefused(i)
  <2>1. CASE GivesUpWrite(i, "cancel") /\ UNCHANGED <<t, st, rst, granted, written>>
    BY <2>1, <1>c, <1>f
  <2>2. CASE /\ t' = [t EXCEPT !.pool = cancel(@)]
             /\ h' = [h EXCEPT ![i].pc = "status"]
             /\ UNCHANGED <<st, rst, granted, written>>
    <3>1. Total(t'.pool) = Total(t.pool)
      BY <2>2, <1>a, CancelPool DEF TransportType
    <3>2. h'[i].sq = h[i].sq /\ h'[i].frame = h[i].frame
      BY <2>2, <1>a DEF HandlerType
    <3> QED
      BY <1>c, <2>2, <3>1, <3>2
  <2> QED
    BY <1>7, <2>1, <2>2 DEF QuotaRefused
<1>8. CASE WriteData(i)
  <2>1. CASE GivesUpWrite(i, "status") /\ UNCHANGED <<t, st, rst, granted, written>>
    BY <2>1, <1>c, <1>f
  <2>2. CASE /\ h' = [h EXCEPT ![i].pc = "loop", ![i].todo = @ - h[i].frame, ![i].frame = 0]
             /\ written' = [written EXCEPT ![i].bytes = @ + h[i].frame, ![i].late = @ \/ written[i].ends > 0]
             /\ UNCHANGED <<t, st, rst, granted>>
    <3>1. h'[i].sq = h[i].sq /\ h'[i].frame = 0 /\ st' = st /\ t' = t
      BY <2>2, <1>a DEF HandlerType
    <3>2. written'[i].bytes = written[i].bytes + h[i].frame
      BY <2>2
    <3> QED
      BY <1>a, <1>b, <3>1, <3>2 DEF Account
  <2> QED
    BY <1>8, <2>1, <2>2 DEF WriteData
<1>9. CASE WriteFails(i)
  <2>1. h'[i].sq = h[i].sq /\ h'[i].frame = h[i].frame /\ written' = written
    BY <1>9, <1>d, <1>e, Moving DEF WriteFails
  <2>2. st'[i].pool = st[i].pool
    BY <1>9, NotifiedType DEF WriteFails
  <2>3. t'.pool = t.pool
    BY <1>9 DEF WriteFails, ServerClosed, TransportType
  <2> QED
    BY <1>c, <2>1, <2>2, <2>3
<1>10. CASE StatusWait(i)
  <2>1. h'[i].sq = h[i].sq /\ h'[i].frame = h[i].frame
    BY <1>10, <1>d, <1>e, Moving
  <2>2. t'.pool = t.pool /\ st' = st
    BY <1>10, <1>a DEF StatusWait, TransportType
  <2>3. written'[i].bytes = written[i].bytes
    BY <1>10 DEF StatusWait
  <2> QED
    BY <1>c, <2>1, <2>2, <2>3
<1>11. CASE StatusWritten(i)
  <2>1. h'[i].sq = h[i].sq /\ h'[i].frame = h[i].frame
    BY <1>11, <1>d, <1>e, Moving
  <2>4. written' = written
    BY <1>11 DEF StatusWritten
  <2>2. st'[i].pool = st[i].pool
    BY <1>11, <1>a DEF StatusWritten, closeStream, StreamType
  <2>3. t'.pool = t.pool
    BY <1>11 DEF StatusWritten, TransportType
  <2> QED
    BY <1>c, <2>1, <2>2, <2>3, <2>4
<1> QED
  BY <1>1, <1>2, <1>3, <1>4, <1>5, <1>6, <1>7, <1>8, <1>9, <1>10, <1>11 DEF Handler

\* The reader adds to the pools what the client grants, and nothing else.
LEMMA AccountReader ==
  ASSUME ServerType, ServerReader \/ serverController \/ (\E j \in Streams : ExpireStream(j))
  PROVE  /\ Total(t'.pool) - granted'[0] = Total(t.pool) - granted[0]
         /\ \A i \in Streams : Total(st'[i].pool) - granted'[i] <= Total(st[i].pool) - granted[i]
<1>a. t \in TransportType /\ t.pool \in Pools /\ Total(t.pool) \in Nat /\ granted[0] \in Nat /\ 0 \notin Streams
  BY ServerTypeParts, UnitsType
<1>b. \A i \in Streams : /\ st[i] \in StreamType /\ st[i].pool \in Pools
                         /\ Total(st[i].pool) \in Nat /\ granted[i] \in Nat
  BY ServerTypeParts, UnitsType
<1>c. ASSUME granted' = granted, t'.pool = t.pool, \A i \in Streams : st'[i].pool = st[i].pool
      PROVE  /\ Total(t'.pool) - granted'[0] = Total(t.pool) - granted[0]
             /\ \A i \in Streams : Total(st'[i].pool) - granted'[i] <= Total(st[i].pool) - granted[i]
  BY <1>a, <1>b, <1>c
<1>1. ASSUME NEW j \in Streams \cup {0}, handleWindowUpdate(j)
      PROVE  /\ Total(t'.pool) - granted'[0] = Total(t.pool) - granted[0]
             /\ \A i \in Streams : Total(st'[i].pool) - granted'[i] <= Total(st[i].pool) - granted[i]
  <2>1. granted' = [granted EXCEPT ![j] = @ + 1]
    BY <1>1 DEF handleWindowUpdate
  <2>2. \A p \in Pools : Total(add(p, 1)) = Total(p) + 1
    BY AddPool
  <2>3. CASE j = 0
    <3>1. t'.pool = add(t.pool, 1) /\ granted'[0] = granted[0] + 1
      BY <1>1, <1>a, <2>1, <2>3 DEF handleWindowUpdate, TransportType, ServerType
    <3>2. \A i \in Streams : granted'[i] = granted[i] /\ st'[i] = st[i]
      BY <1>1, <1>a, <2>1, <2>3 DEF handleWindowUpdate, ServerType, TransportType
    <3> QED
      BY <1>a, <1>b, <2>2, <3>1, <3>2
  <2>4. CASE j # 0
    <3>1. t' = t /\ granted'[0] = granted[0]
      BY <1>1, <1>a, <2>1, <2>4 DEF handleWindowUpdate, ServerType
    <3>2. ASSUME NEW i \in Streams
          PROVE  Total(st'[i].pool) - granted'[i] <= Total(st[i].pool) - granted[i]
      <4>1. CASE i = j
        <5>1. granted'[i] = granted[i] + 1
          BY <2>1, <4>1 DEF ServerType
        <5>2. st'[i].pool = st[i].pool \/ st'[i].pool = add(st[i].pool, 1)
          BY <1>1, <1>b, <4>1 DEF handleWindowUpdate, ServerType, StreamType
        <5> QED
          BY <1>b, <2>2, <5>1, <5>2
      <4>2. CASE i # j
        <5>1. granted'[i] = granted[i] /\ st'[i] = st[i]
          BY <1>1, <2>1, <4>2 DEF handleWindowUpdate, ServerType
        <5> QED
          BY <1>b, <5>1
      <4> QED
        BY <4>1, <4>2
    <3> QED
      BY <1>a, <3>1, <3>2
  <2> QED
    BY <2>3, <2>4
<1>2. ASSUME NEW j \in Streams, NEW end \in BOOLEAN, NEW kind \in Kinds, operateHeaders(j, end, kind)
      PROVE  granted' = granted /\ t'.pool = t.pool /\ \A i \in Streams : st'[i].pool = st[i].pool
  <2>1. /\ t'.pool = t.pool /\ granted' = granted
        /\ st' = st \/ \E s \in {"readDone", "active"} : st' = [st EXCEPT ![j].state = s]
    BY <1>2, HeadersStart
  <2>3. ASSUME NEW s \in {"readDone", "active"}, st' = [st EXCEPT ![j].state = s], NEW i \in Streams
        PROVE  st'[i].pool = st[i].pool
    BY <1>b, <2>3 DEF ServerType, StreamType
  <2> QED
    BY <2>1, <2>3
<1>3. ASSUME NEW j \in Streams, NEW end \in BOOLEAN, NEW content \in Contents, serverHandleData(j, content, end)
      PROVE  granted' = granted /\ t'.pool = t.pool /\ \A i \in Streams : st'[i].pool = st[i].pool
  <2>1. granted' = granted /\ t' = t
    BY <1>3 DEF serverHandleData
  <2>2. ASSUME NEW i \in Streams PROVE st'[i].pool = st[i].pool
    BY <1>3, <1>b DEF serverHandleData, ServerType, StreamType
  <2> QED
    BY <2>1, <2>2
<1>4. CASE ServerClose
  <2>1. granted' = granted /\ t'.pool = t.pool
    BY <1>4, <1>a DEF ServerClose, ServerClosed, TransportType
  <2>2. \A i \in Streams : st'[i].pool = st[i].pool
    BY <1>4, NotifiedType DEF ServerClose
  <2> QED
    BY <1>c, <2>1, <2>2
<1>5. CASE MarkReset
  <2>1. granted' = granted /\ t' = t /\ st' = [st EXCEPT ![rst.id].state = "done"]
    BY <1>5 DEF MarkReset
  <2>2. \A i \in Streams : st'[i].pool = st[i].pool
    BY <1>b, <2>1 DEF ServerType, StreamType
  <2> QED
    BY <1>c, <2>1, <2>2
<1>6. CASE CloseReset
  <2>1. granted' = granted /\ t'.pool = t.pool
    BY <1>6, <1>a DEF CloseReset, TransportType
  <2>2. \A i \in Streams : st'[i].pool = st[i].pool
    BY <1>6, <1>b DEF CloseReset, closeStream, ServerType, StreamType
  <2> QED
    BY <1>c, <2>1, <2>2
<1>7. ASSUME NEW j \in Streams, serverHandleRSTStream(j) \/ ExpireStream(j)
      PROVE  granted' = granted /\ t' = t /\ \A i \in Streams : st'[i].pool = st[i].pool
  <2>1. granted' = granted /\ t' = t /\ (st' = st \/ st' = [st EXCEPT ![j].done = TRUE])
    BY <1>7 DEF serverHandleRSTStream, ExpireStream
  <2>2. ASSUME NEW i \in Streams PROVE st'[i].pool = st[i].pool
    <3>1. st'[i] = st[i] \/ st'[i] = [st[i] EXCEPT !.done = TRUE]
      BY <2>1 DEF ServerType
    <3> QED
      BY <1>b, <3>1 DEF StreamType
  <2> QED
    BY <2>1, <2>2
<1>8. CASE serverController
  BY <1>8, <1>a, <1>c DEF serverController, TransportType
<1>9. CASE ServerReader
  BY <1>1, <1>2, <1>3, <1>4, <1>5, <1>6, <1>7, <1>9, <1>c DEF ServerReader
<1> QED
  BY <1>7, <1>8, <1>9, <1>c

LEMMA AccountType ==
  ServerType => /\ Units \in [Streams -> Nat] /\ Taken = Sum(Units) /\ Total(t.pool) \in Nat /\ granted[0] \in Nat
           /\ \A i \in Streams : Account(i) \in Nat /\ granted[i] \in Nat /\ Total(st[i].pool) \in Nat
BY UnitsType DEF Account

LEMMA WindowStep ==
  ASSUME ServerType, ServerType', WithinWindow, [ServerNext]_serverVars
  PROVE  WithinWindow'
<1>a. /\ Units \in [Streams -> Nat] /\ Taken = Sum(Units) /\ Total(t.pool) \in Nat /\ granted[0] \in Nat
      /\ \A i \in Streams : Account(i) \in Nat /\ granted[i] \in Nat /\ Total(st[i].pool) \in Nat
  BY AccountType
<1>b. (/\ Units \in [Streams -> Nat] /\ Taken = Sum(Units) /\ Total(t.pool) \in Nat /\ granted[0] \in Nat
       /\ \A i \in Streams : Account(i) \in Nat /\ granted[i] \in Nat /\ Total(st[i].pool) \in Nat)'
  BY AccountType, PTL
<1>c. Taken + Total(t.pool) <= granted[0] /\ \A i \in Streams : Account(i) <= granted[i]
  BY DEF WithinWindow, Account
<1>d. (Taken + Total(t.pool) <= granted[0] /\ \A i \in Streams : Account(i) <= granted[i])' => WithinWindow'
  BY DEF WithinWindow, Account
<1>e. \A i \in Streams : Units[i] = written[i].bytes + h[i].frame /\ Units'[i] = written'[i].bytes + h'[i].frame
  BY DEF Units
<1>1. CASE ServerReader \/ serverController \/ (\E i \in Streams : ExpireStream(i))
  <2>1. written' = written /\ \A i \in Streams : h'[i].sq = h[i].sq /\ h'[i].frame = h[i].frame
    BY <1>1, ServerReaderKeeps DEF HandlerKept
  <2>2. Units' = Units
    BY <2>1 DEF Units
  <2>3. Taken' = Taken /\ Taken \in Nat
    <3>1. Taken \in Nat
      BY <1>a, SumIsNat
    <3> QED
      BY <1>a, <1>b, <2>2, <3>1
  <2>4. /\ Total(t'.pool) - granted'[0] = Total(t.pool) - granted[0]
        /\ \A i \in Streams : Total(st'[i].pool) - granted'[i] <= Total(st[i].pool) - granted[i]
    BY <1>1, AccountReader
  <2>5. Taken' + Total(t'.pool) <= granted'[0]
    BY <1>a, <1>b, <1>c, <2>3, <2>4
  <2>6. ASSUME NEW i \in Streams PROVE Account(i)' <= granted'[i]
    <3>1. Total(st'[i].pool) - granted'[i] <= Total(st[i].pool) - granted[i]
      BY <2>4
    <3>2. Account(i)' = written[i].bytes + h[i].sq + h[i].frame + Total(st'[i].pool)
      BY <2>1 DEF Account
    <3>3. Account(i) = written[i].bytes + h[i].sq + h[i].frame + Total(st[i].pool)
      BY DEF Account
    <3>4. written[i].bytes \in Nat /\ h[i].sq \in Nat /\ h[i].frame \in Nat /\ Total(st[i].pool) \in Nat /\ granted[i] \in Nat
      BY UnitsType
    <3>5. Total(st'[i].pool) \in Nat /\ granted'[i] \in Nat /\ Account(i) <= granted[i]
      BY <1>b, <1>c
    <3> QED
      BY <3>1, <3>2, <3>3, <3>4, <3>5
  <2> QED
    BY <1>d, <2>5, <2>6
<1>2. ASSUME NEW j \in Streams, Handler(j) PROVE WithinWindow'
  <2>1. /\ Account(j)' <= Account(j)
        /\ Units'[j] + Total(t'.pool) <= Units[j] + Total(t.pool)
    BY <1>2, AccountHandler
  <2>2. \A i \in Streams \ {j} : Units'[i] = Units[i] /\ Account(i)' = Account(i)
    BY <1>2, <1>e, OtherStreams DEF Account
  <2>3. granted' = granted
    BY <1>2, HandlerKeeps
  <2>4. Sum(Units') + Units[j] = Sum(Units) + Units'[j] /\ Sum(Units) \in Nat /\ Sum(Units') \in Nat
    BY <1>a, <1>b, <2>2, SumUpdate
  <2>5. Units[j] \in Nat /\ Units'[j] \in Nat
    BY <1>a, <1>b
  <2>6. Taken' + Total(t'.pool) <= granted'[0]
    BY <1>a, <1>b, <1>c, <2>1, <2>3, <2>4, <2>5
  <2>7. ASSUME NEW i \in Streams PROVE Account(i)' <= granted'[i]
    <3>1. Account(i)' <= Account(i)
      BY <1>a, <2>1, <2>2
    <3> QED
      BY <1>a, <1>b, <1>c, <2>3, <3>1
  <2> QED
    BY <1>d, <2>6, <2>7
<1>3. CASE UNCHANGED serverVars
  BY <1>3 DEF serverVars, WithinWindow, Taken
<1> QED
  BY <1>1, <1>2, <1>3 DEF ServerNext

-----------------------------------------------------------------------------
ServerInv == ServerType /\ FrameFits /\ EndedInv /\ WithinWindow

LEMMA ServerStart == ServerInit => ServerInv
<1> SUFFICES ASSUME ServerInit PROVE ServerInv
  OBVIOUS
<1>a. initialWindowSize \in Nat /\ StreamLimits \subseteq Nat
  BY GrpcTransportAssumption
<1>b. newQuotaPool(initialWindowSize) \in Pools /\ Total(newQuotaPool(initialWindowSize)) = initialWindowSize
  BY <1>a DEF newQuotaPool, Pools, Total
<1> HIDE DEF newQuotaPool
<1>1. ServerType
  <2>1. t \in TransportType
    BY <1>a, <1>b DEF ServerInit, TransportType
  <2>2. st \in [Streams -> StreamType]
    <3>1. <<>> \in Seq(Pieces)
      OBVIOUS
    <3> QED
      BY <1>b, <3>1 DEF ServerInit, StreamType
  <2>3. h \in [Streams -> HandlerType]
    BY DEF ServerInit, NoHandler, HandlerType, PCs
  <2> QED
    BY <1>a, <2>1, <2>2, <2>3 DEF ServerInit, ServerType
<1>2. FrameFits /\ EndedInv
  BY DEF ServerInit, NoHandler, FrameFits, EndedInv, GoesOn
<1>3. WithinWindow
  <2>1. Units = [i \in Streams |-> 0]
    BY DEF ServerInit, NoHandler, Units
  <2>2. Taken = 0
    <3>1. UNION {{i} \X (1 .. Units[i]) : i \in Streams} = {}
      BY <2>1
    <3>2. Sum(Units) = 0
      BY <3>1, FS_EmptySet, Zenon DEF Sum
    <3> QED
      BY <1>1, <3>2, UnitsType
  <2>3. t.pool = newQuotaPool(initialWindowSize) /\ granted = [i \in Streams \cup {0} |-> initialWindowSize]
    BY DEF ServerInit
  <2>4. ASSUME NEW i \in Streams
        PROVE  written[i].bytes = 0 /\ h[i].sq = 0 /\ h[i].frame = 0 /\ st[i].pool = newQuotaPool(initialWindowSize)
    BY DEF ServerInit, NoHandler
  <2> QED
    BY <1>a, <1>b, <2>2, <2>3, <2>4 DEF WithinWindow
<1> QED
  BY <1>1, <1>2, <1>3 DEF ServerInv

LEMMA ServerInvariance == ServerSpec => []ServerInv
<1>1. ASSUME ServerInv, [ServerNext]_serverVars PROVE ServerInv'
  <2>1. ServerType' /\ FrameFits' /\ EndedInv'
    BY <1>1, ServerTypeStep, FitsStep, EndedStep DEF ServerInv
  <2> QED
    BY <1>1, <2>1, WindowStep DEF ServerInv
<1> QED
  BY ServerStart, <1>1, PTL DEF ServerSpec

(***************************************************************************)
(* The bytes sent and those cut for a frame stay within what the client    *)
(* has granted, on every stream and on the connection, for any number of   *)
(* handlers that acquire, cut, give back and cancel quota at once.         *)
(***************************************************************************)
THEOREM WithinWindowHolds == ServerSpec => []WithinWindow
<1>1. ServerInv => WithinWindow
  BY DEF ServerInv
<1> QED
  BY <1>1, ServerInvariance, PTL

(***************************************************************************)
(* However a reset, a deadline, a failed write and the handler race for    *)
(* the end of a stream, END_STREAM is written once; and only a unary call  *)
(* that had a further message to handle has bytes written after it (the    *)
(* loop of processUnaryRPC, Write and WriteStatus).                        *)
(***************************************************************************)
THEOREM StatusOnceHolds == ServerSpec => []StatusOnce
<1>1. ServerInv => StatusOnce
  BY DEF ServerInv, EndedInv, GoesOn, StatusOnce
<1> QED
  BY <1>1, ServerInvariance, PTL

=============================================================================
