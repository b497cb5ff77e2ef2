-------------------------- MODULE RedisPool_proofs --------------------------
(***************************************************************************)
(* What is proved of redigo's pool, for any number of goroutines and       *)
(* connections and any limits: it counts exactly, hands out clean          *)
(* connections only, loses no wakeup and implements Lease.                 *)
(***************************************************************************)
EXTENDS RedisPool, FiniteSetTheorems, TLAPS

-----------------------------------------------------------------------------
(* Connections: redis/conn.go. *)

\* A connection that failed is closed and empty; one that did not has exactly
\* the replies to come that it counts.
ConnOK(k) ==
    /\ k.err => k.dead /\ ~k.open /\ ~k.multi /\ ~k.watch /\ k.unsent = 0 /\ k.unread = 0
    /\ ~k.err => k.pending = k.unread + k.unsent

Good == {k \in ConnType : ConnOK(k)}

\* It was dialed.
Made(k) == k.open \/ k.err

\* Nothing on it is left of a goroutine.
Clean(k) ==
    /\ k.open /\ ~k.err /\ ~k.multi /\ ~k.watch
    /\ k.unsent = 0 /\ k.unread = 0

\* What the handle of a goroutine knows of its connection.
Agree(state, k) ==
    ~k.err => /\ k.open
              /\ k.multi <=> "multi" \in state
              /\ k.watch => "watch" \in state \/ "multi" \in state

\* A connection field by field.
Has(k, o, d, e, p, s, r, m, w) ==
    /\ k \in ConnType /\ k.open = o /\ k.dead = d /\ k.err = e /\ k.pending = p
    /\ k.unsent = s /\ k.unread = r /\ k.multi = m /\ k.watch = w

\* The updates of the code.
LEMMA Updates ==
  ASSUME NEW k \in ConnType, NEW p \in Nat, NEW s \in Nat, NEW r \in Nat,
         NEW m \in BOOLEAN, NEW w \in BOOLEAN
  PROVE  /\ Has([k EXCEPT !.pending = p],
                 k.open, k.dead, k.err, p, k.unsent, k.unread, k.multi, k.watch)
         /\ Has([k EXCEPT !.dead = TRUE],
                 k.open, TRUE, k.err, k.pending, k.unsent, k.unread, k.multi, k.watch)
         /\ Has([k EXCEPT !.open = TRUE],
                 TRUE, k.dead, k.err, k.pending, k.unsent, k.unread, k.multi, k.watch)
         /\ Has([k EXCEPT !.pending = p, !.unsent = s],
                 k.open, k.dead, k.err, p, s, k.unread, k.multi, k.watch)
         /\ Has([k EXCEPT !.unread = r, !.unsent = s],
                 k.open, k.dead, k.err, k.pending, s, r, k.multi, k.watch)
         /\ Has([k EXCEPT !.unread = r, !.pending = p],
                 k.open, k.dead, k.err, p, k.unsent, r, k.multi, k.watch)
         /\ Has([k EXCEPT !.pending = p, !.unsent = s, !.unread = r],
                 k.open, k.dead, k.err, p, s, r, k.multi, k.watch)
         /\ Has([k EXCEPT !.multi = m, !.watch = w],
                 k.open, k.dead, k.err, k.pending, k.unsent, k.unread, m, w)
<1>1. Has([k EXCEPT !.pending = p],
           k.open, k.dead, k.err, p, k.unsent, k.unread, k.multi, k.watch)
  BY DEF Has, ConnType
<1>2. Has([k EXCEPT !.dead = TRUE],
           k.open, TRUE, k.err, k.pending, k.unsent, k.unread, k.multi, k.watch)
  BY DEF Has, ConnType
<1>3. Has([k EXCEPT !.open = TRUE],
           TRUE, k.dead, k.err, k.pending, k.unsent, k.unread, k.multi, k.watch)
  BY DEF Has, ConnType
<1>4. Has([k EXCEPT !.pending = p, !.unsent = s],
           k.open, k.dead, k.err, p, s, k.unread, k.multi, k.watch)
  BY DEF Has, ConnType
<1>5. Has([k EXCEPT !.unread = r, !.unsent = s],
           k.open, k.dead, k.err, k.pending, s, r, k.multi, k.watch)
  BY DEF Has, ConnType
<1>6. Has([k EXCEPT !.unread = r, !.pending = p],
           k.open, k.dead, k.err, p, k.unsent, r, k.multi, k.watch)
  BY DEF Has, ConnType
<1>7. Has([k EXCEPT !.pending = p, !.unsent = s, !.unread = r],
           k.open, k.dead, k.err, p, s, r, k.multi, k.watch)
  BY DEF Has, ConnType
<1>8. Has([k EXCEPT !.multi = m, !.watch = w],
           k.open, k.dead, k.err, k.pending, k.unsent, k.unread, m, w)
  BY DEF Has, ConnType
<1> QED BY <1>1, <1>2, <1>3, <1>4, <1>5, <1>6, <1>7, <1>8

\* A connection that is made or given up.
LEMMA Fresh == /\ NewConn \in Good /\ ~Made(NewConn)
               /\ [NewConn EXCEPT !.open = TRUE] \in Good /\ Clean([NewConn EXCEPT !.open = TRUE])
<1>1. Has(NewConn, FALSE, FALSE, FALSE, 0, 0, 0, FALSE, FALSE)
  BY DEF NewConn, Has, ConnType
<1>2. Has([NewConn EXCEPT !.open = TRUE], TRUE, FALSE, FALSE, 0, 0, 0, FALSE, FALSE)
  BY DEF NewConn, Has, ConnType
<1>3. NewConn \in Good /\ ~Made(NewConn)
  BY <1>1 DEF Has, Good, ConnOK, Made
<1>4. PICK e : e = [NewConn EXCEPT !.open = TRUE]
  OBVIOUS
<1>5. Has(e, TRUE, FALSE, FALSE, 0, 0, 0, FALSE, FALSE)
  BY <1>2, <1>4
<1>6. e \in Good /\ Clean(e)
  BY <1>5 DEF Has, Good, ConnOK, Clean
<1> QED BY <1>3, <1>4, <1>6

\* CloseConn leaves a closed connection.
LEMMA Closing ==
  ASSUME NEW k \in ConnType
  PROVE  CloseConn(k) \in Good /\ CloseConn(k).err /\ ~CloseConn(k).open
<1>1. PICK p \in Nat : p = k.pending
  BY DEF ConnType
<1>2. PICK e : e = CloseConn(k)
  OBVIOUS
<1>3. Has(e, FALSE, TRUE, TRUE, p, 0, 0, FALSE, FALSE)
  BY <1>1, <1>2 DEF CloseConn, NewConn, Has, ConnType
<1> QED BY <1>2, <1>3 DEF Has, Good, ConnOK

\* A command changes the transaction state at the server only.
ToMulti(k, cmd) == IF cmd = "MULTI" THEN TRUE ELSE IF cmd \in {"EXEC", "DISCARD"} THEN FALSE ELSE k.multi
ToWatch(k, cmd) ==
    IF cmd = "WATCH" /\ ~k.multi THEN TRUE
    ELSE IF cmd \in {"EXEC", "DISCARD"} THEN FALSE
    ELSE IF cmd = "UNWATCH" /\ ~k.multi THEN FALSE ELSE k.watch

LEMMA Executing ==
  ASSUME NEW k \in ConnType, NEW cmd
  PROVE  Has(Executed(k, cmd), k.open, k.dead, k.err, k.pending, k.unsent, k.unread,
             ToMulti(k, cmd), ToWatch(k, cmd))
<1>1. PICK m \in BOOLEAN : m = ToMulti(k, cmd)
  BY DEF ToMulti, ConnType
<1>2. PICK w \in BOOLEAN : w = ToWatch(k, cmd)
  BY DEF ToWatch, ConnType
<1>3. Executed(k, cmd) = [k EXCEPT !.multi = m, !.watch = w]
  BY <1>1, <1>2 DEF Executed, ToMulti, ToWatch
<1>4. Has(Executed(k, cmd), k.open, k.dead, k.err, k.pending, k.unsent, k.unread, m, w)
  BY <1>3, Updates, 0 \in Nat
<1> QED BY <1>1, <1>2, <1>4

\* Send counts one reply more, unless the connection has failed.
LEMMA Sending ==
  ASSUME NEW k \in Good, NEW cmd
  PROVE  /\ SendTo(k, cmd) \in Good /\ (Made(k) => Made(SendTo(k, cmd)))
         /\ SendTo(k, cmd).err = k.err /\ SendTo(k, cmd).open = k.open
         /\ ~k.err => /\ SendTo(k, cmd).multi = ToMulti(k, cmd)
                      /\ SendTo(k, cmd).watch = ToWatch(k, cmd)
                      /\ SendTo(k, cmd).pending > 0
<1>1. k \in ConnType /\ ConnOK(k)
  BY DEF Good
<1>2. PICK p \in Nat : p = k.pending + 1
  BY <1>1 DEF ConnType
<1>3. PICK f : f = SendTo(k, cmd)
  OBVIOUS
<1>4. CASE k.err
  <2>1. f = [k EXCEPT !.pending = p]
    BY <1>2, <1>3, <1>4 DEF SendTo
  <2>2. Has(f, k.open, k.dead, k.err, p, k.unsent, k.unread, k.multi, k.watch)
    BY <1>1, <2>1, Updates
  <2> QED BY <1>1, <1>3, <1>4, <2>2 DEF Has, Good, ConnOK, Made
<1>5. CASE ~k.err
  <2>1. PICK e : e = Executed(k, cmd)
    OBVIOUS
  <2>2. Has(e, k.open, k.dead, k.err, k.pending, k.unsent, k.unread, ToMulti(k, cmd), ToWatch(k, cmd))
    BY <1>1, <2>1, Executing
  <2>3. PICK s \in Nat : s = e.unsent + 1
    BY <1>1, <2>2 DEF Has, ConnType
  <2>4. f = [e EXCEPT !.pending = p, !.unsent = s]
    BY <1>2, <1>3, <1>5, <2>1, <2>2, <2>3 DEF SendTo, Has
  <2>5. Has(f, e.open, e.dead, e.err, p, s, e.unread, e.multi, e.watch)
    <3>1. e \in ConnType
      BY <2>2 DEF Has
    <3> QED BY <2>4, <3>1, Updates
  <2>6. f.pending = f.unread + f.unsent
    BY <1>1, <1>2, <1>5, <2>2, <2>3, <2>5 DEF Has, ConnOK, ConnType
  <2>7. f \in Good /\ f.err = k.err /\ f.open = k.open /\ f.multi = ToMulti(k, cmd)
        /\ f.watch = ToWatch(k, cmd) /\ f.pending > 0
    BY <1>2, <1>5, <2>2, <2>5, <2>6, <1>1 DEF Has, Good, ConnOK, ConnType
  <2> QED BY <1>3, <1>5, <2>7 DEF Made
<1> QED BY <1>4, <1>5

\* Do reads every reply, or fails.
LEMMA Doing ==
  ASSUME NEW k \in Good, NEW cmd
  PROVE  /\ DoOn(k, cmd) \in Good /\ (Made(k) => Made(DoOn(k, cmd)))
         /\ k.dead => DoOn(k, cmd).err
         /\ ~k.dead => /\ DoOn(k, cmd).err = FALSE /\ DoOn(k, cmd).open = k.open
                       /\ DoOn(k, cmd).multi = ToMulti(k, cmd) /\ DoOn(k, cmd).watch = ToWatch(k, cmd)
                       /\ DoOn(k, cmd).unsent = 0 /\ DoOn(k, cmd).unread = 0
<1>1. k \in ConnType /\ ConnOK(k)
  BY DEF Good
<1>2. PICK f : f = DoOn(k, cmd)
  OBVIOUS
<1>3. CASE k.dead
  <2>1. PICK e : e = [k EXCEPT !.pending = 0]
    OBVIOUS
  <2>2. e \in ConnType
    BY <1>1, <2>1 DEF ConnType
  <2>3. f = CloseConn(e)
    BY <1>2, <1>3, <2>1 DEF DoOn
  <2>4. f \in Good /\ f.err
    BY <2>2, <2>3, Closing
  <2> QED BY <1>2, <1>3, <2>4 DEF Made
<1>4. CASE ~k.dead
  <2>1. PICK e : e = Executed(k, cmd)
    OBVIOUS
  <2>2. Has(e, k.open, k.dead, k.err, k.pending, k.unsent, k.unread, ToMulti(k, cmd), ToWatch(k, cmd))
    BY <1>1, <2>1, Executing
  <2>3. k.unread + k.unsent - k.pending = 0 /\ k.err = FALSE
    BY <1>1, <1>4 DEF ConnOK, ConnType
  <2>4. f = [e EXCEPT !.pending = 0, !.unsent = 0, !.unread = 0]
    BY <1>2, <1>4, <2>1, <2>3 DEF DoOn
  <2>5. Has(f, e.open, e.dead, e.err, 0, 0, 0, e.multi, e.watch)
    <3>1. e \in ConnType /\ 0 \in Nat
      BY <2>2 DEF Has
    <3> QED BY <2>4, <3>1, Updates
  <2>6. f \in Good /\ f.err = FALSE /\ f.open = k.open /\ f.multi = ToMulti(k, cmd)
        /\ f.watch = ToWatch(k, cmd) /\ f.unsent = 0 /\ f.unread = 0
    BY <2>2, <2>3, <2>5 DEF Has, Good, ConnOK, ConnType
  <2> QED BY <1>2, <1>4, <2>3, <2>6 DEF Made
<1> QED BY <1>3, <1>4

\* So does Do(""), which sends nothing.
LEMMA Draining ==
  ASSUME NEW k \in Good
  PROVE  /\ DoNothing(k) \in Good /\ (Made(k) => Made(DoNothing(k)))
         /\ ~DoNothing(k).err =>
              /\ ~k.err /\ DoNothing(k).open = k.open
              /\ DoNothing(k).multi = k.multi /\ DoNothing(k).watch = k.watch
              /\ DoNothing(k).unsent = 0 /\ DoNothing(k).unread = 0
<1>1. k \in ConnType /\ ConnOK(k)
  BY DEF Good
<1>2. PICK f : f = DoNothing(k)
  OBVIOUS
<1>3. CASE k.pending = 0
  <2>1. f = k
    BY <1>2, <1>3 DEF DoNothing
  <2>2. ~k.err => k.unread = 0 /\ k.unsent = 0
    BY <1>1, <1>3 DEF ConnOK, ConnType
  <2> QED BY <1>2, <2>1, <2>2
<1>4. CASE k.pending # 0 /\ k.dead
  <2>1. PICK e : e = [k EXCEPT !.pending = 0]
    OBVIOUS
  <2>2. e \in ConnType
    BY <1>1, <2>1 DEF ConnType
  <2>3. f = CloseConn(e)
    BY <1>2, <1>4, <2>1 DEF DoNothing
  <2>4. f \in Good /\ f.err
    BY <2>2, <2>3, Closing
  <2> QED BY <1>2, <2>4 DEF Made
<1>5. CASE k.pending # 0 /\ ~k.dead
  <2>1. k.unread + k.unsent - k.pending = 0 /\ k.err = FALSE
    BY <1>1, <1>5 DEF ConnOK, ConnType
  <2>2. f = [k EXCEPT !.pending = 0, !.unsent = 0, !.unread = 0]
    BY <1>2, <1>5, <2>1 DEF DoNothing
  <2>3. Has(f, k.open, k.dead, k.err, 0, 0, 0, k.multi, k.watch)
    BY <1>1, <2>2, Updates
  <2> QED BY <1>2, <2>1, <2>3 DEF Has, Good, ConnOK, Made
<1> QED BY <1>3, <1>4, <1>5

\* Flush and Receive, of a connection with a reply to come.
LEMMA Piping ==
  ASSUME NEW k \in Good
  PROVE  /\ FlushOn(k) \in Good /\ (Made(k) => Made(FlushOn(k)))
         /\ \A state : Agree(state, k) => Agree(state, FlushOn(k))
         /\ k.unread > 0 \/ k.dead =>
              /\ ReceiveOn(k) \in Good /\ (Made(k) => Made(ReceiveOn(k)))
              /\ \A state : Agree(state, k) => Agree(state, ReceiveOn(k))
<1>1. k \in ConnType /\ ConnOK(k)
  BY DEF Good
<1>2. PICK f, v : f = FlushOn(k) /\ v = ReceiveOn(k)
  OBVIOUS
<1>3. CASE k.dead
  <2>1. f = CloseConn(k) /\ v = CloseConn(k)
    BY <1>2, <1>3 DEF FlushOn, ReceiveOn
  <2>2. f \in Good /\ f.err /\ v \in Good /\ v.err
    BY <1>1, <2>1, Closing
  <2> QED BY <1>2, <2>2 DEF Made, Agree
<1>4. CASE ~k.dead
  <2>1. k.err = FALSE /\ k.pending = k.unread + k.unsent
    BY <1>1, <1>4 DEF ConnOK, ConnType
  <2>2. PICK u \in Nat : u = k.unread + k.unsent
    BY <1>1 DEF ConnType
  <2>3. f = [k EXCEPT !.unread = u, !.unsent = 0]
    BY <1>2, <1>4, <2>2 DEF FlushOn
  <2>4. Has(f, k.open, k.dead, k.err, k.pending, 0, u, k.multi, k.watch)
    BY <1>1, <2>3, Updates
  <2>5. f \in Good /\ f.open = k.open /\ f.err = FALSE /\ f.multi = k.multi /\ f.watch = k.watch
    BY <2>1, <2>2, <2>4 DEF Has, Good, ConnOK
  <2>6. ASSUME k.unread > 0
        PROVE  v \in Good /\ v.open = k.open /\ v.err = FALSE /\ v.multi = k.multi /\ v.watch = k.watch
    <3>1. PICK n \in Nat : n = k.unread - 1
      BY <1>1, <2>6 DEF ConnType
    <3>2. PICK p \in Nat : p = k.pending - 1 /\ k.pending > 0
      BY <1>1, <2>1, <2>6 DEF ConnType
    <3>3. v = [k EXCEPT !.unread = n, !.pending = p]
      BY <1>2, <1>4, <3>1, <3>2 DEF ReceiveOn
    <3>4. Has(v, k.open, k.dead, k.err, p, k.unsent, n, k.multi, k.watch)
      BY <1>1, <3>3, Updates
    <3>5. p = n + k.unsent
      BY <1>1, <2>1, <3>1, <3>2 DEF ConnType
    <3> QED BY <2>1, <3>4, <3>5 DEF Has, Good, ConnOK
  <2> QED BY <1>2, <1>4, <2>1, <2>5, <2>6 DEF Made, Agree
<1> QED BY <1>3, <1>4

\* A connection that is given up keeps what is on it.
LEMMA Breaking ==
  ASSUME NEW k \in Good, k.open
  PROVE  /\ [k EXCEPT !.dead = TRUE] \in Good /\ Made([k EXCEPT !.dead = TRUE])
         /\ [k EXCEPT !.dead = TRUE].err = k.err /\ [k EXCEPT !.dead = TRUE].open
         /\ Clean(k) => Clean([k EXCEPT !.dead = TRUE])
         /\ \A state : Agree(state, k) => Agree(state, [k EXCEPT !.dead = TRUE])
<1>1. k \in ConnType /\ ConnOK(k)
  BY DEF Good
<1>2. PICK f : f = [k EXCEPT !.dead = TRUE]
  OBVIOUS
<1>3. Has(f, k.open, TRUE, k.err, k.pending, k.unsent, k.unread, k.multi, k.watch)
  BY <1>1, <1>2, Updates, 0 \in Nat, TRUE \in BOOLEAN
<1>4. f \in Good
  BY <1>1, <1>3 DEF Has, Good, ConnOK
<1> QED BY <1>2, <1>3, <1>4 DEF Has, Made, Clean, Agree

-----------------------------------------------------------------------------
(* The lists of connections. *)

Item == [c : Conns, t : Nat]

ConnsIn(s) == {s[i].c : i \in DOMAIN s}

Distinct(s) == \A i, j \in DOMAIN s : s[i].c = s[j].c => i = j

\* idle.Remove(idle.Front()), and the walk of Pool.Close.
LEMMA Popped ==
  ASSUME NEW s \in Seq(Item), s # <<>>, Distinct(s)
  PROVE  /\ Tail(s) \in Seq(Item) /\ Len(Tail(s)) = Len(s) - 1 /\ Distinct(Tail(s))
         /\ ConnsIn(Tail(s)) = ConnsIn(s) \ {Head(s).c} /\ Head(s).c \in ConnsIn(s) /\ Head(s).c \in Conns
<1>1. PICK n \in Nat : n = Len(s) - 1 /\ Len(s) = n + 1 /\ DOMAIN s = 1 .. n + 1
  OBVIOUS
<1>2. /\ Tail(s) \in Seq(Item) /\ Len(Tail(s)) = n /\ DOMAIN Tail(s) = 1 .. n
      /\ \A i \in 1 .. n : Tail(s)[i] = s[i + 1]
  BY <1>1
<1>3. PICK q : q = Tail(s)
  OBVIOUS
<1>4. DOMAIN q = 1 .. n /\ \A i \in 1 .. n : q[i] = s[i + 1] /\ i + 1 \in DOMAIN s
  BY <1>1, <1>2, <1>3
<1>5. Distinct(q)
  BY <1>4 DEF Distinct
<1>6. Head(s) = s[1] /\ 1 \in DOMAIN s /\ s[1].c \in Conns
  <2>1. Head(s) = s[1] /\ 1 \in DOMAIN s /\ s[1] \in Item
    BY <1>1
  <2> QED BY <2>1 DEF Item
<1>7. ConnsIn(q) = ConnsIn(s) \ {s[1].c}
  <2>1. ASSUME NEW c \in ConnsIn(q) PROVE c \in ConnsIn(s) /\ c # s[1].c
    <3>1. PICK i \in 1 .. n : c = s[i + 1].c /\ i + 1 \in DOMAIN s
      BY <1>4, <2>1 DEF ConnsIn
    <3>2. i + 1 # 1
      OBVIOUS
    <3> QED BY <3>1, <3>2, <1>6 DEF ConnsIn, Distinct
  <2>2. ASSUME NEW c \in ConnsIn(s), c # s[1].c PROVE c \in ConnsIn(q)
    <3>1. PICK j \in DOMAIN s : c = s[j].c
      BY <2>2 DEF ConnsIn
    <3>2. PICK i \in 1 .. n : j = i + 1
      <4>1. j # 1 /\ j \in 1 .. n + 1
        BY <1>1, <2>2, <3>1
      <4>2. j - 1 \in 1 .. n /\ j = (j - 1) + 1
        BY <4>1
      <4> QED BY <4>2
    <3>3. q[i].c = c
      BY <1>4, <3>1, <3>2
    <3> QED BY <1>4, <3>3 DEF ConnsIn
  <2> QED BY <2>1, <2>2
<1>8. s[1].c \in ConnsIn(s)
  BY <1>6 DEF ConnsIn
<1> QED BY <1>1, <1>2, <1>3, <1>5, <1>6, <1>7, <1>8

\* idle.Remove(idle.Back()).
LEMMA Pruned ==
  ASSUME NEW s \in Seq(Item), s # <<>>, Distinct(s)
  PROVE  LET q == SubSeq(s, 1, Len(s) - 1)
             last == s[Len(s)].c
         IN  /\ q \in Seq(Item) /\ Len(q) = Len(s) - 1 /\ Distinct(q)
             /\ ConnsIn(q) = ConnsIn(s) \ {last} /\ last \in ConnsIn(s) /\ last \in Conns
<1>1. PICK n \in Nat : n = Len(s) - 1 /\ Len(s) = n + 1 /\ DOMAIN s = 1 .. n + 1
  OBVIOUS
<1>2. PICK q : q = SubSeq(s, 1, n)
  OBVIOUS
<1>3. q \in Seq(Item) /\ Len(q) = n /\ DOMAIN q = 1 .. n /\ \A i \in 1 .. n : q[i] = s[i] /\ i \in DOMAIN s
  BY <1>1, <1>2
<1>5. Distinct(q)
  BY <1>3 DEF Distinct
<1>6. n + 1 \in DOMAIN s /\ s[n + 1].c \in Conns
  <2>1. n + 1 \in DOMAIN s /\ s[n + 1] \in Item
    BY <1>1
  <2> QED BY <2>1 DEF Item
<1>7. ConnsIn(q) = ConnsIn(s) \ {s[n + 1].c}
  <2>1. ASSUME NEW c \in ConnsIn(q) PROVE c \in ConnsIn(s) /\ c # s[n + 1].c
    <3>1. PICK i \in 1 .. n : c = s[i].c /\ i \in DOMAIN s
      BY <1>3, <2>1 DEF ConnsIn
    <3>2. i # n + 1
      OBVIOUS
    <3> QED BY <3>1, <3>2, <1>6 DEF ConnsIn, Distinct
  <2>2. ASSUME NEW c \in ConnsIn(s), c # s[n + 1].c PROVE c \in ConnsIn(q)
    <3>1. PICK j \in DOMAIN s : c = s[j].c
      BY <2>2 DEF ConnsIn
    <3>2. j \in 1 .. n
      BY <1>1, <2>2, <3>1
    <3>3. q[j].c = c
      BY <1>3, <3>1, <3>2
    <3> QED BY <1>3, <3>2, <3>3 DEF ConnsIn
  <2> QED BY <2>1, <2>2
<1>8. s[n + 1].c \in ConnsIn(s)
  BY <1>6 DEF ConnsIn
<1>9. Len(s) - 1 = n /\ Len(s) = n + 1
  BY <1>1
<1> QED BY <1>2, <1>3, <1>5, <1>6, <1>7, <1>8, <1>9

\* idle.PushFront.
LEMMA Pushed ==
  ASSUME NEW s \in Seq(Item), Distinct(s), NEW x \in Item, x.c \notin ConnsIn(s)
  PROVE  /\ <<x>> \o s \in Seq(Item) /\ Len(<<x>> \o s) = Len(s) + 1 /\ Distinct(<<x>> \o s)
         /\ ConnsIn(<<x>> \o s) = ConnsIn(s) \cup {x.c}
<1>1. PICK n \in Nat : n = Len(s) /\ DOMAIN s = 1 .. n
  OBVIOUS
<1>2. PICK q : q = <<x>> \o s
  OBVIOUS
<1>3. q \in Seq(Item) /\ Len(q) = n + 1 /\ DOMAIN q = 1 .. n + 1 /\ q[1] = x
      /\ \A i \in 1 .. n : q[i + 1] = s[i]
  BY <1>1, <1>2
<1>4. \A j \in 1 .. n + 1 : j = 1 \/ \E i \in 1 .. n : j = i + 1
  <2> SUFFICES ASSUME NEW j \in 1 .. n + 1, j # 1 PROVE \E i \in 1 .. n : j = i + 1
    OBVIOUS
  <2>1. j - 1 \in 1 .. n /\ j = (j - 1) + 1
    OBVIOUS
  <2> QED BY <2>1
<1>5. \A i \in 1 .. n : s[i].c \in ConnsIn(s) /\ q[i + 1].c # x.c
  BY <1>1, <1>3 DEF ConnsIn
<1>6. Distinct(q)
  <2> SUFFICES ASSUME NEW i \in 1 .. n + 1, NEW j \in 1 .. n + 1, q[i].c = q[j].c PROVE i = j
    BY <1>3 DEF Distinct
  <2>1. CASE i = 1 \/ j = 1
    BY <1>3, <1>4, <1>5, <2>1
  <2>2. CASE i # 1 /\ j # 1
    <3>1. PICK a \in 1 .. n, b \in 1 .. n : i = a + 1 /\ j = b + 1
      BY <1>4, <2>2
    <3>2. s[a].c = s[b].c
      BY <1>3, <3>1
    <3> QED BY <1>1, <3>1, <3>2 DEF Distinct
  <2> QED BY <2>1, <2>2
<1>7. ConnsIn(q) = ConnsIn(s) \cup {x.c}
  <2>1. ASSUME NEW c \in ConnsIn(q) PROVE c \in ConnsIn(s) \cup {x.c}
    <3>1. PICK j \in 1 .. n + 1 : c = q[j].c
      BY <1>3, <2>1 DEF ConnsIn
    <3> QED BY <1>3, <1>4, <1>5, <3>1
  <2>2. ASSUME NEW c \in ConnsIn(s) PROVE c \in ConnsIn(q)
    <3>1. PICK i \in 1 .. n : c = s[i].c
      BY <1>1, <2>2 DEF ConnsIn
    <3>2. i + 1 \in DOMAIN q /\ q[i + 1].c = c
      BY <1>3, <3>1
    <3> QED BY <3>2 DEF ConnsIn
  <2>3. x.c \in ConnsIn(q)
    <3>1. 1 \in DOMAIN q /\ q[1].c = x.c
      BY <1>3
    <3> QED BY <3>1 DEF ConnsIn
  <2> QED BY <2>1, <2>2, <2>3
<1> QED BY <1>1, <1>2, <1>3, <1>6, <1>7

-----------------------------------------------------------------------------
(* The inductive invariant. *)

HState == [pc : Pcs, c : Conns \cup {NoConn}, n : Nat, state : SUBSET {"multi", "watch"}]

TypeInv ==
    /\ now \in Nat /\ active \in Int /\ closed \in BOOLEAN
    /\ idle \in Seq(Item) /\ toClose \in Seq(Item)
    /\ hs \in [Handlers -> HState] /\ conn \in [Conns -> Good]
    /\ \A h \in Handlers : hs[h].pc \in HasConn => hs[h].c \in Conns
    /\ MaxActive > 0 => active <= MaxActive

(***************************************************************************)
(* A connection is in one place: with one goroutine, once among the idle   *)
(* ones, or once in the list Pool.Close walks.  Where it is nowhere, it    *)
(* was not made or is closed.                                              *)
(***************************************************************************)
Own(h) == IF hs[h].pc \in HasConn THEN {hs[h].c} ELSE {}
Pooled == ConnsIn(idle) \cup ConnsIn(toClose)
Taken(c) == c \in Pooled \/ \E h \in Handlers : c \in Own(h)

Settled(c) ==
    IF Taken(c) THEN Made(conn[c]) ELSE conn[c] = NewConn \/ (conn[c].err /\ ~conn[c].open)

Places ==
    /\ Distinct(idle) /\ Distinct(toClose) /\ ConnsIn(idle) \cap ConnsIn(toClose) = {}
    /\ ~closed => toClose = <<>>
    /\ \A h \in Handlers : Own(h) \cap Pooled = {}
    /\ \A g \in Handlers, h \in Handlers : g # h => Own(g) \cap Own(h) = {}
    /\ \A c \in Conns : Settled(c)

\* What the goroutines of the count do.
Working == {"test", "failed", "dial", "held", "put"}
Workers == {h \in Handlers : hs[h].pc \in Working}

Counted == active = Len(idle) + Cardinality(Workers)

\* For each connection that could be had somebody is on the way, if any wait.
Roused == {h \in Handlers : hs[h].pc = "woken"}

Wakes ==
    Waiters(hs) # {} =>
        /\ ~closed /\ MaxActive > 0
        /\ Len(idle) + MaxActive - active <= Cardinality(Roused)

\* A goroutine takes over a clean connection, knows what it does with it, and
\* returns a clean one or one that failed.
Fits(r, k) ==
    /\ r.pc = "test" => Clean(k) /\ r.state = {}
    /\ r.pc = "held" => Agree(r.state, k)
    /\ r.pc = "put" => k.err \/ Clean(k)

Cleaned ==
    /\ \A c \in ConnsIn(idle) : Clean(conn[c])
    /\ Len(idle) <= MaxIdle
    /\ \A h \in Handlers : Fits(hs[h], conn[hs[h].c])

PoolInv == TypeInv /\ Places /\ Counted /\ Wakes /\ Cleaned
-----------------------------------------------------------------------------
(* What a step does to the goroutines: one moves, and a waiter may be      *)
(* woken.                                                                  *)

Calm(h) ==
    /\ hs' \in [Handlers -> HState]
    /\ \A g \in Handlers \ {h} : hs'[g] = hs[g]

Signals(h) ==
    /\ hs' \in [Handlers -> HState]
    /\ \/ \A g \in Handlers \ {h} : hs'[g] = hs[g] /\ hs[g].pc # "wait"
       \/ \E w \in Handlers \ {h} :
             /\ hs[w].pc = "wait" /\ hs'[w].pc = "woken" /\ hs'[w].c = hs[w].c
             /\ \A g \in Handlers \ {h, w} : hs'[g] = hs[g]

Others(h) ==
    /\ hs' \in [Handlers -> HState]
    /\ \A g \in Handlers \ {h} : hs'[g] = hs[g] \/ (hs[g].pc = "wait" /\ hs'[g].pc = "woken")

\* cond.Signal, by a goroutine that does not itself wait.
LEMMA Signalling ==
  ASSUME TypeInv, NEW h \in Handlers, NEW r \in HState, hs[h].pc # "wait",
         \/ r.pc # "wait" /\ hs' \in Signal([hs EXCEPT ![h] = r])
         \/ \E f \in Signal(hs) : hs' = [f EXCEPT ![h] = r]
  PROVE  Signals(h) /\ hs'[h] = r
<1>1. hs \in [Handlers -> HState] /\ "woken" \in Pcs
  BY DEF TypeInv, Pcs
<1>2. \A k \in HState : [k EXCEPT !.pc = "woken"] \in HState /\ [k EXCEPT !.pc = "woken"].pc = "woken"
                        /\ [k EXCEPT !.pc = "woken"].c = k.c
  BY <1>1 DEF HState
<1>3. CASE r.pc # "wait" /\ hs' \in Signal([hs EXCEPT ![h] = r])
  <2>1. PICK g : g = [hs EXCEPT ![h] = r]
    OBVIOUS
  <2>2. g \in [Handlers -> HState] /\ g[h] = r /\ \A j \in Handlers \ {h} : g[j] = hs[j]
    BY <1>1, <2>1
  <2>3. CASE Waiters(g) = {} /\ hs' = g
    BY <2>2, <2>3 DEF Signals, Waiters
  <2>4. CASE \E w \in Waiters(g) : hs' = [g EXCEPT ![w].pc = "woken"]
    <3>1. PICK w \in Handlers : g[w].pc = "wait" /\ hs' = [g EXCEPT ![w].pc = "woken"]
      BY <2>4 DEF Waiters
    <3>2. w # h /\ hs[w].pc = "wait" /\ hs[w] \in HState
      BY <1>1, <1>3, <2>2, <3>1
    <3>3. PICK k \in HState : k = [hs[w] EXCEPT !.pc = "woken"] /\ k.pc = "woken" /\ k.c = hs[w].c
      BY <1>2, <3>2
    <3>4. hs' = [g EXCEPT ![w] = k]
      BY <2>2, <3>1, <3>2, <3>3
    <3>5. hs' \in [Handlers -> HState] /\ hs'[w] = k /\ \A j \in Handlers \ {w} : hs'[j] = g[j]
      BY <2>2, <3>4
    <3>6. hs'[h] = r /\ \A j \in Handlers \ {h, w} : hs'[j] = hs[j]
      BY <2>2, <3>2, <3>5
    <3> QED BY <3>2, <3>3, <3>5, <3>6 DEF Signals
  <2> QED BY <1>3, <2>1, <2>3, <2>4 DEF Signal
<1>4. CASE \E f \in Signal(hs) : hs' = [f EXCEPT ![h] = r]
  <2>1. PICK f \in Signal(hs) : hs' = [f EXCEPT ![h] = r]
    BY <1>4
  <2>2. CASE Waiters(hs) = {} /\ f = hs
    <3>1. hs' \in [Handlers -> HState] /\ hs'[h] = r /\ \A g \in Handlers \ {h} : hs'[g] = hs[g]
      BY <1>1, <2>1, <2>2
    <3> QED BY <2>2, <3>1 DEF Signals, Waiters
  <2>3. CASE \E w \in Waiters(hs) : f = [hs EXCEPT ![w].pc = "woken"]
    <3>1. PICK w \in Handlers : hs[w].pc = "wait" /\ f = [hs EXCEPT ![w].pc = "woken"]
      BY <2>3 DEF Waiters
    <3>2. w # h /\ hs[w] \in HState
      BY <1>1, <3>1
    <3>3. PICK k \in HState : k = [hs[w] EXCEPT !.pc = "woken"] /\ k.pc = "woken" /\ k.c = hs[w].c
      BY <1>2, <3>2
    <3>4. f = [hs EXCEPT ![w] = k]
      BY <1>1, <3>1, <3>3
    <3>5. f \in [Handlers -> HState] /\ f[w] = k /\ \A j \in Handlers \ {w} : f[j] = hs[j]
      BY <1>1, <3>4
    <3>6. hs' \in [Handlers -> HState] /\ hs'[h] = r /\ \A j \in Handlers \ {h} : hs'[j] = f[j]
      BY <2>1, <3>5
    <3>7. hs'[w] = k /\ \A j \in Handlers \ {h, w} : hs'[j] = hs[j]
      BY <3>2, <3>5, <3>6
    <3> QED BY <3>1, <3>2, <3>3, <3>6, <3>7 DEF Signals
  <2> QED BY <2>1, <2>2, <2>3 DEF Signal
<1> QED BY <1>3, <1>4

\* What is left alone.
LEMMA OthersStay ==
  ASSUME TypeInv, NEW h \in Handlers, Calm(h) \/ Signals(h)
  PROVE  /\ Others(h) /\ \A g \in Handlers \ {h} : Own(g)' = Own(g)
<1>1. Others(h)
  <2> SUFFICES ASSUME NEW g \in Handlers \ {h}
               PROVE  hs'[g] = hs[g] \/ (hs[g].pc = "wait" /\ hs'[g].pc = "woken")
    BY DEF Others, Calm, Signals
  <2> QED BY DEF Calm, Signals
<1>2. ASSUME NEW g \in Handlers \ {h} PROVE Own(g)' = Own(g)
  BY <1>1 DEF Others, Own, HasConn
<1> QED BY <1>1, <1>2

\* Acquire: an idle connection, a new one, or none.
Acquires(r, act, n) ==
    \/ /\ n > 0 /\ idle # <<>>
       /\ idle' = Tail(idle) /\ active' = act /\ r = At("test", Head(idle).c, n - 1)
    \/ /\ ~(n > 0 /\ idle # <<>>) /\ idle' = idle
       /\ \/ /\ r = At("dial", NoConn, 0) /\ active' = act + 1
             /\ ~closed /\ (MaxActive = 0 \/ act < MaxActive)
          \/ /\ r = Out /\ active' = act
             /\ closed \/ ~(MaxActive = 0 \/ act < MaxActive)
          \/ /\ r = At("wait", NoConn, 0) /\ active' = act
             /\ ~closed /\ ~(MaxActive = 0 \/ act < MaxActive)

LEMMA Acquiring ==
  ASSUME NEW h, NEW f, NEW act, NEW n, Acquire(h, f, act, n)
  PROVE  closed' = closed /\ \E r : hs' = [f EXCEPT ![h] = r] /\ Acquires(r, act, n)
<1>1. CASE n > 0 /\ idle # <<>>
  BY <1>1 DEF Acquire, Acquires
<1>2. CASE ~(n > 0 /\ idle # <<>>)
  <2> DEFINE under == MaxActive = 0 \/ act < MaxActive
             next == CASE closed -> Out
                           [] ~closed /\ under -> At("dial", NoConn, 0)
                           [] ~closed /\ ~under /\ ~Wait -> Out
                           [] OTHER -> At("wait", NoConn, 0)
  <2>1. /\ idle' = idle /\ closed' = closed /\ hs' = [f EXCEPT ![h] = next]
        /\ active' = IF next.pc = "dial" THEN act + 1 ELSE act
    BY <1>2 DEF Acquire
  <2>2. Out.pc = "out" /\ At("dial", NoConn, 0).pc = "dial" /\ At("wait", NoConn, 0).pc = "wait"
    BY DEF Out, At
  <2>3. CASE closed
    <3>1. next = Out
      BY <2>3
    <3> QED BY <1>2, <2>1, <2>2, <2>3, <3>1 DEF Acquires
  <2>4. CASE ~closed /\ under
    <3>1. next = At("dial", NoConn, 0)
      BY <2>4
    <3> QED BY <1>2, <2>1, <2>2, <2>4, <3>1 DEF Acquires
  <2>5. CASE ~closed /\ ~under
    <3>1. next = Out \/ next = At("wait", NoConn, 0)
      BY <2>5
    <3> QED BY <1>2, <2>1, <2>2, <2>5, <3>1 DEF Acquires
  <2> QED BY <2>3, <2>4, <2>5
<1> QED BY <1>1, <1>2
-----------------------------------------------------------------------------
(* How connections change hands, and that these are the steps of Lease.    *)

\* Who has a connection, by its place.
LeaseIs(c) ==
    /\ \A h \in Handlers : c \in Own(h) => LeaseOf(c) = h
    /\ c \in Pooled => LeaseOf(c) = "pooled"
    /\ ~Taken(c) => LeaseOf(c) = IF conn[c].err THEN "closed" ELSE "new"

LeasesAre == \A c \in Conns : LeaseIs(c)

LEMMA LeaseByPlace == Places => LeasesAre
<1> SUFFICES ASSUME Places, NEW c \in Conns PROVE LeaseIs(c)
  BY DEF LeasesAre
<1>0. Owners(c) = {h \in Handlers : c \in Own(h)}
  BY DEF Owners, Own
<1>1. Pooled = InIdle \cup InClose
  BY DEF Pooled, InIdle, InClose, ConnsIn
<1>2. ASSUME NEW h \in Handlers, c \in Own(h) PROVE LeaseOf(c) = h
  <2>1. Owners(c) = {h} /\ c \notin InIdle \cup InClose
    BY <1>0, <1>1, <1>2 DEF Places
  <2>2. PICK S : S = Owners(c) \cup (IF c \in InIdle \cup InClose THEN {"pooled"} ELSE {})
    OBVIOUS
  <2>3. S = {h}
    BY <2>1, <2>2
  <2>4. Cardinality(S) = 1 /\ (CHOOSE o \in S : TRUE) = h /\ S # {}
    BY <2>3, FS_Singleton
  <2> QED BY <2>2, <2>4 DEF LeaseOf
<1>3. ASSUME c \in Pooled PROVE LeaseOf(c) = "pooled"
  <2>1. Owners(c) = {} /\ c \in InIdle \cup InClose
    BY <1>0, <1>1, <1>3 DEF Places
  <2>2. PICK S : S = Owners(c) \cup (IF c \in InIdle \cup InClose THEN {"pooled"} ELSE {})
    OBVIOUS
  <2>3. S = {"pooled"}
    BY <2>1, <2>2
  <2>4. Cardinality(S) = 1 /\ (CHOOSE o \in S : TRUE) = "pooled" /\ S # {}
    BY <2>3, FS_Singleton
  <2> QED BY <2>2, <2>4 DEF LeaseOf
<1>4. ASSUME ~Taken(c) PROVE LeaseOf(c) = IF conn[c].err THEN "closed" ELSE "new"
  <2>1. Owners(c) = {} /\ c \notin InIdle \cup InClose
    BY <1>0, <1>1, <1>4 DEF Taken
  <2>2. ~conn[c].open
    BY <1>4, Fresh DEF Places, Settled, Made
  <2> QED BY <2>1, <2>2 DEF LeaseOf
<1> QED BY <1>2, <1>3, <1>4 DEF LeaseIs

\* h moves; the connections X are dialed, what h or the pool has no more is closed.
Moved(h, X) ==
    /\ Others(h) /\ X \subseteq Conns /\ (\A c \in X : conn[c] = NewConn)
    /\ Distinct(idle') /\ Distinct(toClose') /\ ConnsIn(idle') \cap ConnsIn(toClose') = {}
    /\ ~closed' => toClose' = <<>>
    /\ Own(h)' \cap Pooled' = {}
    /\ \A c \in Conns :
          IF c \in Own(h) \cup Pooled \cup X
          THEN IF c \in Own(h)' \cup Pooled' THEN Made(conn'[c]) ELSE conn'[c].err /\ ~conn'[c].open
          ELSE conn'[c] = conn[c]

\* The ways a connection passes between h and the pool.
Passes(h, X) ==
    \/ Own(h)' = Own(h) /\ Pooled' = Pooled /\ X = {}
    \/ \E d \in Pooled : Own(h) = {} /\ Own(h)' = {d} /\ Pooled' = Pooled \ {d} /\ X = {}
    \/ \E c \in Conns, d \in Pooled : Own(h) = {c} /\ Own(h)' = {d} /\ Pooled' = Pooled \ {d} /\ X = {}
    \/ \E c \in Conns : Own(h) = {c} /\ Own(h)' = {} /\ Pooled' = Pooled /\ X = {}
    \/ \E c \in Conns : Own(h) = {} /\ Own(h)' = {c} /\ Pooled' = Pooled /\ X = {c}
    \/ \E c \in Conns : Own(h) = {c} /\ Own(h)' = {} /\ Pooled' = Pooled \cup {c} /\ X = {}
    \/ \E c \in Conns, d \in Pooled :
          Own(h) = {c} /\ Own(h)' = {d} /\ Pooled' = (Pooled \cup {c}) \ {d} /\ X = {}
    \/ \E c \in Pooled : Own(h)' = Own(h) /\ Pooled' = Pooled \ {c} /\ X = {}

\* What is pooled or owned is a connection.
LEMMA InConns ==
  ASSUME TypeInv
  PROVE  Pooled \subseteq Conns /\ \A h \in Handlers : Own(h) \subseteq Conns
<1>1. ASSUME NEW s \in Seq(Item) PROVE ConnsIn(s) \subseteq Conns
  <2>1. \A i \in DOMAIN s : s[i] \in Item
    OBVIOUS
  <2> QED BY <2>1 DEF ConnsIn, Item
<1> QED BY <1>1 DEF TypeInv, Pooled, Own

\* A connection stays in one place.
LEMMA PlacesNext ==
  ASSUME TypeInv, Places, NEW h \in Handlers, NEW X, Moved(h, X), Passes(h, X)
  PROVE  Places'
<1>1. Own(h)' \cup Pooled' \subseteq Own(h) \cup Pooled \cup X
  BY DEF Passes
<1>2. \A g \in Handlers \ {h} : Own(g)' = Own(g)
  BY DEF Moved, Others, Own, HasConn
<1>3. \A g \in Handlers \ {h} : Own(g) \cap (Own(h) \cup Pooled \cup X) = {}
  <2> SUFFICES ASSUME NEW g \in Handlers \ {h}, NEW c \in Own(g) PROVE c \notin Own(h) \cup Pooled \cup X
    OBVIOUS
  <2>1. c \notin Own(h) \cup Pooled
    BY DEF Places
  <2>2. c \in Conns /\ Taken(c)
    BY InConns DEF Taken
  <2>3. Made(conn[c])
    BY <2>2 DEF Places, Settled
  <2> QED BY <2>1, <2>3, Fresh DEF Moved
<1>4. \A g \in Handlers : Own(g)' \cap Pooled' = {}
  BY <1>1, <1>2, <1>3 DEF Moved
<1>5. \A g \in Handlers, j \in Handlers : g # j => Own(g)' \cap Own(j)' = {}
  <2> SUFFICES ASSUME NEW g \in Handlers, NEW j \in Handlers, g # j PROVE Own(g)' \cap Own(j)' = {}
    OBVIOUS
  <2>1. CASE g # h /\ j # h
    BY <1>2, <2>1 DEF Places
  <2>2. CASE g = h
    BY <1>1, <1>2, <1>3, <2>2
  <2>3. CASE j = h
    BY <1>1, <1>2, <1>3, <2>3
  <2> QED BY <2>1, <2>2, <2>3
<1>6. ASSUME NEW c \in Conns PROVE Settled(c)'
  <2>1. Taken(c)' <=> c \in Own(h)' \cup Pooled' \/ \E g \in Handlers \ {h} : c \in Own(g)
    BY <1>2 DEF Taken
  <2>2. CASE c \in Own(h) \cup Pooled \cup X
    <3>1. Taken(c)' <=> c \in Own(h)' \cup Pooled'
      BY <1>3, <2>1, <2>2
    <3> QED BY <2>2, <3>1 DEF Moved, Settled
  <2>3. CASE c \notin Own(h) \cup Pooled \cup X
    <3>1. conn'[c] = conn[c]
      BY <2>3 DEF Moved
    <3>2. Taken(c)' <=> Taken(c)
      BY <1>1, <2>1, <2>3 DEF Taken
    <3> QED BY <3>1, <3>2 DEF Places, Settled
  <2> QED BY <2>2, <2>3
<1> QED BY <1>4, <1>5, <1>6 DEF Moved, Places

\* Leases at one connection, and at two, in any step.
LEMMA LeaseUpdates ==
  ASSUME NEW f, NEW g, DOMAIN f = Conns, DOMAIN g = Conns, f = [e \in Conns |-> f[e]],
         g = [e \in Conns |-> g[e]]
  PROVE  /\ (\A e \in Conns : g[e] = f[e]) => g = f
         /\ \A c \in Conns : \A u : (\A e \in Conns : g[e] = IF e = c THEN u ELSE f[e]) => g = [f EXCEPT ![c] = u]
         /\ \A c \in Conns, d \in Conns : \A u, v :
               c # d /\ (\A e \in Conns : g[e] = IF e = c THEN u ELSE IF e = d THEN v ELSE f[e])
               => g = [f EXCEPT ![c] = u, ![d] = v]
OBVIOUS

\* Whatever passes between a goroutine and the pool, it is a step of Lease.
LEMMA LeaseNext ==
  ASSUME TypeInv, Places, NEW h \in Handlers, NEW X, Moved(h, X), Passes(h, X)
  PROVE  L!Next \/ UNCHANGED Leases
<1>1. Places'
  BY PlacesNext
<1>2. /\ \A c \in Conns : LeaseIs(c)
      /\ \A c \in Conns : LeaseIs(c)'
  <2>1. LeasesAre /\ LeasesAre'
    BY <1>1, LeaseByPlace, PTL
  <2> QED BY <2>1 DEF LeasesAre
<1>3. Own(h)' \cup Pooled' \subseteq Own(h) \cup Pooled \cup X
  BY DEF Passes
<1>4. \A g \in Handlers \ {h} : Own(g)' = Own(g)
  BY DEF Moved, Others, Own, HasConn
<1>5. ASSUME NEW c \in Conns, c \notin Own(h) \cup Pooled \cup X PROVE LeaseOf(c)' = LeaseOf(c)
  <2>1. CASE \E g \in Handlers : c \in Own(g)
    <3>1. PICK g \in Handlers : c \in Own(g)
      BY <2>1
    <3>2. c \in Own(g)'
      BY <1>4, <1>5, <3>1
    <3> QED BY <1>2, <3>1, <3>2 DEF LeaseIs
  <2>2. CASE ~\E g \in Handlers : c \in Own(g)
    <3>1. ~Taken(c) /\ ~Taken(c)' /\ conn'[c] = conn[c]
      BY <1>3, <1>4, <1>5, <2>2 DEF Taken, Moved
    <3> QED BY <1>2, <3>1 DEF LeaseIs
  <2> QED BY <2>1, <2>2
<1>6. ASSUME NEW c \in Conns
      PROVE  /\ c \in Pooled => LeaseOf(c) = "pooled"
             /\ c \in Pooled' => LeaseOf(c)' = "pooled"
             /\ c \in Own(h) => LeaseOf(c) = h
             /\ c \in Own(h)' => LeaseOf(c)' = h
             /\ c \in X => LeaseOf(c) = "new"
             /\ c \in (Own(h) \cup Pooled) \ (Own(h)' \cup Pooled') => LeaseOf(c)' = "closed"
  <2>1. /\ c \in Pooled => LeaseOf(c) = "pooled"
        /\ c \in Own(h) => LeaseOf(c) = h
    BY <1>2 DEF LeaseIs
  <2>2. /\ c \in Pooled' => LeaseOf(c)' = "pooled"
        /\ c \in Own(h)' => LeaseOf(c)' = h
    BY <1>2 DEF LeaseIs
  <2>3. ASSUME c \in X PROVE LeaseOf(c) = "new"
    <3>1. conn[c] = NewConn
      BY <2>3 DEF Moved
    <3>2. ~Made(conn[c]) /\ ~conn[c].err
      BY <3>1, Fresh DEF Made
    <3>3. ~Taken(c)
      BY <3>2 DEF Places, Settled
    <3> QED BY <1>2, <3>2, <3>3 DEF LeaseIs
  <2>4. ASSUME c \in (Own(h) \cup Pooled) \ (Own(h)' \cup Pooled') PROVE LeaseOf(c)' = "closed"
    <3>1. conn'[c].err
      BY <2>4 DEF Moved
    <3>2. \A g \in Handlers \ {h} : c \notin Own(g)
      BY <2>4 DEF Places
    <3>3. ~Taken(c)'
      BY <1>4, <2>4, <3>2 DEF Taken
    <3> QED BY <1>2, <3>1, <3>3 DEF LeaseIs
  <2> QED BY <2>1, <2>2, <2>3, <2>4
<1>7. PICK f, g : f = Leases /\ g = Leases'
  OBVIOUS
<1>8. /\ DOMAIN f = Conns /\ DOMAIN g = Conns /\ f = [e \in Conns |-> f[e]] /\ g = [e \in Conns |-> g[e]]
      /\ \A e \in Conns : f[e] = LeaseOf(e) /\ g[e] = LeaseOf(e)'
  BY <1>7 DEF Leases
<1>9. /\ (\A e \in Conns : g[e] = f[e]) => g = f
      /\ \A c \in Conns : \A u : (\A e \in Conns : g[e] = IF e = c THEN u ELSE f[e]) => g = [f EXCEPT ![c] = u]
      /\ \A c \in Conns, d \in Conns : \A u, v :
               c # d /\ (\A e \in Conns : g[e] = IF e = c THEN u ELSE IF e = d THEN v ELSE f[e])
               => g = [f EXCEPT ![c] = u, ![d] = v]
  BY <1>8, LeaseUpdates
<1>10. Pooled \subseteq Conns /\ Own(h) \cap Pooled = {}
  BY InConns DEF Places
<1>11. X \subseteq Conns /\ X \cap (Own(h) \cup Pooled) = {}
  <2>1. \A c \in X : c \in Conns /\ ~Made(conn[c])
    BY Fresh DEF Moved
  <2> QED BY <2>1 DEF Places, Settled, Taken
<1> DEFINE Same(e) == g[e] = f[e]
<1>12. \A e \in Conns : /\ e \notin Own(h) \cup Pooled \cup X => Same(e)
                        /\ e \in Pooled /\ e \in Pooled' => Same(e)
                        /\ e \in Own(h) /\ e \in Own(h)' => Same(e)
  BY <1>5, <1>6, <1>8
<1>13. CASE Own(h)' = Own(h) /\ Pooled' = Pooled /\ X = {}
  BY <1>7, <1>9, <1>12, <1>13
<1>14. ASSUME NEW d \in Pooled, Own(h) = {}, Own(h)' = {d}, Pooled' = Pooled \ {d}, X = {} PROVE L!Next
  <2>1. f[d] = "pooled" /\ \A e \in Conns : g[e] = IF e = d THEN h ELSE f[e]
    BY <1>6, <1>8, <1>10, <1>12, <1>14
  <2>2. L!Borrow(h, d)
    BY <1>7, <1>9, <1>10, <2>1 DEF L!Borrow, L!Pooled
  <2> QED BY <1>10, <2>2 DEF L!Next
<1>15. ASSUME NEW c \in Conns, NEW d \in Pooled, Own(h) = {c}, Own(h)' = {d}, Pooled' = Pooled \ {d}, X = {}
       PROVE  L!Next
  <2>1. c # d /\ f[c] = h /\ f[d] = "pooled"
        /\ \A e \in Conns : g[e] = IF e = c THEN "closed" ELSE IF e = d THEN h ELSE f[e]
    BY <1>6, <1>8, <1>10, <1>12, <1>15
  <2>2. L!DropAndBorrow(h, c, d)
    BY <1>7, <1>9, <1>10, <2>1 DEF L!DropAndBorrow, L!Pooled, L!Closed
  <2> QED BY <1>10, <2>1, <2>2 DEF L!Next
<1>16. ASSUME NEW c \in Conns, Own(h) = {c}, Own(h)' = {}, Pooled' = Pooled, X = {} PROVE L!Next
  <2>1. f[c] = h /\ \A e \in Conns : g[e] = IF e = c THEN "closed" ELSE f[e]
    BY <1>6, <1>8, <1>10, <1>12, <1>16
  <2>2. L!Drop(h, c)
    BY <1>7, <1>9, <2>1 DEF L!Drop, L!Closed
  <2> QED BY <2>2 DEF L!Next
<1>17. ASSUME NEW c \in Conns, Own(h) = {}, Own(h)' = {c}, Pooled' = Pooled, X = {c} PROVE L!Next
  <2>1. f[c] = "new" /\ \A e \in Conns : g[e] = IF e = c THEN h ELSE f[e]
    BY <1>6, <1>8, <1>11, <1>12, <1>17
  <2>2. L!Make(h, c)
    BY <1>7, <1>9, <2>1 DEF L!Make, L!New
  <2> QED BY <2>2 DEF L!Next
<1>18. ASSUME NEW c \in Conns, Own(h) = {c}, Own(h)' = {}, Pooled' = Pooled \cup {c}, X = {} PROVE L!Next
  <2>1. f[c] = h /\ \A e \in Conns : g[e] = IF e = c THEN "pooled" ELSE f[e]
    BY <1>6, <1>8, <1>10, <1>12, <1>18
  <2>2. L!Return(h, c)
    BY <1>7, <1>9, <2>1 DEF L!Return, L!Pooled
  <2> QED BY <2>2 DEF L!Next
<1>19. ASSUME NEW c \in Conns, NEW d \in Pooled, Own(h) = {c}, Own(h)' = {d},
              Pooled' = (Pooled \cup {c}) \ {d}, X = {}
       PROVE  L!Next
  <2>1. c # d /\ f[c] = h /\ f[d] = "pooled"
        /\ \A e \in Conns : g[e] = IF e = c THEN "pooled" ELSE IF e = d THEN h ELSE f[e]
    BY <1>6, <1>8, <1>10, <1>12, <1>19
  <2>2. L!Exchange(h, c, d)
    <3>1. \A e \in Conns : g[e] = IF e = c THEN "pooled" ELSE IF e = d THEN h ELSE f[e]
      BY <2>1
    <3>2. d \in Conns /\ c # d
      BY <1>10, <2>1
    <3>3. \A u, v : (\A e \in Conns : g[e] = IF e = c THEN u ELSE IF e = d THEN v ELSE f[e])
                   => g = [f EXCEPT ![c] = u, ![d] = v]
      BY <1>9, <3>2
    <3>4. g = [f EXCEPT ![c] = "pooled", ![d] = h]
      BY <3>1, <3>3
    <3> QED BY <1>7, <2>1, <3>4 DEF L!Exchange, L!Pooled
  <2> QED BY <1>10, <2>1, <2>2 DEF L!Next
<1>20. ASSUME NEW c \in Pooled, Own(h)' = Own(h), Pooled' = Pooled \ {c}, X = {} PROVE L!Next
  <2>1. f[c] = "pooled" /\ \A e \in Conns : g[e] = IF e = c THEN "closed" ELSE f[e]
    BY <1>6, <1>8, <1>10, <1>12, <1>20
  <2>2. L!DropPooled(h, c)
    BY <1>7, <1>9, <1>10, <2>1 DEF L!DropPooled, L!Pooled, L!Closed
  <2> QED BY <1>10, <2>2 DEF L!Next
<1> QED BY <1>13, <1>14, <1>15, <1>16, <1>17, <1>18, <1>19, <1>20 DEF Passes
-----------------------------------------------------------------------------
(* What one goroutine's step owes to the invariant.                        *)

Busy(r) == IF r.pc \in Working THEN 1 ELSE 0

\* The count follows what h does.
Counts(h) == active' - Len(idle') - Busy(hs'[h]) = active - Len(idle) - Busy(hs[h])

\* Connections that could be had, beside those that are.
Slack == Len(idle) + MaxActive - active

\* h waits only when there is nothing to have, and whoever returns something
\* signals; one that was woken takes something or there is nothing.
Rests(h) ==
    /\ closed' = closed /\ hs[h].pc # "wait"
    /\ hs'[h].pc = "wait" => ~closed /\ MaxActive > 0 /\ Slack' <= 0
    /\ \/ Calm(h) /\ hs[h].pc # "woken" /\ Slack' <= Slack
       \/ Calm(h) /\ (Slack' <= Slack - 1 \/ Slack' <= 0 \/ closed)
       \/ Signals(h) /\ hs[h].pc # "woken" /\ Slack' <= Slack + 1

\* What h returns is clean, and so is what it takes.
Returns(h) ==
    /\ Fits(hs'[h], conn'[hs'[h].c])
    /\ Len(idle') <= MaxIdle
    /\ \A c \in ConnsIn(idle') : Clean(conn'[c]) \/ (c \in ConnsIn(idle) /\ conn'[c] = conn[c])

Step(h, X) == TypeInv' /\ Moved(h, X) /\ Passes(h, X) /\ Counts(h) /\ Rests(h) /\ Returns(h)

LEMMA Counting ==
  ASSUME TypeInv, TypeInv', Counted, NEW h \in Handlers, Others(h), Counts(h)
  PROVE  Counted'
<1>1. PICK V : V = Workers \ {h}
  OBVIOUS
<1>2. Workers' \ {h} = V
  BY <1>1 DEF Others, Workers, Working
<1>3. IsFiniteSet(V) /\ h \notin V /\ Cardinality(V) \in Nat
  BY <1>1, RedisPoolAssumption, FS_Subset, FS_CardinalityType DEF Workers
<1>4. Cardinality(V \cup {h}) = Cardinality(V) + 1
  BY <1>3, FS_AddElement
<1>5. Cardinality(Workers) = Cardinality(V) + Busy(hs[h])
  <2>1. CASE hs[h].pc \in Working
    <3>1. Workers = V \cup {h}
      BY <1>1, <2>1 DEF Workers
    <3> QED BY <1>4, <2>1, <3>1 DEF Busy
  <2>2. CASE hs[h].pc \notin Working
    <3>1. Workers = V
      BY <1>1, <2>2 DEF Workers
    <3> QED BY <1>3, <2>2, <3>1 DEF Busy
  <2> QED BY <2>1, <2>2
<1>6. Cardinality(Workers)' = Cardinality(V) + Busy(hs'[h])
  <2>1. CASE hs'[h].pc \in Working
    <3>1. Workers' = V \cup {h}
      BY <1>2, <2>1 DEF Workers
    <3> QED BY <1>4, <2>1, <3>1 DEF Busy
  <2>2. CASE hs'[h].pc \notin Working
    <3>1. Workers' = V
      BY <1>2, <2>2 DEF Workers
    <3> QED BY <1>3, <2>2, <3>1 DEF Busy
  <2> QED BY <2>1, <2>2
<1>7. active \in Int /\ active' \in Int /\ Len(idle) \in Nat /\ Len(idle') \in Nat
      /\ Busy(hs[h]) \in Nat /\ Busy(hs'[h]) \in Nat
  BY DEF TypeInv, Busy
<1>8. active - Len(idle) - Busy(hs[h]) = Cardinality(V)
  BY <1>3, <1>5, <1>7 DEF Counted
<1>9. active' = Len(idle') + (Cardinality(V) + Busy(hs'[h]))
  BY <1>3, <1>7, <1>8 DEF Counts
<1> QED BY <1>6, <1>9 DEF Counted

LEMMA Waking ==
  ASSUME TypeInv, TypeInv', Wakes, NEW h \in Handlers, Rests(h)
  PROVE  Wakes'
<1> SUFFICES ASSUME Waiters(hs)' # {}
             PROVE  ~closed' /\ MaxActive > 0 /\ Slack' <= Cardinality(Roused)'
  BY DEF Wakes, Slack
<1>1. Slack \in Int /\ Slack' \in Int
  BY RedisPoolAssumption DEF TypeInv, Slack
<1>2. /\ IsFiniteSet(Roused) /\ IsFiniteSet(Roused') /\ IsFiniteSet(Roused \ {h})
      /\ Cardinality(Roused) \in Nat /\ Cardinality(Roused') \in Nat
      /\ Cardinality(Roused \ {h}) \in Nat
  <2>1. IsFiniteSet(Roused) /\ IsFiniteSet(Roused')
    BY RedisPoolAssumption, FS_Subset DEF Roused
  <2>2. IsFiniteSet(Roused \ {h})
    BY <2>1, FS_Subset
  <2> QED BY <2>1, <2>2, FS_CardinalityType
<1>3. Cardinality(Roused \ {h}) >= Cardinality(Roused) - 1
  <2>1. CASE h \in Roused
    BY <1>2, <2>1, FS_RemoveElement
  <2>2. CASE h \notin Roused
    <3>1. Roused \ {h} = Roused
      BY <2>2
    <3> QED BY <1>2, <3>1
  <2> QED BY <2>1, <2>2
<1>4. PICK w \in Handlers : hs'[w].pc = "wait"
  BY DEF Waiters
<1>5. CASE \A g \in Handlers : hs'[g].pc = "wait" => g = h
  BY <1>1, <1>2, <1>4, <1>5 DEF Rests
<1>6. CASE \E g \in Handlers \ {h} : hs'[g].pc = "wait"
  <2>1. PICK g \in Handlers \ {h} : hs'[g].pc = "wait"
    BY <1>6
  <2>2. hs[g].pc = "wait"
    BY <2>1 DEF Rests, Calm, Signals
  <2>3. ~closed /\ MaxActive > 0 /\ Slack <= Cardinality(Roused)
    BY <2>2 DEF Wakes, Waiters, Slack
  <2>4. CASE Calm(h) /\ hs[h].pc # "woken" /\ Slack' <= Slack
    <3>1. Roused \subseteq Roused'
      BY <2>4 DEF Calm, Roused
    <3>2. Cardinality(Roused) <= Cardinality(Roused')
      BY <1>2, <3>1, FS_Subset
    <3> QED BY <1>1, <1>2, <2>3, <2>4, <3>2 DEF Rests
  <2>5. CASE Calm(h) /\ Slack' <= Slack - 1
    <3>1. Roused \ {h} \subseteq Roused'
      BY <2>5 DEF Calm, Roused
    <3>2. Cardinality(Roused \ {h}) <= Cardinality(Roused')
      BY <1>2, <3>1, FS_Subset
    <3> QED BY <1>1, <1>2, <1>3, <2>3, <2>5, <3>2 DEF Rests
  <2>6. CASE Slack' <= 0
    BY <1>1, <1>2, <2>3, <2>6 DEF Rests
  <2>7. CASE Signals(h) /\ hs[h].pc # "woken" /\ Slack' <= Slack + 1
    <3>1. PICK v \in Handlers \ {h} : /\ hs[v].pc = "wait" /\ hs'[v].pc = "woken"
                                      /\ \A j \in Handlers \ {h, v} : hs'[j] = hs[j]
      BY <2>2, <2>7 DEF Signals
    <3>2. Roused \cup {v} \subseteq Roused' /\ v \notin Roused
      BY <2>7, <3>1 DEF Roused
    <3>3. Cardinality(Roused \cup {v}) = Cardinality(Roused) + 1
      BY <1>2, <3>2, FS_AddElement
    <3>4. Cardinality(Roused \cup {v}) <= Cardinality(Roused')
      BY <1>2, <3>2, FS_Subset
    <3> QED BY <1>1, <1>2, <2>3, <2>7, <3>3, <3>4 DEF Rests
  <2> QED BY <2>3, <2>4, <2>5, <2>6, <2>7 DEF Rests
<1> QED BY <1>5, <1>6

LEMMA Cleaning ==
  ASSUME TypeInv, Places, Cleaned, NEW h \in Handlers, NEW X, Moved(h, X), Returns(h)
  PROVE  Cleaned'
<1>1. ASSUME NEW g \in Handlers \ {h} PROVE Fits(hs'[g], conn'[hs'[g].c])
  <2>1. CASE hs'[g].pc \in {"test", "held", "put"}
    <3>1. hs'[g] = hs[g] /\ Own(g) = {hs[g].c} /\ hs[g].c \in Conns
      BY <2>1, InConns DEF Moved, Others, Own, HasConn
    <3>2. hs[g].c \notin Own(h) \cup Pooled
      BY <3>1 DEF Places
    <3>3. hs[g].c \notin X
      <4>1. Taken(hs[g].c)
        BY <3>1 DEF Taken
      <4>2. Made(conn[hs[g].c])
        BY <3>1, <4>1 DEF Places, Settled
      <4> QED BY <4>2, Fresh DEF Moved
    <3>4. conn'[hs[g].c] = conn[hs[g].c]
      BY <3>1, <3>2, <3>3 DEF Moved
    <3> QED BY <3>1, <3>4 DEF Cleaned
  <2>2. CASE hs'[g].pc \notin {"test", "held", "put"}
    BY <2>2 DEF Fits
  <2> QED BY <2>1, <2>2
<1>2. \A c \in ConnsIn(idle') : Clean(conn'[c])
  BY DEF Returns, Cleaned
<1> QED BY <1>1, <1>2 DEF Cleaned, Returns

LEMMA Stepping ==
  ASSUME PoolInv, NEW h \in Handlers, NEW X, Step(h, X)
  PROVE  PoolInv' /\ (L!Next \/ UNCHANGED Leases)
BY PlacesNext, LeaseNext, Counting, Waking, Cleaning DEF PoolInv, Step, Moved
-----------------------------------------------------------------------------
(* The steps of a goroutine that keeps its connection.                     *)

\* Where a goroutine has a connection, it is made and nobody else's.
LEMMA Having ==
  ASSUME PoolInv, NEW h \in Handlers, hs[h].pc \in HasConn
  PROVE  /\ hs[h] \in HState /\ hs[h].c \in Conns /\ conn[hs[h].c] \in Good /\ Made(conn[hs[h].c])
         /\ Own(h) = {hs[h].c} /\ hs[h].c \notin Pooled /\ Fits(hs[h], conn[hs[h].c])
<1>1. hs[h] \in HState /\ hs[h].c \in Conns /\ conn[hs[h].c] \in Good /\ Own(h) = {hs[h].c}
  BY DEF PoolInv, TypeInv, Own
<1>2. Taken(hs[h].c) /\ hs[h].c \notin Pooled
  BY <1>1 DEF PoolInv, Places, Taken
<1>3. Made(conn[hs[h].c])
  BY <1>1, <1>2 DEF PoolInv, Places, Settled
<1> QED BY <1>1, <1>2, <1>3 DEF PoolInv, Cleaned

LEMMA Keeping ==
  ASSUME PoolInv, NEW h \in Handlers, hs[h].pc \in Working \ {"dial"},
         NEW r \in HState, NEW k \in Good,
         r.c = hs[h].c, r.pc \in Working \ {"dial"}, Made(k), Fits(r, k),
         hs' = [hs EXCEPT ![h] = r], conn' = [conn EXCEPT ![hs[h].c] = k],
         UNCHANGED <<now, idle, active, closed, toClose>>
  PROVE  Step(h, {})
<1>1. PICK c \in Conns : c = hs[h].c /\ Own(h) = {c} /\ c \notin Pooled
  BY Having DEF HasConn, Working
<1>2. /\ hs' \in [Handlers -> HState] /\ hs'[h] = r /\ \A g \in Handlers \ {h} : hs'[g] = hs[g]
      /\ conn' \in [Conns -> Good] /\ conn'[c] = k /\ \A d \in Conns \ {c} : conn'[d] = conn[d]
  BY <1>1 DEF PoolInv, TypeInv
<1>3. Own(h)' = {c} /\ Pooled' = Pooled
  BY <1>1, <1>2 DEF Own, Pooled, ConnsIn, HasConn, Working
<1>4. ConnsIn(idle') = ConnsIn(idle) /\ ConnsIn(toClose') = ConnsIn(toClose)
  OBVIOUS
<1>5. TypeInv'
  BY <1>1, <1>2 DEF PoolInv, TypeInv
<1>6. Others(h) /\ Calm(h)
  BY <1>2 DEF Others, Calm
<1>7. Moved(h, {})
  <2>1. \A d \in Conns : IF d \in Own(h) \cup Pooled \cup {}
                         THEN IF d \in Own(h)' \cup Pooled' THEN Made(conn'[d])
                              ELSE conn'[d].err /\ ~conn'[d].open
                         ELSE conn'[d] = conn[d]
    <3> SUFFICES ASSUME NEW d \in Conns, d \in Pooled, d # c PROVE Made(conn'[d])
      BY <1>1, <1>2, <1>3
    <3>1. Made(conn[d])
      BY DEF PoolInv, Places, Settled, Taken
    <3> QED BY <1>2, <3>1
  <2>2. Own(h)' \cap Pooled' = {}
    BY <1>1, <1>3
  <2>3. Distinct(idle') /\ Distinct(toClose') /\ ConnsIn(idle') \cap ConnsIn(toClose') = {}
        /\ (~closed' => toClose' = <<>>)
    BY <1>4 DEF PoolInv, Places
  <2> QED BY <1>6, <2>1, <2>2, <2>3 DEF Moved
<1>8. Passes(h, {})
  BY <1>1, <1>3 DEF Passes
<1>9. Counts(h)
  BY <1>2 DEF Counts, Busy
<1>10. Rests(h)
  <2>1. Slack' = Slack /\ Slack \in Int
    BY RedisPoolAssumption DEF Slack, PoolInv, TypeInv
  <2> QED BY <1>2, <1>6, <2>1 DEF Rests, Working
<1>11. Returns(h)
  <2>1. \A d \in ConnsIn(idle') : d \in ConnsIn(idle) /\ conn'[d] = conn[d]
    <3>1. ConnsIn(idle) \subseteq Conns \ {c}
      BY <1>1, InConns DEF Pooled, PoolInv
    <3> QED BY <1>2, <1>4, <3>1
  <2> QED BY <1>1, <1>2, <2>1 DEF Returns, PoolInv, Cleaned
<1> QED BY <1>5, <1>7, <1>8, <1>9, <1>10, <1>11 DEF Step

\* redis/pool.go, TestOnBorrow.
LEMMA Testing ==
  ASSUME PoolInv, NEW h \in Handlers, TestOnBorrow(h)
  PROVE  Step(h, {})
<1>1. hs[h].pc = "test" /\ hs[h].pc \in HasConn
  BY DEF TestOnBorrow, HasConn
<1>2. PICK c, k : c = hs[h].c /\ k = DoOn(conn[c], "PING")
  OBVIOUS
<1>3. /\ hs[h] \in HState /\ c \in Conns /\ conn[c] \in Good /\ Made(conn[c])
      /\ Clean(conn[c]) /\ hs[h].state = {}
  BY <1>1, <1>2, Having DEF Fits
<1>4. k \in Good /\ Made(k) /\ (k.err \/ Clean(k))
  <2>1. k \in Good /\ Made(k) /\ (conn[c].dead => k.err)
    BY <1>2, <1>3, Doing
  <2>2. ASSUME ~conn[c].dead PROVE Clean(k)
    <3>1. /\ k.err = FALSE /\ k.open = conn[c].open /\ k.unsent = 0 /\ k.unread = 0
          /\ k.multi = ToMulti(conn[c], "PING") /\ k.watch = ToWatch(conn[c], "PING")
      BY <1>2, <1>3, <2>2, Doing
    <3> QED BY <1>3, <3>1 DEF Clean, ToMulti, ToWatch
  <2> QED BY <2>1, <2>2
<1>5. conn' = [conn EXCEPT ![c] = k] /\ conn'[c] = k
  BY <1>2, <1>3 DEF TestOnBorrow, PoolInv, TypeInv
<1>6. PICK pc, n : /\ pc = IF k.err THEN "failed" ELSE "held"
                   /\ n = IF k.err THEN hs[h].n ELSE 0
  OBVIOUS
<1>7. PICK r : r = [hs[h] EXCEPT !.pc = pc, !.n = n]
  OBVIOUS
<1>8. r \in HState /\ r.pc = pc /\ r.c = c /\ r.state = {}
  BY <1>2, <1>3, <1>6, <1>7 DEF HState, Pcs
<1>9. hs' = [hs EXCEPT ![h] = r]
  <2>1. hs' = [hs EXCEPT ![h].pc = pc, ![h].n = n]
    BY <1>2, <1>5, <1>6 DEF TestOnBorrow
  <2> QED BY <1>7, <2>1 DEF PoolInv, TypeInv
<1>10. Fits(r, k) /\ r.pc \in Working \ {"dial"}
  BY <1>4, <1>6, <1>8 DEF Fits, Agree, Clean, Working
<1> QED BY <1>1, <1>2, <1>4, <1>5, <1>8, <1>9, <1>10, Keeping DEF TestOnBorrow, Working
\* The flags of pooledConnection follow the state at the server.
LEMMA Flagging ==
  ASSUME NEW k \in Good, NEW state \in SUBSET {"multi", "watch"}, NEW cmd, Agree(state, k),
         NEW j, (~k.err /\ ~j.err) => j.open = k.open /\ j.multi = ToMulti(k, cmd) /\ j.watch = ToWatch(k, cmd),
         k.err => j.err
  PROVE  /\ (state \cup Sets(cmd)) \ Clears(cmd) \in SUBSET {"multi", "watch"}
         /\ Agree((state \cup Sets(cmd)) \ Clears(cmd), j)
<1>1. PICK next : next = (state \cup Sets(cmd)) \ Clears(cmd)
  OBVIOUS
<1>2. Sets(cmd) \subseteq {"multi", "watch"}
  BY DEF Sets
<1>3. ("multi" \in Sets(cmd) <=> cmd = "MULTI") /\ ("watch" \in Sets(cmd) <=> cmd = "WATCH")
  BY DEF Sets
<1>4. /\ "multi" \in Clears(cmd) <=> cmd \in {"EXEC", "DISCARD"}
      /\ "watch" \in Clears(cmd) <=> cmd \in {"EXEC", "DISCARD", "UNWATCH"}
  BY DEF Clears
<1>5. ASSUME ~j.err PROVE j.open /\ (j.multi <=> "multi" \in next)
                          /\ (j.watch => "watch" \in next \/ "multi" \in next)
  <2>1. ~k.err /\ j.open /\ j.multi = ToMulti(k, cmd) /\ j.watch = ToWatch(k, cmd)
        /\ (k.multi <=> "multi" \in state) /\ (k.watch => "watch" \in state \/ "multi" \in state)
    BY <1>5 DEF Agree
  <2>2. /\ "multi" \in next <=> cmd = "MULTI" \/ ("multi" \in state /\ cmd \notin {"EXEC", "DISCARD"})
        /\ "watch" \in next <=> cmd = "WATCH" \/ ("watch" \in state /\ cmd \notin {"EXEC", "DISCARD", "UNWATCH"})
    BY <1>1, <1>3, <1>4
  <2>3. j.multi <=> "multi" \in next
    BY <2>1, <2>2 DEF ToMulti
  <2>4. j.watch => "watch" \in next \/ "multi" \in next
    BY <2>1, <2>2 DEF ToWatch
  <2> QED BY <2>1, <2>3, <2>4
<1> QED BY <1>1, <1>2, <1>5 DEF Agree

\* conn.Send, conn.Do, conn.Flush and conn.Receive.
LEMMA Using ==
  ASSUME PoolInv, NEW h \in Handlers,
         \/ \E cmd \in Commands : Send(h, cmd) \/ Do(h, cmd)
         \/ Flush(h) \/ Receive(h)
  PROVE  Step(h, {})
<1>1. hs[h].pc = "held" /\ hs[h].pc \in HasConn
  BY DEF Send, Do, Flush, Receive, HasConn
<1>2. PICK c : c = hs[h].c
  OBVIOUS
<1>3. /\ hs[h] \in HState /\ c \in Conns /\ conn[c] \in Good /\ Made(conn[c])
      /\ Agree(hs[h].state, conn[c])
  BY <1>1, <1>2, Having DEF Fits
<1>4. hs[h].state \in SUBSET {"multi", "watch"}
  BY <1>3 DEF HState
<1>5. ASSUME NEW k \in Good, Made(k), NEW state \in SUBSET {"multi", "watch"}, Agree(state, k),
             hs' = [hs EXCEPT ![h] = [hs[h] EXCEPT !.state = state]], conn' = [conn EXCEPT ![c] = k],
             UNCHANGED <<now, idle, active, closed, toClose>>
      PROVE  Step(h, {})
  <2>1. PICK r : r = [hs[h] EXCEPT !.state = state]
    OBVIOUS
  <2>2. r \in HState /\ r.pc = "held" /\ r.c = c
    BY <1>1, <1>2, <1>3, <2>1 DEF HState
  <2>3. Fits(r, k)
    <3>1. r.state = state
      BY <1>3, <2>1 DEF HState
    <3> QED BY <1>5, <2>2, <3>1 DEF Fits
  <2> QED BY <1>1, <1>2, <1>5, <2>1, <2>2, <2>3, Keeping DEF Working
<1>6. ASSUME NEW cmd \in Commands, NEW k \in Good, Made(k),
             (~conn[c].err /\ ~k.err) => /\ k.open = conn[c].open /\ k.multi = ToMulti(conn[c], cmd)
                                         /\ k.watch = ToWatch(conn[c], cmd),
             conn[c].err => k.err,
             hs' = [hs EXCEPT ![h].state = Flags(h, cmd)], conn' = [conn EXCEPT ![c] = k],
             UNCHANGED <<now, idle, active, closed, toClose>>
      PROVE  Step(h, {})
  <2>1. PICK state : state = Flags(h, cmd)
    OBVIOUS
  <2>2. state \in SUBSET {"multi", "watch"} /\ Agree(state, k)
    BY <1>3, <1>4, <1>6, <2>1, Flagging DEF Flags
  <2>3. hs' = [hs EXCEPT ![h] = [hs[h] EXCEPT !.state = state]]
    BY <1>6, <2>1 DEF PoolInv, TypeInv
  <2> QED BY <1>5, <1>6, <2>2, <2>3
<1>7. ASSUME NEW cmd \in Commands, Send(h, cmd) PROVE Step(h, {})
  <2>1. PICK k : k = SendTo(conn[c], cmd)
    OBVIOUS
  <2>2. /\ k \in Good /\ Made(k) /\ k.err = conn[c].err /\ k.open = conn[c].open
        /\ ~conn[c].err => k.multi = ToMulti(conn[c], cmd) /\ k.watch = ToWatch(conn[c], cmd)
    BY <1>3, <2>1, Sending
  <2>3. conn' = [conn EXCEPT ![c] = k] /\ hs' = [hs EXCEPT ![h].state = Flags(h, cmd)]
        /\ UNCHANGED <<now, idle, active, closed, toClose>>
    BY <1>2, <1>7, <2>1 DEF Send
  <2> QED BY <1>6, <2>2, <2>3
<1>8. ASSUME NEW cmd \in Commands, Do(h, cmd) PROVE Step(h, {})
  <2>1. PICK k : k = DoOn(conn[c], cmd)
    OBVIOUS
  <2>2. /\ k \in Good /\ Made(k) /\ (conn[c].dead => k.err)
        /\ ~conn[c].dead => /\ k.open = conn[c].open /\ k.multi = ToMulti(conn[c], cmd)
                            /\ k.watch = ToWatch(conn[c], cmd)
    BY <1>3, <2>1, Doing
  <2>3. conn[c].err => conn[c].dead
    BY <1>3 DEF Good, ConnOK
  <2>4. conn' = [conn EXCEPT ![c] = k] /\ hs' = [hs EXCEPT ![h].state = Flags(h, cmd)]
        /\ UNCHANGED <<now, idle, active, closed, toClose>>
    BY <1>2, <1>8, <2>1 DEF Do
  <2> QED BY <1>6, <2>2, <2>3, <2>4
<1>9. CASE Flush(h) \/ Receive(h)
  <2>1. PICK k : /\ k \in Good /\ Made(k) /\ Agree(hs[h].state, k)
                 /\ conn' = [conn EXCEPT ![c] = k]
    <3>1. CASE Flush(h)
      <4>1. PICK k : k = FlushOn(conn[c])
        OBVIOUS
      <4>2. k \in Good /\ Made(k) /\ Agree(hs[h].state, k)
        BY <1>3, <4>1, Piping
      <4>3. conn' = [conn EXCEPT ![c] = k]
        BY <1>2, <3>1, <4>1 DEF Flush
      <4> QED BY <4>2, <4>3
    <3>2. CASE Receive(h)
      <4>1. PICK k : k = ReceiveOn(conn[c])
        OBVIOUS
      <4>2. conn[c].unread > 0 \/ conn[c].dead
        BY <1>2, <3>2 DEF Receive
      <4>3. k \in Good /\ Made(k) /\ Agree(hs[h].state, k)
        BY <1>3, <4>1, <4>2, Piping
      <4>4. conn' = [conn EXCEPT ![c] = k]
        BY <1>2, <3>2, <4>1 DEF Receive
      <4> QED BY <4>3, <4>4
    <3> QED BY <1>9, <3>1, <3>2
  <2>2. hs' = [hs EXCEPT ![h] = [hs[h] EXCEPT !.state = hs[h].state]]
    <3>1. hs' = hs /\ hs \in [Handlers -> HState]
      BY <1>9 DEF Flush, Receive, PoolInv, TypeInv
    <3>2. [hs[h] EXCEPT !.state = hs[h].state] = hs[h]
      BY <1>3 DEF HState
    <3> QED BY <3>1, <3>2
  <2>3. UNCHANGED <<now, idle, active, closed, toClose>>
    BY <1>9 DEF Flush, Receive
  <2> QED BY <1>4, <1>5, <2>1, <2>2, <2>3
<1> QED BY <1>7, <1>8, <1>9

\* pooledConnection.Close: what goes back is clean or has failed.
LEMMA Leaving ==
  ASSUME PoolInv, NEW h \in Handlers, CloseHandle(h)
  PROVE  Step(h, {})
<1>1. hs[h].pc = "held" /\ hs[h].pc \in HasConn
  BY DEF CloseHandle, HasConn
<1>2. PICK c, k, s : c = hs[h].c /\ k = conn[c] /\ s = hs[h].state
  OBVIOUS
<1>3. /\ hs[h] \in HState /\ c \in Conns /\ k \in Good /\ Made(k) /\ Agree(s, k)
      /\ s \in SUBSET {"multi", "watch"}
  <2>1. hs[h] \in HState /\ c \in Conns /\ k \in Good /\ Made(k) /\ Agree(s, k)
    BY <1>1, <1>2, Having DEF Fits
  <2> QED BY <1>2, <2>1 DEF HState
<1>4. PICK left : left = CASE "multi" \in s -> SendTo(k, "DISCARD")
                           [] s = {"watch"} -> SendTo(k, "UNWATCH")
                           [] OTHER -> k
  OBVIOUS
<1>5. /\ left \in Good /\ Made(left) /\ left.err = k.err /\ left.open = k.open
      /\ ~k.err => ~left.multi /\ ~left.watch
  <2>1. CASE "multi" \in s
    <3>1. left = SendTo(k, "DISCARD")
      BY <1>4, <2>1
    <3>2. ~ToMulti(k, "DISCARD") /\ ~ToWatch(k, "DISCARD")
      BY DEF ToMulti, ToWatch
    <3> QED BY <1>3, <3>1, <3>2, Sending
  <2>2. CASE "multi" \notin s /\ s = {"watch"}
    <3>1. left = SendTo(k, "UNWATCH")
      BY <1>4, <2>2
    <3>2. ~k.err => ~ToMulti(k, "UNWATCH") /\ ~ToWatch(k, "UNWATCH")
      BY <1>3, <2>2 DEF ToMulti, ToWatch, Agree
    <3> QED BY <1>3, <3>1, <3>2, Sending
  <2>3. CASE "multi" \notin s /\ s # {"watch"}
    <3>1. left = k /\ "watch" \notin s
      <4>1. s = {}
        BY <1>3, <2>3
      <4> QED BY <1>4, <2>3, <4>1
    <3> QED BY <1>3, <2>3, <3>1 DEF Agree
  <2> QED BY <2>1, <2>2, <2>3
<1>6. PICK j : j = DoNothing(left)
  OBVIOUS
<1>7. j \in Good /\ Made(j) /\ (j.err \/ Clean(j))
  <2>1. /\ j \in Good /\ Made(j)
        /\ ~j.err => /\ ~left.err /\ j.open = left.open /\ j.multi = left.multi
                     /\ j.watch = left.watch /\ j.unsent = 0 /\ j.unread = 0
    BY <1>5, <1>6, Draining
  <2>2. ~left.err => left.open
    BY <1>3, <1>5 DEF Agree
  <2> QED BY <1>5, <2>1, <2>2 DEF Clean
<1>8. PICK r : r = At("put", c, 0)
  OBVIOUS
<1>9. r \in HState /\ r.pc = "put" /\ r.c = c /\ Fits(r, j)
  BY <1>3, <1>7, <1>8 DEF At, HState, Pcs, Fits
<1>10. hs' = [hs EXCEPT ![h] = r] /\ conn' = [conn EXCEPT ![c] = j]
       /\ UNCHANGED <<now, idle, active, closed, toClose>>
  BY <1>2, <1>4, <1>6, <1>8 DEF CloseHandle
<1> QED BY <1>1, <1>2, <1>7, <1>9, <1>10, Keeping DEF Working
-----------------------------------------------------------------------------
(* The steps of Pool.get.                                                  *)

\* The connection a goroutine had, if it had one, is closed.
Drops(h) ==
    \/ hs[h].pc \notin HasConn /\ conn' = conn
    \/ hs[h].pc \in HasConn /\ conn' = [conn EXCEPT ![hs[h].c] = CloseConn(@)]

LEMMA Dropping ==
  ASSUME PoolInv, NEW h \in Handlers, Drops(h)
  PROVE  /\ conn' \in [Conns -> Good] /\ (Own(h) = {} \/ \E c \in Conns : Own(h) = {c})
         /\ \A c \in Conns : IF c \in Own(h) THEN conn'[c].err /\ ~conn'[c].open
                             ELSE conn'[c] = conn[c]
         /\ Pooled \subseteq Conns /\ Own(h) \cap Pooled = {}
         /\ \A c \in Pooled : Made(conn[c]) /\ conn'[c] = conn[c]
<1>1. Pooled \subseteq Conns /\ Own(h) \cap Pooled = {} /\ \A c \in Pooled : Made(conn[c])
  BY InConns DEF PoolInv, Places, Settled, Taken
<1>2. CASE hs[h].pc \notin HasConn /\ conn' = conn
  BY <1>1, <1>2 DEF Own, PoolInv, TypeInv
<1>3. CASE hs[h].pc \in HasConn /\ conn' = [conn EXCEPT ![hs[h].c] = CloseConn(@)]
  <2>1. PICK c \in Conns : c = hs[h].c /\ Own(h) = {c} /\ conn[c] \in Good
    BY <1>3, Having
  <2>2. PICK k : k = CloseConn(conn[c])
    OBVIOUS
  <2>3. k \in Good /\ k.err /\ ~k.open
    BY <2>1, <2>2, Closing DEF Good
  <2>4. conn' = [conn EXCEPT ![c] = k]
    BY <1>3, <2>1, <2>2
  <2>5. conn' \in [Conns -> Good] /\ conn'[c] = k /\ \A d \in Conns \ {c} : conn'[d] = conn[d]
    BY <2>1, <2>3, <2>4 DEF PoolInv, TypeInv
  <2> QED BY <1>1, <2>1, <2>3, <2>5
<1> QED BY <1>2, <1>3 DEF Drops

\* What a step from the list of idle connections has to do for the places.
LEMMA Placing ==
  ASSUME PoolInv, NEW h \in Handlers, Drops(h), Others(h),
         closed' = closed, toClose' = toClose, Distinct(idle'),
         \/ Own(h)' = {} /\ ConnsIn(idle') = ConnsIn(idle)
         \/ \E d \in ConnsIn(idle) : Own(h)' = {d} /\ ConnsIn(idle') = ConnsIn(idle) \ {d}
  PROVE  Moved(h, {}) /\ Passes(h, {})
<1>1. ConnsIn(toClose') = ConnsIn(toClose) /\ Distinct(toClose') /\ (~closed' => toClose' = <<>>)
      /\ ConnsIn(idle) \cap ConnsIn(toClose) = {}
  BY DEF PoolInv, Places
<1>2. /\ conn' \in [Conns -> Good] /\ (Own(h) = {} \/ \E c \in Conns : Own(h) = {c})
      /\ \A c \in Conns : IF c \in Own(h) THEN conn'[c].err /\ ~conn'[c].open
                          ELSE conn'[c] = conn[c]
      /\ Pooled \subseteq Conns /\ Own(h) \cap Pooled = {}
      /\ \A c \in Pooled : Made(conn[c]) /\ conn'[c] = conn[c]
  BY Dropping
<1>3. CASE Own(h)' = {} /\ ConnsIn(idle') = ConnsIn(idle)
  <2>1. Pooled' = Pooled
    BY <1>1, <1>3 DEF Pooled
  <2>2. Moved(h, {})
    BY <1>1, <1>2, <1>3, <2>1 DEF Moved
  <2> QED BY <1>2, <1>3, <2>1, <2>2 DEF Passes
<1>4. ASSUME NEW d \in ConnsIn(idle), Own(h)' = {d}, ConnsIn(idle') = ConnsIn(idle) \ {d}
      PROVE  Moved(h, {}) /\ Passes(h, {})
  <2>1. Pooled' = Pooled \ {d} /\ d \in Pooled
    BY <1>1, <1>4 DEF Pooled
  <2>2. Moved(h, {})
    BY <1>1, <1>2, <1>4, <2>1 DEF Moved
  <2> QED BY <1>2, <1>4, <2>1, <2>2 DEF Passes
<1> QED BY <1>3, <1>4

\* With the mutex held, the next connection or none.
LEMMA Obtaining ==
  ASSUME PoolInv, NEW h \in Handlers, Drops(h), NEW r, NEW act, NEW n \in Nat,
         Acquires(r, act, n), hs'[h] = r, closed' = closed, now' = now, toClose' = toClose,
         hs' \in [Handlers -> HState],
         \/ act = active /\ n = Len(idle) /\ Calm(h) /\ hs[h].pc \in {"out", "prune", "woken"}
         \/ act = active - 1 /\ Signals(h) /\ hs[h].pc = "failed"
  PROVE  Step(h, {})
<1>1. /\ idle \in Seq(Item) /\ Distinct(idle) /\ active \in Int /\ act \in Int /\ Len(idle) \in Nat
      /\ (MaxActive > 0 => active <= MaxActive) /\ act <= active
      /\ MaxActive \in Nat /\ Len(idle) <= MaxIdle /\ MaxIdle \in Nat
  BY RedisPoolAssumption DEF PoolInv, TypeInv, Places, Cleaned
<1>2. Others(h)
  BY OthersStay DEF PoolInv
<1>3. /\ conn' \in [Conns -> Good] /\ Pooled \subseteq Conns
      /\ \A c \in ConnsIn(idle) : conn'[c] = conn[c] /\ Clean(conn[c])
  BY Dropping DEF Pooled, PoolInv, Cleaned
<1>4. CASE n > 0 /\ idle # <<>>
  <2>1. PICK d \in Conns, q \in Seq(Item) :
           /\ d = Head(idle).c /\ q = Tail(idle) /\ Len(q) = Len(idle) - 1 /\ Distinct(q)
           /\ ConnsIn(q) = ConnsIn(idle) \ {d} /\ d \in ConnsIn(idle)
    BY <1>1, <1>4, Popped
  <2>2. idle' = q /\ active' = act /\ r = At("test", d, n - 1)
    BY <1>4, <2>1 DEF Acquires
  <2>3. r.pc = "test" /\ r.c = d /\ r.state = {}
    BY <2>2 DEF At
  <2>4. Own(h)' = {d}
    BY <2>3 DEF Own, HasConn
  <2>5. Moved(h, {}) /\ Passes(h, {})
    BY <1>2, <2>1, <2>2, <2>4, Placing
  <2>6. TypeInv'
    <3>1. \A g \in Handlers : hs'[g].pc \in HasConn => hs'[g].c \in Conns
      BY <1>2, <2>1, <2>3 DEF Others, HasConn, PoolInv, TypeInv
    <3> QED BY <1>1, <1>3, <2>1, <2>2, <3>1 DEF PoolInv, TypeInv
  <2>7. Counts(h)
    <3>1. Len(idle') = Len(idle) - 1 /\ active' = act /\ Busy(hs'[h]) = 1
      BY <2>1, <2>2, <2>3 DEF Busy, Working
    <3>2. active - Busy(hs[h]) = act
      BY <1>1 DEF Busy, Working
    <3> QED BY <1>1, <3>1, <3>2 DEF Counts, Busy
  <2>8. Rests(h)
    <3>1. Slack' = Len(idle) - 1 + MaxActive - act /\ Slack = Len(idle) + MaxActive - active
      BY <2>1, <2>2 DEF Slack
    <3> QED BY <1>1, <2>3, <3>1 DEF Rests
  <2>9. Returns(h)
    <3>1. Fits(hs'[h], conn'[hs'[h].c])
      BY <1>3, <2>1, <2>3 DEF Fits
    <3>2. Len(idle') <= MaxIdle
      <4>1. Len(idle') = Len(idle) - 1
        BY <2>1, <2>2
      <4> QED BY <1>1, <4>1
    <3>3. \A c \in ConnsIn(idle') : c \in ConnsIn(idle) /\ conn'[c] = conn[c]
      BY <1>3, <2>1, <2>2
    <3> QED BY <3>1, <3>2, <3>3 DEF Returns
  <2> QED BY <2>5, <2>6, <2>7, <2>8, <2>9 DEF Step
<1>5. CASE ~(n > 0 /\ idle # <<>>)
  <2>1. /\ idle' = idle
        /\ \/ /\ r = At("dial", NoConn, 0) /\ active' = act + 1
              /\ ~closed /\ (MaxActive = 0 \/ act < MaxActive)
           \/ /\ r = Out /\ active' = act
              /\ closed \/ ~(MaxActive = 0 \/ act < MaxActive)
           \/ /\ r = At("wait", NoConn, 0) /\ active' = act
              /\ ~closed /\ ~(MaxActive = 0 \/ act < MaxActive)
    BY <1>5 DEF Acquires
  <2>2. r.pc \in {"dial", "out", "wait"} /\ active' \in Int /\ (MaxActive > 0 => active' <= MaxActive)
    BY <1>1, <2>1 DEF At, Out
  <2>3. Own(h)' = {}
    BY <2>2 DEF Own, HasConn
  <2>4. Moved(h, {}) /\ Passes(h, {})
    BY <1>1, <1>2, <2>1, <2>3, Placing
  <2>5. TypeInv'
    <3>1. \A g \in Handlers : hs'[g].pc \in HasConn => hs'[g].c \in Conns
      BY <1>2, <2>2 DEF Others, HasConn, PoolInv, TypeInv
    <3> QED BY <1>1, <1>3, <2>1, <2>2, <3>1 DEF PoolInv, TypeInv
  <2>6. Counts(h)
    <3>1. active - Busy(hs[h]) = act
      BY <1>1 DEF Busy, Working
    <3>2. active' - Busy(hs'[h]) = act
      BY <1>1, <2>1 DEF Busy, Working, At, Out
    <3>3. active \in Int /\ Busy(hs[h]) \in Int /\ Busy(hs'[h]) \in Int
      BY <1>1 DEF Busy
    <3>4. active' \in Int /\ Len(idle) \in Int /\ Len(idle') = Len(idle)
      BY <1>1, <2>1, <2>2
    <3>5. active' - Busy(hs'[h]) = active - Busy(hs[h])
      BY <3>1, <3>2
    <3>6. active' - Len(idle) - Busy(hs'[h]) = active - Len(idle) - Busy(hs[h])
      BY <3>3, <3>4, <3>5
    <3> QED BY <3>4, <3>6 DEF Counts
  <2>7. Rests(h)
    <3>1. Slack' = Len(idle) + MaxActive - active' /\ Slack = Len(idle) + MaxActive - active
      BY <2>1 DEF Slack
    <3>2. n = Len(idle) => Len(idle) = 0
      BY <1>1, <1>5
    <3>3. CASE act = active /\ n = Len(idle) /\ Calm(h) /\ hs[h].pc \in {"out", "prune", "woken"}
      BY <1>1, <2>1, <3>1, <3>2, <3>3 DEF Rests, At, Out
    <3>4. CASE act = active - 1 /\ Signals(h) /\ hs[h].pc = "failed"
      BY <1>1, <2>1, <3>1, <3>4 DEF Rests, At, Out
    <3> QED BY <3>3, <3>4
  <2>8. Returns(h)
    BY <1>1, <1>3, <2>1, <2>2 DEF Returns, Fits
  <2> QED BY <2>4, <2>5, <2>6, <2>7, <2>8 DEF Step
<1> QED BY <1>4, <1>5
\* With the mutex held, the oldest idle connection leaves to be closed.
LEMMA Expiring ==
  ASSUME PoolInv, NEW h \in Handlers, Drops(h), NEW n \in Nat, PruneOne(h, n),
         hs[h].pc \in {"out", "prune"}, now' = now, toClose' = toClose
  PROVE  Step(h, {})
<1>1. /\ idle \in Seq(Item) /\ Distinct(idle) /\ active \in Int /\ Len(idle) \in Nat
      /\ (MaxActive > 0 => active <= MaxActive)
      /\ MaxActive \in Nat /\ Len(idle) <= MaxIdle /\ MaxIdle \in Nat
  BY RedisPoolAssumption DEF PoolInv, TypeInv, Places, Cleaned
<1>2. n > 0 /\ idle # <<>>
  BY DEF PruneOne, Stale
<1>3. PICK d \in Conns, q \in Seq(Item) :
         /\ d = idle[Len(idle)].c /\ q = SubSeq(idle, 1, Len(idle) - 1) /\ Len(q) = Len(idle) - 1
         /\ Distinct(q) /\ ConnsIn(q) = ConnsIn(idle) \ {d} /\ d \in ConnsIn(idle)
  BY <1>1, <1>2, Pruned
<1>4. PICK r : r = At("prune", d, n - 1)
  OBVIOUS
<1>5. r \in HState /\ r.pc = "prune" /\ r.c = d
  BY <1>2, <1>4 DEF At, HState, Pcs
<1>6. idle' = q /\ active' = active - 1 /\ closed' = closed /\ hs' \in Signal([hs EXCEPT ![h] = r])
  BY <1>3, <1>4 DEF PruneOne
<1>7. Signals(h) /\ hs'[h] = r
  BY <1>5, <1>6, Signalling DEF PoolInv
<1>8. Others(h) /\ hs' \in [Handlers -> HState]
  BY <1>7, OthersStay DEF PoolInv, Signals
<1>9. /\ conn' \in [Conns -> Good] /\ Pooled \subseteq Conns
      /\ \A c \in ConnsIn(idle) : conn'[c] = conn[c] /\ Clean(conn[c])
  BY Dropping DEF Pooled, PoolInv, Cleaned
<1>10. Len(idle') = Len(idle) - 1 /\ ConnsIn(idle') = ConnsIn(idle) \ {d} /\ Distinct(idle')
  BY <1>3, <1>6
<1>11. Own(h)' = {d}
  BY <1>5, <1>7 DEF Own, HasConn
<1>12. Moved(h, {}) /\ Passes(h, {})
  BY <1>3, <1>6, <1>8, <1>10, <1>11, Placing
<1>13. TypeInv'
  <2>1. \A g \in Handlers : hs'[g].pc \in HasConn => hs'[g].c \in Conns
    BY <1>5, <1>7, <1>8 DEF Others, HasConn, PoolInv, TypeInv
  <2> QED BY <1>1, <1>3, <1>6, <1>8, <1>9, <2>1 DEF PoolInv, TypeInv
<1>14. Counts(h)
  <2>1. Busy(hs[h]) = 0 /\ Busy(hs'[h]) = 0
    BY <1>5, <1>7 DEF Busy, Working
  <2> QED BY <1>1, <1>6, <1>10, <2>1 DEF Counts
<1>15. Rests(h)
  <2>1. Slack' = Slack
    BY <1>1, <1>6, <1>10 DEF Slack
  <2>2. Slack \in Int
    BY <1>1 DEF Slack
  <2> QED BY <1>5, <1>6, <1>7, <2>1, <2>2 DEF Rests
<1>16. Returns(h)
  <2>1. Fits(hs'[h], conn'[hs'[h].c])
    BY <1>5, <1>7 DEF Fits
  <2>2. Len(idle') <= MaxIdle
    BY <1>1, <1>10
  <2>3. \A c \in ConnsIn(idle') : c \in ConnsIn(idle) /\ conn'[c] = conn[c]
    BY <1>9, <1>10
  <2> QED BY <2>1, <2>2, <2>3 DEF Returns
<1> QED BY <1>12, <1>13, <1>14, <1>15, <1>16 DEF Step

\* redis/pool.go, get: from the first round to the last.
LEMMA Borrowing ==
  ASSUME PoolInv, NEW h \in Handlers, Get(h) \/ Prune(h) \/ Woken(h)
  PROVE  Step(h, {})
<1>1. hs[h].pc \in {"out", "prune", "woken"} /\ now' = now /\ toClose' = toClose /\ Drops(h)
  BY DEF Get, Prune, Woken, Drops, HasConn
<1>2. hs \in [Handlers -> HState] /\ hs[h] \in HState /\ hs[h].n \in Nat /\ Len(idle) \in Nat
      /\ idle \in Seq(Item) /\ active \in Int
  BY DEF PoolInv, TypeInv, HState
<1>3. ASSUME NEW n \in Nat, PruneOne(h, n), hs[h].pc \in {"out", "prune"} PROVE Step(h, {})
  BY <1>1, <1>3, Expiring
<1>4. CASE Acquire(h, hs, active, Len(idle))
  <2>1. PICK r : hs' = [hs EXCEPT ![h] = r] /\ Acquires(r, active, Len(idle)) /\ closed' = closed
    BY <1>4, Acquiring
  <2>2. r \in HState
    <3>1. \A i \in DOMAIN idle : idle[i].c \in Conns
      BY InConns DEF PoolInv, Pooled, ConnsIn
    <3>2. idle # <<>> => Head(idle).c \in Conns
      BY <1>2, <3>1
    <3>3. CASE r = At("test", Head(idle).c, Len(idle) - 1) /\ Len(idle) > 0 /\ idle # <<>>
      BY <1>2, <3>2, <3>3 DEF At, HState, Pcs
    <3>4. CASE r = At("dial", NoConn, 0) \/ r = Out \/ r = At("wait", NoConn, 0)
      BY <3>4 DEF At, Out, HState, Pcs
    <3> QED BY <2>1, <3>3, <3>4 DEF Acquires
  <2>3. hs'[h] = r /\ Calm(h) /\ hs' \in [Handlers -> HState]
    BY <1>2, <2>1, <2>2 DEF Calm
  <2> QED BY <1>1, <1>2, <2>1, <2>3, Obtaining
<1>5. CASE PruneOne(h, Len(idle)) /\ hs[h].pc = "out"
  BY <1>2, <1>3, <1>5
<1>6. CASE PruneOne(h, hs[h].n) /\ hs[h].pc = "prune"
  BY <1>2, <1>3, <1>6
<1> QED BY <1>4, <1>5, <1>6 DEF Get, Prune, Woken

\* The same after a connection that failed its test.
LEMMA Retrying ==
  ASSUME PoolInv, NEW h \in Handlers, DropFailed(h)
  PROVE  Step(h, {})
<1>1. hs[h].pc = "failed" /\ now' = now /\ toClose' = toClose /\ Drops(h)
  BY DEF DropFailed, Drops, HasConn
<1>2. hs \in [Handlers -> HState] /\ hs[h] \in HState /\ hs[h].n \in Nat
      /\ idle \in Seq(Item) /\ active \in Int
  BY DEF PoolInv, TypeInv, HState
<1>3. PICK n \in Nat, act \in Int, f \in Signal(hs) :
         n = hs[h].n /\ act = active - 1 /\ Acquire(h, f, act, n)
  BY <1>2 DEF DropFailed
<1>4. PICK r : hs' = [f EXCEPT ![h] = r] /\ Acquires(r, act, n) /\ closed' = closed
  BY <1>3, Acquiring
<1>5. r \in HState
  <2>1. \A i \in DOMAIN idle : idle[i].c \in Conns
    BY InConns DEF PoolInv, Pooled, ConnsIn
  <2>2. idle # <<>> => Head(idle).c \in Conns
    BY <1>2, <2>1
  <2>3. CASE r = At("test", Head(idle).c, n - 1) /\ n > 0 /\ idle # <<>>
    BY <2>2, <2>3 DEF At, HState, Pcs
  <2>4. CASE r = At("dial", NoConn, 0) \/ r = Out \/ r = At("wait", NoConn, 0)
    BY <2>4 DEF At, Out, HState, Pcs
  <2> QED BY <1>4, <2>3, <2>4 DEF Acquires
<1>6. Signals(h) /\ hs'[h] = r
  BY <1>1, <1>4, <1>5, Signalling DEF PoolInv
<1>7. hs' \in [Handlers -> HState]
  BY <1>6 DEF Signals
<1> QED BY <1>1, <1>3, <1>4, <1>6, <1>7, Obtaining
\* A dial that succeeds, and one that does not.
LEMMA Dialing ==
  ASSUME PoolInv, NEW h \in Handlers, NEW c \in Conns, Dial(h, c)
  PROVE  Step(h, {c})
<1>1. /\ hs[h].pc = "dial" /\ conn[c] = NewConn /\ hs' = [hs EXCEPT ![h] = At("held", c, 0)]
      /\ UNCHANGED <<now, idle, active, closed, toClose>>
  BY DEF Dial
<1>2. PICK k : k = [NewConn EXCEPT !.open = TRUE]
  OBVIOUS
<1>3. k \in Good /\ Clean(k) /\ Made(k)
  BY <1>2, Fresh DEF Clean, Made
<1>4. k.multi = FALSE /\ k.watch = FALSE
  BY <1>2 DEF NewConn
<1>5. PICK r : r = At("held", c, 0)
  OBVIOUS
<1>6. r \in HState /\ r.pc = "held" /\ r.c = c /\ r.state = {}
  BY <1>5 DEF At, HState, Pcs
<1>7. conn' = [conn EXCEPT ![c] = k]
  BY <1>1, <1>2 DEF Dial, PoolInv, TypeInv
<1>8. /\ hs' \in [Handlers -> HState] /\ hs'[h] = r /\ \A g \in Handlers \ {h} : hs'[g] = hs[g]
      /\ conn' \in [Conns -> Good] /\ conn'[c] = k /\ \A d \in Conns \ {c} : conn'[d] = conn[d]
  BY <1>1, <1>3, <1>5, <1>6, <1>7 DEF PoolInv, TypeInv
<1>9. Own(h) = {} /\ Own(h)' = {c}
  BY <1>1, <1>6, <1>8 DEF Own, HasConn
<1>10. c \notin Pooled /\ Pooled \subseteq Conns /\ \A d \in Pooled : Made(conn[d])
  <2>1. Pooled \subseteq Conns /\ \A d \in Pooled : Made(conn[d])
    BY InConns DEF PoolInv, Places, Settled, Taken
  <2> QED BY <1>1, <2>1, Fresh
<1>11. ConnsIn(idle') = ConnsIn(idle) /\ ConnsIn(toClose') = ConnsIn(toClose) /\ Pooled' = Pooled
  BY <1>1 DEF Pooled
<1>12. Others(h) /\ Calm(h)
  BY <1>8 DEF Others, Calm
<1>13. TypeInv'
  BY <1>1, <1>6, <1>8 DEF PoolInv, TypeInv
<1>14. Moved(h, {c})
  <2>1. Distinct(idle') /\ Distinct(toClose') /\ ConnsIn(idle') \cap ConnsIn(toClose') = {}
        /\ (~closed' => toClose' = <<>>)
    BY <1>1, <1>11 DEF PoolInv, Places
  <2> QED BY <1>1, <1>3, <1>8, <1>9, <1>10, <1>11, <1>12, <2>1 DEF Moved
<1>15. Passes(h, {c})
  BY <1>9, <1>11 DEF Passes
<1>16. Counts(h)
  BY <1>1, <1>6, <1>8 DEF Counts, Busy, Working
<1>17. Rests(h)
  <2>1. Slack' = Slack /\ Slack \in Int
    BY <1>1, RedisPoolAssumption DEF Slack, PoolInv, TypeInv
  <2> QED BY <1>1, <1>6, <1>8, <1>12, <2>1 DEF Rests
<1>18. Returns(h)
  <2>1. Fits(r, k)
    BY <1>3, <1>4, <1>6 DEF Fits, Agree, Clean
  <2>2. \A d \in ConnsIn(idle') : d \in ConnsIn(idle) /\ conn'[d] = conn[d]
    BY <1>8, <1>10, <1>11 DEF Pooled
  <2> QED BY <1>1, <1>6, <1>8, <2>1, <2>2 DEF Returns, PoolInv, Cleaned
<1> QED BY <1>13, <1>14, <1>15, <1>16, <1>17, <1>18 DEF Step

\* A goroutine that ends what it was in, with or without a connection to close.
LEMMA Ending ==
  ASSUME PoolInv, NEW h \in Handlers, DialFails(h) \/ Drop(h)
  PROVE  Step(h, {})
<1>1. /\ idle \in Seq(Item) /\ Distinct(idle) /\ active \in Int /\ Len(idle) \in Nat
      /\ (MaxActive > 0 => active <= MaxActive) /\ MaxActive \in Nat
      /\ hs \in [Handlers -> HState] /\ Len(idle) <= MaxIdle
  BY RedisPoolAssumption DEF PoolInv, TypeInv, Places, Cleaned
<1>2. Out \in HState /\ Out.pc = "out"
  BY DEF Out, HState, Pcs
<1>3. Drops(h) /\ idle' = idle /\ now' = now /\ closed' = closed /\ toClose' = toClose
  BY DEF DialFails, Drop, Drops, HasConn
<1>4. /\ hs'[h] = Out
      /\ \/ hs[h].pc = "dial" /\ Signals(h) /\ active' = active - 1
         \/ hs[h].pc = "drop" /\ Calm(h) /\ active' = active
  <2>1. CASE DialFails(h)
    <3>1. hs[h].pc = "dial" /\ active' = active - 1 /\ hs' \in Signal([hs EXCEPT ![h] = Out])
      BY <2>1 DEF DialFails
    <3> QED BY <1>2, <3>1, Signalling DEF PoolInv
  <2>2. CASE Drop(h)
    <3>1. hs[h].pc = "drop" /\ active' = active /\ hs' = [hs EXCEPT ![h] = Out]
      BY <2>2 DEF Drop
    <3> QED BY <1>1, <1>2, <3>1 DEF Calm
  <2> QED BY <2>1, <2>2
<1>5. Others(h) /\ hs' \in [Handlers -> HState]
  BY <1>4, OthersStay DEF PoolInv, Others
<1>6. Own(h)' = {}
  BY <1>2, <1>4 DEF Own, HasConn
<1>7. ConnsIn(idle') = ConnsIn(idle) /\ Distinct(idle') /\ Len(idle') = Len(idle)
  BY <1>1, <1>3
<1>8. Moved(h, {}) /\ Passes(h, {})
  BY <1>3, <1>5, <1>6, <1>7, Placing
<1>9. /\ conn' \in [Conns -> Good] /\ \A c \in ConnsIn(idle) : conn'[c] = conn[c]
  BY <1>3, Dropping DEF Pooled
<1>10. active' \in Int /\ active' <= active
  BY <1>1, <1>4
<1>11. TypeInv'
  <2>1. \A g \in Handlers : hs'[g].pc \in HasConn => hs'[g].c \in Conns
    BY <1>2, <1>4, <1>5 DEF Others, HasConn, PoolInv, TypeInv
  <2>2. MaxActive > 0 => active' <= MaxActive
    BY <1>1, <1>10
  <2> QED BY <1>3, <1>5, <1>9, <1>10, <2>1, <2>2 DEF PoolInv, TypeInv
<1>12. Counts(h)
  <2>1. Busy(hs'[h]) = 0 /\ active' = active - Busy(hs[h]) /\ Busy(hs[h]) \in Int
    BY <1>1, <1>2, <1>4 DEF Busy, Working
  <2> QED BY <1>1, <1>7, <2>1 DEF Counts
<1>13. Rests(h)
  <2>1. Slack' = Slack + active - active' /\ Slack \in Int
    BY <1>1, <1>7, <1>10 DEF Slack
  <2> QED BY <1>1, <1>2, <1>3, <1>4, <2>1 DEF Rests
<1>14. Returns(h)
  <2>1. Fits(hs'[h], conn'[hs'[h].c])
    BY <1>2, <1>4 DEF Fits
  <2> QED BY <1>1, <1>7, <1>9, <2>1 DEF Returns
<1> QED BY <1>8, <1>11, <1>12, <1>13, <1>14 DEF Step
-----------------------------------------------------------------------------
(* Pool.put, and what happens outside the goroutines' own steps.           *)

LEMMA Putting ==
  ASSUME PoolInv, NEW h \in Handlers, Put(h)
  PROVE  Step(h, {})
<1>1. hs[h].pc = "put" /\ now' = now /\ closed' = closed /\ toClose' = toClose /\ conn' = conn
  BY DEF Put
<1>2. /\ idle \in Seq(Item) /\ Distinct(idle) /\ active \in Int /\ Len(idle) \in Nat
      /\ (MaxActive > 0 => active <= MaxActive) /\ MaxActive \in Nat
      /\ Len(idle) <= MaxIdle /\ MaxIdle \in Nat /\ now \in Nat
  BY RedisPoolAssumption DEF PoolInv, TypeInv, Places, Cleaned
<1>3. PICK c \in Conns : /\ c = hs[h].c /\ Own(h) = {c} /\ c \notin Pooled
                         /\ (conn[c].err \/ Clean(conn[c]))
  <2>1. hs[h].pc \in HasConn
    BY <1>1 DEF HasConn
  <2> QED BY <1>1, <2>1, Having DEF Fits
<1>4. PICK x, p : x = [c |-> c, t |-> now] /\ p = <<x>> \o idle
  OBVIOUS
<1>5. x \in Item /\ x.c = c
  BY <1>2, <1>4 DEF Item
<1>6. /\ p \in Seq(Item) /\ Len(p) = Len(idle) + 1 /\ Distinct(p)
      /\ ConnsIn(p) = ConnsIn(idle) \cup {c} /\ c \notin ConnsIn(idle)
  BY <1>2, <1>3, <1>4, <1>5, Pushed DEF Pooled
\* The lists and h's place, however the connection passes.
<1>7. ASSUME NEW r \in HState, r.pc \in {"out", "drop"}, r.pc = "drop" => r.c \in Conns,
             Signals(h), hs'[h] = r, idle' \in Seq(Item), Distinct(idle'),
             active' \in Int, active' <= active, Len(idle') <= MaxIdle,
             active' - Len(idle') = active - Len(idle) - 1,
             Own(h)' \cup ConnsIn(idle') = {c} \cup ConnsIn(idle),
             Own(h)' \cap ConnsIn(idle') = {},
             c \in ConnsIn(idle') => Clean(conn[c]),
             Passes(h, {})
      PROVE  Step(h, {})
  <2>1. Others(h) /\ hs' \in [Handlers -> HState]
    BY <1>7, OthersStay DEF PoolInv, Others
  <2>2. /\ ConnsIn(toClose') = ConnsIn(toClose) /\ Distinct(toClose') /\ (~closed' => toClose' = <<>>)
        /\ ConnsIn(idle) \cap ConnsIn(toClose) = {} /\ c \notin ConnsIn(toClose)
    BY <1>1, <1>3 DEF PoolInv, Places, Pooled
  <2>3. \A d \in Own(h) \cup Pooled : Made(conn[d])
    <3>1. \A d \in Own(h) \cup Pooled : d \in Conns /\ Taken(d)
      BY InConns DEF PoolInv, Taken
    <3> QED BY <3>1 DEF PoolInv, Places, Settled
  <2>4. Moved(h, {})
    <3>1. Own(h)' \cup Pooled' = Own(h) \cup Pooled
      BY <1>3, <1>7, <2>2 DEF Pooled
    <3>2. Own(h)' \cap Pooled' = {} /\ ConnsIn(idle') \cap ConnsIn(toClose') = {}
      BY <1>3, <1>7, <2>2 DEF Pooled
    <3> QED BY <1>1, <1>7, <2>1, <2>2, <2>3, <3>1, <3>2 DEF Moved
  <2>5. TypeInv'
    <3>1. \A g \in Handlers : hs'[g].pc \in HasConn => hs'[g].c \in Conns
      BY <1>7, <2>1 DEF Others, HasConn, PoolInv, TypeInv
    <3>2. MaxActive > 0 => active' <= MaxActive
      BY <1>2, <1>7
    <3> QED BY <1>1, <1>7, <2>1, <3>1, <3>2 DEF PoolInv, TypeInv
  <2>6. Counts(h)
    <3>1. Busy(hs[h]) = 1 /\ Busy(hs'[h]) = 0
      BY <1>1, <1>7 DEF Busy, Working
    <3>2. Len(idle') \in Int
      BY <1>7
    <3> QED BY <1>2, <1>7, <3>1, <3>2 DEF Counts
  <2>7. Rests(h)
    <3>1. Len(idle') \in Int
      BY <1>7
    <3>2. Slack' <= Slack + 1
      BY <1>2, <1>7, <3>1 DEF Slack
    <3> QED BY <1>1, <1>7, <3>2 DEF Rests
  <2>8. Returns(h)
    <3>1. Fits(hs'[h], conn'[hs'[h].c])
      BY <1>7 DEF Fits
    <3>2. \A d \in ConnsIn(idle') : Clean(conn'[d]) \/ (d \in ConnsIn(idle) /\ conn'[d] = conn[d])
      BY <1>1, <1>7
    <3> QED BY <1>7, <3>1, <3>2 DEF Returns
  <2> QED BY <1>7, <2>4, <2>5, <2>6, <2>7, <2>8 DEF Step
<1> DEFINE keep == ~closed /\ ~conn[c].err
<1>8. CASE keep /\ Len(p) <= MaxIdle
  <2>1. idle' = p /\ active' = active /\ hs' \in Signal([hs EXCEPT ![h] = Out])
    BY <1>2, <1>3, <1>4, <1>6, <1>8 DEF Put
  <2>2. Out \in HState /\ Out.pc = "out"
    BY DEF Out, HState, Pcs
  <2>3. Signals(h) /\ hs'[h] = Out
    BY <1>1, <2>1, <2>2, Signalling DEF PoolInv
  <2>4. Own(h)' = {}
    BY <2>2, <2>3 DEF Own, HasConn
  <2>5. Passes(h, {})
    <3>1. Pooled' = Pooled \cup {c}
      BY <1>1, <1>6, <2>1 DEF Pooled
    <3> QED BY <1>3, <2>4, <3>1 DEF Passes
  <2>6. Len(idle') = Len(idle) + 1 /\ ConnsIn(idle') = ConnsIn(idle) \cup {c} /\ idle' \in Seq(Item)
        /\ Distinct(idle')
    BY <1>6, <2>1
  <2>7. Clean(conn[c]) /\ Len(idle') <= MaxIdle
    BY <1>3, <1>8, <2>1
  <2>8. active' \in Int /\ active' <= active /\ active' - Len(idle') = active - Len(idle) - 1
    BY <1>2, <2>1, <2>6
  <2> QED BY <1>7, <2>2, <2>3, <2>4, <2>5, <2>6, <2>7, <2>8
<1>9. CASE keep /\ Len(p) > MaxIdle
  <2>1. p # <<>>
    BY <1>2, <1>6
  <2>2. PICK q \in Seq(Item), d \in Conns :
           /\ q = SubSeq(p, 1, Len(p) - 1) /\ d = p[Len(p)].c /\ Len(q) = Len(p) - 1
           /\ Distinct(q) /\ ConnsIn(q) = ConnsIn(p) \ {d} /\ d \in ConnsIn(p)
    BY <1>6, <2>1, Pruned
  <2>3. PICK r : r = At("drop", d, 0)
    OBVIOUS
  <2>4. r \in HState /\ r.pc = "drop" /\ r.c = d
    BY <2>3 DEF At, HState, Pcs
  <2>5. idle' = q /\ active' = active - 1 /\ hs' \in Signal([hs EXCEPT ![h] = r])
    <3>1. /\ idle' = SubSeq(p, 1, Len(p) - 1) /\ active' = active - 1
          /\ hs' \in Signal([hs EXCEPT ![h] = At("drop", p[Len(p)].c, 0)])
      <4>1. keep /\ ~(Len(p) <= MaxIdle)
        BY <1>2, <1>6, <1>9
      <4> HIDE DEF keep
      <4>2. /\ p = <<[c |-> hs[h].c, t |-> now]>> \o idle
            /\ keep = (~closed /\ ~conn[hs[h].c].err)
        BY <1>3, <1>4 DEF keep
      <4> QED BY <4>1, <4>2, Zenon DEF Put
    <3>2. At("drop", p[Len(p)].c, 0) = r
      BY <2>2, <2>3
    <3>3. idle' = q
      BY <2>2, <3>1
    <3> QED BY <3>1, <3>2, <3>3
  <2>6. Signals(h) /\ hs'[h] = r
    BY <1>1, <2>4, <2>5, Signalling DEF PoolInv
  <2>7. Own(h)' = {d} /\ ConnsIn(idle') = (ConnsIn(idle) \cup {c}) \ {d} /\ d \in ConnsIn(idle) \cup {c}
        /\ idle' \in Seq(Item) /\ Distinct(idle')
    BY <1>6, <2>2, <2>4, <2>5, <2>6 DEF Own, HasConn
  <2>8. Len(idle') = Len(idle)
    BY <1>2, <1>6, <2>2, <2>5
  <2>9. Passes(h, {})
    <3>1. c \notin ConnsIn(toClose) /\ ConnsIn(toClose') = ConnsIn(toClose)
          /\ ConnsIn(idle) \cap ConnsIn(toClose) = {}
      BY <1>1, <1>3 DEF Pooled, PoolInv, Places
    <3>2. CASE d = c
      <4>1. Pooled' = Pooled /\ Own(h)' = Own(h)
        BY <1>3, <1>6, <2>7, <3>1, <3>2 DEF Pooled
      <4> QED BY <4>1 DEF Passes
    <3>3. CASE d # c
      <4>1. d \in Pooled /\ Pooled' = (Pooled \cup {c}) \ {d}
        BY <1>3, <2>7, <3>1, <3>3 DEF Pooled
      <4> QED BY <1>3, <2>7, <4>1 DEF Passes
    <3> QED BY <3>2, <3>3
  <2>10. Clean(conn[c])
    BY <1>3, <1>9
  <2>11. active' \in Int /\ active' <= active /\ active' - Len(idle') = active - Len(idle) - 1
         /\ Len(idle') <= MaxIdle
    BY <1>2, <2>5, <2>8
  <2>12. /\ Own(h)' \cup ConnsIn(idle') = {c} \cup ConnsIn(idle)
         /\ Own(h)' \cap ConnsIn(idle') = {}
    BY <2>7
  <2> QED BY <1>7, <2>4, <2>6, <2>7, <2>9, <2>10, <2>11, <2>12
<1>10. CASE ~keep
  <2>1. PICK r : r = At("drop", c, 0)
    OBVIOUS
  <2>2. r \in HState /\ r.pc = "drop" /\ r.c = c
    BY <2>1 DEF At, HState, Pcs
  <2>3. idle' = idle /\ active' = active - 1 /\ hs' \in Signal([hs EXCEPT ![h] = r])
    BY <1>3, <1>10, <2>1 DEF Put
  <2>4. Signals(h) /\ hs'[h] = r
    BY <1>1, <2>2, <2>3, Signalling DEF PoolInv
  <2>5. Own(h)' = {c} /\ ConnsIn(idle') = ConnsIn(idle) /\ Len(idle') = Len(idle)
    BY <2>2, <2>3, <2>4 DEF Own, HasConn
  <2>6. Passes(h, {})
    <3>1. Pooled' = Pooled
      BY <1>1, <2>3 DEF Pooled
    <3> QED BY <1>3, <2>5, <3>1 DEF Passes
  <2>7. active' \in Int /\ active' <= active /\ active' - Len(idle') = active - Len(idle) - 1
        /\ Len(idle') <= MaxIdle /\ idle' \in Seq(Item) /\ Distinct(idle')
    BY <1>2, <2>3, <2>5
  <2>8. /\ Own(h)' \cup ConnsIn(idle') = {c} \cup ConnsIn(idle)
        /\ Own(h)' \cap ConnsIn(idle') = {} /\ c \notin ConnsIn(idle')
    BY <1>6, <2>5
  <2> QED BY <1>7, <2>2, <2>4, <2>6, <2>7, <2>8
<1> QED BY <1>2, <1>6, <1>8, <1>9, <1>10
\* Pool.Close takes the list and wakes every waiter.
LEMMA ClosingPool ==
  ASSUME PoolInv, Close
  PROVE  PoolInv' /\ (L!Next \/ UNCHANGED Leases)
<1>1. /\ ~closed /\ closed' = TRUE /\ idle' = <<>> /\ toClose' = idle /\ active' = active - Len(idle)
      /\ now' = now /\ conn' = conn
      /\ hs' = [h \in Handlers |->
                 IF hs[h].pc = "wait" THEN [hs[h] EXCEPT !.pc = "woken"] ELSE hs[h]]
  BY DEF Close
<1>2. /\ idle \in Seq(Item) /\ active \in Int /\ Len(idle) \in Nat /\ hs \in [Handlers -> HState]
      /\ Distinct(idle) /\ toClose = <<>>
  BY <1>1 DEF PoolInv, TypeInv, Places
<1>3. ASSUME NEW h \in Handlers
      PROVE  /\ hs'[h] \in HState
             /\ \/ hs'[h] = hs[h] /\ hs[h].pc # "wait"
                \/ hs[h].pc = "wait" /\ hs'[h].pc = "woken"
  <2>1. PICK k \in HState : k = hs[h]
    BY <1>2
  <2>2. [k EXCEPT !.pc = "woken"] \in HState /\ [k EXCEPT !.pc = "woken"].pc = "woken"
    BY DEF HState, Pcs
  <2> QED BY <1>1, <2>1, <2>2
<1>4. hs' \in [Handlers -> HState] /\ \A h \in Handlers : Own(h)' = Own(h)
  BY <1>1, <1>3 DEF Own, HasConn
<1>5. ConnsIn(idle') = {} /\ Distinct(idle') /\ Len(idle') = 0 /\ idle' \in Seq(Item) /\ ConnsIn(toClose) = {}
  <2>1. DOMAIN idle' = {} /\ Len(idle') = 0 /\ idle' \in Seq(Item) /\ DOMAIN toClose = {}
    BY <1>1, <1>2
  <2> QED BY <2>1 DEF ConnsIn, Distinct
<1>6. Pooled' = Pooled /\ ConnsIn(toClose') = ConnsIn(idle) /\ Distinct(toClose')
  BY <1>1, <1>2, <1>5 DEF Pooled
<1>7. PICK h \in Handlers : TRUE
  BY RedisPoolAssumption
<1>8. Moved(h, {})
  <2>1. Others(h)
    BY <1>3, <1>4 DEF Others
  <2>2. Own(h)' \cap Pooled' = {}
    BY <1>4, <1>6 DEF PoolInv, Places
  <2>3. \A c \in Own(h) \cup Pooled : Made(conn[c])
    <3>1. \A c \in Own(h) \cup Pooled : c \in Conns /\ Taken(c)
      BY InConns DEF PoolInv, Taken
    <3> QED BY <3>1 DEF PoolInv, Places, Settled
  <2> QED BY <1>1, <1>4, <1>5, <1>6, <2>1, <2>2, <2>3 DEF Moved
<1>9. Passes(h, {})
  BY <1>4, <1>6 DEF Passes
<1>10. Places' /\ (L!Next \/ UNCHANGED Leases)
  BY <1>8, <1>9, PlacesNext, LeaseNext DEF PoolInv
<1>11. TypeInv'
  <2>1. \A g \in Handlers : hs'[g].pc \in HasConn => hs'[g].c \in Conns
    BY <1>3 DEF HasConn, PoolInv, TypeInv
  <2>2. active' \in Int /\ (MaxActive > 0 => active' <= MaxActive)
    BY <1>1, <1>2, RedisPoolAssumption DEF PoolInv, TypeInv
  <2> QED BY <1>1, <1>2, <1>4, <1>5, <2>1, <2>2 DEF PoolInv, TypeInv
<1>12. Counted'
  <2>1. Workers' = Workers
    BY <1>3 DEF Workers, Working
  <2>2. Cardinality(Workers) \in Nat
    BY RedisPoolAssumption, FS_Subset, FS_CardinalityType DEF Workers
  <2>3. active' = Cardinality(Workers)
    BY <1>1, <1>2, <2>2 DEF PoolInv, Counted
  <2> QED BY <1>5, <2>1, <2>2, <2>3 DEF Counted
<1>13. Wakes'
  BY <1>3 DEF Wakes, Waiters
<1>14. Cleaned'
  <2>1. \A g \in Handlers : Fits(hs'[g], conn'[hs'[g].c])
    BY <1>1, <1>3 DEF Fits, PoolInv, Cleaned
  <2> QED BY <1>5, <2>1, RedisPoolAssumption DEF Cleaned
<1> QED BY <1>10, <1>11, <1>12, <1>13, <1>14 DEF PoolInv

\* The walk of Pool.Close, and a connection that is given up by the server: the
\* pool itself stays as it is.
LEMMA ConnectionsOnly ==
  ASSUME PoolInv, CloseNext \/ \E c \in Conns : Break(c)
  PROVE  PoolInv' /\ (L!Next \/ UNCHANGED Leases)
<1>1. /\ now' = now /\ idle' = idle /\ active' = active /\ closed' = closed /\ hs' = hs
      /\ ConnsIn(idle') = ConnsIn(idle)
  BY DEF CloseNext, Break
<1>2. /\ hs \in [Handlers -> HState] /\ idle \in Seq(Item) /\ toClose \in Seq(Item)
      /\ conn \in [Conns -> Good] /\ Pooled \subseteq Conns
  BY InConns DEF PoolInv, TypeInv
<1>3. \A g \in Handlers : Own(g)' = Own(g) /\ Others(g)
  BY <1>1, <1>2 DEF Own, Others
<1>4. \A g \in Handlers : \A c \in Own(g) \cup Pooled : c \in Conns /\ Made(conn[c])
  <2>1. \A g \in Handlers : \A c \in Own(g) \cup Pooled : c \in Conns /\ Taken(c)
    BY InConns DEF PoolInv, Taken
  <2> QED BY <2>1 DEF PoolInv, Places, Settled
<1>5. ASSUME NEW h \in Handlers, Moved(h, {}), Passes(h, {}), TypeInv',
             Fits(hs[h], conn'[hs[h].c]), \A c \in ConnsIn(idle) : Clean(conn'[c])
      PROVE  PoolInv' /\ (L!Next \/ UNCHANGED Leases)
  <2>1. Places' /\ (L!Next \/ UNCHANGED Leases)
    BY <1>5, PlacesNext, LeaseNext DEF PoolInv
  <2>2. Returns(h)
    BY <1>1, <1>5 DEF Returns, PoolInv, Cleaned
  <2>3. Cleaned'
    BY <1>5, <2>2, Cleaning DEF PoolInv
  <2>4. Counted' /\ Wakes'
    BY <1>1 DEF PoolInv, Counted, Wakes, Workers, Waiters, Roused
  <2> QED BY <1>5, <2>1, <2>3, <2>4 DEF PoolInv
<1>6. CASE CloseNext
  <2>1. toClose # <<>> /\ Distinct(toClose) /\ ConnsIn(idle) \cap ConnsIn(toClose) = {}
    BY <1>6 DEF CloseNext, PoolInv, Places
  <2>2. PICK c \in Conns, q \in Seq(Item) :
           /\ c = Head(toClose).c /\ q = Tail(toClose) /\ Distinct(q)
           /\ ConnsIn(q) = ConnsIn(toClose) \ {c} /\ c \in ConnsIn(toClose)
    BY <1>2, <2>1, Popped
  <2>3. PICK k : k = CloseConn(conn[c])
    OBVIOUS
  <2>4. k \in Good /\ k.err /\ ~k.open
    BY <1>2, <2>2, <2>3, Closing DEF Good
  <2>5. toClose' = q /\ conn' = [conn EXCEPT ![c] = k]
    BY <1>6, <2>2, <2>3 DEF CloseNext
  <2>6. conn' \in [Conns -> Good] /\ conn'[c] = k /\ \A d \in Conns \ {c} : conn'[d] = conn[d]
    BY <1>2, <2>4, <2>5
  <2>7. c \in Pooled /\ Pooled' = Pooled \ {c} /\ c \notin ConnsIn(idle)
    BY <1>1, <2>1, <2>2, <2>5 DEF Pooled
  <2>8. PICK h \in Handlers : TRUE
    BY RedisPoolAssumption
  <2>9. c \notin Own(h) /\ Own(h) \cap Pooled = {}
    BY <2>7 DEF PoolInv, Places
  <2>10. Moved(h, {})
    <3>1. /\ Distinct(idle') /\ Distinct(toClose') /\ ConnsIn(idle') \cap ConnsIn(toClose') = {}
          /\ (~closed' => toClose' = <<>>)
      BY <1>1, <2>1, <2>2, <2>5 DEF PoolInv, Places
    <3> QED BY <1>3, <1>4, <2>4, <2>6, <2>7, <2>9, <3>1 DEF Moved
  <2>11. Passes(h, {})
    BY <1>3, <2>7 DEF Passes
  <2>12. TypeInv'
    BY <1>1, <2>5, <2>6 DEF PoolInv, TypeInv
  <2>13. Fits(hs[h], conn'[hs[h].c])
    <3>1. CASE hs[h].pc \in HasConn
      <4>1. conn'[hs[h].c] = conn[hs[h].c]
        BY <2>6, <2>9, <3>1, Having
      <4> QED BY <4>1 DEF PoolInv, Cleaned
    <3>2. CASE hs[h].pc \notin HasConn
      BY <3>2 DEF Fits, HasConn
    <3> QED BY <3>1, <3>2
  <2>14. \A d \in ConnsIn(idle) : Clean(conn'[d])
    <3>1. \A d \in ConnsIn(idle) : d \in Conns \ {c}
      BY <1>2, <2>7 DEF Pooled
    <3> QED BY <2>6, <3>1 DEF PoolInv, Cleaned
  <2> QED BY <1>5, <2>10, <2>11, <2>12, <2>13, <2>14
<1>7. ASSUME NEW c \in Conns, Break(c) PROVE PoolInv' /\ (L!Next \/ UNCHANGED Leases)
  <2>1. conn[c].open /\ conn[c] \in Good /\ toClose' = toClose
    BY <1>2, <1>7 DEF Break
  <2>2. PICK k : k = [conn[c] EXCEPT !.dead = TRUE]
    OBVIOUS
  <2>3. /\ k \in Good /\ Made(k) /\ (Clean(conn[c]) => Clean(k)) /\ k.err = conn[c].err
        /\ \A state : Agree(state, conn[c]) => Agree(state, k)
    BY <2>1, <2>2, Breaking
  <2>4. conn' = [conn EXCEPT ![c] = k]
    BY <1>2, <1>7, <2>2 DEF Break
  <2>5. conn' \in [Conns -> Good] /\ conn'[c] = k /\ \A d \in Conns \ {c} : conn'[d] = conn[d]
    BY <1>2, <2>3, <2>4
  <2>6. PICK h \in Handlers : c \in Own(h) \cup Pooled
    <3>1. Taken(c)
      <4>1. ~(conn[c] = NewConn)
        BY <2>1, Fresh DEF Made
      <4> QED BY <2>1, <4>1 DEF PoolInv, Places, Settled
    <3> QED BY <3>1, RedisPoolAssumption DEF Taken
  <2>7. Pooled' = Pooled /\ ConnsIn(toClose') = ConnsIn(toClose)
    BY <1>1, <2>1 DEF Pooled
  <2>8. Moved(h, {})
    <3>1. /\ Distinct(idle') /\ Distinct(toClose') /\ ConnsIn(idle') \cap ConnsIn(toClose') = {}
          /\ (~closed' => toClose' = <<>>) /\ Own(h)' \cap Pooled' = {}
      BY <1>1, <1>3, <2>1, <2>7 DEF PoolInv, Places
    <3> QED BY <1>3, <1>4, <2>3, <2>5, <2>6, <2>7, <3>1 DEF Moved
  <2>9. Passes(h, {})
    BY <1>3, <2>7 DEF Passes
  <2>10. TypeInv'
    BY <1>1, <2>1, <2>5 DEF PoolInv, TypeInv
  <2>11. Fits(hs[h], conn'[hs[h].c])
    <3>1. CASE hs[h].pc \in HasConn
      <4>1. hs[h].c \in Conns /\ Fits(hs[h], conn[hs[h].c])
        BY <3>1, Having
      <4> QED BY <2>3, <2>5, <4>1 DEF Fits
    <3>2. CASE hs[h].pc \notin HasConn
      BY <3>2 DEF Fits, HasConn
    <3> QED BY <3>1, <3>2
  <2>12. \A d \in ConnsIn(idle) : Clean(conn'[d])
    <3>1. \A d \in ConnsIn(idle) : d \in Conns /\ Clean(conn[d])
      BY <1>2 DEF Pooled, PoolInv, Cleaned
    <3> QED BY <2>3, <2>5, <3>1
  <2> QED BY <1>5, <2>8, <2>9, <2>10, <2>11, <2>12
<1> QED BY <1>6, <1>7

\* What the pool's clock, or nothing at all, leaves as it is.
LEMMA Resting ==
  ASSUME PoolInv, Tick \/ UNCHANGED vars
  PROVE  PoolInv' /\ UNCHANGED Leases
<1>1. /\ idle' = idle /\ active' = active /\ closed' = closed /\ toClose' = toClose
      /\ hs' = hs /\ conn' = conn /\ now' \in Nat
  BY DEF Tick, vars, PoolInv, TypeInv
<1>2. TypeInv'
  BY <1>1 DEF PoolInv, TypeInv
<1>3. Places' /\ Counted' /\ Wakes' /\ Cleaned'
  BY <1>1 DEF PoolInv, Places, Own, Pooled, Taken, Settled, Counted, Workers, Wakes, Waiters,
              Roused, Cleaned
<1>4. Leases' = Leases
  BY <1>1 DEF Leases, LeaseOf, Owners, InIdle, InClose
<1> QED BY <1>2, <1>3, <1>4 DEF PoolInv
-----------------------------------------------------------------------------
(* The results. *)

LEMMA Beginning == Init => PoolInv /\ L!Init
<1> SUFFICES ASSUME Init PROVE PoolInv /\ L!Init
  OBVIOUS
<1>1. /\ now = 0 /\ idle = <<>> /\ active = 0 /\ closed = FALSE /\ toClose = <<>>
      /\ hs = [h \in Handlers |-> Out] /\ conn = [c \in Conns |-> NewConn]
  BY DEF Init
<1>2. Out \in HState /\ Out.pc = "out"
  BY DEF Out, HState, Pcs
<1>3. /\ hs \in [Handlers -> HState] /\ conn \in [Conns -> Good]
      /\ \A h \in Handlers : hs[h].pc = "out" /\ Own(h) = {}
  BY <1>1, <1>2, Fresh DEF Own, HasConn
<1>4. idle \in Seq(Item) /\ toClose \in Seq(Item) /\ Len(idle) = 0 /\ DOMAIN idle = {} /\ DOMAIN toClose = {}
  BY <1>1
<1>5. ConnsIn(idle) = {} /\ ConnsIn(toClose) = {} /\ Distinct(idle) /\ Distinct(toClose)
  BY <1>4 DEF ConnsIn, Distinct
<1>6. TypeInv
  <2>1. now \in Nat /\ active \in Int /\ closed \in BOOLEAN
    <3>1. now = 0 /\ active = 0 /\ closed = FALSE
      BY <1>1
    <3>2. closed \in BOOLEAN
      BY <3>1, Zenon
    <3> QED BY <3>1, <3>2
  <2>2. MaxActive > 0 => active <= MaxActive
    BY <1>1, <2>1, RedisPoolAssumption
  <2>3. \A h \in Handlers : hs[h].pc \in HasConn => hs[h].c \in Conns
    BY <1>3 DEF HasConn
  <2> QED BY <1>3, <1>4, <2>1, <2>2, <2>3 DEF TypeInv
<1>7. Places
  <2>1. \A c \in Conns : Settled(c)
    BY <1>1, <1>3, <1>5 DEF Settled, Taken, Pooled
  <2> QED BY <1>1, <1>3, <1>5, <2>1 DEF Places
<1>8. Counted
  <2>1. Workers = {}
    BY <1>3 DEF Workers, Working
  <2> QED BY <1>1, <1>4, <2>1, FS_EmptySet DEF Counted
<1>9. Wakes
  BY <1>3 DEF Wakes, Waiters
<1>10. Cleaned
  BY <1>3, <1>4, <1>5, RedisPoolAssumption DEF Cleaned, Fits
<1>11. L!Init
  <2>1. \A c \in Conns : LeaseOf(c) = "new"
    <3> SUFFICES ASSUME NEW c \in Conns PROVE LeaseOf(c) = "new"
      OBVIOUS
    <3>1. LeaseIs(c)
      BY <1>7, LeaseByPlace DEF LeasesAre
    <3>2. ~Taken(c) /\ ~conn[c].err
      BY <1>1, <1>3, <1>5, Fresh DEF Taken, Pooled, Made
    <3> QED BY <3>1, <3>2 DEF LeaseIs
  <2> QED BY <2>1 DEF L!Init, L!New, Leases
<1> QED BY <1>6, <1>7, <1>8, <1>9, <1>10, <1>11 DEF PoolInv

LEMMA PoolStep == PoolInv /\ [Next]_vars => PoolInv' /\ (L!Next \/ UNCHANGED Leases)
<1> SUFFICES ASSUME PoolInv, [Next]_vars PROVE PoolInv' /\ (L!Next \/ UNCHANGED Leases)
  OBVIOUS
<1>1. ASSUME NEW h \in Handlers, NEW X, Step(h, X) PROVE PoolInv' /\ (L!Next \/ UNCHANGED Leases)
  BY <1>1, Stepping
<1>2. ASSUME NEW h \in Handlers,
             \/ Get(h) \/ GetStep(h) \/ Flush(h) \/ Receive(h) \/ CloseHandle(h) \/ PutStep(h)
             \/ \E cmd \in Commands : Send(h, cmd) \/ Do(h, cmd)
      PROVE  \E X : Step(h, X)
  <2>1. CASE Get(h) \/ Prune(h) \/ Woken(h)
    BY <2>1, Borrowing
  <2>2. CASE TestOnBorrow(h)
    BY <2>2, Testing
  <2>3. CASE DropFailed(h)
    BY <2>3, Retrying
  <2>4. CASE \E c \in Conns : Dial(h, c)
    BY <2>4, Dialing
  <2>5. CASE DialFails(h) \/ Drop(h)
    BY <2>5, Ending
  <2>6. CASE \/ \E cmd \in Commands : Send(h, cmd) \/ Do(h, cmd)
             \/ Flush(h) \/ Receive(h)
    BY <2>6, Using
  <2>7. CASE CloseHandle(h)
    BY <2>7, Leaving
  <2>8. CASE Put(h)
    BY <2>8, Putting
  <2> QED BY <1>2, <2>1, <2>2, <2>3, <2>4, <2>5, <2>6, <2>7, <2>8 DEF GetStep, PutStep
<1>3. CASE Close
  BY <1>3, ClosingPool
<1>4. CASE CloseNext \/ \E c \in Conns : Break(c)
  BY <1>4, ConnectionsOnly
<1>5. CASE Tick \/ UNCHANGED vars
  BY <1>5, Resting
<1> QED BY <1>1, <1>2, <1>3, <1>4, <1>5 DEF Next

\* The invariant of the pool.
THEOREM PoolInvariant == Spec => []PoolInv
<1>1. Init => PoolInv
  BY Beginning
<1>2. PoolInv /\ [Next]_vars => PoolInv'
  BY PoolStep
<1> QED BY <1>1, <1>2, PTL DEF Spec

\* The shape of the state: no reply is read that was not to come, and active
\* never goes below zero.
THEOREM PoolTypeCorrect == Spec => []TypeOK
<1>1. PoolInv => TypeOK
  <2> SUFFICES ASSUME PoolInv PROVE TypeOK
    OBVIOUS
  <2>1. active \in Nat
    <3>1. Cardinality(Workers) \in Nat /\ Len(idle) \in Nat
      BY RedisPoolAssumption, FS_Subset, FS_CardinalityType DEF Workers, PoolInv, TypeInv
    <3> QED BY <3>1 DEF PoolInv, Counted
  <2>2. conn \in [Conns -> ConnType]
    BY DEF PoolInv, TypeInv, Good
  <2> QED BY <2>1, <2>2 DEF PoolInv, TypeInv, TypeOK, Item, HState
<1> QED BY <1>1, PoolInvariant, PTL

\* Pool.active counts exactly what it should, and MaxActive is respected.
THEOREM ActiveExact == Spec => []ActiveIsExact
<1>1. PoolInv => ActiveIsExact
  BY DEF PoolInv, Counted, Workers, Working, TypeInv, ActiveIsExact
<1> QED BY <1>1, PoolInvariant, PTL

\* No transaction, watched key or pending reply of one goroutine is left on a
\* connection the next one takes.  Subscriptions are not part of the model.
THEOREM IdleClean == Spec => []IdleIsClean
<1>1. PoolInv => IdleIsClean
  BY DEF PoolInv, Cleaned, Clean, ConnsIn, InIdle, IdleIsClean
<1> QED BY <1>1, PoolInvariant, PTL

\* No waiter of Pool.get sleeps while there is a connection to have.
THEOREM NoWakeupLost == Spec => []NoLostWakeup
<1>1. PoolInv => NoLostWakeup
  <2> SUFFICES ASSUME PoolInv, Waiters(hs) # {}, \A h \in Handlers : hs[h].pc # "woken"
               PROVE  ~closed /\ idle = <<>> /\ active >= MaxActive
    BY DEF NoLostWakeup
  <2>1. /\ ~closed /\ MaxActive > 0 /\ Len(idle) + MaxActive - active <= Cardinality(Roused)
        /\ active <= MaxActive /\ active \in Int /\ Len(idle) \in Nat /\ MaxActive \in Nat
        /\ idle \in Seq(Item)
    BY RedisPoolAssumption DEF PoolInv, Wakes, TypeInv
  <2>2. Cardinality(Roused) = 0
    <3>1. Roused = {}
      BY DEF Roused
    <3> QED BY <3>1, FS_EmptySet
  <2>3. Len(idle) = 0 /\ active >= MaxActive
    BY <2>1, <2>2
  <2> QED BY <2>1, <2>3
<1> QED BY <1>1, PoolInvariant, PTL

\* The pool implements Lease, whose specification its behaviours satisfy step by
\* step: a connection is one goroutine's at a time, also while it is tested,
\* dialed or closed without the mutex, is never forgotten open and never used
\* again once it is closed.
THEOREM PoolLeases == Spec => ImplementsLease /\ L!Spec
<1>1. Init => L!Init
  BY Beginning
<1>2. PoolInv /\ [Next]_vars => [UNCHANGED Leases \/ L!Next]_vars
  BY PoolStep
<1>3. PoolInv /\ [Next]_vars => [L!Next]_Leases
  BY PoolStep
<1> QED BY <1>1, <1>2, <1>3, PoolInvariant, PTL DEF Spec, ImplementsLease, L!Spec
=============================================================================
