------------------------ MODULE PresenceEvents_proofs ------------------------
(***************************************************************************)
(* How the event stream of SetStatus relates to the store, for every       *)
(* number of handlers, retries and crashes.                                *)
(***************************************************************************)
EXTENDS Presence_proofs, FiniteSetTheorems

-----------------------------------------------------------------------------
(***************************************************************************)
(* The stream and the store.  A handler that no other call for its device  *)
(* has overlapped is the only one on its device key; its event is stamped  *)
(* no earlier than what the topic holds for the device, and once its write *)
(* is executed, the store says what the event will say.  That, with a      *)
(* bound on the time to live, is what SettledStreamAgrees needs at the     *)
(* moment the call is acknowledged; and nobody touches the device after.   *)
(***************************************************************************)
Limit(e) == e.timestamp + bucketTTL * Second

StoreHolds(e) ==
    LET k == makeKey(e.dev) IN
    IF e.dev.status = Device_ONLINE
    THEN now < Limit(e) =>
            /\ IsString(redis, k) /\ redis[k].string = e.dev.user
            /\ redis[k].expires >= Limit(e)
    ELSE ~IsString(redis, k)

StampedBefore ==
    /\ \A u \in PartitionKeys : \A n \in DOMAIN topic[u] : topic[u][n].timestamp <= now
    /\ \A s \in Setters : set[s].pc \in {"redis", "publish"} => set[s].timestamp <= now

Lonely(s) == set[s].pc \in Running /\ set[s].alone

AloneOK(s) ==
    /\ \A t \in Setters : t # s => ~WorksOn(t, makeKey(set[s].dev))
    /\ set[s].pc \in {"redis", "publish"} => LatestOfAll(EventOf(s))
    /\ set[s].pc = "publish" => StoreHolds(EventOf(s))

SettledOK(e) ==
    /\ \A t \in Setters : ~WorksOn(t, makeKey(e.dev))
    /\ e.dev.user \in PartitionKeys
    /\ LastInLog(e) /\ LatestOfAll(e) /\ StoreHolds(e)

StreamInv ==
    /\ StampedBefore
    /\ \A s \in Setters : Lonely(s) => AloneOK(s)
    /\ \A e \in settled : SettledOK(e)

\* Steps that touch neither topic nor store nor clock.
LEMMA EventsKept ==
    ASSUME topic' = topic, redis' = redis, now' = now, NEW e
    PROVE  /\ LatestOfAll(e)' <=> LatestOfAll(e)
           /\ LastInLog(e)' <=> LastInLog(e)
           /\ StoreHolds(e)' <=> StoreHolds(e)
  <1>1. LatestOfAll(e)' <=> LatestOfAll(e)
    BY DEF LatestOfAll
  <1>2. LastInLog(e)' <=> LastInLog(e)
    BY DEF LastInLog, Occurrences
  <1>3. StoreHolds(e)' <=> StoreHolds(e)
    BY DEF StoreHolds, IsString, Limit, bucketTTL
  <1> QED BY <1>1, <1>2, <1>3

\* A handler that is where it was, or has only gone on to read the clock, or
\* has stopped.
Goes(t) ==
    set'[t].pc \in Running =>
        /\ set[t].pc \in Running /\ set'[t].dev = set[t].dev
        /\ set'[t].alone => set[t].alone
        /\ set'[t].pc \in {"redis", "publish"} =>
              /\ set[t].pc \in {"redis", "publish"}
              /\ set'[t].timestamp = set[t].timestamp
        /\ set'[t].pc = "publish" => set[t].pc = "publish"

\* Such handlers keep to their keys.
LEMMA QuietKept ==
    ASSUME NEW t \in Setters, NEW k, Goes(t), ~WorksOn(t, k)
    PROVE  ~WorksOn(t, k)'
  BY DEF Goes, WorksOn

\* What holds of a lonely handler goes on to hold.
LEMMA AloneKept ==
    ASSUME StreamInv, NEW t \in Setters, Lonely(t)', \A r \in Setters : Goes(r),
           topic' = topic, redis' = redis, now' = now
    PROVE  AloneOK(t)'
  <1>1. set'[t].pc \in Running /\ set'[t].alone
    BY DEF Lonely
  <1>2. Lonely(t) /\ set'[t].dev = set[t].dev
    BY <1>1 DEF Goes, Lonely
  <1>3. AloneOK(t)
    BY <1>2 DEF StreamInv
  <1>4. ASSUME NEW r \in Setters, r # t PROVE ~WorksOn(r, makeKey(set[t].dev))'
    <2>1. PICK k : k = makeKey(set[t].dev) /\ k = makeKey(set'[t].dev)
      BY <1>2
    <2>2. ~WorksOn(r, k)
      BY <1>3, <1>4, <2>1 DEF AloneOK
    <2>3. ~WorksOn(r, k)'
      BY <2>2, QuietKept
    <2> QED BY <2>1, <2>3 DEF WorksOn
  <1>5. ASSUME set'[t].pc \in {"redis", "publish"}
        PROVE  LatestOfAll(EventOf(t))' /\ (set'[t].pc = "publish" => StoreHolds(EventOf(t))')
    <2>1. PICK e : e = EventOf(t) /\ e = EventOf(t)'
      BY <1>1, <1>2, <1>5 DEF Goes, EventOf
    <2>2. set[t].pc \in {"redis", "publish"} /\ (set'[t].pc = "publish" => set[t].pc = "publish")
      BY <1>1, <1>5 DEF Goes
    <2>3. LatestOfAll(e) /\ (set[t].pc = "publish" => StoreHolds(e))
      BY <1>3, <2>1, <2>2 DEF AloneOK
    <2>4. LatestOfAll(e)' /\ (set[t].pc = "publish" => StoreHolds(e)')
      BY <2>3, EventsKept
    <2> QED BY <2>1, <2>2, <2>4 DEF LatestOfAll, StoreHolds, IsString, Limit, bucketTTL
  <1> QED BY <1>4, <1>5 DEF AloneOK

\* What holds of a settled event goes on to hold.
LEMMA SettledKept ==
    ASSUME StreamInv, NEW e \in settled, \A r \in Setters : Goes(r),
           topic' = topic, redis' = redis, now' = now
    PROVE  SettledOK(e)'
  <1>1. SettledOK(e)
    BY DEF StreamInv
  <1>2. LastInLog(e)' /\ LatestOfAll(e)' /\ StoreHolds(e)'
    BY <1>1, EventsKept DEF SettledOK
  <1>3. ASSUME NEW r \in Setters PROVE ~WorksOn(r, makeKey(e.dev))'
    <2>1. PICK k : k = makeKey(e.dev)
      OBVIOUS
    <2>2. ~WorksOn(r, k)'
      BY <1>1, <2>1, QuietKept DEF SettledOK
    <2> QED BY <2>1, <2>2 DEF WorksOn
  <1> QED BY <1>1, <1>2, <1>3 DEF SettledOK, PartitionKeys

\* A step in which handlers only go on or stop.
LEMMA StreamKept ==
    ASSUME StreamInv, \A r \in Setters : Goes(r),
           topic' = topic, redis' = redis, now' = now, settled' = settled
    PROVE  StreamInv'
  <1>1. StampedBefore'
    BY DEF StreamInv, StampedBefore, PartitionKeys, Goes, Running
  <1>2. \A t \in Setters : Lonely(t)' => AloneOK(t)'
    BY AloneKept
  <1>3. \A e \in settled : SettledOK(e)'
    BY SettledKept
  <1> QED BY <1>1, <1>2, <1>3 DEF StreamInv

\* A call begins: it is lonely when nobody works on its device, nobody who
\* does stays lonely, and nothing settled is left of the device.
LEMMA StreamSetStatus ==
    ASSUME TypeInv, StreamInv, NEW s \in Setters, NEW req \in Requests, SetStatus(s, req)
    PROVE  StreamInv'
  <1>1. /\ topic' = topic /\ redis' = redis /\ now' = now /\ set \in [Setters -> SetState]
        /\ set[s].pc = "idle"
    BY DEF SetStatus, TypeInv
  <1>2. PICK k : k = makeKey(req)
    OBVIOUS
  <1>3. /\ set'[s].pc = "bucket" /\ set'[s].dev = req
        /\ set'[s].alone <=> \A t \in Setters : ~WorksOn(t, k)
    <2>1. set'[s] = [IdleSet EXCEPT !.pc = "bucket", !.dev = req,
                                    !.alone = {t \in Setters : WorksOn(t, k)} = {}]
      BY <1>2 DEF SetStatus
    <2>2. set'[s].pc = "bucket" /\ set'[s].dev = req
      BY <2>1 DEF IdleSet
    <2>3. set'[s].alone = ({t \in Setters : WorksOn(t, k)} = {})
      BY <2>1 DEF IdleSet
    <2> QED BY <2>2, <2>3
  <1>4. ASSUME NEW t \in Setters, t # s
        PROVE  /\ set'[t].pc = set[t].pc /\ set'[t].dev = set[t].dev
               /\ set'[t].timestamp = set[t].timestamp
               /\ set'[t].alone => set[t].alone /\ ~WorksOn(t, k)
    <2>1. CASE WorksOn(t, k)
      <3>1. set'[t] = [set[t] EXCEPT !.alone = FALSE] /\ set[t] \in SetState
        BY <1>1, <1>2, <1>4, <2>1 DEF SetStatus
      <3> QED BY <3>1 DEF SetState
    <2>2. CASE ~WorksOn(t, k)
      <3>1. set'[t] = set[t]
        BY <1>2, <1>4, <2>2 DEF SetStatus
      <3> QED BY <3>1, <2>2
    <2> QED BY <2>1, <2>2
  <1>5. \A x : \A t \in Setters : t # s => (WorksOn(t, x)' <=> WorksOn(t, x))
    BY <1>4 DEF WorksOn
  <1>6. \A x : WorksOn(s, x)' <=> x = k
    BY <1>2, <1>3 DEF WorksOn, Running
  <1>7. StampedBefore'
    BY <1>1, <1>3, <1>4 DEF StreamInv, StampedBefore, PartitionKeys
  <1>8. ASSUME NEW t \in Setters, Lonely(t)' PROVE AloneOK(t)'
    <2>1. CASE t = s
      <3>1. \A r \in Setters : r # s => ~WorksOn(r, k)'
        BY <1>3, <1>5, <1>8, <2>1 DEF Lonely
      <3> QED BY <1>2, <1>3, <2>1, <3>1 DEF AloneOK
    <2>2. CASE t # s
      <3>1. set[t].pc \in Running /\ set[t].alone /\ ~WorksOn(t, k)
        BY <1>4, <1>8, <2>2 DEF Lonely
      <3>2. AloneOK(t) /\ makeKey(set[t].dev) # k
        BY <3>1 DEF StreamInv, Lonely, WorksOn
      <3>3. PICK x : x = makeKey(set[t].dev) /\ x = makeKey(set'[t].dev)
        BY <1>4, <2>2
      <3>4. \A r \in Setters : r # t => ~WorksOn(r, x)'
        BY <1>5, <1>6, <3>2, <3>3 DEF AloneOK
      <3>5. PICK e : e = EventOf(t) /\ e = EventOf(t)'
        BY <1>4, <2>2 DEF EventOf
      <3>6. /\ set'[t].pc \in {"redis", "publish"} => LatestOfAll(e)'
            /\ set'[t].pc = "publish" => StoreHolds(e)'
        BY <1>1, <1>4, <2>2, <3>2, <3>5, EventsKept DEF AloneOK
      <3> QED BY <3>3, <3>4, <3>5, <3>6 DEF AloneOK, LatestOfAll, StoreHolds, IsString, Limit,
                 bucketTTL
    <2> QED BY <2>1, <2>2
  <1>9. ASSUME NEW e \in settled' PROVE SettledOK(e)'
    <2>1. e \in settled /\ makeKey(e.dev) # k
      BY <1>2 DEF SetStatus
    <2>2. SettledOK(e)
      BY <2>1 DEF StreamInv
    <2>3. PICK x : x = makeKey(e.dev)
      OBVIOUS
    <2>4. \A r \in Setters : ~WorksOn(r, x)'
      BY <1>5, <1>6, <2>1, <2>2, <2>3 DEF SettledOK
    <2>5. LastInLog(e)' /\ LatestOfAll(e)' /\ StoreHolds(e)'
      BY <1>1, <2>2, EventsKept DEF SettledOK
    <2> QED BY <2>2, <2>3, <2>4, <2>5 DEF SettledOK, PartitionKeys
  <1> QED BY <1>7, <1>8, <1>9 DEF StreamInv

\* The event is stamped with the clock, which is past every stamp so far.
LEMMA StreamStamp ==
    ASSUME TypeInv, StreamInv, NEW s \in Setters, StampEvent(s)
    PROVE  StreamInv'
  <1>1. /\ topic' = topic /\ redis' = redis /\ now' = now /\ settled' = settled
        /\ set \in [Setters -> SetState] /\ set[s].pc = "stamp"
    BY DEF StampEvent, TypeInv
  <1>2. /\ set'[s].pc = "redis" /\ set'[s].timestamp = now
        /\ set'[s].dev = set[s].dev /\ set'[s].alone = set[s].alone
        /\ \A t \in Setters : t # s => set'[t] = set[t]
    BY <1>1 DEF StampEvent, SetState
  <1>3. now \in Nat
    BY DEF TypeInv
  <1>4. StampedBefore'
    BY <1>1, <1>2, <1>3 DEF StreamInv, StampedBefore, PartitionKeys
  <1>5. \A x : \A t \in Setters : WorksOn(t, x)' <=> WorksOn(t, x)
    BY <1>1, <1>2 DEF WorksOn, Running
  <1>6. ASSUME NEW t \in Setters, Lonely(t)' PROVE AloneOK(t)'
    <2>1. AloneOK(t)
      BY <1>1, <1>2, <1>6 DEF Lonely, StreamInv, Running
    <2>2. PICK x : x = makeKey(set[t].dev) /\ x = makeKey(set'[t].dev)
      BY <1>2
    <2>3. \A r \in Setters : r # t => ~WorksOn(r, x)'
      BY <1>5, <2>1, <2>2 DEF AloneOK
    <2>4. CASE t = s
      <3>1. LatestOfAll(EventOf(s))'
        <4>1. PICK e : e = EventOf(s)' /\ e.timestamp = now
          <5>1. EventOf(s)'.timestamp = now
            BY <1>2 DEF EventOf
          <5> QED BY <5>1
        <4>2. LatestOfAll(e)
          BY <4>1 DEF LatestOfAll, StreamInv, StampedBefore
        <4>3. LatestOfAll(e)'
          BY <1>1, <4>2, EventsKept
        <4> QED BY <4>1, <4>3 DEF LatestOfAll
      <3> QED BY <1>2, <2>2, <2>3, <2>4, <3>1 DEF AloneOK
    <2>5. CASE t # s
      <3>1. PICK e : e = EventOf(t) /\ e = EventOf(t)'
        BY <1>2, <2>5 DEF EventOf
      <3>2. /\ set'[t].pc \in {"redis", "publish"} => LatestOfAll(e)'
            /\ set'[t].pc = "publish" => StoreHolds(e)'
        BY <1>1, <1>2, <2>1, <2>5, <3>1, EventsKept DEF AloneOK
      <3> QED BY <2>2, <2>3, <3>1, <3>2 DEF AloneOK, LatestOfAll, StoreHolds, IsString, Limit,
                 bucketTTL
    <2> QED BY <2>4, <2>5
  <1>7. ASSUME NEW e \in settled' PROVE SettledOK(e)'
    <2>1. SettledOK(e)
      BY <1>1 DEF StreamInv
    <2>2. PICK x : x = makeKey(e.dev)
      OBVIOUS
    <2>3. \A r \in Setters : ~WorksOn(r, x)'
      BY <1>5, <2>1, <2>2 DEF SettledOK
    <2>4. LastInLog(e)' /\ LatestOfAll(e)' /\ StoreHolds(e)'
      BY <1>1, <2>1, EventsKept DEF SettledOK
    <2> QED BY <2>1, <2>2, <2>3, <2>4 DEF SettledOK, PartitionKeys
  <1> QED BY <1>4, <1>6, <1>7 DEF StreamInv

\* The other steps of SetStatus that write nothing.
LEMMA StreamLocal ==
    ASSUME TypeInv, StreamInv, NEW s \in Setters, SetLocal(s)
    PROVE  StreamInv'
  <1>1. set \in [Setters -> SetState] /\ set[s] \in SetState
    BY DEF TypeInv
  <1>2. CASE StampEvent(s)
    BY <1>2, StreamStamp
  <1>3. CASE ReadBucket(s)
    <2>1. /\ set[s].pc = "bucket" /\ set'[s].pc = "stamp" /\ set'[s].dev = set[s].dev
          /\ set'[s].alone = set[s].alone /\ \A t \in Setters : t # s => set'[t] = set[t]
      BY <1>1, <1>3 DEF ReadBucket, SetState
    <2>2. \A t \in Setters : Goes(t)
      BY <2>1 DEF Goes, Running
    <2> QED BY <1>3, <2>2, StreamKept DEF ReadBucket
  <1>4. CASE (\E req \in Requests : RejectStatus(s, req)) \/ RedisFails(s) \/ ReplyStatus(s)
    <2>1. IdleSet.pc = "idle" /\ DoneSet(TRUE).pc = "done"
      BY DEF DoneSet, IdleSet
    <2>2. PICK r \in {IdleSet, DoneSet(TRUE)} : set' = [set EXCEPT ![s] = r]
      BY <1>4 DEF RejectStatus, RedisFails, ReplyStatus
    <2>3. set'[s].pc \notin Running /\ \A t \in Setters : t # s => set'[t] = set[t]
      BY <1>1, <2>1, <2>2 DEF Running
    <2>4. \A t \in Setters : Goes(t)
      BY <2>3 DEF Goes
    <2> QED BY <1>4, <2>4, StreamKept DEF RejectStatus, RedisFails, ReplyStatus
  <1> QED BY <1>2, <1>3, <1>4 DEF SetLocal

\* A write leaves alone what the store says of other devices.
LEMMA StoreSpares ==
    ASSUME TypeInv, now' = now, NEW b \in Seq(Segment), NEW d \in Device,
           redis' = WriteStatus(b, d), NEW e, e.timestamp \in Int, e.timestamp <= now,
           makeKey(e.dev) # makeKey(d), StoreHolds(e)
    PROVE  StoreHolds(e)'
  <1>1. PICK k : k = makeKey(e.dev)
    OBVIOUS
  <1>2. k # makeKey(d) /\ now \in Nat /\ Database(redis)
    BY <1>1 DEF TypeInv
  <1>3. PICK limit \in Int : limit = Limit(e) /\ limit = Limit(e)'
                             /\ ExpiresAt(bucketTTL) >= limit
    BY <1>2, LiveLong DEF Limit, bucketTTL
  <1>4. CASE e.dev.status = Device_ONLINE
    <2> SUFFICES ASSUME now < limit
                 PROVE  /\ IsString(redis', k) /\ redis'[k].string = e.dev.user
                        /\ redis'[k].expires >= limit
      BY <1>1, <1>3, <1>4 DEF StoreHolds, IsString
    <2>1. IsString(redis, k) /\ redis[k].string = e.dev.user /\ redis[k].expires >= limit
      BY <1>1, <1>3, <1>4 DEF StoreHolds
    <2>2. CASE d.status = Device_ONLINE
      <3>1. redis' = Online(b, d)
        BY <2>2 DEF WriteStatus
      <3> QED BY <1>2, <1>3, <2>1, <3>1, OnlineSpares
    <2>3. CASE d.status # Device_ONLINE
      <3>1. redis' = DEL(redis, makeKey(d))
        BY <2>3 DEF WriteStatus
      <3> QED BY <1>2, <2>1, <3>1 DEF DEL, IsString
    <2> QED BY <2>2, <2>3
  <1>5. CASE e.dev.status # Device_ONLINE
    <2>1. ~IsString(redis, k)
      BY <1>1, <1>5 DEF StoreHolds
    <2>2. CASE d.status = Device_ONLINE
      <3>1. redis' = Online(b, d)
        BY <2>2 DEF WriteStatus
      <3>2. ~IsString(redis', k)
        BY <1>2, <2>1, <3>1, OnlineEffect DEF IsString
      <3> QED BY <1>1, <1>5, <3>2 DEF StoreHolds, IsString
    <2>3. CASE d.status # Device_ONLINE
      <3>1. redis' = DEL(redis, makeKey(d))
        BY <2>3 DEF WriteStatus
      <3>2. ~IsString(redis', k)
        BY <2>1, <3>1 DEF DEL, IsString
      <3> QED BY <1>1, <1>5, <3>2 DEF StoreHolds, IsString
    <2> QED BY <2>2, <2>3
  <1> QED BY <1>4, <1>5

\* After its write, the store says what the event of a handler will say.
LEMMA StoreWritten ==
    ASSUME TypeInv, now' = now, NEW b, NEW d, redis' = WriteStatus(b, d),
           NEW e, e.dev = d, e.timestamp \in Int, e.timestamp <= now
    PROVE  StoreHolds(e)'
  <1>1. PICK k : k = makeKey(d)
    OBVIOUS
  <1>2. PICK limit : limit = Limit(e) /\ limit = Limit(e)' /\ ExpiresAt(deviceTTL) >= limit
    BY LiveLong DEF Limit, bucketTTL, TypeInv
  <1>3. CASE d.status = Device_ONLINE
    <2>1. redis' = Online(b, d)
      BY <1>3 DEF WriteStatus
    <2>2. IsString(redis', k) /\ redis'[k].string = d.user /\ redis'[k].expires >= limit
      BY <1>1, <1>2, <2>1, OnlineSets
    <2> QED BY <1>1, <1>2, <1>3, <2>2 DEF StoreHolds, IsString
  <1>4. CASE d.status # Device_ONLINE
    <2>1. redis' = DEL(redis, k)
      BY <1>1, <1>4 DEF WriteStatus
    <2>2. ~IsString(redis', k)
      BY <2>1 DEF DEL, IsString
    <2> QED BY <1>1, <1>4, <2>2 DEF StoreHolds, IsString
  <1> QED BY <1>3, <1>4

\* Redis executes the write of a handler.
LEMMA StreamCommit ==
    ASSUME TypeInv, StreamInv, NEW s \in Setters, CommitStatus(s)
    PROVE  StreamInv'
  <1>1. /\ topic' = topic /\ now' = now /\ settled' = settled /\ now \in Nat
        /\ set \in [Setters -> SetState] /\ set[s].pc = "redis" /\ set[s] \in SetState
    BY DEF CommitStatus, TypeInv
  <1>2. /\ \A t \in Setters : t # s => set'[t] = set[t]
        /\ \/ set'[s].pc = "done"
           \/ /\ set'[s].pc = "publish" /\ set'[s].dev = set[s].dev
              /\ set'[s].timestamp = set[s].timestamp /\ set'[s].alone = set[s].alone
    <2>1. CASE set' = [set EXCEPT ![s].pc = "publish"]
      BY <1>1, <2>1 DEF SetState
    <2>2. CASE set' = [set EXCEPT ![s] = DoneSet(TRUE)]
      BY <1>1, <2>2 DEF DoneSet, IdleSet
    <2> QED BY <2>1, <2>2 DEF CommitStatus
  <1>3. PICK b \in Seq(Segment), d \in Device :
          b = set[s].key /\ d = set[s].dev /\ redis' = WriteStatus(b, d)
    BY <1>1, RunningFacts DEF CommitStatus, Running
  <1>4. WorksOn(s, makeKey(d))
    BY <1>1, <1>3 DEF WorksOn, Running
  <1>5. \A x : \A t \in Setters : WorksOn(t, x)' => WorksOn(t, x)
    BY <1>1, <1>2 DEF WorksOn, Running
  <1>6. \A e : (LatestOfAll(e)' <=> LatestOfAll(e)) /\ (LastInLog(e)' <=> LastInLog(e))
    BY <1>1 DEF LatestOfAll, LastInLog, Occurrences
  <1>7. StampedBefore'
    BY <1>1, <1>2 DEF StreamInv, StampedBefore, PartitionKeys
  <1>8. ASSUME NEW t \in Setters, Lonely(t)' PROVE AloneOK(t)'
    <2>1. set'[t].pc \in Running /\ set'[t].dev = set[t].dev /\ set'[t].timestamp = set[t].timestamp
          /\ Lonely(t)
      BY <1>1, <1>2, <1>8 DEF Lonely, Running
    <2>2. AloneOK(t)
      BY <2>1 DEF StreamInv
    <2>3. PICK x : x = makeKey(set[t].dev) /\ x = makeKey(set'[t].dev)
      BY <2>1
    <2>4. \A r \in Setters : r # t => ~WorksOn(r, x)'
      BY <1>5, <2>2, <2>3 DEF AloneOK
    <2>5. PICK e : e = EventOf(t) /\ e = EventOf(t)'
      BY <2>1 DEF EventOf
    <2>6. set'[t].pc \in {"redis", "publish"} => LatestOfAll(e)'
      BY <1>1, <1>2, <1>6, <2>2, <2>5 DEF AloneOK
    <2>7. ASSUME set'[t].pc = "publish" PROVE StoreHolds(e)'
      <3>1. set[t].pc \in {"redis", "publish"} /\ set[t].timestamp \in Nat
        BY <1>1, <1>2, <2>7 DEF SetState
      <3>2. e.timestamp \in Int /\ e.timestamp <= now /\ e.dev = set[t].dev
        BY <2>5, <3>1 DEF EventOf, StreamInv, StampedBefore
      <3>3. CASE t = s
        BY <1>1, <1>3, <3>2, <3>3, StoreWritten
      <3>4. CASE t # s
        <4>1. makeKey(e.dev) # makeKey(d)
          BY <1>4, <2>2, <3>2, <3>4 DEF AloneOK
        <4>2. StoreHolds(e)
          BY <1>2, <2>2, <2>5, <2>7, <3>4 DEF AloneOK
        <4> QED BY <1>1, <1>3, <3>2, <4>1, <4>2, StoreSpares
      <3> QED BY <3>3, <3>4
    <2> QED BY <2>3, <2>4, <2>5, <2>6, <2>7 DEF AloneOK, LatestOfAll, StoreHolds, IsString, Limit,
               bucketTTL
  <1>9. ASSUME NEW e \in settled' PROVE SettledOK(e)'
    <2>1. SettledOK(e) /\ e \in Event
      BY <1>1 DEF StreamInv, TypeInv
    <2>2. PICK x : x = makeKey(e.dev)
      OBVIOUS
    <2>3. \A r \in Setters : ~WorksOn(r, x)'
      BY <1>5, <2>1, <2>2 DEF SettledOK
    <2>4. e.timestamp \in Int /\ e.timestamp <= now
      <3>1. PICK n \in DOMAIN topic[e.dev.user] : topic[e.dev.user][n] = e
        BY <2>1 DEF SettledOK, LastInLog, Occurrences
      <3> QED BY <2>1, <3>1 DEF SettledOK, StreamInv, StampedBefore, Event
    <2>5. makeKey(e.dev) # makeKey(d)
      BY <1>4, <2>1 DEF SettledOK
    <2>6. StoreHolds(e)'
      BY <1>1, <1>3, <2>1, <2>4, <2>5, StoreSpares DEF SettledOK
    <2> QED BY <1>6, <2>1, <2>2, <2>3, <2>6 DEF SettledOK, PartitionKeys
  <1> QED BY <1>7, <1>8, <1>9 DEF StreamInv

\* An event appended by a handler: what is last or latest for another device
\* stays so, and so does what is no earlier than the event.
LEMMA AppendKeeps ==
    ASSUME TypeInv, NEW s \in Setters, set[s].pc \in Running, topic' \in {topic, Produce(s)},
           NEW e
    PROVE  /\ LatestOfAll(e) /\ (\/ makeKey(set[s].dev) # makeKey(e.dev)
                                 \/ set[s].timestamp <= e.timestamp)
              => LatestOfAll(e)'
           /\ LastInLog(e) /\ e.dev.user \in PartitionKeys
              /\ makeKey(set[s].dev) # makeKey(e.dev)
              => LastInLog(e)'
  <1>1. PICK x \in Event : x = EventOf(s)
    BY RunningFacts
  <1>2. x.dev = set[s].dev /\ x.timestamp = set[s].timestamp
    BY <1>1 DEF EventOf
  <1>3. ASSUME NEW u \in PartitionKeys
        PROVE  topic[u] \in Seq(Event) /\ topic'[u] \in {topic[u], Append(topic[u], x)}
    BY <1>1 DEF TypeInv, Produce
  <1>4. ASSUME NEW u \in PartitionKeys, NEW n \in DOMAIN topic'[u]
        PROVE  \/ n \in DOMAIN topic[u] /\ topic'[u][n] = topic[u][n]
               \/ topic'[u][n] = x
    BY <1>1, <1>3
  <1>5. ASSUME LatestOfAll(e),
               makeKey(set[s].dev) # makeKey(e.dev) \/ set[s].timestamp <= e.timestamp
        PROVE  LatestOfAll(e)'
    BY <1>2, <1>4, <1>5 DEF LatestOfAll, PartitionKeys
  <1>6. ASSUME LastInLog(e), e.dev.user \in PartitionKeys, makeKey(set[s].dev) # makeKey(e.dev)
        PROVE  LastInLog(e)'
    <2>1. PICK log \in Seq(Event) : log = topic[e.dev.user]
      BY <1>3, <1>6
    <2>2. PICK n \in DOMAIN log :
            log[n] = e /\ \A m \in DOMAIN log : m > n => makeKey(log[m].dev) # makeKey(e.dev)
      BY <1>6, <2>1 DEF LastInLog, Occurrences
    <2>3. PICK after \in Seq(Event) : after = topic'[e.dev.user] /\ after \in {log, Append(log, x)}
      <3>1. Append(log, x) \in Seq(Event)
        BY <2>1
      <3>2. topic'[e.dev.user] \in {log, Append(log, x)}
        BY <1>3, <1>6, <2>1
      <3> QED BY <2>1, <3>1, <3>2, Zenon
    <2>4. n \in DOMAIN after /\ after[n] = e
      BY <1>1, <2>2, <2>3
    <2>5. ASSUME NEW m \in DOMAIN after, m > n PROVE makeKey(after[m].dev) # makeKey(e.dev)
      <3>1. (m \in DOMAIN log /\ after[m] = log[m]) \/ after[m] = x
        BY <1>1, <2>3
      <3> QED BY <1>2, <1>6, <2>2, <2>5, <3>1
    <2> QED BY <2>3, <2>4, <2>5 DEF LastInLog, Occurrences
  <1> QED BY <1>5, <1>6

\* The event that has just been appended is the last one.
LEMMA AppendedLast ==
    ASSUME TypeInv, NEW s \in Setters, set[s].pc \in Running, topic' = Produce(s),
           NEW e, e = EventOf(s)
    PROVE  LastInLog(e)'
  <1>1. e \in Event /\ e.dev = set[s].dev /\ e.dev.user \in PartitionKeys
    BY RunningFacts DEF EventOf
  <1>2. PICK log \in Seq(Event) : log = topic[e.dev.user] /\ topic'[e.dev.user] = Append(log, e)
    BY <1>1 DEF TypeInv, Produce
  <1>3. PICK n \in Nat : n = Len(log) + 1
    BY <1>2
  <1>4. PICK after \in Seq(Event) : after = topic'[e.dev.user] /\ after = Append(log, e)
    <2>1. Append(log, e) \in Seq(Event)
      BY <1>1, <1>2
    <2> QED BY <1>2, <2>1, Zenon
  <1>5. n \in DOMAIN after /\ after[n] = e /\ \A m \in DOMAIN after : ~(m > n)
    BY <1>1, <1>3, <1>4
  <1> QED BY <1>4, <1>5 DEF LastInLog, Occurrences

\* An attempt to publish.
LEMMA StreamPublish ==
    ASSUME TypeInv, StreamInv, NEW s \in Setters, Publish(s)
    PROVE  StreamInv'
  <1>1. /\ redis' = redis /\ now' = now /\ topic' \in {topic, Produce(s)} /\ now \in Nat
        /\ set \in [Setters -> SetState] /\ set[s] \in SetState /\ set[s].pc = "publish"
    BY DEF Publish, PublishEvent, RetryPublish, PublishFails, TypeInv
  <1>2. /\ \A t \in Setters : t # s => set'[t] = set[t]
        /\ \/ set'[s].pc = "done"
           \/ /\ set'[s].pc = "publish" /\ set'[s].dev = set[s].dev
              /\ set'[s].timestamp = set[s].timestamp /\ set'[s].alone = set[s].alone
    <2>1. CASE RetryPublish(s)
      BY <1>1, <2>1 DEF RetryPublish, SetState
    <2>2. CASE PublishEvent(s) \/ PublishFails(s)
      <3>1. DoneSet(TRUE).pc = "done" /\ DoneSet(FALSE).pc = "done"
        BY DEF DoneSet, IdleSet
      <3>2. PICK r \in {DoneSet(TRUE), DoneSet(FALSE)} : set' = [set EXCEPT ![s] = r]
        BY <2>2 DEF PublishEvent, PublishFails
      <3> QED BY <1>1, <3>1, <3>2
    <2> QED BY <2>1, <2>2 DEF Publish
  <1>3. set[s].pc \in Running /\ WorksOn(s, makeKey(set[s].dev))
    BY <1>1 DEF WorksOn, Running
  <1>4. \A x : \A t \in Setters : WorksOn(t, x)' => WorksOn(t, x)
    BY <1>1, <1>2 DEF WorksOn, Running
  <1>5. \A e : StoreHolds(e)' <=> StoreHolds(e)
    BY <1>1 DEF StoreHolds, IsString, Limit, bucketTTL
  <1>6. StampedBefore'
    <2>1. EventOf(s) \in Event /\ EventOf(s).timestamp <= now
      BY <1>1, <1>3, RunningFacts DEF StreamInv, StampedBefore, EventOf
    <2>2. ASSUME NEW u \in PartitionKeys, NEW n \in DOMAIN topic'[u]
          PROVE  topic'[u][n].timestamp <= now
      <3>1. topic[u] \in Seq(Event) /\ topic'[u] \in {topic[u], Append(topic[u], EventOf(s))}
        BY <1>1 DEF TypeInv, Produce
      <3>2. \/ n \in DOMAIN topic[u] /\ topic'[u][n] = topic[u][n]
            \/ topic'[u][n] = EventOf(s)
        BY <2>1, <3>1
      <3> QED BY <2>1, <3>2 DEF StreamInv, StampedBefore
    <2>3. \A t \in Setters : set'[t].pc \in {"redis", "publish"} => set'[t].timestamp <= now
      BY <1>1, <1>2 DEF StreamInv, StampedBefore
    <2> QED BY <1>1, <2>2, <2>3 DEF StampedBefore, PartitionKeys
  <1>7. ASSUME NEW t \in Setters, Lonely(t)' PROVE AloneOK(t)'
    <2>1. set'[t].pc \in Running /\ set'[t].dev = set[t].dev /\ set'[t].timestamp = set[t].timestamp
          /\ Lonely(t) /\ set'[t].pc = set[t].pc
      BY <1>1, <1>2, <1>7 DEF Lonely, Running
    <2>2. AloneOK(t)
      BY <2>1 DEF StreamInv
    <2>3. PICK x : x = makeKey(set[t].dev) /\ x = makeKey(set'[t].dev)
      BY <2>1
    <2>4. \A r \in Setters : r # t => ~WorksOn(r, x)'
      BY <1>4, <2>2, <2>3 DEF AloneOK
    <2>5. PICK e : /\ e = EventOf(t) /\ e = EventOf(t)'
                   /\ e.dev = set[t].dev /\ e.timestamp = set[t].timestamp
      <3>1. EventOf(t)' = EventOf(t) /\ EventOf(t).dev = set[t].dev
            /\ EventOf(t).timestamp = set[t].timestamp
        BY <2>1 DEF EventOf
      <3> QED BY <3>1
    <2>6. ASSUME set'[t].pc \in {"redis", "publish"} PROVE LatestOfAll(e)'
      <3>1. LatestOfAll(e)
        BY <2>1, <2>2, <2>5, <2>6 DEF AloneOK
      <3>2. t # s => makeKey(set[s].dev) # makeKey(e.dev)
        BY <1>3, <2>2, <2>5 DEF AloneOK
      <3>3. t = s => set[s].timestamp <= e.timestamp
        BY <1>1, <2>5 DEF SetState
      <3> QED BY <1>1, <1>3, <3>1, <3>2, <3>3, AppendKeeps
    <2>7. set'[t].pc = "publish" => StoreHolds(e)'
      BY <1>5, <2>1, <2>2, <2>5 DEF AloneOK
    <2> QED BY <2>3, <2>4, <2>5, <2>6, <2>7 DEF AloneOK, LatestOfAll, StoreHolds, IsString, Limit,
               bucketTTL
  <1>8. ASSUME NEW e \in settled PROVE SettledOK(e)'
    <2>1. SettledOK(e)
      BY DEF StreamInv
    <2>2. PICK x : x = makeKey(e.dev)
      OBVIOUS
    <2>3. \A r \in Setters : ~WorksOn(r, x)'
      BY <1>4, <2>1, <2>2 DEF SettledOK
    <2>4. makeKey(set[s].dev) # makeKey(e.dev)
      BY <1>3, <2>1 DEF SettledOK
    <2>5. LastInLog(e)' /\ LatestOfAll(e)' /\ StoreHolds(e)'
      BY <1>1, <1>3, <1>5, <2>1, <2>4, AppendKeeps DEF SettledOK
    <2> QED BY <2>1, <2>2, <2>3, <2>5 DEF SettledOK, PartitionKeys
  <1>9. ASSUME PublishEvent(s), set[s].alone, NEW e, e = EventOf(s) PROVE SettledOK(e)'
    <2>1. AloneOK(s) /\ topic' = Produce(s) /\ set'[s].pc = "done"
      BY <1>1, <1>3, <1>9 DEF StreamInv, Lonely, PublishEvent, DoneSet, IdleSet
    <2>2. e.dev = set[s].dev /\ e.timestamp = set[s].timestamp /\ e.dev.user \in PartitionKeys
      <3>1. EventOf(s).dev = set[s].dev /\ EventOf(s).timestamp = set[s].timestamp
        BY DEF EventOf
      <3> QED BY <1>3, <1>9, <3>1, RunningFacts
    <2>3. set[s].timestamp <= e.timestamp
      BY <1>1, <2>2 DEF SetState
    <2>4. LatestOfAll(e)' /\ StoreHolds(e)' /\ LastInLog(e)'
      BY <1>1, <1>3, <1>5, <1>9, <2>1, <2>2, <2>3, AppendKeeps, AppendedLast DEF AloneOK
    <2>5. PICK x : x = makeKey(e.dev)
      OBVIOUS
    <2>6. \A r \in Setters : ~WorksOn(r, x)'
      BY <1>4, <2>1, <2>2, <2>5 DEF AloneOK, WorksOn, Running
    <2> QED BY <2>2, <2>4, <2>5, <2>6 DEF SettledOK, PartitionKeys
  <1>10. \A e \in settled' : SettledOK(e)'
    <2>1. settled' = settled \/ (PublishEvent(s) /\ set[s].alone /\ settled' = settled \cup {EventOf(s)})
      BY DEF Publish, PublishEvent, RetryPublish, PublishFails
    <2>2. CASE settled' = settled
      BY <1>8, <2>2
    <2>3. CASE PublishEvent(s) /\ set[s].alone /\ settled' = settled \cup {EventOf(s)}
      <3>1. PICK e : e = EventOf(s)
        OBVIOUS
      <3>2. settled' = settled \cup {e} /\ SettledOK(e)'
        BY <1>9, <2>3, <3>1
      <3> QED BY <1>8, <3>2
    <2> QED BY <2>1, <2>2, <2>3
  <1> QED BY <1>6, <1>7, <1>10 DEF StreamInv

\* Time passes: what Redis drops had outlived its Limit.
LEMMA StreamTick ==
    ASSUME TypeInv, StreamInv, Tick
    PROVE  StreamInv'
  <1>1. /\ topic' = topic /\ set' = set /\ settled' = settled
        /\ now \in Nat /\ now' \in Nat /\ now <= now' /\ redis' = Evict(redis, now')
    BY ConstantFacts DEF Tick, TypeInv
  <1>2. \A e : (LatestOfAll(e)' <=> LatestOfAll(e)) /\ (LastInLog(e)' <=> LastInLog(e))
    BY <1>1 DEF LatestOfAll, LastInLog, Occurrences
  <1>3. \A x : \A t \in Setters : WorksOn(t, x)' <=> WorksOn(t, x)
    BY <1>1 DEF WorksOn
  <1>4. ASSUME NEW e, e.timestamp \in Int, StoreHolds(e) PROVE StoreHolds(e)'
    <2>1. PICK k : k = makeKey(e.dev)
      OBVIOUS
    <2>2. PICK limit \in Int : limit = Limit(e) /\ limit = Limit(e)'
      BY <1>1, <1>4, LiveLong DEF Limit, bucketTTL
    <2>3. CASE e.dev.status = Device_ONLINE
      <3> SUFFICES ASSUME now' < limit
                   PROVE  /\ IsString(redis', k) /\ redis'[k].string = e.dev.user
                          /\ redis'[k].expires >= limit
        BY <2>1, <2>2, <2>3 DEF StoreHolds, IsString
      <3>1. IsString(redis, k) /\ redis[k].string = e.dev.user /\ redis[k].expires >= limit
        BY <1>1, <1>4, <2>1, <2>2, <2>3 DEF StoreHolds
      <3>2. redis[k].expires \in Int
        BY <3>1 DEF TypeInv, Database, IsString, Value
      <3>3. redis[k].expires > now'
        BY <1>1, <2>2, <3>1, <3>2
      <3> QED BY <1>1, <3>1, <3>3 DEF Evict, IsString
    <2>4. CASE e.dev.status # Device_ONLINE
      <3>1. ~IsString(redis, k)
        BY <1>4, <2>1, <2>4 DEF StoreHolds
      <3>2. ~IsString(redis', k)
        BY <1>1, <3>1 DEF Evict, IsString
      <3> QED BY <2>1, <2>4, <3>2 DEF StoreHolds, IsString
    <2> QED BY <2>3, <2>4
  <1>5. StampedBefore'
    <2>1. ASSUME NEW u \in PartitionKeys, NEW n \in DOMAIN topic[u]
          PROVE  topic[u][n].timestamp \in Nat
      <3>1. topic[u] \in Seq(Event)
        BY DEF TypeInv
      <3>2. topic[u][n] \in Event
        BY <3>1
      <3> QED BY <3>2 DEF Event
    <2>2. \A s \in Setters : set[s].timestamp \in Nat
      BY DEF TypeInv, SetState
    <2> QED BY <1>1, <2>1, <2>2 DEF StreamInv, StampedBefore, PartitionKeys
  <1>6. ASSUME NEW t \in Setters, Lonely(t)' PROVE AloneOK(t)'
    <2>1. AloneOK(t)
      BY <1>1, <1>6 DEF StreamInv, Lonely
    <2>2. PICK e : e = EventOf(t) /\ e = EventOf(t)' /\ e.timestamp \in Int
      <3>1. EventOf(t)' = EventOf(t) /\ EventOf(t).timestamp \in Int
        BY <1>1 DEF EventOf, TypeInv, SetState
      <3> QED BY <3>1
    <2>3. /\ set'[t].pc \in {"redis", "publish"} => LatestOfAll(e)'
          /\ set'[t].pc = "publish" => StoreHolds(e)'
      BY <1>1, <1>2, <1>4, <2>1, <2>2 DEF AloneOK
    <2>4. PICK x : x = makeKey(set[t].dev) /\ x = makeKey(set'[t].dev)
      BY <1>1
    <2>5. \A r \in Setters : r # t => ~WorksOn(r, x)'
      BY <1>3, <2>1, <2>4 DEF AloneOK
    <2> QED BY <2>2, <2>3, <2>4, <2>5 DEF AloneOK, LatestOfAll, StoreHolds, IsString, Limit,
               bucketTTL
  <1>7. ASSUME NEW e \in settled' PROVE SettledOK(e)'
    <2>1. SettledOK(e) /\ e.timestamp \in Int
      BY <1>1 DEF StreamInv, TypeInv, Event
    <2>2. PICK x : x = makeKey(e.dev)
      OBVIOUS
    <2>3. \A r \in Setters : ~WorksOn(r, x)'
      BY <1>3, <2>1, <2>2 DEF SettledOK
    <2> QED BY <1>2, <1>4, <2>1, <2>2, <2>3 DEF SettledOK, PartitionKeys
  <1> QED BY <1>5, <1>6, <1>7 DEF StreamInv

\* StreamInv holds in every state.
LEMMA StreamInvariance == Spec => []StreamInv
  <1>1. Init => StreamInv
    <2> SUFFICES ASSUME Init PROVE StreamInv
      OBVIOUS
    <2>1. \A s \in Setters : set[s].pc = "idle"
      BY DEF Init, IdleSet
    <2> QED BY <2>1 DEF Init, StreamInv, StampedBefore, Lonely, Running
  <1>2. TypeInv /\ StreamInv /\ [Next]_vars => StreamInv'
    <2> SUFFICES ASSUME TypeInv, StreamInv, [Next]_vars PROVE StreamInv'
      OBVIOUS
    <2>1. CASE \E s \in Setters, req \in Requests : SetStatus(s, req)
      BY <2>1, StreamSetStatus
    <2>2. CASE \E s \in Setters : SetLocal(s) \/ CommitStatus(s) \/ Publish(s)
      BY <2>2, StreamLocal, StreamCommit, StreamPublish
    <2>3. CASE (\E g \in Getters : GetReturns(g) \/ GetContinues(g)) \/ UNCHANGED vars
      <3>1. UNCHANGED <<topic, redis, now, settled, set>>
        BY <2>3 DEF GetReturns, GetContinues, RejectDevices, GetDevices, RangeBucket,
                    UnionBuckets, UnionWrongType, SkipDevice, SendDevice, ParseFails,
                    GetWrongType, GetFails, FinishDevices, ReplyDevices, vars
      <3>2. \A s \in Setters : Goes(s)
        BY <3>1 DEF Goes
      <3> QED BY <3>1, <3>2, StreamKept
    <2>4. CASE Tick
      BY <2>4, StreamTick
    <2>5. CASE Crash
      <3>1. UNCHANGED <<topic, redis, now, settled>> /\ \A s \in Setters : set'[s].pc = "idle"
        BY <2>5 DEF Crash, IdleSet
      <3>2. \A s \in Setters : Goes(s)
        BY <3>1 DEF Goes, Running
      <3> QED BY <3>1, <3>2, StreamKept
    <2> QED BY <2>1, <2>2, <2>3, <2>4, <2>5, NextCases
  <1> QED BY <1>1, <1>2, TypeInvariance, PTL DEF Spec

\* When SetStatus was acknowledged and nothing else has touched the device,
\* its event is the last word of the stream on it, and the store agrees.
THEOREM StreamAgreesWithStore == Spec => []SettledStreamAgrees
  <1>1. StreamInv => SettledStreamAgrees
    BY DEF StreamInv, SettledOK, SettledStreamAgrees, StoreHolds, StoreAgrees, Limit
  <1> QED BY <1>1, StreamInvariance, PTL

-----------------------------------------------------------------------------
(***************************************************************************)
(* Duplicates.  Every event in the topic is the outcome of one attempt to  *)
(* publish one executed write: event n of partition u is attempt           *)
(* attempt[u][n] for write origin[u][n], and no two events are the same    *)
(* attempt.  A handler that publishes does so for a write of its own, and  *)
(* its attempts so far are those below tries.                              *)
(***************************************************************************)
EventAt(j) == [timestamp |-> commits[j].timestamp, dev |-> commits[j].dev]

Attempts(own, origin, attempt) ==
    /\ \A s \in Setters : set[s].pc = "publish" =>
          own[s] \in DOMAIN commits /\ EventAt(own[s]) = EventOf(s)
    /\ \A s, t \in Setters :
          set[s].pc = "publish" /\ set[t].pc = "publish" /\ s # t => own[s] # own[t]
    /\ \A u \in PartitionKeys : \A n \in DOMAIN topic[u] :
          /\ origin[u][n] \in DOMAIN commits /\ attempt[u][n] \in 0 .. RetryMax
          /\ EventAt(origin[u][n]) = topic[u][n]
    /\ \A u, v \in PartitionKeys : \A n \in DOMAIN topic[u], m \in DOMAIN topic[v] :
          origin[u][n] = origin[v][m] /\ attempt[u][n] = attempt[v][m] => u = v /\ n = m
    /\ \A s \in Setters : \A u \in PartitionKeys : \A n \in DOMAIN topic[u] :
          set[s].pc = "publish" /\ origin[u][n] = own[s] => attempt[u][n] < set[s].tries

AttemptsInv == \E own, origin, attempt : Attempts(own, origin, attempt)

\* A step that publishes nothing and brings no handler to sendMessage.
LEMMA AttemptsKept ==
    ASSUME TypeInv, TypeInv', AttemptsInv, topic' = topic, Grows,
           \A s \in Setters : set'[s].pc = "publish" =>
              /\ set[s].pc = "publish" /\ set'[s].dev = set[s].dev
              /\ set'[s].timestamp = set[s].timestamp /\ set'[s].tries >= set[s].tries
    PROVE  AttemptsInv'
  <1>1. PICK own, origin, attempt : Attempts(own, origin, attempt)
    BY DEF AttemptsInv
  <1>2. \A j \in DOMAIN commits : j \in DOMAIN commits' /\ commits'[j] = commits[j]
    BY GrowFacts
  <1>3. ASSUME NEW s \in Setters, set'[s].pc = "publish"
        PROVE  own[s] \in DOMAIN commits' /\ EventAt(own[s])' = EventOf(s)'
    <2>1. own[s] \in DOMAIN commits /\ EventAt(own[s]) = EventOf(s)
      BY <1>1, <1>3 DEF Attempts
    <2> QED BY <1>2, <1>3, <2>1 DEF EventAt, EventOf
  <1>4. ASSUME NEW u \in PartitionKeys, NEW n \in DOMAIN topic[u]
        PROVE  /\ origin[u][n] \in DOMAIN commits' /\ attempt[u][n] \in 0 .. RetryMax
               /\ EventAt(origin[u][n])' = topic[u][n]
    <2>1. /\ origin[u][n] \in DOMAIN commits /\ attempt[u][n] \in 0 .. RetryMax
          /\ EventAt(origin[u][n]) = topic[u][n]
      BY <1>1 DEF Attempts
    <2> QED BY <1>2, <2>1 DEF EventAt
  <1>5. ASSUME NEW s \in Setters, NEW u \in PartitionKeys, NEW n \in DOMAIN topic[u],
               set'[s].pc = "publish", origin[u][n] = own[s]
        PROVE  attempt[u][n] < set'[s].tries
    <2>1. attempt[u][n] < set[s].tries /\ attempt[u][n] \in Int
      BY <1>1, <1>5, ConstantFacts DEF Attempts
    <2>2. set[s].tries \in Int /\ set'[s].tries \in Int
      <3>1. set[s] \in SetState /\ set'[s] \in SetState
        BY DEF TypeInv
      <3> QED BY <3>1, ConstantFacts DEF SetState
    <2> QED BY <1>5, <2>1, <2>2
  <1>6. Attempts(own, origin, attempt)'
    BY <1>1, <1>3, <1>4, <1>5 DEF Attempts, PartitionKeys
  <1> QED BY <1>6 DEF AttemptsInv

\* A write is executed: a handler that goes on to publish owns it.
LEMMA AttemptsCommit ==
    ASSUME TypeInv, TypeInv', AttemptsInv, NEW s \in Setters, CommitStatus(s)
    PROVE  AttemptsInv'
  <1> DEFINE c == [key |-> set[s].key, dev |-> set[s].dev, timestamp |-> set[s].timestamp]
  <1>1. /\ topic' = topic /\ commits' = Append(commits, c) /\ commits \in Seq(Commit)
        /\ set \in [Setters -> SetState] /\ set[s].pc = "redis"
        /\ \A t \in Setters : t # s => set'[t] = set[t]
    BY DEF CommitStatus, TypeInv
  <1>2. PICK last \in Nat : last = Len(commits) + 1
    BY <1>1
  <1>3. /\ last \in DOMAIN commits' /\ commits'[last] = c /\ last \notin DOMAIN commits
        /\ \A j \in DOMAIN commits : j \in DOMAIN commits' /\ commits'[j] = commits[j]
    BY <1>1, <1>2
  <1>4. CASE set' = [set EXCEPT ![s] = DoneSet(TRUE)]
    <2>1. set'[s].pc = "done"
      BY <1>1, <1>4 DEF DoneSet, IdleSet
    <2>2. ASSUME NEW t \in Setters, set'[t].pc = "publish"
          PROVE  /\ set[t].pc = "publish" /\ set'[t].dev = set[t].dev
                 /\ set'[t].timestamp = set[t].timestamp /\ set'[t].tries >= set[t].tries
      <3>1. set'[t] = set[t] /\ set[t].tries \in Int
        BY <1>1, <2>1, <2>2, ConstantFacts DEF SetState
      <3> QED BY <2>2, <3>1
    <2> QED BY <1>1, <2>2, AttemptsKept DEF Grows
  <1>5. CASE set' = [set EXCEPT ![s].pc = "publish"]
    <2>1. set'[s].dev = set[s].dev /\ set'[s].timestamp = set[s].timestamp
      BY <1>1, <1>5 DEF SetState
    <2>2. PICK own, origin, attempt : Attempts(own, origin, attempt)
      BY DEF AttemptsInv
    <2>3. PICK mine : mine = [t \in Setters |-> IF t = s THEN last ELSE own[t]]
      OBVIOUS
    <2>4. ASSUME NEW t \in Setters, set'[t].pc = "publish"
          PROVE  mine[t] \in DOMAIN commits' /\ EventAt(mine[t])' = EventOf(t)'
      <3>1. CASE t = s
        <4>1. EventAt(last)' = EventOf(s)'
          BY <1>3, <2>1 DEF EventAt, EventOf
        <4> QED BY <1>3, <2>3, <3>1, <4>1
      <3>2. CASE t # s
        <4>1. mine[t] = own[t] /\ set'[t] = set[t]
          BY <1>1, <2>3, <3>2
        <4>2. own[t] \in DOMAIN commits /\ EventAt(own[t]) = EventOf(t)
          BY <2>2, <2>4, <4>1 DEF Attempts
        <4>3. own[t] \in DOMAIN commits' /\ EventAt(own[t])' = EventOf(t)'
          BY <1>3, <4>1, <4>2 DEF EventAt, EventOf
        <4> QED BY <4>1, <4>3
      <3> QED BY <3>1, <3>2
    <2>5. ASSUME NEW t \in Setters, NEW r \in Setters, t # r,
                 set'[t].pc = "publish", set'[r].pc = "publish"
          PROVE  mine[t] # mine[r]
      <3>1. ASSUME NEW x \in Setters, x # s, set'[x].pc = "publish"
            PROVE  mine[x] = own[x] /\ own[x] \in DOMAIN commits /\ set[x].pc = "publish"
        BY <1>1, <2>2, <2>3, <3>1 DEF Attempts
      <3>2. mine[s] = last
        BY <2>3
      <3> QED BY <1>3, <2>2, <2>5, <3>1, <3>2 DEF Attempts
    <2>6. ASSUME NEW u \in PartitionKeys, NEW n \in DOMAIN topic[u]
          PROVE  /\ origin[u][n] \in DOMAIN commits /\ origin[u][n] \in DOMAIN commits'
                 /\ attempt[u][n] \in 0 .. RetryMax /\ EventAt(origin[u][n])' = topic[u][n]
      <3>1. /\ origin[u][n] \in DOMAIN commits /\ attempt[u][n] \in 0 .. RetryMax
            /\ EventAt(origin[u][n]) = topic[u][n]
        BY <2>2 DEF Attempts
      <3> QED BY <1>3, <3>1 DEF EventAt
    <2>7. ASSUME NEW t \in Setters, NEW u \in PartitionKeys, NEW n \in DOMAIN topic[u],
                 set'[t].pc = "publish", origin[u][n] = mine[t]
          PROVE  attempt[u][n] < set'[t].tries
      <3>1. t # s
        BY <1>3, <2>3, <2>6, <2>7
      <3>2. mine[t] = own[t] /\ set'[t] = set[t]
        BY <1>1, <2>3, <3>1
      <3> QED BY <2>2, <2>7, <3>2 DEF Attempts
    <2>8. Attempts(mine, origin, attempt)'
      BY <1>1, <2>2, <2>4, <2>5, <2>6, <2>7 DEF Attempts, PartitionKeys
    <2> QED BY <2>8 DEF AttemptsInv
  <1> QED BY <1>4, <1>5 DEF CommitStatus

\* The event of a handler is appended, by the attempt it is at.
LEMMA AttemptsAppend ==
    ASSUME TypeInv, TypeInv', AttemptsInv, NEW s \in Setters, Publish(s), topic' = Produce(s)
    PROVE  AttemptsInv'
  <1>1. /\ commits' = commits /\ set \in [Setters -> SetState] /\ set[s] \in SetState
        /\ set[s].pc = "publish" /\ \A t \in Setters : t # s => set'[t] = set[t]
    BY DEF Publish, PublishEvent, RetryPublish, PublishFails, TypeInv
  <1>2. PICK tries \in 0 .. RetryMax : tries = set[s].tries
    BY <1>1 DEF SetState
  <1>3. PICK e \in Event : e = EventOf(s)
    BY <1>1, RunningFacts DEF Running
  <1>4. PICK w \in PartitionKeys : w = set[s].dev.user
    BY <1>1, RunningFacts DEF Running
  <1>5. PICK log \in Seq(Event) : log = topic[w]
    BY DEF TypeInv
  <1>6. PICK last \in Nat : last = Len(log) + 1
    BY <1>5
  <1>7. topic'[w] = Append(log, e) /\ \A u \in PartitionKeys : u # w => topic'[u] = topic[u]
    BY <1>3, <1>4, <1>5 DEF TypeInv, Produce
  <1>8. /\ topic'[w][last] = e /\ last \in DOMAIN topic'[w] /\ last \notin DOMAIN topic[w]
        /\ \A n \in DOMAIN topic'[w] : n # last => n \in DOMAIN topic[w] /\ topic'[w][n] = topic[w][n]
    BY <1>3, <1>5, <1>6, <1>7
  <1>9. ASSUME NEW u \in PartitionKeys, NEW n \in DOMAIN topic'[u], u # w \/ n # last
        PROVE  n \in DOMAIN topic[u] /\ topic'[u][n] = topic[u][n]
    BY <1>7, <1>8, <1>9
  <1>10. PICK own, origin, attempt : Attempts(own, origin, attempt)
    BY DEF AttemptsInv
  <1>11. PICK o : o = [u \in PartitionKeys |-> [n \in DOMAIN topic'[u] |->
                         IF u = w /\ n = last THEN own[s] ELSE origin[u][n]]]
    OBVIOUS
  <1>12. PICK a : a = [u \in PartitionKeys |-> [n \in DOMAIN topic'[u] |->
                         IF u = w /\ n = last THEN tries ELSE attempt[u][n]]]
    OBVIOUS
  <1>13. o[w][last] = own[s] /\ a[w][last] = tries
    BY <1>8, <1>11, <1>12
  <1>14. ASSUME NEW u \in PartitionKeys, NEW n \in DOMAIN topic'[u], u # w \/ n # last
         PROVE  o[u][n] = origin[u][n] /\ a[u][n] = attempt[u][n]
    BY <1>11, <1>12, <1>14
  <1>15. \A t \in Setters : set'[t].pc = "publish" =>
            set[t].pc = "publish" /\ set'[t].dev = set[t].dev /\ set'[t].timestamp = set[t].timestamp
    <2>1. CASE RetryPublish(s)
      BY <1>1, <2>1 DEF RetryPublish, SetState
    <2>2. CASE PublishEvent(s) \/ PublishFails(s)
      <3>1. set'[s].pc = "done"
        BY <1>1, <2>2 DEF PublishEvent, PublishFails, DoneSet, IdleSet
      <3> QED BY <1>1, <3>1
    <2> QED BY <2>1, <2>2 DEF Publish
  <1>16. set'[s].pc = "publish" => set'[s].tries = tries + 1
    <2>1. CASE RetryPublish(s)
      BY <1>1, <1>2, <2>1 DEF RetryPublish, SetState
    <2>2. CASE PublishEvent(s) \/ PublishFails(s)
      BY <1>1, <2>2 DEF PublishEvent, PublishFails, DoneSet, IdleSet
    <2> QED BY <2>1, <2>2 DEF Publish
  <1>17. ASSUME NEW t \in Setters, set'[t].pc = "publish"
         PROVE  own[t] \in DOMAIN commits' /\ EventAt(own[t])' = EventOf(t)'
    <2>1. own[t] \in DOMAIN commits /\ EventAt(own[t]) = EventOf(t)
      BY <1>10, <1>15, <1>17 DEF Attempts
    <2> QED BY <1>1, <1>15, <1>17, <2>1 DEF EventAt, EventOf
  <1>18. ASSUME NEW u \in PartitionKeys, NEW n \in DOMAIN topic'[u]
         PROVE  /\ o[u][n] \in DOMAIN commits' /\ a[u][n] \in 0 .. RetryMax
                /\ EventAt(o[u][n])' = topic'[u][n]
    <2>1. CASE u = w /\ n = last
      <3>1. own[s] \in DOMAIN commits /\ EventAt(own[s]) = e
        BY <1>1, <1>3, <1>10 DEF Attempts
      <3> QED BY <1>1, <1>8, <1>13, <2>1, <3>1 DEF EventAt
    <2>2. CASE u # w \/ n # last
      <3>1. n \in DOMAIN topic[u] /\ topic'[u][n] = topic[u][n]
            /\ o[u][n] = origin[u][n] /\ a[u][n] = attempt[u][n]
        BY <1>9, <1>14, <2>2
      <3>2. /\ origin[u][n] \in DOMAIN commits /\ attempt[u][n] \in 0 .. RetryMax
            /\ EventAt(origin[u][n]) = topic[u][n]
        BY <1>10, <3>1 DEF Attempts
      <3> QED BY <1>1, <3>1, <3>2 DEF EventAt
    <2> QED BY <2>1, <2>2
  <1>19. ASSUME NEW u \in PartitionKeys, NEW n \in DOMAIN topic'[u], u # w \/ n # last
         PROVE  ~(o[u][n] = own[s] /\ a[u][n] = tries)
    <2>1. n \in DOMAIN topic[u] /\ o[u][n] = origin[u][n] /\ a[u][n] = attempt[u][n]
      BY <1>9, <1>14, <1>19
    <2>2. /\ origin[u][n] = own[s] => attempt[u][n] < tries
          /\ attempt[u][n] \in 0 .. RetryMax
      BY <1>1, <1>2, <1>10, <2>1 DEF Attempts
    <2> QED BY <2>1, <2>2, ConstantFacts
  <1>20. ASSUME NEW u \in PartitionKeys, NEW v \in PartitionKeys,
                NEW n \in DOMAIN topic'[u], NEW m \in DOMAIN topic'[v],
                o[u][n] = o[v][m], a[u][n] = a[v][m]
         PROVE  u = v /\ n = m
    <2>1. CASE (u = w /\ n = last) \/ (v = w /\ m = last)
      BY <1>13, <1>19, <1>20, <2>1
    <2>2. CASE (u # w \/ n # last) /\ (v # w \/ m # last)
      <3>1. /\ n \in DOMAIN topic[u] /\ o[u][n] = origin[u][n] /\ a[u][n] = attempt[u][n]
            /\ m \in DOMAIN topic[v] /\ o[v][m] = origin[v][m] /\ a[v][m] = attempt[v][m]
        BY <1>9, <1>14, <2>2
      <3>2. origin[u][n] = origin[v][m] /\ attempt[u][n] = attempt[v][m]
        BY <1>20, <3>1
      <3>3. \A x, y \in PartitionKeys : \A i \in DOMAIN topic[x], j \in DOMAIN topic[y] :
               origin[x][i] = origin[y][j] /\ attempt[x][i] = attempt[y][j] => x = y /\ i = j
        BY <1>10 DEF Attempts
      <3>4. \A i \in DOMAIN topic[u], j \in DOMAIN topic[v] :
               origin[u][i] = origin[v][j] /\ attempt[u][i] = attempt[v][j] => u = v /\ i = j
        BY <3>3
      <3>5. n \in DOMAIN topic[u] /\ m \in DOMAIN topic[v]
        BY <3>1
      <3> QED BY <3>2, <3>4, <3>5
    <2> QED BY <2>1, <2>2
  <1>21. ASSUME NEW t \in Setters, NEW u \in PartitionKeys, NEW n \in DOMAIN topic'[u],
                set'[t].pc = "publish", o[u][n] = own[t]
         PROVE  a[u][n] < set'[t].tries
    <2>1. CASE t = s
      <3>1. CASE u = w /\ n = last
        BY <1>2, <1>13, <1>16, <1>21, <2>1, <3>1, ConstantFacts
      <3>2. CASE u # w \/ n # last
        <4>1. n \in DOMAIN topic[u] /\ o[u][n] = origin[u][n] /\ a[u][n] = attempt[u][n]
          BY <1>9, <1>14, <3>2
        <4>2. attempt[u][n] < tries /\ attempt[u][n] \in Int
          BY <1>1, <1>2, <1>10, <1>21, <2>1, <4>1, ConstantFacts DEF Attempts
        <4> QED BY <1>2, <1>16, <1>21, <2>1, <4>1, <4>2, ConstantFacts
      <3> QED BY <3>1, <3>2
    <2>2. CASE t # s
      <3>1. set'[t] = set[t] /\ own[t] # own[s]
        BY <1>1, <1>10, <1>15, <1>21, <2>2 DEF Attempts
      <3>2. u # w \/ n # last
        BY <1>13, <1>21, <3>1
      <3>3. n \in DOMAIN topic[u] /\ o[u][n] = origin[u][n] /\ a[u][n] = attempt[u][n]
        BY <1>9, <1>14, <3>2
      <3> QED BY <1>10, <1>21, <3>1, <3>3 DEF Attempts
    <2> QED BY <2>1, <2>2
  <1>22. \A t, r \in Setters :
            set'[t].pc = "publish" /\ set'[r].pc = "publish" /\ t # r => own[t] # own[r]
    BY <1>10, <1>15 DEF Attempts
  <1>23. Attempts(own, o, a)'
    BY <1>17, <1>18, <1>20, <1>21, <1>22 DEF Attempts, PartitionKeys
  <1> QED BY <1>23 DEF AttemptsInv

\* AttemptsInv holds in every state.
LEMMA AttemptsInvariance == Spec => []AttemptsInv
  <1>1. Init => AttemptsInv
    <2> SUFFICES ASSUME Init PROVE AttemptsInv
      OBVIOUS
    <2>1. \A s \in Setters : set[s].pc = "idle"
      BY DEF Init, IdleSet
    <2>2. \A u \in PartitionKeys : DOMAIN topic[u] = {}
      BY DEF Init
    <2>3. \A own, origin, attempt : Attempts(own, origin, attempt)
      BY <2>1, <2>2 DEF Attempts
    <2> QED BY <2>3 DEF AttemptsInv
  <1>2. TypeInv /\ TypeInv' /\ AttemptsInv /\ [Next]_vars => AttemptsInv'
    <2> SUFFICES ASSUME TypeInv, TypeInv', AttemptsInv, [Next]_vars PROVE AttemptsInv'
      OBVIOUS
    <2>0. /\ set \in [Setters -> SetState] /\ \A t \in Setters : set[t].tries \in Int
      BY ConstantFacts DEF TypeInv, SetState
    <2>1. ASSUME NEW s \in Setters, NEW req \in Requests, SetStatus(s, req) PROVE AttemptsInv'
      <3>1. ASSUME NEW t \in Setters, set'[t].pc = "publish"
            PROVE  /\ set[t].pc = "publish" /\ set'[t].dev = set[t].dev
                   /\ set'[t].timestamp = set[t].timestamp /\ set'[t].tries = set[t].tries
        BY <2>0, <2>1, <3>1 DEF SetStatus, SetState, IdleSet
      <3>2. topic' = topic /\ commits' = commits
        BY <2>1 DEF SetStatus
      <3>3. \A t \in Setters : set'[t].pc = "publish" => set'[t].tries >= set[t].tries
        BY <2>0, <3>1
      <3> QED BY <3>1, <3>2, <3>3, AttemptsKept DEF Grows
    <2>2. ASSUME NEW s \in Setters, SetLocal(s) PROVE AttemptsInv'
      <3>1. set'[s].pc # "publish" /\ \A t \in Setters : t # s => set'[t] = set[t]
        <4>1. CASE ReadBucket(s) \/ StampEvent(s)
          BY <2>0, <4>1 DEF ReadBucket, StampEvent, SetState
        <4>2. CASE (\E req \in Requests : RejectStatus(s, req)) \/ RedisFails(s) \/ ReplyStatus(s)
          <5>1. IdleSet.pc = "idle" /\ DoneSet(TRUE).pc = "done"
            BY DEF DoneSet, IdleSet
          <5>2. PICK r \in {IdleSet, DoneSet(TRUE)} : set' = [set EXCEPT ![s] = r]
            BY <4>2 DEF RejectStatus, RedisFails, ReplyStatus
          <5> QED BY <2>0, <5>1, <5>2
        <4> QED BY <2>2, <4>1, <4>2 DEF SetLocal
      <3>2. topic' = topic /\ commits' = commits
        BY <2>2 DEF SetLocal, RejectStatus, ReadBucket, StampEvent, RedisFails, ReplyStatus
      <3> QED BY <2>0, <3>1, <3>2, AttemptsKept DEF Grows
    <2>3. ASSUME NEW s \in Setters, Publish(s) PROVE AttemptsInv'
      <3>1. topic' = topic \/ topic' = Produce(s)
        BY <2>3 DEF Publish, PublishEvent, RetryPublish, PublishFails
      <3>2. CASE topic' = Produce(s)
        BY <2>3, <3>2, AttemptsAppend
      <3>3. CASE topic' = topic
        <4>1. ASSUME NEW t \in Setters, set'[t].pc = "publish"
              PROVE  /\ set[t].pc = "publish" /\ set'[t].dev = set[t].dev
                     /\ set'[t].timestamp = set[t].timestamp /\ set'[t].tries >= set[t].tries
          <5>1. CASE RetryPublish(s)
            <6>1. CASE t = s
              <7>1. set'[t].tries = set[t].tries + 1 /\ set[t] \in SetState
                BY <2>0, <5>1, <6>1 DEF RetryPublish, SetState
              <7>2. /\ set[t].pc = "publish" /\ set'[t].dev = set[t].dev
                    /\ set'[t].timestamp = set[t].timestamp
                BY <2>0, <5>1, <6>1 DEF RetryPublish, SetState
              <7> QED BY <2>0, <7>1, <7>2
            <6>2. CASE t # s
              BY <2>0, <4>1, <5>1, <6>2 DEF RetryPublish
            <6> QED BY <6>1, <6>2
          <5>2. CASE PublishEvent(s) \/ PublishFails(s)
            <6>1. set'[s].pc = "done" /\ (t # s => set'[t] = set[t])
              BY <2>0, <5>2 DEF PublishEvent, PublishFails, DoneSet, IdleSet
            <6> QED BY <2>0, <4>1, <6>1
          <5> QED BY <2>3, <5>1, <5>2 DEF Publish
        <4>2. commits' = commits
          BY <2>3 DEF Publish, PublishEvent, RetryPublish, PublishFails
        <4> QED BY <3>3, <4>1, <4>2, AttemptsKept DEF Grows
      <3> QED BY <3>1, <3>2, <3>3
    <2>4. CASE \E s \in Setters : CommitStatus(s)
      BY <2>4, AttemptsCommit
    <2>5. CASE \/ \E g \in Getters : GetReturns(g) \/ GetContinues(g)
               \/ UNCHANGED vars \/ Tick
      <3>1. topic' = topic /\ set' = set /\ commits' = commits
        BY <2>5 DEF GetReturns, GetContinues, RejectDevices, GetDevices, RangeBucket,
                    UnionBuckets, UnionWrongType, SkipDevice, SendDevice, ParseFails,
                    GetWrongType, GetFails, FinishDevices, ReplyDevices, vars, Tick
      <3> QED BY <2>0, <3>1, AttemptsKept DEF Grows
    <2>6. CASE Crash
      <3>1. topic' = topic /\ commits' = commits /\ \A t \in Setters : set'[t].pc = "idle"
        BY <2>6 DEF Crash, IdleSet
      <3> QED BY <3>1, AttemptsKept DEF Grows
    <2> QED BY <2>1, <2>2, <2>3, <2>4, <2>5, <2>6, NextCases
  <1> QED BY <1>1, <1>2, TypeInvariance, PTL DEF Spec

\* An event is in the topic no more often than its writes have attempts.
LEMMA AttemptsCount ==
    ASSUME TypeInv, AttemptsInv, NEW u \in PartitionKeys, NEW n \in DOMAIN topic[u]
    PROVE  Cardinality(Occurrences(topic[u][n], topic[u]))
              <= (RetryMax + 1) * Cardinality(CommitsOf(topic[u][n]))
  <1>1. PICK own, origin, attempt : Attempts(own, origin, attempt)
    BY DEF AttemptsInv
  <1>2. PICK e : e = topic[u][n]
    OBVIOUS
  <1>3. PICK events : events = Occurrences(e, topic[u])
    OBVIOUS
  <1>4. PICK writes : writes = CommitsOf(e)
    OBVIOUS
  <1>5. IsFiniteSet(events) /\ Cardinality(events) \in Nat
    <2>1. topic[u] \in Seq(Event)
      BY DEF TypeInv
    <2>2. PICK len \in Nat : DOMAIN topic[u] = 1 .. len
      BY <2>1
    <2>3. events \in SUBSET (1 .. len)
      BY <1>3, <2>2 DEF Occurrences
    <2>4. IsFiniteSet(1 .. len)
      BY FS_Interval
    <2> QED BY <2>3, <2>4, FS_Subset, FS_CardinalityType
  <1>6. IsFiniteSet(writes) /\ Cardinality(writes) \in Nat
    <2>1. PICK len \in Nat : DOMAIN commits = 1 .. len
      BY DEF TypeInv
    <2>2. writes \in SUBSET (1 .. len)
      BY <1>4, <2>1 DEF CommitsOf
    <2>3. IsFiniteSet(1 .. len)
      BY FS_Interval
    <2> QED BY <2>2, <2>3, FS_Subset, FS_CardinalityType
  <1>7. PICK tries : tries = 0 .. RetryMax
    OBVIOUS
  <1>8. IsFiniteSet(tries) /\ Cardinality(tries) = RetryMax + 1
    <2>1. RetryMax \in Nat
      BY ConstantFacts
    <2>2. ~(0 > RetryMax) /\ RetryMax - 0 + 1 = RetryMax + 1 /\ 0 \in Int /\ RetryMax \in Int
      BY <2>1
    <2>3. IsFiniteSet(0 .. RetryMax) /\ Cardinality(0 .. RetryMax) = RetryMax - 0 + 1
      BY <2>2, FS_Interval
    <2> QED BY <1>7, <2>2, <2>3
  <1>9. PICK f : f = [m \in events |-> <<origin[u][m], attempt[u][m]>>]
    OBVIOUS
  <1>10. f \in [events -> writes \X tries]
    <2> SUFFICES ASSUME NEW m \in events
                 PROVE  origin[u][m] \in writes /\ attempt[u][m] \in tries
      BY <1>9
    <2>1. m \in DOMAIN topic[u] /\ topic[u][m] = e
      BY <1>3 DEF Occurrences
    <2>2. /\ origin[u][m] \in DOMAIN commits /\ attempt[u][m] \in 0 .. RetryMax
          /\ EventAt(origin[u][m]) = e
      BY <1>1, <2>1 DEF Attempts
    <2> QED BY <1>4, <1>7, <2>2 DEF CommitsOf, EventAt
  <1>11. ASSUME NEW x \in events, NEW y \in events, f[x] = f[y] PROVE x = y
    <2>1. x \in DOMAIN topic[u] /\ y \in DOMAIN topic[u]
      BY <1>3 DEF Occurrences
    <2>2. origin[u][x] = origin[u][y] /\ attempt[u][x] = attempt[u][y]
      BY <1>9, <1>11
    <2> QED BY <1>1, <2>1, <2>2 DEF Attempts
  <1>12. /\ IsFiniteSet(writes \X tries)
         /\ Cardinality(writes \X tries) = Cardinality(writes) * Cardinality(tries)
    BY <1>6, <1>8, FS_Product
  <1>13. PICK w \in Nat, t \in Nat : w = Cardinality(writes) /\ t = RetryMax + 1
    BY <1>6, ConstantFacts
  <1>14. PICK p \in Nat : p = w * t /\ p = t * w /\ p = Cardinality(writes \X tries)
    BY <1>8, <1>12, <1>13
  <1>15. ~(p < Cardinality(events))
    BY <1>5, <1>10, <1>11, <1>12, <1>14, FS_PigeonHole
  <1> QED BY <1>2, <1>3, <1>4, <1>5, <1>13, <1>14, <1>15

\* However many acknowledgements are lost and calls retried, an event is in
\* the topic at most RetryMax + 1 times for each write that has it.
THEOREM DuplicatesAreBounded == Spec => []DuplicatesBounded
  <1>1. TypeInv /\ AttemptsInv => DuplicatesBounded
    BY AttemptsCount DEF DuplicatesBounded
  <1> QED BY <1>1, TypeInvariance, AttemptsInvariance, PTL
=============================================================================
