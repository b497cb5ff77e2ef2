-------------------------- MODULE Presence_proofs --------------------------
(***************************************************************************)
(* Proofs about Presence, for every set of handlers and requests, every    *)
(* number and size of buckets and every interleaving of handlers, clock,   *)
(* expiry, failures and crashes: types, nothing announced that is not      *)
(* stored, and the safety properties of the readers (what GetDevices       *)
(* streams, what it may not miss, and why it fails).                       *)
(***************************************************************************)
EXTENDS Presence, BucketFacts

-----------------------------------------------------------------------------
(* What the Redis commands keep. *)

\* A database whose keys and values have their types.
Database(db) == \A k \in DOMAIN db : k \in Seq(Segment) /\ db[k] \in Value

\* Storing a value keeps the database well typed.
LEMMA StoreTyped ==
    ASSUME NEW db, Database(db), NEW k \in Seq(Segment), NEW v \in Value
    PROVE  Database(Store(db, k, v))
  BY DEF Database, Store

\* SADD, on a set, a string or an absent key.
LEMMA SaddTyped ==
    ASSUME NEW db, Database(db), NEW k \in Seq(Segment), NEW m \in Seq(Segment)
    PROVE  Database(SADD(db, k, m))
  <1>1. SetValue({m}) \in Value
    BY DEF SetValue, Value, Never
  <1>2. CASE IsString(db, k)
    <2>1. ~IsSet(db, k)
      BY <1>2 DEF IsSet, IsString
    <2> QED BY <1>2, <2>1 DEF SADD
  <1>3. CASE IsSet(db, k)
    <2>1. ~IsString(db, k)
      BY <1>3 DEF IsSet, IsString
    <2>2. SADD(db, k, m) = [db EXCEPT ![k].members = @ \cup {m}]
      BY <1>3, <2>1 DEF SADD
    <2>3. k \in DOMAIN db /\ db[k] \in Value
      BY <1>3 DEF IsSet, Database
    <2>4. [db[k] EXCEPT !.members = @ \cup {m}] \in Value
      BY <2>3 DEF Value
    <2> QED BY <2>2, <2>4 DEF Database
  <1>4. CASE ~IsString(db, k) /\ ~IsSet(db, k)
    BY <1>1, <1>4, StoreTyped DEF SADD
  <1> QED BY <1>2, <1>3, <1>4

\* SET
LEMMA SetTyped ==
    ASSUME NEW db, Database(db), NEW k \in Seq(Segment), NEW s \in Seq(Segment)
    PROVE  Database(SET(db, k, s))
  <1>1. StringValue(s) \in Value
    BY DEF StringValue, Value, Never
  <1> QED BY <1>1, StoreTyped DEF SET

\* EXPIRE
LEMMA ExpireTyped ==
    ASSUME NEW db, Database(db), NEW k \in Seq(Segment), NEW at \in Int
    PROVE  Database(EXPIRE(db, k, at))
  <1>1. CASE k \in DOMAIN db
    <2>1. [db[k] EXCEPT !.expires = at] \in Value
      BY <1>1 DEF Database, Value
    <2> QED BY <1>1, <2>1 DEF Database, EXPIRE
  <1> QED BY <1>1 DEF EXPIRE

\* DEL, and the eviction of expired keys.
LEMMA ShrinkTyped ==
    ASSUME NEW db, Database(db), NEW k, NEW t
    PROVE  Database(DEL(db, k)) /\ Database(Evict(db, t))
  BY DEF Database, DEL, Evict

\* A union of buckets is a set of device keys.
LEMMA SunionTyped ==
    ASSUME NEW db, Database(db), NEW keys
    PROVE  SUNION(db, keys) \in SUBSET Seq(Segment)
  <1>1. \A k \in keys \cap DOMAIN db : db[k].members \in SUBSET Seq(Segment)
    BY DEF Database, Value
  <1> QED BY <1>1 DEF SUNION

-----------------------------------------------------------------------------
(* Keys and devices. *)

\* The constants the code works with.
LEMMA ConstantFacts ==
    /\ Second \in Nat \ {0} /\ BucketSize \in Nat /\ BucketSize >= Second
    /\ NumBuckets \in Nat /\ RetryMax \in Nat /\ FirstOffset \in Int /\ FirstOffset <= 0
    /\ WS \in Segment /\ Int \subseteq Segment
    /\ Requests \subseteq Device \cup {Nil} /\ QueryUsers \subseteq Seq(Segment)
    /\ StartTime \in Nat /\ TickSize \in Nat
  BY SecondAssumption, PresenceAssumption DEF FirstOffset, Segment

\* A bucket key is a string whenever its prefix is.
LEMMA BucketKeyTyped ==
    ASSUME NEW t \in Int, NEW u \in Seq(Segment), NEW o \in Int
    PROVE  /\ String(BucketWithOffset(t, u, BucketSize, o)) \in Seq(Segment)
           /\ String(CurrentBucket(t, u, BucketSize)) \in Seq(Segment)
  <1>1. \A x, size \in Int : size >= Second =>
            (x \div Second) \div (size \div Second) \in Int
    <2> SUFFICES ASSUME NEW x \in Int, NEW size \in Int, size >= Second
                 PROVE  (x \div Second) \div (size \div Second) \in Int
      OBVIOUS
    <2>1. Second \in Nat \ {0}
      BY ConstantFacts
    <2>2. size \div Second \in Nat \ {0} /\ x \div Second \in Int
      BY <2>1, SecondsOfSize, DivFacts
    <2> QED BY <2>2, DivFacts
  <1> DEFINE size == IF BucketSize <= Second THEN Second ELSE BucketSize
  <1>2. /\ size \in Int /\ size >= Second
        /\ \A p \in Int : BucketWithOffset(t, u, BucketSize, p) =
              [prefix |-> u, timestamp |-> t + p * size, bucketSize |-> size]
    BY ConstantFacts DEF BucketWithOffset
  <1> HIDE DEF size
  <1>3. \A p \in Int : Index(BucketWithOffset(t, u, BucketSize, p)) \in Int
    <2> TAKE p \in Int
    <2>1. PICK x \in Int : x = t + p * size
      BY <1>2
    <2>2. Index(BucketWithOffset(t, u, BucketSize, p))
            = (x \div Second) \div (size \div Second)
      BY <1>2, <2>1 DEF Index
    <2> QED BY <1>1, <1>2, <2>2
  <1>4. \A p \in Int : String(BucketWithOffset(t, u, BucketSize, p)) \in Seq(Segment)
    <2> TAKE p \in Int
    <2>1. BucketWithOffset(t, u, BucketSize, p).prefix = u
      BY <1>2
    <2>2. Index(BucketWithOffset(t, u, BucketSize, p)) \in Segment
      BY <1>3, ConstantFacts
    <2> QED BY <2>1, <2>2 DEF String
  <1> QED
    BY <1>4 DEF CurrentBucket

\* A device key is a string.
LEMMA DeviceKeyTyped ==
    ASSUME NEW d \in Device
    PROVE  makeKey(d) \in Seq(Segment)
  <1>1. d.type \in Int /\ d.id \in Seq(Segment)
    BY DEF Device
  <1>2. EnumName(d.type) \in Segment
    BY <1>1, ConstantFacts DEF EnumName, Device_Type_name
  <1>3. <<EnumName(d.type)>> \in Seq(Segment)
    BY <1>2
  <1> QED BY <1>1, <1>3 DEF makeKey

\* What parseDevice makes of a device key is a device.
LEMMA ParsedTyped ==
    ASSUME NEW u \in Seq(Segment), NEW k \in Seq(Segment), Parses(k)
    PROVE  parseDevice(u, k) \in Device
  <1>1. k # <<>> /\ Head(k) = WS
    BY DEF Parses, Device_Type_value
  <1>2. Tail(k) \in Seq(Segment)
    BY <1>1
  <1>3. Device_Type_value[Head(k)] = 0
    BY <1>1 DEF Device_Type_value
  <1> QED BY <1>2, <1>3 DEF parseDevice, Device, Device_ONLINE

\* A status change, online or offline, keeps the database well typed.
LEMMA WriteTyped ==
    ASSUME Database(redis), now \in Nat, NEW bk \in Seq(Segment), NEW d \in Device
    PROVE  Database(WriteStatus(bk, d))
  <1>1. makeKey(d) \in Seq(Segment)
    BY DeviceKeyTyped
  <1>2. d.user \in Seq(Segment)
    BY DEF Device
  <1>3. ExpiresAt(bucketTTL) \in Int /\ ExpiresAt(deviceTTL) \in Int
    BY ConstantFacts DEF ExpiresAt, bucketTTL, deviceTTL
  <1>4. Database(EXPIRE(SADD(redis, bk, makeKey(d)), bk, ExpiresAt(bucketTTL)))
    BY <1>1, <1>3, SaddTyped, ExpireTyped
  <1>5. Database(Online(bk, d))
    BY <1>1, <1>2, <1>3, <1>4, SetTyped, ExpireTyped DEF Online
  <1>6. Database(DEL(redis, makeKey(d)))
    BY ShrinkTyped
  <1> QED BY <1>5, <1>6 DEF WriteStatus

-----------------------------------------------------------------------------
(***************************************************************************)
(* Type correctness.  Two facts make it inductive: a running SetStatus     *)
(* works on a device of a request (so its user has a partition), and the   *)
(* loop of BucketRange has not passed offset 0 while it runs.              *)
(***************************************************************************)
SetOK(r) == r \in SetState /\ (r.pc \in Running => r.dev \in Requests \ {Nil})
GetOK(r) == r \in GetState /\ (r.pc = "range" => r.i <= 0)

TypeInv ==
    /\ now \in Nat
    /\ Database(redis)
    /\ topic \in [PartitionKeys -> Seq(Event)]
    /\ set \in [Setters -> SetState] /\ \A s \in Setters : SetOK(set[s])
    /\ get \in [Getters -> GetState] /\ \A g \in Getters : GetOK(get[g])
    /\ started \in Nat
    /\ commits \in Seq(Commit)
    /\ settled \subseteq Event

\* A step of one SetStatus handler only has to leave that handler typed.
LEMMA SetUpdate ==
    ASSUME TypeInv, NEW s \in Setters, NEW r, SetOK(r), set' = [set EXCEPT ![s] = r]
    PROVE  set' \in [Setters -> SetState] /\ \A t \in Setters : SetOK(set'[t])
  BY DEF TypeInv, SetOK

\* The same for GetDevices handlers.
LEMMA GetUpdate ==
    ASSUME TypeInv, NEW g \in Getters, NEW r, GetOK(r), get' = [get EXCEPT ![g] = r]
    PROVE  get' \in [Getters -> GetState] /\ \A h \in Getters : GetOK(get'[h])
  BY DEF TypeInv, GetOK

\* A handler that has not started, or has just returned.
LEMMA RestTyped ==
    /\ SetOK(IdleSet) /\ GetOK(IdleGet)
    /\ \A err \in BOOLEAN : SetOK(DoneSet(err))
  <1>1. 0 \in 0 .. RetryMax /\ 0 \in FirstOffset .. 1 /\ 0 \in Nat
    BY ConstantFacts
  <1>2. IdleSet \in SetState
    BY <1>1 DEF SetState, IdleSet
  <1>3. IdleGet \in GetState
    BY <1>1 DEF GetState, IdleGet
  <1>4. \A err \in BOOLEAN : DoneSet(err) \in SetState
    BY <1>2 DEF DoneSet, SetState
  <1>5. IdleSet.pc = "idle" /\ IdleGet.pc = "idle" /\ \A err \in BOOLEAN : DoneSet(err).pc = "done"
    BY DEF IdleSet, IdleGet, DoneSet
  <1> QED BY <1>2, <1>3, <1>4, <1>5 DEF SetOK, GetOK, Running

\* A GetDevices handler that returns.
LEMMA ReturnedTyped ==
    ASSUME TypeInv, NEW g \in Getters,
           NEW err \in {"none", "request", "wrongtype", "parse", "io"}
    PROVE  GetOK(Returned(g, err))
  <1>1. get[g] \in GetState
    BY DEF TypeInv
  <1>2. 0 \in FirstOffset .. 1
    BY ConstantFacts
  <1>3. Returned(g, err) \in GetState
    BY <1>1, <1>2 DEF Returned, GetState
  <1>4. Returned(g, err).pc = "done"
    BY <1>1 DEF Returned, GetState
  <1> QED BY <1>3, <1>4 DEF GetOK

\* What a running SetStatus handler holds.
LEMMA RunningFacts ==
    ASSUME TypeInv, NEW s \in Setters, set[s].pc \in Running
    PROVE  /\ set[s] \in SetState /\ set[s].dev \in Device /\ set[s].dev \in Requests \ {Nil}
           /\ set[s].dev.user \in PartitionKeys /\ set[s].dev.user \in Seq(Segment)
           /\ set[s].key \in Seq(Segment) /\ set[s].timestamp \in Nat
           /\ EventOf(s) \in Event
  <1>1. SetOK(set[s])
    BY DEF TypeInv
  <1>2. set[s] \in SetState /\ set[s].dev \in Requests \ {Nil}
    BY <1>1 DEF SetOK
  <1>3. set[s].dev \in Device
    BY <1>2, ConstantFacts
  <1>4. set[s].dev.user \in PartitionKeys /\ set[s].dev.user \in Seq(Segment)
    BY <1>2, <1>3 DEF PartitionKeys, Device
  <1>5. set[s].key \in Seq(Segment) /\ set[s].timestamp \in Nat
    BY <1>2 DEF SetState
  <1> QED BY <1>2, <1>3, <1>4, <1>5 DEF EventOf, Event

\* An event appended to the partition of its user.
LEMMA ProduceTyped ==
    ASSUME TypeInv, NEW s \in Setters, set[s].pc \in Running
    PROVE  Produce(s) \in [PartitionKeys -> Seq(Event)]
  <1>1. EventOf(s) \in Event /\ set[s].dev.user \in PartitionKeys
    BY RunningFacts
  <1>2. \A u \in PartitionKeys : topic[u] \in Seq(Event)
    BY DEF TypeInv
  <1>3. \A u \in PartitionKeys : Append(topic[u], EventOf(s)) \in Seq(Event)
    BY <1>1, <1>2
  <1> QED BY <1>1, <1>3 DEF Produce, TypeInv

\* A new SetStatus call: its own handler starts, and the handlers it overlaps
\* are marked.
LEMMA TypeSetStatus ==
    ASSUME TypeInv, NEW s \in Setters, NEW req \in Requests, SetStatus(s, req)
    PROVE  TypeInv'
  <1>1. req \in Requests \ {Nil} /\ req \in Device
    BY ConstantFacts DEF SetStatus, Valid
  <1> DEFINE k == makeKey(req)
             others == {t \in Setters : WorksOn(t, k)}
             New(t) == IF t = s THEN [IdleSet EXCEPT !.pc = "bucket", !.dev = req,
                                                     !.alone = others = {}]
                       ELSE IF t \in others THEN [set[t] EXCEPT !.alone = FALSE]
                       ELSE set[t]
  <1>2. set' = [t \in Setters |-> New(t)]
    BY DEF SetStatus
  <1>3. \A t \in Setters : SetOK(New(t))
    <2> TAKE t \in Setters
    <2>1. \A b \in BOOLEAN :
             SetOK([IdleSet EXCEPT !.pc = "bucket", !.dev = req, !.alone = b])
      <3> TAKE b \in BOOLEAN
      <3> DEFINE r == [IdleSet EXCEPT !.pc = "bucket", !.dev = req, !.alone = b]
      <3>1. IdleSet \in SetState
        BY RestTyped DEF SetOK
      <3>2. r \in SetState
        BY <3>1, <1>1 DEF SetState, Running
      <3>3. r.dev = req
        BY <3>1 DEF SetState
      <3> QED BY <3>2, <3>3, <1>1 DEF SetOK
    <2>4. (others = {}) \in BOOLEAN
      OBVIOUS
    <2>2. SetOK(set[t])
      BY DEF TypeInv
    <2>3. SetOK([set[t] EXCEPT !.alone = FALSE])
      BY <2>2 DEF SetOK, SetState
    <2>5. SetOK([IdleSet EXCEPT !.pc = "bucket", !.dev = req, !.alone = others = {}])
      BY <2>1, <2>4, Zenon
    <2>6. CASE t = s
      BY <2>5, <2>6, Zenon
    <2>7. CASE t # s /\ t \in others
      BY <2>3, <2>7, Zenon
    <2>8. CASE t # s /\ t \notin others
      BY <2>2, <2>8, Zenon
    <2> QED BY <2>6, <2>7, <2>8
  <1> HIDE DEF New
  <1>4. set' \in [Setters -> SetState] /\ \A t \in Setters : SetOK(set'[t])
    BY <1>2, <1>3 DEF SetOK
  <1>5. settled' \subseteq Event /\ started' \in Nat
    <2>1. settled' = {e \in settled : makeKey(e.dev) # k} /\ started' = started + 1
      BY DEF SetStatus
    <2> QED BY <2>1 DEF TypeInv
  <1>6. UNCHANGED <<now, redis, topic, get, commits>>
    BY DEF SetStatus
  <1> QED BY <1>4, <1>5, <1>6 DEF TypeInv

\* The steps of a SetStatus handler that touch neither Redis nor Kafka.
SetLocal(s) ==
    \/ \E req \in Requests : RejectStatus(s, req)
    \/ ReadBucket(s) \/ StampEvent(s) \/ RedisFails(s) \/ ReplyStatus(s)

\* The attempts to publish.
Publish(s) == PublishEvent(s) \/ RetryPublish(s) \/ PublishFails(s)

\* Steps that touch neither Redis nor Kafka change their own handler only.
LEMMA TypeSetLocal ==
    ASSUME TypeInv, NEW s \in Setters, SetLocal(s)
    PROVE  TypeInv'
  <1>1. /\ UNCHANGED <<now, redis, topic, get, started, commits, settled>>
        /\ \E r : SetOK(r) /\ set' = [set EXCEPT ![s] = r]
    <2>1. CASE \E req \in Requests : RejectStatus(s, req)
      BY <2>1, RestTyped DEF RejectStatus
    <2>2. CASE ReadBucket(s)
      <3>1. set[s].pc = "bucket"
        BY <2>2 DEF ReadBucket
      <3>2. set[s] \in SetState /\ set[s].dev.user \in Seq(Segment) /\ set[s].dev \in Requests \ {Nil}
        BY <3>1, RunningFacts DEF Running
      <3>3. now \in Int
        BY DEF TypeInv
      <3>4. PICK k \in Seq(Segment) : k = String(CurrentBucket(now, set[s].dev.user, BucketSize))
        BY <3>2, <3>3, BucketKeyTyped, ConstantFacts
      <3> DEFINE r == [set[s] EXCEPT !.key = k, !.pc = "stamp"]
      <3>5. r \in SetState /\ r.dev = set[s].dev
        BY <3>2 DEF SetState, Running
      <3>6. SetOK(r)
        BY <3>2, <3>5 DEF SetOK
      <3>7. set' = [set EXCEPT ![s] = r]
        BY <2>2, <3>4 DEF ReadBucket, TypeInv
      <3> QED BY <2>2, <3>6, <3>7 DEF ReadBucket
    <2>3. CASE StampEvent(s)
      <3>1. set[s].pc = "stamp"
        BY <2>3 DEF StampEvent
      <3>2. set[s] \in SetState /\ set[s].dev \in Requests \ {Nil}
        BY <3>1, RunningFacts DEF Running
      <3>3. now \in Nat
        BY DEF TypeInv
      <3> DEFINE r == [set[s] EXCEPT !.timestamp = now, !.pc = "redis"]
      <3>4. r \in SetState /\ r.dev = set[s].dev
        BY <3>2, <3>3 DEF SetState, Running
      <3>5. SetOK(r)
        BY <3>2, <3>4 DEF SetOK
      <3>6. set' = [set EXCEPT ![s] = r]
        BY <2>3 DEF StampEvent, TypeInv
      <3> QED BY <2>3, <3>5, <3>6 DEF StampEvent
    <2>4. CASE RedisFails(s)
      BY <2>4, RestTyped DEF RedisFails
    <2>5. CASE ReplyStatus(s)
      BY <2>5, RestTyped DEF ReplyStatus
    <2> QED BY <2>1, <2>2, <2>3, <2>4, <2>5 DEF SetLocal
  <1>2. set' \in [Setters -> SetState] /\ \A t \in Setters : SetOK(set'[t])
    BY <1>1, SetUpdate
  <1> QED BY <1>1, <1>2 DEF TypeInv

\* Redis executes a status change.
LEMMA TypeCommit ==
    ASSUME TypeInv, NEW s \in Setters, CommitStatus(s)
    PROVE  TypeInv'
  <1>1. set[s].pc = "redis"
    BY DEF CommitStatus
  <1>2. /\ set[s] \in SetState /\ set[s].dev \in Device /\ set[s].dev \in Requests \ {Nil}
        /\ set[s].key \in Seq(Segment) /\ set[s].timestamp \in Nat
    BY <1>1, RunningFacts DEF Running
  <1>3. Database(redis')
    BY <1>2, WriteTyped DEF CommitStatus, TypeInv
  <1>4. commits' \in Seq(Commit)
    <2>1. [key |-> set[s].key, dev |-> set[s].dev, timestamp |-> set[s].timestamp] \in Commit
      BY <1>2 DEF Commit
    <2> QED BY <2>1 DEF CommitStatus, TypeInv
  <1>5. \E r : SetOK(r) /\ set' = [set EXCEPT ![s] = r]
    <2> DEFINE r == [set[s] EXCEPT !.pc = "publish"]
    <2>1. r \in SetState /\ r.dev = set[s].dev
      BY <1>2 DEF SetState, Running
    <2>2. SetOK(r)
      BY <1>2, <2>1 DEF SetOK
    <2>3. CASE set' = [set EXCEPT ![s].pc = "publish"]
      <3>1. set' = [set EXCEPT ![s] = r]
        BY <2>3 DEF TypeInv
      <3> QED BY <2>2, <3>1
    <2>4. CASE set' = [set EXCEPT ![s] = DoneSet(TRUE)]
      BY <2>4, RestTyped
    <2> QED BY <2>3, <2>4 DEF CommitStatus
  <1>6. set' \in [Setters -> SetState] /\ \A t \in Setters : SetOK(set'[t])
    BY <1>5, SetUpdate
  <1> QED BY <1>3, <1>4, <1>6 DEF CommitStatus, TypeInv

\* An attempt to publish, acknowledged, retried or given up.
LEMMA TypePublish ==
    ASSUME TypeInv, NEW s \in Setters, Publish(s)
    PROVE  TypeInv'
  <1>1. set[s].pc = "publish"
    BY DEF Publish, PublishEvent, RetryPublish, PublishFails
  <1>2. set[s] \in SetState /\ set[s].dev \in Requests \ {Nil} /\ EventOf(s) \in Event
    BY <1>1, RunningFacts DEF Running
  <1>3. topic' \in [PartitionKeys -> Seq(Event)]
    BY <1>1, ProduceTyped DEF Publish, PublishEvent, RetryPublish, PublishFails, TypeInv, Running
  <1>4. settled' \subseteq Event
    BY <1>2 DEF Publish, PublishEvent, RetryPublish, PublishFails, TypeInv
  <1>5. \E r : SetOK(r) /\ set' = [set EXCEPT ![s] = r]
    <2>1. CASE RetryPublish(s)
      <3> DEFINE r == [set[s] EXCEPT !.tries = @ + 1]
      <3>1. set[s].tries \in 0 .. RetryMax /\ set[s].tries < RetryMax
        BY <2>1, <1>2 DEF RetryPublish, SetState
      <3>2. set[s].tries + 1 \in 0 .. RetryMax
        BY <3>1, ConstantFacts
      <3>3. r \in SetState /\ r.dev = set[s].dev
        BY <1>2, <3>2 DEF SetState
      <3>4. SetOK(r)
        BY <1>2, <3>3 DEF SetOK
      <3>5. set' = [set EXCEPT ![s] = r]
        BY <2>1 DEF RetryPublish, TypeInv
      <3> QED BY <3>4, <3>5
    <2>2. CASE PublishEvent(s) \/ PublishFails(s)
      BY <2>2, RestTyped DEF Publish, PublishEvent, PublishFails
    <2> QED BY <2>1, <2>2 DEF Publish
  <1>6. set' \in [Setters -> SetState] /\ \A t \in Setters : SetOK(set'[t])
    BY <1>5, SetUpdate
  <1>7. UNCHANGED <<now, redis, get, started, commits>>
    BY DEF Publish, PublishEvent, RetryPublish, PublishFails
  <1> QED BY <1>3, <1>4, <1>6, <1>7 DEF TypeInv

\* The steps in which a GetDevices handler returns.
GetReturns(g) ==
    \/ \E u \in QueryUsers : RejectDevices(g, u)
    \/ UnionWrongType(g) \/ GetFails(g) \/ FinishDevices(g)
    \/ \E k \in get[g].todo : ParseFails(g, k) \/ GetWrongType(g, k)

\* The steps in which it goes on.
GetContinues(g) ==
    \/ \E u \in QueryUsers : GetDevices(g, u)
    \/ RangeBucket(g) \/ UnionBuckets(g) \/ ReplyDevices(g)
    \/ \E k \in get[g].todo : SkipDevice(g, k) \/ SendDevice(g, k)

\* The start of a call and one bucket of the range.
LEMMA RangeTyped ==
    ASSUME TypeInv, NEW g \in Getters,
           (\E u \in QueryUsers : GetDevices(g, u)) \/ RangeBucket(g)
    PROVE  \E r : GetOK(r) /\ get' = [get EXCEPT ![g] = r]
  <1>1. /\ get[g] \in GetState /\ GetOK(get[g]) /\ now \in Nat /\ Len(commits) \in Nat
        /\ IdleGet \in GetState
    BY RestTyped DEF TypeInv, GetOK
  <1>2. CASE \E u \in QueryUsers : GetDevices(g, u)
    <2>1. PICK u \in QueryUsers : GetDevices(g, u)
      BY <1>2
    <2> DEFINE r == [IdleGet EXCEPT !.pc = "range", !.user = u, !.i = FirstOffset,
                                    !.begin = now, !.mark = Len(commits)]
    <2>2. u \in Seq(Segment) /\ FirstOffset \in FirstOffset .. 1 /\ FirstOffset <= 0
      BY ConstantFacts
    <2>3. r \in GetState /\ r.i = FirstOffset
      BY <1>1, <2>2 DEF GetState
    <2>4. GetOK(r)
      BY <2>2, <2>3 DEF GetOK
    <2> QED BY <2>1, <2>4 DEF GetDevices
  <1>3. CASE RangeBucket(g)
    <2>1. get[g].pc = "range" /\ get[g].i <= 0 /\ get[g].i \in FirstOffset .. 1
      BY <1>1, <1>3 DEF RangeBucket, GetOK, GetState
    <2>2. get[g].user \in Seq(Segment) /\ get[g].keys \in Seq(Seq(Segment))
      BY <1>1 DEF GetState
    <2>3. now \in Int /\ get[g].i \in Int
      BY <1>1, <2>1, ConstantFacts
    <2>4. PICK key \in Seq(Segment) :
             key = String(BucketWithOffset(now, get[g].user, BucketSize, get[g].i))
      BY <2>2, <2>3, BucketKeyTyped
    <2>5. PICK pc \in {"range", "sunion"} :
             pc = IF get[g].i = 0 THEN "sunion" ELSE "range"
      OBVIOUS
    <2> DEFINE r == [get[g] EXCEPT !.keys = Append(@, key), !.i = @ + 1, !.pc = pc]
    <2>6. Append(get[g].keys, key) \in Seq(Seq(Segment))
      BY <2>2
    <2>7. get[g].i + 1 \in FirstOffset .. 1 /\ (pc = "range" => get[g].i + 1 <= 0)
      BY <2>1, <2>3, <2>5, ConstantFacts
    <2>8. r \in GetState /\ r.i = get[g].i + 1 /\ r.pc = pc
      BY <1>1, <2>6, <2>7 DEF GetState
    <2>9. GetOK(r)
      BY <2>7, <2>8 DEF GetOK
    <2>10. get' = [get EXCEPT ![g] = r]
      BY <1>3, <2>4, <2>5 DEF RangeBucket, TypeInv
    <2> QED BY <2>9, <2>10
  <1> QED BY <1>2, <1>3

\* The SUNION and the visits of the devices it returned.
LEMMA StreamTyped ==
    ASSUME TypeInv, NEW g \in Getters,
           UnionBuckets(g) \/ \E k \in get[g].todo : SkipDevice(g, k) \/ SendDevice(g, k)
    PROVE  \E r : GetOK(r) /\ get' = [get EXCEPT ![g] = r]
  <1>1. get[g] \in GetState /\ Database(redis)
    BY DEF TypeInv
  <1>2. get[g].todo \in SUBSET Seq(Segment) /\ get[g].sent \in SUBSET Device
    BY <1>1 DEF GetState
  <1>3. CASE UnionBuckets(g)
    <2>1. PICK todo \in SUBSET Seq(Segment) : todo = SUNION(redis, KeySet(g))
      BY <1>1, SunionTyped
    <2> DEFINE r == [get[g] EXCEPT !.pc = "stream", !.todo = todo]
    <2>2. r \in GetState /\ r.pc = "stream"
      BY <1>1 DEF GetState
    <2>3. get' = [get EXCEPT ![g] = r]
      BY <1>3, <2>1 DEF UnionBuckets, TypeInv
    <2> QED BY <2>2, <2>3 DEF GetOK
  <1>4. ASSUME NEW k \in get[g].todo, SkipDevice(g, k)
        PROVE  \E r : GetOK(r) /\ get' = [get EXCEPT ![g] = r]
    <2> DEFINE r == [get[g] EXCEPT !.todo = @ \ {k}]
    <2>1. get[g].pc = "stream"
      BY <1>4 DEF SkipDevice
    <2>2. r \in GetState /\ r.pc = "stream"
      BY <1>1, <1>2, <2>1 DEF GetState
    <2>3. get' = [get EXCEPT ![g] = r]
      BY <1>4 DEF SkipDevice, TypeInv
    <2> QED BY <2>2, <2>3 DEF GetOK
  <1>5. ASSUME NEW k \in get[g].todo, SendDevice(g, k)
        PROVE  \E r : GetOK(r) /\ get' = [get EXCEPT ![g] = r]
    <2>1. get[g].pc = "stream" /\ k \in Seq(Segment) /\ Parses(k) /\ k \in DOMAIN redis
      BY <1>2, <1>5 DEF SendDevice, IsString
    <2>2. redis[k].string \in Seq(Segment)
      BY <1>1, <2>1 DEF Database, Value
    <2>3. PICK d \in Device : d = parseDevice(redis[k].string, k)
      BY <2>1, <2>2, ParsedTyped
    <2> DEFINE r == [get[g] EXCEPT !.sent = @ \cup {d}, !.todo = @ \ {k}]
    <2>4. r \in GetState /\ r.pc = "stream"
      BY <1>1, <1>2, <2>1 DEF GetState
    <2>5. get' = [get EXCEPT ![g] = r]
      BY <1>5, <2>3 DEF SendDevice, TypeInv
    <2> QED BY <2>4, <2>5 DEF GetOK
  <1> QED BY <1>3, <1>4, <1>5

\* Every step of a GetDevices handler changes that handler only.
LEMMA TypeGet ==
    ASSUME TypeInv, NEW g \in Getters, GetReturns(g) \/ GetContinues(g)
    PROVE  TypeInv'
  <1>1. UNCHANGED <<now, redis, topic, set, started, commits, settled>>
    BY DEF GetReturns, GetContinues, RejectDevices, GetDevices, RangeBucket, UnionBuckets,
           UnionWrongType, SkipDevice, SendDevice, ParseFails, GetWrongType, GetFails,
           FinishDevices, ReplyDevices
  <1>2. \E r : GetOK(r) /\ get' = [get EXCEPT ![g] = r]
    <2>1. CASE GetReturns(g)
      <3>1. \E err \in {"none", "request", "wrongtype", "parse", "io"} :
               get' = [get EXCEPT ![g] = Returned(g, err)]
        BY <2>1 DEF GetReturns, RejectDevices, UnionWrongType, GetFails, FinishDevices,
                    ParseFails, GetWrongType
      <3> QED BY <3>1, ReturnedTyped
    <2>2. CASE ReplyDevices(g)
      BY <2>2, RestTyped DEF ReplyDevices
    <2>3. CASE (\E u \in QueryUsers : GetDevices(g, u)) \/ RangeBucket(g)
      BY <2>3, RangeTyped
    <2>4. CASE UnionBuckets(g) \/ \E k \in get[g].todo : SkipDevice(g, k) \/ SendDevice(g, k)
      BY <2>4, StreamTyped
    <2> QED BY <2>1, <2>2, <2>3, <2>4 DEF GetContinues
  <1>3. get' \in [Getters -> GetState] /\ \A h \in Getters : GetOK(get'[h])
    BY <1>2, GetUpdate
  <1> QED BY <1>1, <1>3 DEF TypeInv

\* The clock and Redis' expiry; the crash of the process.
LEMMA TypeEnvironment == TypeInv /\ (Tick \/ Crash) => TypeInv'
  <1> SUFFICES ASSUME TypeInv, Tick \/ Crash PROVE TypeInv'
    OBVIOUS
  <1>1. CASE Tick
    <2>1. now' \in Nat
      BY <1>1, ConstantFacts DEF Tick, TypeInv
    <2>2. Database(redis')
      BY <1>1, ShrinkTyped DEF Tick, TypeInv
    <2> QED BY <1>1, <2>1, <2>2 DEF Tick, TypeInv
  <1>2. CASE Crash
    <2>1. SetOK(IdleSet) /\ GetOK(IdleGet)
      BY RestTyped
    <2>2. IdleSet \in SetState /\ IdleGet \in GetState
      BY <2>1 DEF SetOK, GetOK
    <2> QED BY <1>2, <2>1, <2>2 DEF Crash, TypeInv
  <1> QED BY <1>1, <1>2

\* Every step is a step of one of these groups.
LEMMA NextCases ==
    ASSUME Next
    PROVE  \/ \E s \in Setters, req \in Requests : SetStatus(s, req)
           \/ \E s \in Setters : SetLocal(s) \/ CommitStatus(s) \/ Publish(s)
           \/ \E g \in Getters : GetReturns(g) \/ GetContinues(g)
           \/ Tick \/ Crash
  <1>1. CASE \E s \in Setters, req \in Requests : RejectStatus(s, req) \/ SetStatus(s, req)
    BY <1>1 DEF SetLocal
  <1>2. CASE \E s \in Setters : SetStep(s) \/ RedisFails(s) \/ PublishFails(s)
    BY <1>2 DEF SetStep, SetLocal, Publish
  <1>3. CASE \E g \in Getters, u \in QueryUsers : RejectDevices(g, u) \/ GetDevices(g, u)
    BY <1>3 DEF GetReturns, GetContinues
  <1>4. CASE \E g \in Getters : GetStep(g) \/ GetFails(g)
    <2>1. PICK g \in Getters : GetStep(g) \/ GetFails(g)
      BY <1>4
    <2>2. CASE \E k \in get[g].todo :
                 SkipDevice(g, k) \/ SendDevice(g, k) \/ ParseFails(g, k) \/ GetWrongType(g, k)
      BY <2>2 DEF GetReturns, GetContinues
    <2> QED BY <2>1, <2>2 DEF GetStep, GetReturns, GetContinues
  <1> QED BY <1>1, <1>2, <1>3, <1>4 DEF Next

\* TypeInv holds in every state.
LEMMA TypeInvariance == Spec => []TypeInv
  <1>1. Init => TypeInv
    <2> SUFFICES ASSUME Init PROVE TypeInv
      OBVIOUS
    <2>1. SetOK(IdleSet) /\ GetOK(IdleGet)
      BY RestTyped
    <2>2. IdleSet \in SetState /\ IdleGet \in GetState
      BY <2>1 DEF SetOK, GetOK
    <2>3. Database(redis)
      BY DEF Init, Database, EmptyDatabase
    <2> QED BY <2>1, <2>2, <2>3, ConstantFacts DEF Init, TypeInv
  <1>2. TypeInv /\ [Next]_vars => TypeInv'
    <2> SUFFICES ASSUME TypeInv, [Next]_vars PROVE TypeInv'
      OBVIOUS
    <2>1. CASE \E s \in Setters, req \in Requests : SetStatus(s, req)
      BY <2>1, TypeSetStatus
    <2>2. CASE \E s \in Setters : SetLocal(s) \/ CommitStatus(s) \/ Publish(s)
      BY <2>2, TypeSetLocal, TypeCommit, TypePublish
    <2>3. CASE \E g \in Getters : GetReturns(g) \/ GetContinues(g)
      BY <2>3, TypeGet
    <2>4. CASE Tick \/ Crash
      BY <2>4, TypeEnvironment
    <2>5. CASE UNCHANGED vars
      BY <2>5 DEF vars, TypeInv, Database
    <2> QED BY <2>1, <2>2, <2>3, <2>4, <2>5, NextCases
  <1> QED BY <1>1, <1>2, PTL DEF Spec

\* Handlers, database, topic and clock keep their types in every interleaving:
\* in particular no publish is tried more than RetryMax + 1 times, and every
\* event goes to the partition of the user of a request.
THEOREM TypeCorrect == Spec => []TypeOK
  <1>1. TypeInv => TypeOK
    BY DEF TypeInv, TypeOK, Database
  <1> QED BY <1>1, TypeInvariance, PTL

-----------------------------------------------------------------------------
(***************************************************************************)
(* Store before announcing.  EventsOnlyAfterCommit is not inductive: it    *)
(* says nothing of an event that is about to be published.  PublishInv     *)
(* adds that a handler which has reached sendMessage has had its status    *)
(* change executed.                                                        *)
(***************************************************************************)
PublishInv ==
    /\ EventsOnlyAfterCommit
    /\ \A s \in Setters : set[s].pc = "publish" => CommitsOf(EventOf(s)) # {}

\* Commits are only added, so an event that has one keeps it.
LEMMA CommitsKept ==
    ASSUME TypeInv, NEW e, CommitsOf(e) # {},
           commits' = commits \/ \E c : commits' = Append(commits, c)
    PROVE  CommitsOf(e)' # {}
  <1>1. PICK j \in DOMAIN commits :
           [timestamp |-> commits[j].timestamp, dev |-> commits[j].dev] = e
    BY DEF CommitsOf
  <1>2. j \in DOMAIN commits' /\ commits'[j] = commits[j]
    BY DEF TypeInv
  <1> QED BY <1>1, <1>2 DEF CommitsOf

\* A step that leaves the topic alone and brings no handler to sendMessage
\* keeps PublishInv.
LEMMA PublishKept ==
    ASSUME TypeInv, PublishInv, topic' = topic,
           commits' = commits \/ \E c : commits' = Append(commits, c),
           \A s \in Setters : set'[s].pc = "publish" =>
              set[s].pc = "publish" /\ EventOf(s)' = EventOf(s)
    PROVE  PublishInv'
  <1>1. EventsOnlyAfterCommit'
    <2> SUFFICES ASSUME NEW u \in PartitionKeys, NEW n \in DOMAIN topic[u]
                 PROVE  CommitsOf(topic[u][n])' # {}
      BY DEF EventsOnlyAfterCommit, PartitionKeys
    <2>1. CommitsOf(topic[u][n]) # {}
      BY DEF PublishInv, EventsOnlyAfterCommit
    <2>2. PICK e : e = topic[u][n]
      OBVIOUS
    <2>3. CommitsOf(e)' # {}
      BY <2>1, <2>2, CommitsKept
    <2> QED BY <2>2, <2>3 DEF CommitsOf
  <1>2. ASSUME NEW s \in Setters, set'[s].pc = "publish"
        PROVE  CommitsOf(EventOf(s))' # {}
    <2>1. PICK e : e = EventOf(s)
      OBVIOUS
    <2>2. CommitsOf(e) # {} /\ EventOf(s)' = e
      BY <1>2, <2>1 DEF PublishInv
    <2>3. CommitsOf(e)' # {}
      BY <2>2, CommitsKept
    <2> QED BY <2>2, <2>3 DEF CommitsOf
  <1> QED BY <1>1, <1>2 DEF PublishInv

\* The write is executed: the handler that goes on to publish has its commit.
LEMMA PublishCommit ==
    ASSUME TypeInv, PublishInv, NEW s \in Setters, CommitStatus(s)
    PROVE  PublishInv'
  <1> DEFINE c == [key |-> set[s].key, dev |-> set[s].dev, timestamp |-> set[s].timestamp]
  <1>1. commits' = Append(commits, c) /\ topic' = topic
    BY DEF CommitStatus
  <1>2. /\ set \in [Setters -> SetState] /\ commits \in Seq(Commit)
    BY DEF TypeInv
  <1>3. set[s] \in SetState /\ c \in Commit
    <2>1. set[s].pc \in Running
      BY DEF CommitStatus, Running
    <2> QED BY <2>1, RunningFacts DEF Commit
  <1>4. /\ Len(commits) + 1 \in DOMAIN commits' /\ commits'[Len(commits) + 1] = c
    BY <1>1, <1>2, <1>3
  <1>5. CommitsOf(EventOf(s))' # {} \/ set'[s].pc # "publish"
    <2>1. CASE set' = [set EXCEPT ![s].pc = "publish"]
      <3>1. set'[s].timestamp = set[s].timestamp /\ set'[s].dev = set[s].dev
        BY <2>1, <1>2, <1>3 DEF SetState
      <3>2. EventOf(s)' = [timestamp |-> c.timestamp, dev |-> c.dev]
        BY <3>1 DEF EventOf
      <3> QED BY <1>4, <3>2 DEF CommitsOf
    <2>2. CASE set' = [set EXCEPT ![s] = DoneSet(TRUE)]
      BY <2>2, <1>2 DEF DoneSet, IdleSet
    <2> QED BY <2>1, <2>2 DEF CommitStatus
  <1>6. \A t \in Setters : t # s => set'[t] = set[t]
    BY <1>2 DEF CommitStatus
  <1>7. ASSUME NEW e, CommitsOf(e) # {} PROVE CommitsOf(e)' # {}
    BY <1>1, <1>7, CommitsKept
  <1>8. EventsOnlyAfterCommit'
    <2> SUFFICES ASSUME NEW u \in PartitionKeys, NEW n \in DOMAIN topic[u]
                 PROVE  CommitsOf(topic[u][n])' # {}
      BY <1>1 DEF EventsOnlyAfterCommit, PartitionKeys
    <2>1. PICK e : e = topic[u][n]
      OBVIOUS
    <2>2. CommitsOf(e) # {}
      BY <2>1 DEF PublishInv, EventsOnlyAfterCommit
    <2>3. CommitsOf(e)' # {}
      BY <2>2, <1>7
    <2> QED BY <1>1, <2>1, <2>3 DEF CommitsOf
  <1>9. ASSUME NEW t \in Setters, set'[t].pc = "publish"
        PROVE  CommitsOf(EventOf(t))' # {}
    <2>1. CASE t = s
      BY <2>1, <1>5, <1>9
    <2>2. CASE t # s
      <3>1. PICK e : e = EventOf(t)
        OBVIOUS
      <3>2. EventOf(t)' = e /\ CommitsOf(e) # {}
        BY <1>6, <1>9, <2>2, <3>1 DEF EventOf, PublishInv
      <3>3. CommitsOf(e)' # {}
        BY <3>2, <1>7
      <3> QED BY <3>2, <3>3 DEF CommitsOf
    <2> QED BY <2>1, <2>2
  <1> QED BY <1>8, <1>9 DEF PublishInv

\* The event that is appended is that of a handler at sendMessage.
LEMMA PublishAppend ==
    ASSUME TypeInv, PublishInv, NEW s \in Setters, Publish(s)
    PROVE  PublishInv'
  <1>1. set[s].pc = "publish" /\ commits' = commits /\ topic' \in {topic, Produce(s)}
    BY DEF Publish, PublishEvent, RetryPublish, PublishFails
  <1>2. \A e : CommitsOf(e)' = CommitsOf(e)
    BY <1>1 DEF CommitsOf
  <1>3. CommitsOf(EventOf(s)) # {}
    BY <1>1 DEF PublishInv
  <1>4. topic \in [PartitionKeys -> Seq(Event)] /\ set \in [Setters -> SetState] /\ EventOf(s) \in Event
    BY <1>1, RunningFacts DEF TypeInv, Running
  <1>5. \A u \in PartitionKeys : \A n \in DOMAIN topic'[u] : CommitsOf(topic'[u][n]) # {}
    <2> SUFFICES ASSUME NEW u \in PartitionKeys, NEW n \in DOMAIN topic'[u]
                 PROVE  CommitsOf(topic'[u][n]) # {}
      OBVIOUS
    <2>1. ASSUME topic'[u] = topic[u] PROVE CommitsOf(topic'[u][n]) # {}
      BY <2>1 DEF PublishInv, EventsOnlyAfterCommit
    <2>2. ASSUME topic'[u] = Append(topic[u], EventOf(s))
          PROVE  CommitsOf(topic'[u][n]) # {}
      <3>1. topic[u] \in Seq(Event)
        BY <1>4
      <3>2. \/ n \in DOMAIN topic[u] /\ topic'[u][n] = topic[u][n]
            \/ topic'[u][n] = EventOf(s)
        BY <2>2, <3>1, <1>4
      <3> QED BY <3>2, <1>3 DEF PublishInv, EventsOnlyAfterCommit
    <2>3. topic'[u] = topic[u] \/ topic'[u] = Append(topic[u], EventOf(s))
      BY <1>1, <1>4 DEF Produce
    <2> QED BY <2>1, <2>2, <2>3
  <1>6. EventsOnlyAfterCommit'
    BY <1>2, <1>5 DEF EventsOnlyAfterCommit, PartitionKeys
  <1>7. \A t \in Setters : set'[t].pc = "publish" =>
           set[t].pc = "publish" /\ EventOf(t)' = EventOf(t)
    <2>1. CASE RetryPublish(s)
      <3>1. \A t \in Setters : /\ set'[t].pc = set[t].pc /\ set'[t].dev = set[t].dev
                               /\ set'[t].timestamp = set[t].timestamp
        BY <2>1, <1>4 DEF RetryPublish, SetState
      <3> QED BY <3>1 DEF EventOf
    <2>2. CASE PublishEvent(s) \/ PublishFails(s)
      <3>1. set'[s].pc = "done" /\ \A t \in Setters : t # s => set'[t] = set[t]
        BY <2>2, <1>4 DEF PublishEvent, PublishFails, DoneSet, IdleSet
      <3> QED BY <3>1 DEF EventOf
    <2> QED BY <2>1, <2>2 DEF Publish
  <1>8. \A t \in Setters : set'[t].pc = "publish" => CommitsOf(EventOf(t))' # {}
    BY <1>1, <1>7 DEF PublishInv, CommitsOf
  <1> QED BY <1>6, <1>8 DEF PublishInv

\* SetStatus never announces a change Redis has not executed, whatever fails,
\* crashes or is retried.
THEOREM StoreBeforeAnnounce == Spec => []EventsOnlyAfterCommit
  <1>1. Init => PublishInv
    BY DEF Init, PublishInv, EventsOnlyAfterCommit, IdleSet
  <1>2. TypeInv /\ PublishInv /\ [Next]_vars => PublishInv'
    <2> SUFFICES ASSUME TypeInv, PublishInv, [Next]_vars PROVE PublishInv'
      OBVIOUS
    <2>0. set \in [Setters -> SetState]
      BY DEF TypeInv
    <2>1. ASSUME NEW s \in Setters, NEW req \in Requests, SetStatus(s, req)
          PROVE  PublishInv'
      <3>1. \A t \in Setters : set'[t].pc = "publish" =>
               /\ set[t].pc = "publish"
               /\ set'[t].dev = set[t].dev /\ set'[t].timestamp = set[t].timestamp
        BY <2>0, <2>1 DEF SetStatus, SetState, IdleSet
      <3> QED BY <2>1, <3>1, PublishKept DEF SetStatus, EventOf
    <2>2. ASSUME NEW s \in Setters, SetLocal(s)
          PROVE  PublishInv'
      <3>1. /\ set'[s].pc # "publish"
            /\ \A t \in Setters : t # s => set'[t] = set[t]
        <4>1. CASE ReadBucket(s) \/ StampEvent(s)
          BY <2>0, <4>1 DEF ReadBucket, StampEvent, SetState
        <4>2. ASSUME NEW r, r.pc # "publish", set' = [set EXCEPT ![s] = r]
              PROVE  /\ set'[s].pc # "publish"
                     /\ \A t \in Setters : t # s => set'[t] = set[t]
          BY <2>0, <4>2
        <4>3. DoneSet(TRUE).pc = "done" /\ IdleSet.pc = "idle"
          BY DEF DoneSet, IdleSet
        <4> QED BY <2>2, <4>1, <4>2, <4>3 DEF SetLocal, RejectStatus, RedisFails, ReplyStatus
      <3>2. topic' = topic /\ commits' = commits
        BY <2>2 DEF SetLocal, RejectStatus, ReadBucket, StampEvent, RedisFails, ReplyStatus
      <3> QED BY <3>1, <3>2, PublishKept DEF EventOf
    <2>3. ASSUME NEW s \in Setters, CommitStatus(s) \/ Publish(s)
          PROVE  PublishInv'
      BY <2>3, PublishCommit, PublishAppend
    <2>4. ASSUME NEW g \in Getters, GetReturns(g) \/ GetContinues(g)
          PROVE  PublishInv'
      <3>1. UNCHANGED <<topic, set, commits>>
        BY <2>4 DEF GetReturns, GetContinues, RejectDevices, GetDevices, RangeBucket,
                    UnionBuckets, UnionWrongType, SkipDevice, SendDevice, ParseFails,
                    GetWrongType, GetFails, FinishDevices, ReplyDevices
      <3> QED BY <3>1, PublishKept DEF EventOf
    <2>5. CASE Tick
      <3>1. UNCHANGED <<topic, set, commits>>
        BY <2>5 DEF Tick
      <3> QED BY <3>1, PublishKept DEF EventOf
    <2>6. CASE Crash
      <3>1. UNCHANGED <<topic, commits>> /\ \A t \in Setters : set'[t].pc = "idle"
        BY <2>6 DEF Crash, IdleSet
      <3> QED BY <3>1, PublishKept
    <2>7. CASE UNCHANGED vars
      <3>1. UNCHANGED <<topic, set, commits>>
        BY <2>7 DEF vars
      <3> QED BY <3>1, PublishKept DEF EventOf
    <2> QED BY <2>1, <2>2, <2>3, <2>4, <2>5, <2>6, <2>7, NextCases
  <1>3. PublishInv => EventsOnlyAfterCommit
    BY DEF PublishInv
  <1> QED BY <1>1, <1>2, <1>3, TypeInvariance, PTL DEF Spec

-----------------------------------------------------------------------------
(* Keys. *)

\* A bucket key determines its user and its number.
LEMMA AppendInjective ==
    ASSUME NEW u \in Seq(Segment), NEW v \in Seq(Segment), NEW x, NEW y,
           Append(u, x) = Append(v, y)
    PROVE  u = v /\ x = y
  <1>1. Len(Append(u, x)) = Len(u) + 1 /\ Len(Append(v, y)) = Len(v) + 1
    OBVIOUS
  <1>2. Len(u) = Len(v)
    BY <1>1
  <1>3. x = Append(u, x)[Len(u) + 1] /\ y = Append(v, y)[Len(v) + 1]
    OBVIOUS
  <1>4. \A n \in 1 .. Len(u) : u[n] = Append(u, x)[n] /\ v[n] = Append(v, y)[n]
    BY <1>2
  <1> QED BY <1>2, <1>3, <1>4

\* The number of a bucket is the last segment of its key.
LEMMA LastOfKey ==
    ASSUME NEW u \in Seq(Segment), NEW x
    PROVE  Append(u, x)[Len(Append(u, x))] = x
  OBVIOUS

\* A type has the name WS, or its own number, which is not WS.
LEMMA TypeNames ==
    ASSUME NEW t \in Int
    PROVE  EnumName(t) = WS <=> t = 0
  BY PresenceAssumption DEF EnumName, Device_Type_name

\* The first segment of a device key is the type, the others are the id.
LEMMA DeviceKey ==
    ASSUME NEW d \in Device
    PROVE  /\ Head(makeKey(d)) = EnumName(d.type) /\ Tail(makeKey(d)) = d.id
           /\ Len(makeKey(d)) = Len(d.id) + 1
  <1>1. d.id \in Seq(Segment) /\ EnumName(d.type) \in Segment
    <2>1. d.type \in Int /\ d.id \in Seq(Segment)
      BY DEF Device
    <2> QED BY <2>1, ConstantFacts DEF EnumName, Device_Type_name
  <1>2. PICK e \in Segment : e = EnumName(d.type)
    BY <1>1
  <1>3. PICK i \in Seq(Segment) : i = d.id
    BY <1>1
  <1>4. /\ Head(<<e>> \o i) = e /\ Len(<<e>> \o i) = Len(i) + 1
        /\ Tail(<<e>> \o i) = i
    <2>1. <<e>> \o i \in Seq(Segment) /\ Len(<<e>> \o i) = Len(i) + 1
      OBVIOUS
    <2>2. \A n \in 1 .. Len(i) : (<<e>> \o i)[n + 1] = i[n]
      OBVIOUS
    <2>3. Len(Tail(<<e>> \o i)) = Len(i) /\ Tail(<<e>> \o i) \in Seq(Segment)
      BY <2>1
    <2>4. \A n \in 1 .. Len(i) : Tail(<<e>> \o i)[n] = i[n]
      BY <2>1, <2>2
    <2>5. Tail(<<e>> \o i) = i
      BY <2>3, <2>4
    <2> QED BY <2>1, <2>5
  <1> QED BY <1>2, <1>3, <1>4 DEF makeKey

\* What a key that parses is parsed into is the device it was made of, ids
\* with ":" included.
LEMMA ParsedSame ==
    ASSUME NEW d \in Device, NEW u, Parses(makeKey(d))
    PROVE  SameDevice(d, parseDevice(u, makeKey(d)))
  <1>1. d.type \in Int
    BY DEF Device
  <1>2. Head(makeKey(d)) = WS
    BY DEF Parses, Device_Type_value
  <1>3. d.type = 0
    BY <1>1, <1>2, DeviceKey, TypeNames
  <1>4. parseDevice(u, makeKey(d)).id = d.id /\ parseDevice(u, makeKey(d)).type = 0
    BY <1>2, DeviceKey DEF parseDevice, Device_Type_value
  <1> QED BY <1>3, <1>4 DEF SameDevice

\* A key that does not parse was made of a device whose type has no name.
LEMMA UnparsedType ==
    ASSUME NEW d \in Device, d.id # <<>>, ~Parses(makeKey(d))
    PROVE  d.type \notin DOMAIN Device_Type_name
  <1>1. d.type \in Int /\ d.id \in Seq(Segment)
    BY DEF Device
  <1>2. Len(makeKey(d)) >= 2
    BY <1>1, DeviceKey
  <1>3. Head(makeKey(d)) # WS
    BY <1>2 DEF Parses, Device_Type_value
  <1> QED BY <1>1, <1>3, DeviceKey, TypeNames DEF Device_Type_name

\* A device key that is a bucket key of user u is spelled as Collides says.
LEMMA KeysCollide ==
    ASSUME NEW d \in Device, d.id # <<>>, NEW u \in Seq(Segment), NEW x \in Int,
           makeKey(d) = Append(u, x)
    PROVE  Collides(d, u)
  <1>1. PICK e \in Segment : e = EnumName(d.type)
    BY ConstantFacts DEF EnumName, Device_Type_name, Device
  <1>2. PICK i \in Seq(Segment) : i = d.id /\ i # <<>>
    BY DEF Device
  <1>3. <<e>> \o i = Append(u, x)
    BY <1>1, <1>2 DEF makeKey
  <1>4. PICK n \in Nat : n = Len(i) /\ n > 0
    BY <1>2
  <1>5. Len(u) = n
    <2>1. Len(<<e>> \o i) = n + 1
      BY <1>4
    <2> QED BY <2>1, <1>3, <1>4
  <1>6. i[n] = x
    <2>1. (<<e>> \o i)[n + 1] = i[n]
      BY <1>4
    <2>2. Append(u, x)[n + 1] = x
      BY <1>5
    <2> QED BY <2>1, <2>2, <1>3
  <1>7. u = <<e>> \o SubSeq(i, 1, n - 1)
    <2> DEFINE front == SubSeq(i, 1, n - 1)
    <2>1. front \in Seq(Segment) /\ Len(front) = n - 1 /\ \A m \in 1 .. n - 1 : front[m] = i[m]
      BY <1>4
    <2> HIDE DEF front
    <2>2. <<e>> \o front \in Seq(Segment) /\ Len(<<e>> \o front) = n
      BY <2>1, <1>4
    <2>3. \A m \in 1 .. n : (<<e>> \o front)[m] = (<<e>> \o i)[m]
      <3> TAKE m \in 1 .. n
      <3>1. CASE m = 1
        BY <3>1
      <3>2. CASE m > 1
        <4>1. PICK p \in 1 .. n - 1 : m = p + 1
          BY <3>2, <1>4
        <4>2. (<<e>> \o front)[m] = front[p] /\ (<<e>> \o i)[m] = i[p]
          BY <3>2, <4>1, <2>1, <1>4
        <4>3. front[p] = i[p]
          BY <4>1, <2>1
        <4> QED BY <4>2, <4>3, Zenon
      <3>3. m = 1 \/ m > 1
        OBVIOUS
      <3> QED BY <3>1, <3>2, <3>3, Zenon
    <2>4. \A m \in 1 .. n : u[m] = (<<e>> \o i)[m]
      BY <1>3, <1>5
    <2>5. PICK v \in Seq(Segment) : v = <<e>> \o front /\ Len(v) = n
      BY <2>2
    <2>6. \A m \in 1 .. n : u[m] = v[m]
      BY <2>3, <2>4, <2>5
    <2>7. u = v
      BY <2>5, <2>6, <1>5
    <2> QED BY <2>5, <2>7 DEF front
  <1> QED BY <1>1, <1>2, <1>4, <1>6, <1>7 DEF Collides

-----------------------------------------------------------------------------
(***************************************************************************)
(* What is in Redis has been written.  A string is the user of the last    *)
(* write of its device; a set has members, each put there by a write with  *)
(* its bucket key.  The handlers on their way to such a write hold a valid *)
(* device and the key of a bucket of its user.                             *)
(***************************************************************************)
BucketKey(k, u) == \E x \in Int : k = Append(u, x)

\* The j-th write was executed for device key k, owned by u.
PutKey(j, k, u) ==
    /\ commits[j].dev.status = Device_ONLINE
    /\ commits[j].dev.user = u
    /\ makeKey(commits[j].dev) = k

HandlersHoldKeys ==
    \A s \in Setters :
        /\ set[s].pc \in Running => set[s].dev.id # <<>>
        /\ set[s].pc \in {"stamp", "redis", "publish"} => BucketKey(set[s].key, set[s].dev.user)

CommitsHoldKeys ==
    \A j \in DOMAIN commits :
        commits[j].dev.id # <<>> /\ BucketKey(commits[j].key, commits[j].dev.user)

StringsWritten ==
    \A k \in DOMAIN redis : redis[k].kind = "string" =>
        \E j \in DOMAIN commits :
            /\ PutKey(j, k, redis[k].string)
            /\ \A m \in j + 1 .. Len(commits) : makeKey(commits[m].dev) # k

SetsWritten ==
    \A k \in DOMAIN redis : redis[k].kind = "set" =>
        /\ redis[k].members # {}
        /\ \A m \in redis[k].members :
              \E j \in DOMAIN commits : commits[j].key = k /\ PutKey(j, m, commits[j].dev.user)

StoreInv == HandlersHoldKeys /\ CommitsHoldKeys /\ StringsWritten /\ SetsWritten

\* Two values that may differ in their time to live.
SameContents(v, w) == v.kind = w.kind /\ v.members = w.members /\ v.string = w.string

\* EXPIRE touches nothing but the time to live.
LEMMA ExpireContents ==
    ASSUME NEW db, Database(db), NEW key, NEW at
    PROVE  /\ DOMAIN EXPIRE(db, key, at) = DOMAIN db
           /\ \A x \in DOMAIN db : SameContents(EXPIRE(db, key, at)[x], db[x])
  <1>1. CASE key \in DOMAIN db
    <2>1. EXPIRE(db, key, at) = [db EXCEPT ![key].expires = at] /\ db[key] \in Value
      BY <1>1 DEF EXPIRE, Database
    <2> QED BY <1>1, <2>1 DEF SameContents, Value
  <1>2. CASE key \notin DOMAIN db
    BY <1>2 DEF EXPIRE, SameContents
  <1> QED BY <1>1, <1>2

\* What the transaction of SetStatus leaves under each key, also when the
\* bucket key and the device key are the same.
LEMMA OnlineEffect ==
    ASSUME Database(redis), now \in Nat, NEW b \in Seq(Segment), NEW d \in Device,
           NEW k \in DOMAIN Online(b, d)
    PROVE  /\ Online(b, d)[k].kind = "string" =>
                 \/ k = makeKey(d) /\ Online(b, d)[k].string = d.user
                 \/ /\ k # makeKey(d) /\ k \in DOMAIN redis /\ redis[k].kind = "string"
                    /\ Online(b, d)[k].string = redis[k].string
           /\ Online(b, d)[k].kind = "set" =>
                 \/ k = b /\ Online(b, d)[k].members = {makeKey(d)}
                 \/ /\ k = b /\ k \in DOMAIN redis /\ redis[k].kind = "set"
                    /\ Online(b, d)[k].members = redis[k].members \cup {makeKey(d)}
                 \/ /\ k \in DOMAIN redis /\ redis[k].kind = "set"
                    /\ Online(b, d)[k].members = redis[k].members
  <1> DEFINE m == makeKey(d)
             added == SADD(redis, b, m)
             indexed == EXPIRE(added, b, ExpiresAt(bucketTTL))
             named == SET(indexed, m, d.user)
  <1>0. Online(b, d) = EXPIRE(named, m, ExpiresAt(deviceTTL))
    BY DEF Online
  <1>1. \A x \in DOMAIN added :
           /\ added[x].kind = "string" =>
                 x \in DOMAIN redis /\ redis[x].kind = "string" /\ added[x].string = redis[x].string
           /\ added[x].kind = "set" =>
                 \/ x = b /\ added[x].members = {m}
                 \/ /\ x = b /\ x \in DOMAIN redis /\ redis[x].kind = "set"
                    /\ added[x].members = redis[x].members \cup {m}
                 \/ /\ x \in DOMAIN redis /\ redis[x].kind = "set"
                    /\ added[x].members = redis[x].members
    <2> HIDE DEF m
    <2>1. CASE IsString(redis, b)
      BY <2>1 DEF SADD
    <2>2. CASE IsSet(redis, b)
      <3>1. ~IsString(redis, b) /\ b \in DOMAIN redis /\ redis[b] \in Value
        BY <2>2 DEF IsSet, IsString, Database
      <3>2. added = [redis EXCEPT ![b].members = @ \cup {m}]
        BY <2>2, <3>1 DEF SADD
      <3> QED BY <3>1, <3>2, <2>2 DEF Value, IsSet
    <2>3. CASE ~IsString(redis, b) /\ ~IsSet(redis, b)
      <3>1. added = Store(redis, b, SetValue({m}))
        BY <2>3 DEF SADD
      <3> QED BY <3>1 DEF Store, SetValue
    <2> QED BY <2>1, <2>2, <2>3
  <1>2. m \in Seq(Segment) /\ d.user \in Seq(Segment)
    BY DeviceKeyTyped DEF Device
  <1>3. ExpiresAt(bucketTTL) \in Int /\ ExpiresAt(deviceTTL) \in Int
    BY ConstantFacts DEF ExpiresAt, bucketTTL, deviceTTL
  <1>4. Database(added) /\ Database(indexed) /\ Database(named)
    BY <1>2, <1>3, SaddTyped, ExpireTyped, SetTyped
  <1> HIDE DEF m, added
  <1>5. /\ DOMAIN indexed = DOMAIN added
        /\ \A x \in DOMAIN added : SameContents(indexed[x], added[x])
    BY <1>4, ExpireContents
  <1> HIDE DEF indexed
  <1>6. named = [x \in DOMAIN indexed \cup {m} |-> IF x = m THEN StringValue(d.user) ELSE indexed[x]]
    BY DEF SET, Store
  <1> HIDE DEF named
  <1>7. /\ DOMAIN Online(b, d) = DOMAIN named
        /\ \A x \in DOMAIN named : SameContents(Online(b, d)[x], named[x])
    BY <1>0, <1>4, ExpireContents
  <1>8. k \in DOMAIN named /\ SameContents(Online(b, d)[k], named[k])
    BY <1>7
  <1>9. CASE k = m
    BY <1>6, <1>8, <1>9 DEF StringValue, SameContents, m
  <1>10. CASE k # m
    <2>1. k \in DOMAIN added /\ SameContents(Online(b, d)[k], added[k])
      BY <1>5, <1>6, <1>8, <1>10 DEF SameContents
    <2> QED BY <1>1, <1>10, <2>1 DEF SameContents, m
  <1> QED BY <1>9, <1>10

\* The times to live are no shorter than that of a bucket.
LEMMA LiveLong ==
    ASSUME now \in Nat, NEW x \in Int, x <= now
    PROVE  /\ bucketTTL * Second \in Nat \ {0}
           /\ ExpiresAt(bucketTTL) \in Int /\ ExpiresAt(deviceTTL) \in Int
           /\ ExpiresAt(bucketTTL) >= x + bucketTTL * Second
           /\ ExpiresAt(deviceTTL) >= x + bucketTTL * Second
  <1>1. /\ BucketSize \in Nat \ {0} /\ Second \in Nat \ {0} /\ NumBuckets \in Nat \ {0}
    BY PresenceAssumption, ConstantFacts
  <1>2. PICK m \in Nat \ {0} : m = BucketSize * Second
    BY <1>1
  <1>3. PICK n \in Nat : NumBuckets = 1 + n
    BY <1>1
  <1>4. PICK p \in Nat : p = n * m
    BY <1>2, <1>3
  <1>5. (NumBuckets * BucketSize) * Second = m + p
    <2>1. (NumBuckets * BucketSize) * Second = NumBuckets * m
      BY <1>1, <1>2
    <2>2. NumBuckets * m = m + n * m
      BY <1>2, <1>3
    <2> QED BY <2>1, <2>2, <1>4
  <1>6. ExpiresAt(bucketTTL) = now + m /\ ExpiresAt(deviceTTL) = now + (m + p)
    BY <1>2, <1>5 DEF ExpiresAt, bucketTTL, deviceTTL
  <1>7. bucketTTL * Second = m
    BY <1>2 DEF bucketTTL
  <1> QED BY <1>2, <1>4, <1>6, <1>7

\* What the transaction of SetStatus does to the string of another device,
\* the key of which may be its bucket key: only its time to live may change.
LEMMA OnlineSpares ==
    ASSUME Database(redis), now \in Nat, NEW b \in Seq(Segment), NEW d \in Device,
           NEW k, IsString(redis, k), k # makeKey(d)
    PROVE  /\ IsString(Online(b, d), k) /\ Online(b, d)[k].string = redis[k].string
           /\ Online(b, d)[k].expires \in {redis[k].expires, ExpiresAt(bucketTTL)}
  <1> DEFINE added == SADD(redis, b, makeKey(d))
             indexed == EXPIRE(added, b, ExpiresAt(bucketTTL))
             named == SET(indexed, makeKey(d), d.user)
  <1>1. k \in DOMAIN redis /\ redis[k].kind = "string" /\ redis[k] \in Value
    BY DEF IsString, Database
  <1>2. k \in DOMAIN added /\ added[k] = redis[k]
    <2>1. CASE IsString(redis, b)
      <3>1. ~IsSet(redis, b)
        BY <2>1 DEF IsString, IsSet
      <3> QED BY <1>1, <2>1, <3>1 DEF SADD
    <2>2. CASE IsSet(redis, b)
      <3>1. ~IsString(redis, b) /\ k # b
        BY <1>1, <2>2 DEF IsSet, IsString
      <3>2. added = [redis EXCEPT ![b].members = @ \cup {makeKey(d)}]
        BY <2>2, <3>1 DEF SADD
      <3> QED BY <1>1, <3>1, <3>2
    <2>3. CASE ~IsString(redis, b) /\ ~IsSet(redis, b)
      <3>1. k # b /\ added = Store(redis, b, SetValue({makeKey(d)}))
        BY <2>3 DEF SADD
      <3> QED BY <1>1, <3>1 DEF Store
    <2> QED BY <2>1, <2>2, <2>3
  <1> HIDE DEF added
  <1>3. /\ k \in DOMAIN indexed /\ indexed[k].kind = "string"
        /\ indexed[k].string = redis[k].string
        /\ indexed[k].expires \in {redis[k].expires, ExpiresAt(bucketTTL)}
    <2>1. CASE b \in DOMAIN added
      <3>1. indexed = [added EXCEPT ![b].expires = ExpiresAt(bucketTTL)]
        BY <2>1 DEF EXPIRE
      <3>2. CASE k = b
        <4>1. indexed[k] = [redis[k] EXCEPT !.expires = ExpiresAt(bucketTTL)]
          BY <1>2, <3>1, <3>2
        <4> QED BY <1>1, <1>2, <3>1, <4>1 DEF Value
      <3>3. CASE k # b
        BY <1>1, <1>2, <3>1, <3>3
      <3> QED BY <3>2, <3>3
    <2>2. CASE b \notin DOMAIN added
      BY <1>1, <1>2, <2>2 DEF EXPIRE
    <2> QED BY <2>1, <2>2
  <1> HIDE DEF indexed
  <1>4. k \in DOMAIN named /\ named[k] = indexed[k]
    BY <1>3 DEF SET, Store
  <1> HIDE DEF named
  <1>5. Online(b, d) = EXPIRE(named, makeKey(d), ExpiresAt(deviceTTL))
    BY DEF Online, named, indexed, added
  <1>6. k \in DOMAIN Online(b, d) /\ Online(b, d)[k] = named[k]
    BY <1>4, <1>5 DEF EXPIRE
  <1> QED BY <1>3, <1>4, <1>6 DEF IsString

\* What it leaves under the key of its own device.
LEMMA OnlineSets ==
    ASSUME NEW b, NEW d
    PROVE  /\ IsString(Online(b, d), makeKey(d))
           /\ Online(b, d)[makeKey(d)].string = d.user
           /\ Online(b, d)[makeKey(d)].expires = ExpiresAt(deviceTTL)
  <1> DEFINE named == SET(EXPIRE(SADD(redis, b, makeKey(d)), b, ExpiresAt(bucketTTL)),
                          makeKey(d), d.user)
  <1>1. makeKey(d) \in DOMAIN named /\ named[makeKey(d)] = StringValue(d.user)
    BY DEF SET, Store
  <1> HIDE DEF named
  <1>2. Online(b, d) = [named EXCEPT ![makeKey(d)].expires = ExpiresAt(deviceTTL)]
    BY <1>1 DEF Online, EXPIRE, named
  <1>3. /\ makeKey(d) \in DOMAIN Online(b, d)
        /\ Online(b, d)[makeKey(d)]
              = [StringValue(d.user) EXCEPT !.expires = ExpiresAt(deviceTTL)]
    BY <1>1, <1>2
  <1> QED BY <1>3 DEF StringValue, IsString

\* Writes are only added.
Grows == commits' = commits \/ \E c : commits' = Append(commits, c)

LEMMA GrowFacts ==
    ASSUME TypeInv, Grows
    PROVE  /\ Len(commits) \in Nat /\ Len(commits)' \in Nat /\ Len(commits) <= Len(commits)'
           /\ DOMAIN commits = 1 .. Len(commits) /\ DOMAIN commits' = 1 .. Len(commits)'
           /\ \A j \in DOMAIN commits : j \in DOMAIN commits' /\ commits'[j] = commits[j]
  BY DEF TypeInv, Grows

\* What the writes hold.
LEMMA CommitFacts ==
    ASSUME TypeInv, NEW j \in DOMAIN commits
    PROVE  /\ j \in Nat /\ commits[j] \in Commit /\ commits[j].dev \in Device
           /\ commits[j].dev.user \in Seq(Segment) /\ commits[j].key \in Seq(Segment)
           /\ makeKey(commits[j].dev) \in Seq(Segment)
  <1>1. j \in Nat /\ commits[j] \in Commit
    BY DEF TypeInv
  <1>2. commits[j].dev \in Device /\ commits[j].key \in Seq(Segment)
    BY <1>1 DEF Commit
  <1> QED BY <1>1, <1>2, DeviceKeyTyped DEF Device

\* A step that executes no write keeps what is known of the writes, when it
\* leaves under every key what was there.
LEMMA StoreKept ==
    ASSUME TypeInv, StoreInv, commits' = commits,
           \A k \in DOMAIN redis' : k \in DOMAIN redis /\ redis'[k] = redis[k],
           HandlersHoldKeys'
    PROVE  StoreInv'
  <1>1. CommitsHoldKeys'
    BY DEF StoreInv, CommitsHoldKeys
  <1>2. StringsWritten'
    BY DEF StoreInv, StringsWritten, PutKey
  <1>3. SetsWritten'
    BY DEF StoreInv, SetsWritten, PutKey
  <1> QED BY <1>1, <1>2, <1>3 DEF StoreInv

\* A handler that goes on with the device and the key it has.
LEMMA HandlersKept ==
    ASSUME HandlersHoldKeys,
           \A s \in Setters :
              \/ set'[s].pc \notin Running
              \/ /\ set[s].pc \in Running /\ set'[s].dev = set[s].dev
                 /\ set'[s].pc \in {"stamp", "redis", "publish"} =>
                       \/ set[s].pc \in {"stamp", "redis", "publish"} /\ set'[s].key = set[s].key
                       \/ BucketKey(set'[s].key, set[s].dev.user)
              \/ set'[s].pc = "bucket" /\ set'[s].dev.id # <<>>
    PROVE  HandlersHoldKeys'
  <1> SUFFICES ASSUME NEW s \in Setters
               PROVE  /\ set'[s].pc \in Running => set'[s].dev.id # <<>>
                      /\ set'[s].pc \in {"stamp", "redis", "publish"} =>
                            BucketKey(set'[s].key, set'[s].dev.user)
    BY DEF HandlersHoldKeys, BucketKey
  <1> QED BY DEF HandlersHoldKeys, Running

\* The number of a bucket is an integer.
LEMMA BucketNumber ==
    ASSUME NEW t \in Int, NEW u, NEW o \in Int
    PROVE  /\ Index(BucketWithOffset(t, u, BucketSize, o)) \in Int
           /\ String(BucketWithOffset(t, u, BucketSize, o))
                 = Append(u, Index(BucketWithOffset(t, u, BucketSize, o)))
           /\ Index(BucketWithOffset(t, u, BucketSize, o))
                 = ((t + o * BucketSize) \div Second) \div (BucketSize \div Second)
  <1>1. Second \in Nat \ {0} /\ BucketSize \in Nat /\ BucketSize >= Second
    BY ConstantFacts
  <1>2. BucketWithOffset(t, u, BucketSize, o)
          = [prefix |-> u, timestamp |-> t + o * BucketSize, bucketSize |-> BucketSize]
    BY <1>1 DEF BucketWithOffset
  <1>3. PICK x \in Int : x = t + o * BucketSize
    BY <1>1
  <1>4. BucketSize \div Second \in Nat \ {0} /\ x \div Second \in Int
    BY <1>1, SecondsOfSize, DivFacts
  <1>5. (x \div Second) \div (BucketSize \div Second) \in Int
    BY <1>4, DivFacts
  <1> QED BY <1>2, <1>3, <1>5 DEF Index, String

\* The write of CommitStatus: under every key there is what was there, or what
\* this write put there.
LEMMA StoreCommit ==
    ASSUME TypeInv, StoreInv, NEW s \in Setters, CommitStatus(s)
    PROVE  StoreInv'
  <1>0. PICK b, d, c, n :
          /\ b = set[s].key /\ d = set[s].dev /\ n = Len(commits) + 1
          /\ c = [key |-> set[s].key, dev |-> set[s].dev, timestamp |-> set[s].timestamp]
    OBVIOUS
  <1>1. /\ set[s].pc \in Running /\ set[s].pc = "redis"
        /\ d \in Device /\ b \in Seq(Segment) /\ d.user \in Seq(Segment)
        /\ d.id # <<>> /\ BucketKey(b, d.user)
    BY <1>0, RunningFacts DEF CommitStatus, Running, StoreInv, HandlersHoldKeys
  <1>2. commits' = Append(commits, c) /\ redis' = WriteStatus(b, d)
    BY <1>0 DEF CommitStatus
  <1>3. /\ n \in DOMAIN commits' /\ commits'[n] = c /\ Len(commits') = n
        /\ DOMAIN commits = 1 .. n - 1 /\ DOMAIN commits' = 1 .. n /\ n \in Nat \ {0}
        /\ \A j \in DOMAIN commits : j \in DOMAIN commits' /\ commits'[j] = commits[j]
    BY <1>0, <1>2 DEF TypeInv
  <1>4. c.key = b /\ c.dev = d
    BY <1>0
  <1>5. CommitsHoldKeys'
    <2> SUFFICES ASSUME NEW j \in DOMAIN commits'
                 PROVE  commits'[j].dev.id # <<>> /\ BucketKey(commits'[j].key, commits'[j].dev.user)
      BY DEF CommitsHoldKeys, BucketKey
    <2>1. j = n \/ j \in DOMAIN commits
      BY <1>3
    <2> QED BY <2>1, <1>1, <1>3, <1>4 DEF StoreInv, CommitsHoldKeys
  <1>6. HandlersHoldKeys'
    <2>1. set \in [Setters -> SetState] /\ set[s] \in SetState
      BY DEF TypeInv
    <2>2. \A t \in Setters : t # s => set'[t] = set[t]
      BY <2>1 DEF CommitStatus
    <2>3. \/ set'[s].pc \notin Running
          \/ set'[s].dev = set[s].dev /\ set'[s].key = set[s].key
      <3>1. CASE set' = [set EXCEPT ![s].pc = "publish"]
        BY <3>1, <2>1 DEF SetState
      <3>2. CASE set' = [set EXCEPT ![s] = DoneSet(TRUE)]
        BY <3>2, <2>1 DEF DoneSet, IdleSet, Running
      <3> QED BY <3>1, <3>2 DEF CommitStatus
    <2>4. set[s].pc \in {"stamp", "redis", "publish"}
      BY <1>1
    <2>5. HandlersHoldKeys
      BY DEF StoreInv
    <2> QED BY <2>2, <2>3, <2>4, <2>5, <1>1, HandlersKept
  <1>7. ASSUME NEW k, NEW u, k # makeKey(d), k \in DOMAIN redis, redis[k].kind = "string",
               u = redis[k].string
        PROVE  \E j \in DOMAIN commits' :
                  /\ PutKey(j, k, u)'
                  /\ \A m \in j + 1 .. Len(commits)' : makeKey(commits'[m].dev) # k
    <2>1. PICK j \in DOMAIN commits :
            /\ PutKey(j, k, u)
            /\ \A m \in j + 1 .. Len(commits) : makeKey(commits[m].dev) # k
      BY <1>7 DEF StoreInv, StringsWritten
    <2>2. j \in DOMAIN commits' /\ PutKey(j, k, u)'
      BY <2>1, <1>3 DEF PutKey
    <2>3. ASSUME NEW m \in j + 1 .. n PROVE makeKey(commits'[m].dev) # k
      <3>1. CASE m = n
        BY <3>1, <1>3, <1>4, <1>7
      <3>2. CASE m # n
        <4>1. j \in 1 .. n - 1 /\ n \in Nat
          BY <1>3
        <4>2. m \in j + 1 .. Len(commits) /\ m \in DOMAIN commits
          BY <3>2, <4>1, <1>3
        <4> QED BY <4>2, <2>1, <1>3
      <3> QED BY <3>1, <3>2
    <2> QED BY <2>2, <2>3, <1>3
  <1>8. ASSUME NEW k, k \in DOMAIN redis, redis[k].kind = "set", NEW m \in redis[k].members
        PROVE  \E j \in DOMAIN commits' :
                  commits'[j].key = k /\ PutKey(j, m, commits[j].dev.user)'
    <2>1. PICK j \in DOMAIN commits : commits[j].key = k /\ PutKey(j, m, commits[j].dev.user)
      BY <1>8 DEF StoreInv, SetsWritten
    <2> QED BY <2>1, <1>3 DEF PutKey
  <1>9. d.status = Device_ONLINE => PutKey(n, makeKey(d), d.user)'
    BY <1>3, <1>4 DEF PutKey
  <1>10. ASSUME NEW k \in DOMAIN redis'
         PROVE  /\ redis'[k].kind = "string" =>
                      \/ k = makeKey(d) /\ redis'[k].string = d.user /\ d.status = Device_ONLINE
                      \/ /\ k # makeKey(d) /\ k \in DOMAIN redis /\ redis[k].kind = "string"
                         /\ redis'[k].string = redis[k].string
                /\ redis'[k].kind = "set" =>
                      \/ k = b /\ redis'[k].members = {makeKey(d)} /\ d.status = Device_ONLINE
                      \/ /\ k = b /\ k \in DOMAIN redis /\ redis[k].kind = "set"
                         /\ redis'[k].members = redis[k].members \cup {makeKey(d)}
                         /\ d.status = Device_ONLINE
                      \/ /\ k \in DOMAIN redis /\ redis[k].kind = "set"
                         /\ redis'[k].members = redis[k].members
    <2>1. CASE d.status = Device_ONLINE
      <3>1. redis' = Online(b, d)
        BY <1>2, <2>1 DEF WriteStatus
      <3>2. Database(redis) /\ now \in Nat
        BY DEF TypeInv
      <3> QED BY <2>1, <3>1, <3>2, <1>1, <1>10, OnlineEffect
    <2>2. CASE d.status # Device_ONLINE
      <3>1. redis' = DEL(redis, makeKey(d))
        BY <1>2, <2>2 DEF WriteStatus
      <3> QED BY <3>1, <1>10 DEF DEL
    <2> QED BY <2>1, <2>2
  <1>11. StringsWritten'
    <2> SUFFICES ASSUME NEW k \in DOMAIN redis', NEW u, redis'[k].kind = "string",
                        u = redis'[k].string
                 PROVE  \E j \in DOMAIN commits' :
                           /\ PutKey(j, k, u)'
                           /\ \A m \in j + 1 .. Len(commits)' : makeKey(commits'[m].dev) # k
      BY DEF StringsWritten, PutKey
    <2>1. CASE k = makeKey(d) /\ redis'[k].string = d.user /\ d.status = Device_ONLINE
      <3>1. PutKey(n, k, u)'
        BY <2>1, <1>9 DEF PutKey
      <3> QED BY <3>1, <1>3
    <2>2. CASE /\ k # makeKey(d) /\ k \in DOMAIN redis /\ redis[k].kind = "string"
               /\ redis'[k].string = redis[k].string
      BY <2>2, <1>7 DEF PutKey
    <2> QED BY <2>1, <2>2, <1>10
  <1>12. SetsWritten'
    <2> SUFFICES ASSUME NEW k \in DOMAIN redis', redis'[k].kind = "set"
                 PROVE  /\ redis'[k].members # {}
                        /\ \A m \in redis'[k].members :
                              \E j \in DOMAIN commits' :
                                 commits'[j].key = k /\ PutKey(j, m, commits[j].dev.user)'
      BY DEF SetsWritten
    <2>1. k \in DOMAIN redis /\ redis[k].kind = "set" => redis[k].members # {}
      BY DEF StoreInv, SetsWritten
    <2>2. redis'[k].members # {}
      BY <2>1, <1>10
    <2>3. ASSUME NEW m \in redis'[k].members
          PROVE  \E j \in DOMAIN commits' :
                    commits'[j].key = k /\ PutKey(j, m, commits[j].dev.user)'
      <3>1. CASE k = b /\ m = makeKey(d) /\ d.status = Device_ONLINE
        <4>1. commits'[n].key = k /\ PutKey(n, m, commits[n].dev.user)'
          BY <3>1, <1>3, <1>4, <1>9 DEF PutKey
        <4> QED BY <4>1, <1>3
      <3>2. CASE k \in DOMAIN redis /\ redis[k].kind = "set" /\ m \in redis[k].members
        BY <3>2, <1>8
      <3> QED BY <3>1, <3>2, <1>10
    <2> QED BY <2>2, <2>3
  <1> QED BY <1>5, <1>6, <1>11, <1>12 DEF StoreInv

\* The steps of SetStatus that execute no write.
LEMMA StoreSetStep ==
    ASSUME TypeInv, StoreInv, NEW s \in Setters,
           (\E req \in Requests : SetStatus(s, req)) \/ SetLocal(s) \/ Publish(s)
    PROVE  StoreInv'
  <1>1. redis' = redis /\ commits' = commits
    BY DEF SetStatus, SetLocal, Publish, RejectStatus, ReadBucket, StampEvent, RedisFails,
           ReplyStatus, PublishEvent, RetryPublish, PublishFails
  <1>2. HandlersHoldKeys /\ set \in [Setters -> SetState] /\ set[s] \in SetState /\ now \in Int
    BY DEF StoreInv, TypeInv
  <1>3. HandlersHoldKeys'
    <2>1. CASE \E req \in Requests : SetStatus(s, req)
      <3>1. PICK req \in Requests : SetStatus(s, req)
        BY <2>1
      <3>2. req.id # <<>>
        BY <3>1 DEF SetStatus, Valid
      <3>3. set'[s].pc = "bucket" /\ set'[s].dev = req
        BY <3>1 DEF SetStatus, IdleSet
      <3>4. \A t \in Setters : t # s => /\ set'[t].pc = set[t].pc /\ set'[t].dev = set[t].dev
                                        /\ set'[t].key = set[t].key
        BY <1>2, <3>1 DEF SetStatus, SetState
      <3> QED BY <1>2, <3>2, <3>3, <3>4, HandlersKept DEF Running
    <2>2. CASE ReadBucket(s)
      <3>1. set[s].pc = "bucket"
        BY <2>2 DEF ReadBucket
      <3>2. set[s].pc \in Running
        BY <3>1 DEF Running
      <3>3. /\ \A t \in Setters : t # s => set'[t] = set[t]
            /\ set'[s].dev = set[s].dev
            /\ set'[s].key = String(CurrentBucket(now, set[s].dev.user, BucketSize))
        BY <1>2, <2>2 DEF ReadBucket, SetState
      <3>4. BucketKey(set'[s].key, set[s].dev.user)
        BY <1>2, <3>3, BucketNumber DEF CurrentBucket, BucketKey
      <3> QED BY <1>2, <3>2, <3>3, <3>4, HandlersKept
    <2>3. CASE StampEvent(s) \/ RetryPublish(s)
      <3>1. /\ set[s].pc \in {"stamp", "publish"} /\ set'[s].dev = set[s].dev /\ set'[s].key = set[s].key
            /\ \A t \in Setters : t # s => set'[t] = set[t]
        BY <1>2, <2>3 DEF StampEvent, RetryPublish, SetState
      <3>2. set[s].pc \in Running
        BY <3>1 DEF Running
      <3> QED BY <1>2, <3>1, <3>2, HandlersKept
    <2>4. CASE \/ \E req \in Requests : RejectStatus(s, req)
               \/ RedisFails(s) \/ ReplyStatus(s) \/ PublishEvent(s) \/ PublishFails(s)
      <3>1. set'[s].pc \in {"idle", "done"} /\ \A t \in Setters : t # s => set'[t] = set[t]
        <4>1. /\ IdleSet.pc = "idle" /\ DoneSet(TRUE).pc = "done" /\ DoneSet(FALSE).pc = "done"
          BY DEF DoneSet, IdleSet
        <4>2. PICK r \in {IdleSet, DoneSet(TRUE), DoneSet(FALSE)} : set' = [set EXCEPT ![s] = r]
          BY <2>4 DEF RejectStatus, RedisFails, ReplyStatus, PublishEvent, PublishFails
        <4>3. r.pc \in {"idle", "done"}
          BY <4>1
        <4> QED BY <1>2, <4>2, <4>3
      <3>2. set'[s].pc \notin Running
        BY <3>1 DEF Running
      <3> QED BY <1>2, <3>1, <3>2, HandlersKept
    <2> QED BY <2>1, <2>2, <2>3, <2>4 DEF SetLocal, Publish
  <1> QED BY <1>1, <1>3, StoreKept

\* StoreInv holds in every state.
LEMMA StoreInvariance == Spec => []StoreInv
  <1>1. Init => StoreInv
    BY DEF Init, StoreInv, HandlersHoldKeys, CommitsHoldKeys, StringsWritten, SetsWritten,
           EmptyDatabase, IdleSet, Running
  <1>2. TypeInv /\ StoreInv /\ [Next]_vars => StoreInv'
    <2> SUFFICES ASSUME TypeInv, StoreInv, [Next]_vars PROVE StoreInv'
      OBVIOUS
    <2>1. CASE \/ \E s \in Setters, req \in Requests : SetStatus(s, req)
               \/ \E s \in Setters : SetLocal(s) \/ CommitStatus(s) \/ Publish(s)
      BY <2>1, StoreSetStep, StoreCommit
    <2>2. CASE (\E g \in Getters : GetReturns(g) \/ GetContinues(g)) \/ UNCHANGED vars
      <3>1. UNCHANGED <<redis, set, commits>>
        BY <2>2 DEF GetReturns, GetContinues, RejectDevices, GetDevices, RangeBucket,
                    UnionBuckets, UnionWrongType, SkipDevice, SendDevice, ParseFails,
                    GetWrongType, GetFails, FinishDevices, ReplyDevices, vars
      <3>2. HandlersHoldKeys'
        BY <3>1 DEF StoreInv, HandlersHoldKeys
      <3> QED BY <3>1, <3>2, StoreKept
    <2>3. CASE Tick
      <3>1. UNCHANGED <<set, commits>> /\ \A k \in DOMAIN redis' : k \in DOMAIN redis /\ redis'[k] = redis[k]
        BY <2>3 DEF Tick, Evict
      <3>2. HandlersHoldKeys'
        BY <3>1 DEF StoreInv, HandlersHoldKeys
      <3> QED BY <3>1, <3>2, StoreKept
    <2>4. CASE Crash
      <3>1. UNCHANGED <<redis, commits>> /\ \A s \in Setters : set'[s].pc = "idle"
        BY <2>4 DEF Crash, IdleSet
      <3>2. HandlersHoldKeys'
        BY <3>1 DEF HandlersHoldKeys, Running
      <3> QED BY <3>1, <3>2, StoreKept
    <2> QED BY <2>1, <2>2, <2>3, <2>4, NextCases
  <1> QED BY <1>1, <1>2, TypeInvariance, PTL DEF Spec

-----------------------------------------------------------------------------
(***************************************************************************)
(* A GetDevices call.  Its keys are bucket keys of its user, within the    *)
(* window that ends at the call's start; so each device it has still to    *)
(* visit was put online for its user within that window; and what it has   *)
(* streamed, or failed with, is what the properties say.                   *)
(***************************************************************************)
InWindow(x, begin) == x >= BucketOf(begin) - NumBuckets

KeysInWindow(r) ==
    \A n \in DOMAIN r.keys :
        \E x \in Int : r.keys[n] = Append(r.user, x) /\ InWindow(x, r.begin)

TodoIndexed(r) ==
    \A k \in r.todo :
        \E j \in DOMAIN commits : PutKey(j, k, r.user) /\ InWindow(BucketOfCommit(j), r.begin)

NotStale(r) ==
    \A d \in r.sent :
        \E j \in DOMAIN commits : PutOnline(j, r.user, d) /\ InWindow(BucketOfCommit(j), r.begin)

WasOnline(r) ==
    \A d \in r.sent : \E n \in r.mark .. Len(commits) : OnlineAfter(n, d.user, d)

HandedOver(r) ==
    \A d \in r.sent : d.user # r.user =>
        \E i, j \in DOMAIN commits : i < j /\ PutOnline(i, r.user, d) /\ PutOnline(j, d.user, d)

ParseExplained(r) ==
    r.err = "parse" =>
        \E j \in DOMAIN commits :
            /\ commits[j].dev.type \notin DOMAIN Device_Type_name
            /\ PutOnline(j, r.user, commits[j].dev)

WrongTypeExplained(r) ==
    r.err = "wrongtype" =>
        \E i, j \in DOMAIN commits :
            /\ commits[i].dev.status = Device_ONLINE
            /\ Collides(commits[i].dev, r.user) \/ Collides(commits[i].dev, commits[j].dev.user)

ReadOK(r) ==
    /\ r.begin <= now /\ r.mark <= Len(commits)
    /\ KeysInWindow(r) /\ TodoIndexed(r)
    /\ NotStale(r) /\ WasOnline(r) /\ HandedOver(r)
    /\ ParseExplained(r) /\ WrongTypeExplained(r)

ReadInv == \A g \in Getters : ReadOK(get[g])

\* What holds of a call goes on to hold while time passes and writes are added.
LEMMA ReadGrows ==
    ASSUME TypeInv, Grows, now \in Nat, now' \in Nat, now <= now',
           NEW r \in GetState, ReadOK(r)
    PROVE  ReadOK(r)'
  <1>1. /\ Len(commits) \in Nat /\ Len(commits)' \in Nat /\ Len(commits) <= Len(commits)'
        /\ DOMAIN commits = 1 .. Len(commits) /\ DOMAIN commits' = 1 .. Len(commits)'
        /\ \A j \in DOMAIN commits : j \in DOMAIN commits' /\ commits'[j] = commits[j]
    BY GrowFacts
  <1>2. r.begin \in Nat /\ r.mark \in Nat
    BY DEF GetState
  <1>3. (r.begin <= now /\ r.mark <= Len(commits))'
    BY <1>1, <1>2 DEF ReadOK
  <1>4. KeysInWindow(r)' /\ TodoIndexed(r)'
    BY <1>1 DEF ReadOK, KeysInWindow, TodoIndexed, PutKey, BucketOfCommit
  <1>5. NotStale(r)' /\ HandedOver(r)'
    BY <1>1 DEF ReadOK, NotStale, HandedOver, PutOnline, BucketOfCommit
  <1>6. WasOnline(r)'
    <2> SUFFICES ASSUME NEW d \in r.sent
                 PROVE  \E n \in r.mark .. Len(commits)' : OnlineAfter(n, d.user, d)'
      BY DEF WasOnline
    <2>1. PICK n \in r.mark .. Len(commits) : OnlineAfter(n, d.user, d)
      BY DEF ReadOK, WasOnline
    <2>2. \A m \in 1 .. n : m \in DOMAIN commits /\ commits'[m] = commits[m]
      BY <1>1, <1>2
    <2>3. OnlineAfter(n, d.user, d)'
      <3>1. PICK j \in 1 .. n :
              PutOnline(j, d.user, d) /\ \A m \in j + 1 .. n : ~SameDevice(commits[m].dev, d)
        BY <2>1 DEF OnlineAfter
      <3>2. \A m \in j + 1 .. n : m \in 1 .. n
        BY <1>1, <1>2
      <3>3. PutOnline(j, d.user, d)'
        BY <2>2, <3>1 DEF PutOnline
      <3>4. \A m \in j + 1 .. n : ~SameDevice(commits'[m].dev, d)
        BY <2>2, <3>1, <3>2
      <3> QED BY <3>3, <3>4 DEF OnlineAfter
    <2>4. n \in r.mark .. Len(commits)'
      BY <1>1, <1>2
    <2> QED BY <2>3, <2>4
  <1>7. ParseExplained(r)' /\ WrongTypeExplained(r)'
    BY <1>1 DEF ReadOK, ParseExplained, WrongTypeExplained, PutOnline
  <1> QED BY <1>3, <1>4, <1>5, <1>6, <1>7 DEF ReadOK

-----------------------------------------------------------------------------
(* The keys of BucketRange. *)

\* Adding a multiple of the divisor adds the multiple to the quotient.
LEMMA DivShift ==
    ASSUME NEW a \in Int, NEW q \in Int, NEW d \in Nat \ {0}
    PROVE  (a + q * d) \div d = (a \div d) + q
  <1>1. PICK m \in Int : m = q * d
    OBVIOUS
  <1>2. (a + m) \div d = (a \div d) + q
    BY <1>1, SMTT(20)
  <1> QED BY <1>1, <1>2

\* A bucket that is i buckets from the current one has a number that is i
\* from the current number: the bucket size is a whole number of seconds.
LEMMA OffsetNumber ==
    ASSUME NEW t \in Int, NEW u, NEW i \in Int
    PROVE  Index(BucketWithOffset(t, u, BucketSize, i)) = BucketOf(t) + i
  <1>1. /\ Second \in Nat \ {0} /\ BucketSize \in Nat /\ BucketSize >= Second
        /\ BucketSize % Second = 0
    BY ConstantFacts, PresenceAssumption
  <1>2. PICK w \in Nat \ {0} : w = BucketSize \div Second
    BY <1>1, SecondsOfSize
  <1>3. BucketSize = w * Second
    BY <1>1, <1>2
  <1>4. PICK x \in Int : x = t \div Second
    BY <1>1, DivFacts
  <1>5. PICK q \in Int : q = i * w
    OBVIOUS
  <1>6. i * BucketSize = q * Second
    BY <1>1, <1>3, <1>5
  <1>7. (t + q * Second) \div Second = x + q
    BY <1>1, <1>4, DivShift
  <1>8. (x + q) \div w = (x \div w) + i
    BY <1>5, DivShift
  <1>9. Index(BucketWithOffset(t, u, BucketSize, i)) = (x \div w) + i
    BY <1>2, <1>6, <1>7, <1>8, BucketNumber
  <1>10. BucketOf(t) = x \div w
    <2>1. t + 0 * BucketSize = t
      BY <1>1
    <2> QED BY <2>1, <1>2, <1>4, BucketNumber DEF BucketOf, CurrentBucket
  <1> QED BY <1>9, <1>10

\* Buckets are numbered in the order of time.
LEMMA BucketOrder ==
    ASSUME NEW t \in Int, NEW v \in Int, t <= v
    PROVE  BucketOf(t) \in Int /\ BucketOf(v) \in Int /\ BucketOf(t) <= BucketOf(v)
  <1>1. Second \in Nat \ {0} /\ BucketSize \in Int /\ BucketSize >= Second
    BY ConstantFacts
  <1>2. t + 0 * BucketSize = t /\ v + 0 * BucketSize = v
    BY <1>1
  <1>3. /\ BucketOf(t) = (t \div Second) \div (BucketSize \div Second)
        /\ BucketOf(v) = (v \div Second) \div (BucketSize \div Second)
    BY <1>2, BucketNumber DEF BucketOf, CurrentBucket
  <1>4. BucketOf(t) \in Int /\ BucketOf(v) \in Int
    BY BucketNumber DEF BucketOf, CurrentBucket
  <1> QED BY <1>1, <1>3, <1>4, NumberMonotone

-----------------------------------------------------------------------------
(* The steps of a GetDevices handler. *)

\* What a reader is known by when its range, its commits and its stream are
\* what they were and it has no more to visit.
LEMMA ReadKept ==
    ASSUME NEW q, NEW r, ReadOK(q),
           r.user = q.user, r.begin = q.begin, r.mark = q.mark, r.keys = q.keys,
           r.sent = q.sent, r.todo \subseteq q.todo,
           ParseExplained(r), WrongTypeExplained(r)
    PROVE  ReadOK(r)
  BY DEF ReadOK, KeysInWindow, TodoIndexed, NotStale, WasOnline, HandedOver

\* A reader that has not found anything yet.
LEMMA ReadStarts ==
    ASSUME TypeInv, NEW r, r.begin \in Nat, r.begin <= now, r.mark <= Len(commits),
           r.keys = <<>>, r.todo = {}, r.sent = {}, r.err = "none"
    PROVE  ReadOK(r)
  BY DEF ReadOK, KeysInWindow, TodoIndexed, NotStale, WasOnline, HandedOver, ParseExplained,
         WrongTypeExplained

\* One iteration of BucketRange: its bucket may be later than the call's
\* window, because the clock has moved on, but not earlier.
LEMMA ReadRange ==
    ASSUME TypeInv, ReadInv, NEW g \in Getters, RangeBucket(g)
    PROVE  \E r : ReadOK(r) /\ get' = [get EXCEPT ![g] = r]
  <1>1. PICK q \in GetState : q = get[g]
    BY DEF TypeInv
  <1>2. ReadOK(q) /\ q.i \in FirstOffset .. 1 /\ q.user \in Seq(Segment)
        /\ q.keys \in Seq(Seq(Segment)) /\ q.begin \in Nat /\ now \in Nat
    BY <1>1 DEF ReadInv, GetState, TypeInv
  <1>3. /\ q.i \in Int /\ q.i >= -NumBuckets /\ NumBuckets \in Nat
        /\ now \in Int /\ q.begin \in Int /\ q.begin <= now
    BY <1>2, ConstantFacts DEF FirstOffset, ReadOK
  <1> DEFINE b == BucketWithOffset(now, q.user, BucketSize, q.i)
  <1>4. PICK x \in Int : x = Index(b) /\ String(b) = Append(q.user, x)
    BY <1>2, <1>3, BucketNumber
  <1>5. InWindow(x, q.begin)
    <2>1. x = BucketOf(now) + q.i
      BY <1>2, <1>3, <1>4, OffsetNumber
    <2>2. BucketOf(q.begin) \in Int /\ BucketOf(now) \in Int /\ BucketOf(q.begin) <= BucketOf(now)
      <3>1. PICK t \in Int : t = q.begin /\ t <= now
        BY <1>3
      <3> QED BY <1>3, <3>1, BucketOrder
    <2> QED BY <2>1, <2>2, <1>3 DEF InWindow
  <1>6. PICK key \in Seq(Segment) : key = String(b) /\ key = Append(q.user, x)
    <2>1. String(b) \in Seq(Segment)
      BY <1>2, <1>3, BucketKeyTyped
    <2> QED BY <1>4, <2>1
  <1>7. PICK pc \in {"range", "sunion"} : pc = IF q.i = 0 THEN "sunion" ELSE "range"
    OBVIOUS
  <1> DEFINE r == [q EXCEPT !.keys = Append(@, key), !.i = @ + 1, !.pc = pc]
  <1>8. get' = [get EXCEPT ![g] = r]
    BY <1>1, <1>6, <1>7 DEF RangeBucket, TypeInv
  <1>9. /\ r.user = q.user /\ r.begin = q.begin /\ r.mark = q.mark /\ r.sent = q.sent
        /\ r.todo = q.todo /\ r.err = q.err /\ r.keys = Append(q.keys, key)
    BY DEF GetState
  <1> HIDE DEF r, b
  <1>10. KeysInWindow(r)
    <2> SUFFICES ASSUME NEW n \in DOMAIN Append(q.keys, key)
                 PROVE  \E y \in Int : /\ Append(q.keys, key)[n] = Append(q.user, y)
                                       /\ InWindow(y, q.begin)
      BY <1>9 DEF KeysInWindow
    <2>1. CASE n = Len(q.keys) + 1
      <3>1. Append(q.keys, key)[n] = key
        BY <2>1, <1>2
      <3> QED BY <3>1, <1>5, <1>6
    <2>2. CASE n # Len(q.keys) + 1
      <3>1. n \in DOMAIN q.keys /\ Append(q.keys, key)[n] = q.keys[n]
        BY <2>2, <1>2
      <3> QED BY <3>1, <1>2 DEF ReadOK, KeysInWindow
    <2> QED BY <2>1, <2>2
  <1>11. ReadOK(r)
    BY <1>2, <1>9, <1>10 DEF ReadOK, TodoIndexed, NotStale, WasOnline, HandedOver,
           ParseExplained, WrongTypeExplained
  <1> QED BY <1>8, <1>11

\* What the SUNION returns was written with bucket keys of the user, within
\* the window.
LEMMA ReadUnion ==
    ASSUME TypeInv, StoreInv, ReadInv, NEW g \in Getters, UnionBuckets(g)
    PROVE  \E r : ReadOK(r) /\ get' = [get EXCEPT ![g] = r]
  <1>1. PICK q \in GetState : q = get[g]
    BY DEF TypeInv
  <1>2. ReadOK(q) /\ q.user \in Seq(Segment)
    BY <1>1 DEF ReadInv, GetState
  <1>3. PICK todo : todo = SUNION(redis, KeySet(g))
    OBVIOUS
  <1> DEFINE r == [q EXCEPT !.pc = "stream", !.todo = todo]
  <1>4. get' = [get EXCEPT ![g] = r]
    BY <1>1, <1>3 DEF UnionBuckets, TypeInv
  <1>5. /\ r.user = q.user /\ r.begin = q.begin /\ r.mark = q.mark /\ r.sent = q.sent
        /\ r.keys = q.keys /\ r.err = q.err /\ r.todo = todo
    BY DEF GetState
  <1> HIDE DEF r
  <1>6. ASSUME NEW m \in todo
        PROVE  \E j \in DOMAIN commits :
                  PutKey(j, m, q.user) /\ InWindow(BucketOfCommit(j), q.begin)
    <2>1. PICK k \in KeySet(g) \cap DOMAIN redis : m \in redis[k].members
      BY <1>3 DEF SUNION
    <2>2. redis[k].kind = "set"
      <3>1. ~IsString(redis, k) /\ redis[k] \in Value
        BY <2>1 DEF UnionBuckets, TypeInv, Database
      <3> QED BY <2>1, <3>1 DEF IsString, Value
    <2>3. PICK n \in DOMAIN q.keys : k = q.keys[n]
      BY <1>1, <2>1 DEF KeySet
    <2>4. PICK x \in Int : k = Append(q.user, x) /\ InWindow(x, q.begin)
      BY <1>2, <2>3 DEF ReadOK, KeysInWindow
    <2>5. PICK j \in DOMAIN commits : commits[j].key = k /\ PutKey(j, m, commits[j].dev.user)
      BY <2>1, <2>2 DEF StoreInv, SetsWritten
    <2>6. PICK u \in Seq(Segment) : u = commits[j].dev.user
      BY CommitFacts
    <2>7. PICK y \in Int : k = Append(u, y)
      BY <2>5, <2>6 DEF StoreInv, CommitsHoldKeys, BucketKey
    <2>8. u = q.user
      BY <2>4, <2>7, <1>2, AppendInjective
    <2>9. BucketOfCommit(j) = x
      BY <2>4, <2>5, <1>2, LastOfKey DEF BucketOfCommit
    <2> QED BY <2>4, <2>5, <2>6, <2>8, <2>9
  <1>7. TodoIndexed(r)
    BY <1>5, <1>6 DEF TodoIndexed
  <1>8. ReadOK(r)
    BY <1>2, <1>5, <1>7 DEF ReadOK, KeysInWindow, NotStale, WasOnline, HandedOver,
           ParseExplained, WrongTypeExplained
  <1> QED BY <1>4, <1>8

\* A device is sent: its key was indexed for the user within the window, and
\* the string under it is that of the last write of the device.
LEMMA ReadSend ==
    ASSUME TypeInv, StoreInv, ReadInv, NEW g \in Getters, NEW k \in get[g].todo,
           SendDevice(g, k)
    PROVE  \E r : ReadOK(r) /\ get' = [get EXCEPT ![g] = r]
  <1>1. PICK q \in GetState : q = get[g]
    BY DEF TypeInv
  <1>2. ReadOK(q) /\ k \in q.todo
    BY <1>1 DEF ReadInv
  <1>3. k \in DOMAIN redis /\ redis[k].kind = "string" /\ Parses(k)
    BY DEF SendDevice, IsString
  <1>4. PICK u : u = redis[k].string
    OBVIOUS
  <1>5. PICK d : d = parseDevice(u, k) /\ d.user = u
    <2>1. parseDevice(u, k).user = u
      BY DEF parseDevice
    <2> QED BY <2>1
  <1>6. PICK i \in DOMAIN commits : PutKey(i, k, q.user) /\ InWindow(BucketOfCommit(i), q.begin)
    BY <1>2 DEF ReadOK, TodoIndexed
  <1>7. PICK j \in DOMAIN commits :
          PutKey(j, k, u) /\ \A m \in j + 1 .. Len(commits) : makeKey(commits[m].dev) # k
    BY <1>3, <1>4 DEF StoreInv, StringsWritten
  <1>8. \A m \in DOMAIN commits : makeKey(commits[m].dev) = k => SameDevice(commits[m].dev, d)
    BY <1>3, <1>5, CommitFacts, ParsedSame
  <1>9. PutOnline(i, q.user, d) /\ PutOnline(j, u, d)
    BY <1>6, <1>7, <1>8 DEF PutKey, PutOnline
  <1>10. \A m \in DOMAIN commits : SameDevice(commits[m].dev, d) => makeKey(commits[m].dev) = k
    <2>1. commits[j].dev.id = d.id /\ commits[j].dev.type = d.type /\ makeKey(commits[j].dev) = k
      BY <1>7, <1>9 DEF PutOnline, PutKey, SameDevice
    <2> QED BY <2>1 DEF makeKey, SameDevice
  <1>11. PICK n \in Nat : n = Len(commits) /\ DOMAIN commits = 1 .. n
    BY DEF TypeInv
  <1>12. OnlineAfter(n, u, d)
    <2>1. j \in 1 .. n /\ \A m \in j + 1 .. n : m \in DOMAIN commits
      BY <1>11
    <2> QED BY <1>7, <1>9, <1>10, <1>11, <2>1 DEF OnlineAfter
  <1>13. u # q.user => i < j
    <2> SUFFICES ASSUME u # q.user, j <= i PROVE FALSE
      BY <1>11
    <2>1. i # j
      BY <1>6, <1>7 DEF PutKey
    <2>2. i \in j + 1 .. n
      BY <2>1, <1>11
    <2> QED BY <2>2, <1>6, <1>7, <1>11 DEF PutKey
  <1> DEFINE r == [q EXCEPT !.sent = @ \cup {d}, !.todo = @ \ {k}]
  <1>14. get' = [get EXCEPT ![g] = r]
    BY <1>1, <1>4, <1>5 DEF SendDevice, TypeInv
  <1>15. /\ r.user = q.user /\ r.begin = q.begin /\ r.mark = q.mark /\ r.keys = q.keys
         /\ r.err = q.err /\ r.todo \subseteq q.todo /\ r.sent = q.sent \cup {d}
    BY DEF GetState
  <1> HIDE DEF r
  <1>16. NotStale(r)
    BY <1>2, <1>6, <1>9, <1>15 DEF ReadOK, NotStale
  <1>17. WasOnline(r)
    <2>1. q.mark \in Nat /\ q.mark <= n
      BY <1>2, <1>11 DEF ReadOK, GetState
    <2>2. n \in q.mark .. Len(commits)
      BY <2>1, <1>11
    <2>3. \E m \in r.mark .. Len(commits) : OnlineAfter(m, d.user, d)
      BY <2>2, <1>5, <1>12, <1>15
    <2> QED BY <2>3, <1>2, <1>15 DEF ReadOK, WasOnline
  <1>18. HandedOver(r)
    <2>1. d.user # r.user =>
            \E x, y \in DOMAIN commits : x < y /\ PutOnline(x, r.user, d) /\ PutOnline(y, d.user, d)
      BY <1>5, <1>9, <1>13, <1>15
    <2> QED BY <2>1, <1>2, <1>15 DEF ReadOK, HandedOver
  <1>19. KeysInWindow(r) /\ TodoIndexed(r) /\ ParseExplained(r) /\ WrongTypeExplained(r)
    BY <1>2, <1>15 DEF ReadOK, KeysInWindow, TodoIndexed, ParseExplained, WrongTypeExplained
  <1>20. ReadOK(r)
    BY <1>2, <1>15, <1>16, <1>17, <1>18, <1>19 DEF ReadOK
  <1> QED BY <1>14, <1>20

\* What Returned leaves of the handler.
LEMMA ReturnedFacts ==
    ASSUME NEW g \in Getters, NEW q \in GetState, q = get[g], NEW err
    PROVE  /\ Returned(g, err).user = q.user /\ Returned(g, err).begin = q.begin
           /\ Returned(g, err).mark = q.mark /\ Returned(g, err).keys = q.keys
           /\ Returned(g, err).sent = q.sent /\ Returned(g, err).todo = {}
           /\ Returned(g, err).err = err
  BY DEF Returned, GetState

\* A call that returns nil, or an error that is neither of those below.
LEMMA ReadReturns ==
    ASSUME TypeInv, ReadInv, NEW g \in Getters, NEW err \in {"none", "request", "io"}
    PROVE  ReadOK(Returned(g, err))
  <1>1. PICK q \in GetState : q = get[g]
    BY DEF TypeInv
  <1>2. ReadOK(q)
    BY <1>1 DEF ReadInv
  <1>3. PICK r : r = Returned(g, err)
    OBVIOUS
  <1>4. /\ r.user = q.user /\ r.begin = q.begin /\ r.mark = q.mark /\ r.keys = q.keys
        /\ r.sent = q.sent /\ r.todo = {} /\ r.err \in {"none", "request", "io"}
    BY <1>1, <1>3, ReturnedFacts
  <1>5. ParseExplained(r) /\ WrongTypeExplained(r) /\ r.todo \subseteq q.todo
    BY <1>4 DEF ParseExplained, WrongTypeExplained
  <1>6. ReadOK(r)
    BY <1>2, <1>4, <1>5, ReadKept
  <1> QED BY <1>3, <1>6

\* parseDevice fails: the device was put online with a type without a name.
LEMMA ReadParseFails ==
    ASSUME TypeInv, StoreInv, ReadInv, NEW g \in Getters, NEW k \in get[g].todo,
           ParseFails(g, k)
    PROVE  ReadOK(Returned(g, "parse"))
  <1>1. PICK q \in GetState : q = get[g]
    BY DEF TypeInv
  <1>2. ReadOK(q) /\ k \in q.todo
    BY <1>1 DEF ReadInv
  <1>3. PICK r : r = Returned(g, "parse")
    OBVIOUS
  <1>4. /\ r.user = q.user /\ r.begin = q.begin /\ r.mark = q.mark /\ r.keys = q.keys
        /\ r.sent = q.sent /\ r.todo = {} /\ r.err = "parse"
    BY <1>1, <1>3, ReturnedFacts
  <1>5. PICK j \in DOMAIN commits : PutKey(j, k, q.user)
    BY <1>2 DEF ReadOK, TodoIndexed
  <1>6. PICK d \in Device : d = commits[j].dev /\ d.id # <<>> /\ makeKey(d) = k
    BY <1>5, CommitFacts DEF PutKey, StoreInv, CommitsHoldKeys
  <1>7. d.type \notin DOMAIN Device_Type_name
    BY <1>6, UnparsedType DEF ParseFails
  <1>8. PutOnline(j, q.user, commits[j].dev)
    BY <1>5 DEF PutKey, PutOnline, SameDevice
  <1>9. ParseExplained(r)
    BY <1>4, <1>6, <1>7, <1>8 DEF ParseExplained
  <1>10. WrongTypeExplained(r) /\ r.todo \subseteq q.todo
    BY <1>4 DEF WrongTypeExplained
  <1>11. ReadOK(r)
    BY <1>2, <1>4, <1>9, <1>10, ReadKept
  <1> QED BY <1>3, <1>11

\* A bucket key turns out to be a string, or a device key a set.
LEMMA ReadWrongType ==
    ASSUME TypeInv, StoreInv, ReadInv, NEW g \in Getters,
           UnionWrongType(g) \/ \E k \in get[g].todo : GetWrongType(g, k)
    PROVE  ReadOK(Returned(g, "wrongtype"))
  <1>1. PICK q \in GetState : q = get[g]
    BY DEF TypeInv
  <1>2. ReadOK(q) /\ q.user \in Seq(Segment)
    BY <1>1 DEF ReadInv, GetState
  <1>3. PICK r : r = Returned(g, "wrongtype")
    OBVIOUS
  <1>4. /\ r.user = q.user /\ r.begin = q.begin /\ r.mark = q.mark /\ r.keys = q.keys
        /\ r.sent = q.sent /\ r.todo = {} /\ r.err = "wrongtype"
    BY <1>1, <1>3, ReturnedFacts
  <1>5. ASSUME NEW i \in DOMAIN commits, NEW k, NEW u \in Seq(Segment), BucketKey(k, u),
               commits[i].dev.status = Device_ONLINE, makeKey(commits[i].dev) = k
        PROVE  commits[i].dev.status = Device_ONLINE /\ Collides(commits[i].dev, u)
    <2>1. PICK d \in Device : d = commits[i].dev /\ d.id # <<>> /\ makeKey(d) = k
      BY <1>5, CommitFacts DEF StoreInv, CommitsHoldKeys
    <2>2. PICK x \in Int : k = Append(u, x)
      BY <1>5 DEF BucketKey
    <2>3. Collides(d, u)
      BY <2>1, <2>2, KeysCollide
    <2> QED BY <1>5, <2>1, <2>3
  <1>6. \E i, j \in DOMAIN commits :
          /\ commits[i].dev.status = Device_ONLINE
          /\ Collides(commits[i].dev, q.user) \/ Collides(commits[i].dev, commits[j].dev.user)
    <2>1. CASE UnionWrongType(g)
      <3>1. PICK k \in KeySet(g) : k \in DOMAIN redis /\ redis[k].kind = "string"
        BY <2>1 DEF UnionWrongType, IsString
      <3>2. PICK n \in DOMAIN q.keys : k = q.keys[n]
        BY <1>1 DEF KeySet
      <3>3. BucketKey(k, q.user)
        BY <1>2, <3>2 DEF ReadOK, KeysInWindow, BucketKey
      <3>4. PICK i \in DOMAIN commits : PutKey(i, k, redis[k].string)
        BY <3>1 DEF StoreInv, StringsWritten
      <3>5. commits[i].dev.status = Device_ONLINE /\ makeKey(commits[i].dev) = k
        BY <3>4 DEF PutKey
      <3>6. commits[i].dev.status = Device_ONLINE /\ Collides(commits[i].dev, q.user)
        BY <1>2, <1>5, <3>3, <3>5
      <3> QED BY <3>6
    <2>2. CASE \E k \in get[g].todo : GetWrongType(g, k)
      <3>1. PICK k \in q.todo : k \in DOMAIN redis /\ redis[k].kind = "set"
        BY <1>1, <2>2 DEF GetWrongType, IsSet
      <3>2. PICK i \in DOMAIN commits : PutKey(i, k, q.user)
        BY <1>2 DEF ReadOK, TodoIndexed
      <3>3. PICK m : m \in redis[k].members
        BY <3>1 DEF StoreInv, SetsWritten
      <3>4. PICK j \in DOMAIN commits : commits[j].key = k
        BY <3>1, <3>3 DEF StoreInv, SetsWritten
      <3>5. commits[j].dev.user \in Seq(Segment) /\ BucketKey(k, commits[j].dev.user)
        BY <3>4, CommitFacts DEF StoreInv, CommitsHoldKeys
      <3>6. commits[i].dev.status = Device_ONLINE /\ makeKey(commits[i].dev) = k
        BY <3>2 DEF PutKey
      <3>7. commits[i].dev.status = Device_ONLINE /\ Collides(commits[i].dev, commits[j].dev.user)
        BY <1>5, <3>5, <3>6
      <3> QED BY <3>7
    <2> QED BY <2>1, <2>2
  <1>7. WrongTypeExplained(r)
    BY <1>4, <1>6 DEF WrongTypeExplained
  <1>8. ParseExplained(r) /\ r.todo \subseteq q.todo
    BY <1>4 DEF ParseExplained
  <1>9. ReadOK(r)
    BY <1>2, <1>4, <1>7, <1>8, ReadKept
  <1> QED BY <1>3, <1>9

\* A step of one handler only has to leave that handler as ReadOK says.
LEMMA ReadGet ==
    ASSUME TypeInv, StoreInv, ReadInv, NEW g \in Getters, GetReturns(g) \/ GetContinues(g)
    PROVE  ReadInv'
  <1>1. UNCHANGED <<now, commits>>
    BY DEF GetReturns, GetContinues, RejectDevices, GetDevices, RangeBucket, UnionBuckets,
           UnionWrongType, SkipDevice, SendDevice, ParseFails, GetWrongType, GetFails,
           FinishDevices, ReplyDevices
  <1>2. get' \in [Getters -> GetState]
    BY TypeGet DEF TypeInv
  <1>3. \E r : ReadOK(r) /\ get' = [get EXCEPT ![g] = r]
    <2>1. CASE \/ \E u \in QueryUsers : RejectDevices(g, u)
               \/ GetFails(g) \/ FinishDevices(g)
      <3>1. PICK err \in {"none", "request", "io"} : get' = [get EXCEPT ![g] = Returned(g, err)]
        BY <2>1 DEF RejectDevices, GetFails, FinishDevices
      <3> QED BY <3>1, ReadReturns
    <2>2. CASE UnionWrongType(g) \/ \E k \in get[g].todo : GetWrongType(g, k)
      <3>1. get' = [get EXCEPT ![g] = Returned(g, "wrongtype")]
        BY <2>2 DEF UnionWrongType, GetWrongType
      <3> QED BY <2>2, <3>1, ReadWrongType
    <2>3. CASE \E k \in get[g].todo : ParseFails(g, k)
      <3>1. get' = [get EXCEPT ![g] = Returned(g, "parse")]
        BY <2>3 DEF ParseFails
      <3> QED BY <2>3, <3>1, ReadParseFails
    <2>4. CASE \E u \in QueryUsers : GetDevices(g, u)
      <3>1. PICK u \in QueryUsers : GetDevices(g, u)
        BY <2>4
      <3>2. PICK r : r = [IdleGet EXCEPT !.pc = "range", !.user = u, !.i = FirstOffset,
                                         !.begin = now, !.mark = Len(commits)]
        OBVIOUS
      <3>3. /\ r.begin = now /\ r.mark = Len(commits) /\ r.keys = <<>> /\ r.todo = {}
            /\ r.sent = {} /\ r.err = "none"
        BY <3>2 DEF IdleGet
      <3>4. now \in Nat /\ Len(commits) \in Nat
        BY DEF TypeInv
      <3>5. ReadOK(r)
        BY <3>3, <3>4, ReadStarts
      <3> QED BY <3>1, <3>2, <3>5 DEF GetDevices
    <2>5. CASE ReplyDevices(g)
      <3>1. PICK r : r = IdleGet
        OBVIOUS
      <3>2. /\ r.begin = 0 /\ r.mark = 0 /\ r.keys = <<>> /\ r.todo = {}
            /\ r.sent = {} /\ r.err = "none"
        BY <3>1 DEF IdleGet
      <3>3. now \in Nat /\ Len(commits) \in Nat
        BY DEF TypeInv
      <3>4. ReadOK(r)
        BY <3>2, <3>3, ReadStarts
      <3> QED BY <2>5, <3>1, <3>4 DEF ReplyDevices
    <2>6. CASE RangeBucket(g)
      BY <2>6, ReadRange
    <2>7. CASE UnionBuckets(g)
      BY <2>7, ReadUnion
    <2>8. CASE \E k \in get[g].todo : SkipDevice(g, k)
      <3>1. PICK k \in get[g].todo : SkipDevice(g, k)
        BY <2>8
      <3>2. PICK q \in GetState : q = get[g] /\ ReadOK(q)
        BY DEF TypeInv, ReadInv
      <3>3. PICK r : r = [q EXCEPT !.todo = @ \ {k}]
        OBVIOUS
      <3>4. /\ r.user = q.user /\ r.begin = q.begin /\ r.mark = q.mark /\ r.keys = q.keys
            /\ r.sent = q.sent /\ r.todo \subseteq q.todo /\ r.err = q.err
        BY <3>3 DEF GetState
      <3>5. ParseExplained(r) /\ WrongTypeExplained(r)
        BY <3>2, <3>4 DEF ReadOK, ParseExplained, WrongTypeExplained
      <3>6. ReadOK(r)
        BY <3>2, <3>4, <3>5, ReadKept
      <3>7. get' = [get EXCEPT ![g] = r]
        BY <3>1, <3>2, <3>3 DEF SkipDevice, TypeInv
      <3> QED BY <3>6, <3>7
    <2>9. CASE \E k \in get[g].todo : SendDevice(g, k)
      BY <2>9, ReadSend
    <2> QED BY <2>1, <2>2, <2>3, <2>4, <2>5, <2>6, <2>7, <2>8, <2>9 DEF GetReturns, GetContinues
  <1>4. ASSUME NEW h \in Getters PROVE ReadOK(get[h])'
    <2>1. PICK r \in GetState : r = get'[h]
      BY <1>2
    <2>2. ReadOK(r)
      BY <1>3, <2>1 DEF ReadInv, TypeInv
    <2>3. now \in Nat /\ now' \in Nat /\ now <= now' /\ Grows
      BY <1>1 DEF TypeInv, Grows
    <2>4. ReadOK(r)'
      BY <2>2, <2>3, ReadGrows
    <2> QED BY <2>1, <2>4 DEF ReadOK, KeysInWindow, TodoIndexed, NotStale, WasOnline,
                   HandedOver, ParseExplained, WrongTypeExplained
  <1> QED BY <1>4 DEF ReadInv

\* ReadInv holds in every state.
LEMMA ReadInvariance == Spec => []ReadInv
  <1>1. Init => ReadInv
    <2> SUFFICES ASSUME Init, NEW g \in Getters PROVE ReadOK(get[g])
      BY DEF ReadInv
    <2>1. get[g] = IdleGet /\ now \in Nat /\ commits = <<>>
      BY ConstantFacts DEF Init
    <2> QED BY <2>1 DEF IdleGet, ReadOK, KeysInWindow, TodoIndexed, NotStale, WasOnline,
                        HandedOver, ParseExplained, WrongTypeExplained
  <1>2. TypeInv /\ StoreInv /\ ReadInv /\ [Next]_vars => ReadInv'
    <2> SUFFICES ASSUME TypeInv, StoreInv, ReadInv, [Next]_vars PROVE ReadInv'
      OBVIOUS
    <2>1. CASE \E g \in Getters : GetReturns(g) \/ GetContinues(g)
      BY <2>1, ReadGet
    <2>2. CASE get' = get /\ now' \in Nat /\ now <= now' /\ Grows
      <3> SUFFICES ASSUME NEW g \in Getters PROVE ReadOK(get[g])'
        BY DEF ReadInv
      <3>1. PICK r \in GetState : r = get[g] /\ r = get'[g] /\ ReadOK(r)
        BY <2>2 DEF TypeInv, ReadInv
      <3>2. ReadOK(r)'
        BY <2>2, <3>1, ReadGrows DEF TypeInv
      <3> QED BY <3>1, <3>2 DEF ReadOK, KeysInWindow, TodoIndexed, NotStale, WasOnline,
                     HandedOver, ParseExplained, WrongTypeExplained
    <2>3. CASE \/ \E s \in Setters, req \in Requests : SetStatus(s, req)
               \/ \E s \in Setters : SetLocal(s) \/ CommitStatus(s) \/ Publish(s)
               \/ UNCHANGED vars
      <3>1. get' = get /\ now' = now /\ Grows
        BY <2>3 DEF SetStatus, SetLocal, Publish, RejectStatus, ReadBucket, StampEvent,
               RedisFails, ReplyStatus, PublishEvent, RetryPublish, PublishFails,
               CommitStatus, vars, Grows
      <3> QED BY <3>1, <2>2 DEF TypeInv
    <2>4. CASE Tick
      <3>1. get' = get /\ now' = now + TickSize /\ commits' = commits /\ now \in Nat
        BY <2>4 DEF Tick, TypeInv
      <3> QED BY <3>1, <2>2, ConstantFacts DEF Grows
    <2>5. CASE Crash
      <3> SUFFICES ASSUME NEW g \in Getters PROVE ReadOK(get[g])'
        BY DEF ReadInv
      <3>1. get'[g] = IdleGet /\ now' = now /\ commits' = commits /\ now \in Nat
              /\ Len(commits) \in Nat
        BY <2>5 DEF Crash, TypeInv
      <3> QED BY <3>1 DEF IdleGet, ReadOK, KeysInWindow, TodoIndexed, NotStale, WasOnline,
                          HandedOver, ParseExplained, WrongTypeExplained
    <2> QED BY <2>1, <2>3, <2>4, <2>5, NextCases
  <1> QED BY <1>1, <1>2, TypeInvariance, StoreInvariance, PTL DEF Spec

-----------------------------------------------------------------------------
\* GetDevices reports no stale device: whatever writers, clock and crashes do
\* while it computes its bucket keys, every device it streams was put online
\* for its user no more than NumBuckets buckets before the call started.
THEOREM NothingStale == Spec => []NoStaleDevice
  <1>1. ReadInv => NoStaleDevice
    BY DEF ReadInv, ReadOK, NotStale, NoStaleDevice, InWindow
  <1> QED BY <1>1, ReadInvariance, PTL

\* Every device GetDevices streams was online, and belonged to the user the
\* stream names, at some moment of the call.
THEOREM StreamedOnline == Spec => []StreamedWasOnline
  <1>1. ReadInv => StreamedWasOnline
    BY DEF ReadInv, ReadOK, WasOnline, StreamedWasOnline
  <1> QED BY <1>1, ReadInvariance, PTL

\* GetDevices names another user than the one asked for only after the device
\* was handed over to that user.
THEOREM ForeignHandedOver == Spec => []ForeignOnlyAfterHandover
  <1>1. ReadInv => ForeignOnlyAfterHandover
    BY DEF ReadInv, ReadOK, HandedOver, ForeignOnlyAfterHandover
  <1> QED BY <1>1, ReadInvariance, PTL

\* parseDevice fails only on the key of a device with a type that has no name.
THEOREM ParseErrorExplained == Spec => []ParseErrorOnlyFromUnknownType
  <1>1. ReadInv => ParseErrorOnlyFromUnknownType
    BY DEF ReadInv, ReadOK, ParseExplained, ParseErrorOnlyFromUnknownType
  <1> QED BY <1>1, ReadInvariance, PTL

\* GetDevices meets a value of the wrong kind only when a device key is
\* spelled like a bucket key.
THEOREM WrongTypeExplainedAlways == Spec => []WrongTypeOnlyFromCollision
  <1>1. ReadInv => WrongTypeOnlyFromCollision
    BY DEF ReadInv, ReadOK, WrongTypeExplained, WrongTypeOnlyFromCollision
  <1> QED BY <1>1, ReadInvariance, PTL

-----------------------------------------------------------------------------
(***************************************************************************)
(* Nobody is missed.  A write stays in sight while its bucket is in the    *)
(* window.  So long, its bucket holds the key of its device (unless a      *)
(* device key took the bucket's place), and the device's key holds its     *)
(* user (unless the device was taken offline or handed over): the times to *)
(* live outlast the window, however late Redis executed the write.         *)
(***************************************************************************)
Horizon(b) == (b + NumBuckets + 1) * BucketSize

InSight(j) == BucketOfCommit(j) >= BucketOf(now) - NumBuckets

NoCollision(u) == \A m \in DOMAIN commits : ~Collides(commits[m].dev, u)

Untouched(j) ==
    LET d == commits[j].dev IN
    \A m \in j + 1 .. Len(commits) : SameDevice(commits[m].dev, d) => PutOnline(m, d.user, d)

NumberOf(k) == k[Len(k)]

KeysPast ==
    /\ \A s \in Setters : set[s].pc \in {"stamp", "redis", "publish"} =>
          NumberOf(set[s].key) <= BucketOf(now)
    /\ \A j \in DOMAIN commits : BucketOfCommit(j) <= BucketOf(now)

Indexed(j) ==
    /\ IsSet(redis, commits[j].key)
    /\ makeKey(commits[j].dev) \in redis[commits[j].key].members
    /\ redis[commits[j].key].expires >= Horizon(BucketOfCommit(j))

Alive(j) ==
    LET k == makeKey(commits[j].dev) IN
    /\ IsString(redis, k) /\ redis[k].string = commits[j].dev.user
    /\ redis[k].expires >= Horizon(BucketOfCommit(j))

KeptInSight ==
    \A j \in DOMAIN commits : commits[j].dev.status = Device_ONLINE /\ InSight(j) =>
        /\ NoCollision(commits[j].dev.user) => Indexed(j)
        /\ Untouched(j) => Alive(j)

FreshInv == KeysPast /\ KeptInSight

\* A product grows with its factor.
LEMMA Scale ==
    ASSUME NEW a \in Int, NEW b \in Int, NEW s \in Nat, a <= b
    PROVE  a * s <= b * s
  <1>1. PICK c \in Nat : b = a + c
    <2>1. b - a \in Nat /\ b = a + (b - a)
      OBVIOUS
    <2> QED BY <2>1
  <1>2. PICK p \in Nat : p = c * s
    OBVIOUS
  <1>3. b * s = a * s + p
    BY <1>1, <1>2
  <1> QED BY <1>2, <1>3

\* The times of a bucket.
LEMMA BucketBounds ==
    ASSUME NEW t \in Int
    PROVE  /\ BucketOf(t) \in Int
           /\ BucketOf(t) * BucketSize <= t /\ t < (BucketOf(t) + 1) * BucketSize
  <1>1. /\ Second \in Nat \ {0} /\ BucketSize \in Nat /\ BucketSize >= Second
        /\ BucketSize % Second = 0
    BY ConstantFacts, PresenceAssumption
  <1>2. PICK w \in Nat \ {0} : w = BucketSize \div Second
    BY <1>1, SecondsOfSize
  <1>3. BucketSize = w * Second
    BY <1>1, <1>2
  <1>4. PICK x \in Int : x = t \div Second /\ Second * x <= t /\ t < Second * x + Second
    BY <1>1, DivFacts
  <1>5. PICK n \in Int : n = x \div w /\ w * n <= x /\ x < w * n + w
    BY DivFacts
  <1>6. BucketOf(t) = n
    <2>1. t + 0 * BucketSize = t
      BY <1>1
    <2> QED BY <2>1, <1>2, <1>4, <1>5, BucketNumber DEF BucketOf, CurrentBucket
  <1>7. PICK m \in Int : m = w * n
    OBVIOUS
  <1>8. m * Second <= x * Second /\ (x + 1) * Second <= (m + w) * Second
    BY <1>1, <1>5, <1>7, Scale
  <1>9. n * BucketSize = m * Second /\ (n + 1) * BucketSize = (m + w) * Second
    BY <1>1, <1>3, <1>7
  <1>10. (x + 1) * Second = Second * x + Second /\ x * Second = Second * x
    BY <1>1
  <1>11. PICK a \in Int : a = m * Second
    BY <1>1
  <1>12. PICK c \in Int : c = (m + w) * Second
    BY <1>1
  <1>13. PICK y \in Int : y = Second * x
    BY <1>1
  <1>14. a <= y /\ y + Second <= c /\ y <= t /\ t < y + Second
    BY <1>4, <1>8, <1>10, <1>11, <1>12, <1>13
  <1>15. n * BucketSize <= t /\ t < (n + 1) * BucketSize
    <2>1. a <= t /\ t < c
      BY <1>1, <1>14
    <2> QED BY <2>1, <1>9, <1>11, <1>12
  <1> QED BY <1>6, <1>15

\* What is in sight has not reached its horizon.
LEMMA SightEnds ==
    ASSUME NEW t \in Int, NEW b \in Int, b >= BucketOf(t) - NumBuckets
    PROVE  t < Horizon(b)
  <1>1. BucketSize \in Nat /\ NumBuckets \in Nat /\ BucketOf(t) \in Int
    BY ConstantFacts, PresenceAssumption, BucketBounds
  <1>2. (BucketOf(t) + 1) * BucketSize <= (b + NumBuckets + 1) * BucketSize
    BY <1>1, Scale
  <1>3. PICK c \in Int : c = (BucketOf(t) + 1) * BucketSize /\ t < c
    BY <1>1, BucketBounds
  <1>4. PICK h \in Int : h = (b + NumBuckets + 1) * BucketSize
    BY <1>1
  <1>5. t < h
    BY <1>2, <1>3, <1>4
  <1> QED BY <1>4, <1>5 DEF Horizon

\* The times to live outlast the horizon of a bucket of now or before.
LEMMA OutlivesSight ==
    ASSUME now \in Nat, NEW b \in Int, b <= BucketOf(now)
    PROVE  ExpiresAt(bucketTTL) >= Horizon(b) /\ ExpiresAt(deviceTTL) >= Horizon(b)
  <1>1. /\ BucketSize \in Nat /\ NumBuckets \in Nat /\ Second \in Nat
        /\ NumBuckets + 1 <= Second
    BY ConstantFacts, PresenceAssumption
  <1>2. PICK n \in Int : n = BucketOf(now) /\ n * BucketSize <= now
    BY BucketBounds
  <1>3. (b + NumBuckets + 1) * BucketSize <= (n + (NumBuckets + 1)) * BucketSize
    BY <1>1, <1>2, Scale
  <1>4. (n + (NumBuckets + 1)) * BucketSize = n * BucketSize + (NumBuckets + 1) * BucketSize
    BY <1>1
  <1>5. (NumBuckets + 1) * BucketSize <= Second * BucketSize
    BY <1>1, Scale
  <1>6. Horizon(b) <= now + Second * BucketSize /\ Horizon(b) \in Int
    <2>1. PICK p \in Int : p = n * BucketSize
      BY <1>1
    <2>2. PICK q \in Int : q = (NumBuckets + 1) * BucketSize
      BY <1>1
    <2>3. PICK h \in Int : h = (b + NumBuckets + 1) * BucketSize
      BY <1>1
    <2>4. PICK e \in Int : e = Second * BucketSize
      BY <1>1
    <2>5. h <= p + q /\ q <= e /\ p <= now
      BY <1>2, <1>3, <1>4, <1>5, <2>1, <2>2, <2>3, <2>4
    <2> QED BY <2>3, <2>4, <2>5 DEF Horizon
  <1>7. Second * BucketSize = bucketTTL * Second
    BY <1>1 DEF bucketTTL
  <1>8. PICK y \in Int : y = now + bucketTTL * Second
    BY <1>1 DEF bucketTTL
  <1>9. ExpiresAt(bucketTTL) >= y /\ ExpiresAt(deviceTTL) >= y
    BY <1>8, LiveLong
  <1>10. ExpiresAt(bucketTTL) \in Int /\ ExpiresAt(deviceTTL) \in Int
    BY LiveLong
  <1> QED BY <1>6, <1>7, <1>8, <1>9, <1>10

\* Two devices are the same just if their keys are.
LEMMA SameKey ==
    ASSUME NEW c \in Device, NEW d \in Device
    PROVE  makeKey(c) = makeKey(d) <=> SameDevice(c, d)
  <1>1. SameDevice(c, d) => makeKey(c) = makeKey(d)
    BY DEF SameDevice, makeKey
  <1>2. ASSUME makeKey(c) = makeKey(d) PROVE SameDevice(c, d)
    <2>1. c.id = d.id /\ EnumName(c.type) = EnumName(d.type)
      BY <1>2, DeviceKey
    <2>2. c.type \in Int /\ d.type \in Int
      BY DEF Device
    <2>3. c.type = 0 <=> d.type = 0
      BY <2>1, <2>2, TypeNames
    <2>4. c.type # 0 /\ d.type # 0 => EnumName(c.type) = c.type /\ EnumName(d.type) = d.type
      BY DEF EnumName, Device_Type_name
    <2> QED BY <2>1, <2>3, <2>4 DEF SameDevice
  <1> QED BY <1>1, <1>2

\* The number of a bucket is in its key.
LEMMA CommitNumber ==
    ASSUME TypeInv, StoreInv, NEW j \in DOMAIN commits
    PROVE  /\ BucketOfCommit(j) \in Int
           /\ commits[j].key = Append(commits[j].dev.user, BucketOfCommit(j))
  <1>1. PICK u \in Seq(Segment) : u = commits[j].dev.user
    BY CommitFacts
  <1>2. PICK x \in Int : commits[j].key = Append(u, x)
    BY <1>1 DEF StoreInv, CommitsHoldKeys, BucketKey
  <1>3. BucketOfCommit(j) = x
    BY <1>2, LastOfKey DEF BucketOfCommit
  <1> QED BY <1>1, <1>2, <1>3

\* What the transaction of SetStatus does to a set that is not under the key
\* of its device: members may be added, and the time to live renewed.
LEMMA OnlineKeepsSet ==
    ASSUME Database(redis), now \in Nat, NEW b \in Seq(Segment), NEW d \in Device,
           NEW k, IsSet(redis, k), k # makeKey(d)
    PROVE  /\ IsSet(Online(b, d), k) /\ redis[k].members \subseteq Online(b, d)[k].members
           /\ Online(b, d)[k].expires \in {redis[k].expires, ExpiresAt(bucketTTL)}
  <1> DEFINE added == SADD(redis, b, makeKey(d))
             indexed == EXPIRE(added, b, ExpiresAt(bucketTTL))
             named == SET(indexed, makeKey(d), d.user)
  <1>1. k \in DOMAIN redis /\ redis[k].kind = "set" /\ redis[k] \in Value
    BY DEF IsSet, Database
  <1>2. /\ k \in DOMAIN added /\ added[k] \in Value /\ added[k].kind = "set"
        /\ redis[k].members \subseteq added[k].members
        /\ added[k].expires = redis[k].expires
    <2>1. CASE IsString(redis, b)
      <3>1. ~IsSet(redis, b)
        BY <2>1 DEF IsString, IsSet
      <3> QED BY <1>1, <2>1, <3>1 DEF SADD
    <2>2. CASE IsSet(redis, b)
      <3>1. ~IsString(redis, b)
        BY <2>2 DEF IsSet, IsString
      <3>2. PICK m \in Seq(Segment) : m = makeKey(d)
        BY DeviceKeyTyped
      <3>3. added = [redis EXCEPT ![b].members = @ \cup {m}]
        BY <2>2, <3>1, <3>2 DEF SADD
      <3>4. CASE k = b
        <4>1. added[k] = [redis[k] EXCEPT !.members = @ \cup {m}]
          BY <1>1, <3>3, <3>4
        <4> QED BY <1>1, <3>3, <4>1 DEF Value
      <3>5. CASE k # b
        BY <1>1, <3>3, <3>5
      <3> QED BY <3>4, <3>5
    <2>3. CASE ~IsString(redis, b) /\ ~IsSet(redis, b)
      <3>1. k # b /\ added = Store(redis, b, SetValue({makeKey(d)}))
        BY <2>3 DEF SADD
      <3> QED BY <1>1, <3>1 DEF Store
    <2> QED BY <2>1, <2>2, <2>3
  <1> HIDE DEF added
  <1>3. /\ k \in DOMAIN indexed /\ indexed[k].kind = "set"
        /\ redis[k].members \subseteq indexed[k].members
        /\ indexed[k].expires \in {redis[k].expires, ExpiresAt(bucketTTL)}
    <2>1. CASE b \in DOMAIN added
      <3>1. indexed = [added EXCEPT ![b].expires = ExpiresAt(bucketTTL)]
        BY <2>1 DEF EXPIRE
      <3>2. CASE k = b
        <4>1. indexed[k] = [added[k] EXCEPT !.expires = ExpiresAt(bucketTTL)]
          BY <1>2, <3>1, <3>2
        <4> QED BY <1>2, <3>1, <4>1 DEF Value
      <3>3. CASE k # b
        BY <1>2, <3>1, <3>3
      <3> QED BY <3>2, <3>3
    <2>2. CASE b \notin DOMAIN added
      BY <1>2, <2>2 DEF EXPIRE
    <2> QED BY <2>1, <2>2
  <1> HIDE DEF indexed
  <1>4. k \in DOMAIN named /\ named[k] = indexed[k]
    BY <1>3 DEF SET, Store
  <1> HIDE DEF named
  <1>5. Online(b, d) = EXPIRE(named, makeKey(d), ExpiresAt(deviceTTL))
    BY DEF Online, named, indexed, added
  <1>6. k \in DOMAIN Online(b, d) /\ Online(b, d)[k] = named[k]
    BY <1>4, <1>5 DEF EXPIRE
  <1> QED BY <1>3, <1>4, <1>6 DEF IsSet

\* The bucket has the key of the device, unless a string was in its place.
LEMMA OnlineIndexes ==
    ASSUME Database(redis), NEW b \in Seq(Segment), NEW d \in Device,
           b # makeKey(d), ~IsString(redis, b)
    PROVE  /\ IsSet(Online(b, d), b) /\ makeKey(d) \in Online(b, d)[b].members
           /\ Online(b, d)[b].expires = ExpiresAt(bucketTTL)
  <1> DEFINE added == SADD(redis, b, makeKey(d))
             indexed == EXPIRE(added, b, ExpiresAt(bucketTTL))
             named == SET(indexed, makeKey(d), d.user)
  <1>1. PICK m \in Seq(Segment) : m = makeKey(d) /\ m # b
    BY DeviceKeyTyped
  <1>2. PICK v : b \in DOMAIN added /\ added[b] = v /\ v \in Value /\ v.kind = "set"
                 /\ m \in v.members
    <2>1. CASE IsSet(redis, b)
      <3>1. added = [redis EXCEPT ![b].members = @ \cup {m}]
        BY <1>1, <2>1 DEF SADD
      <3>2. b \in DOMAIN redis /\ redis[b] \in Value /\ redis[b].kind = "set"
        BY <2>1 DEF IsSet, Database
      <3>3. PICK w \in Value : w = redis[b] /\ w.kind = "set"
        BY <3>2
      <3>4. PICK v : v = [w EXCEPT !.members = @ \cup {m}]
        OBVIOUS
      <3>5. b \in DOMAIN added /\ added[b] = v
        BY <3>1, <3>2, <3>3, <3>4
      <3>6. v \in Value /\ v.kind = "set" /\ m \in v.members
        <4>1. w.members \cup {m} \in SUBSET Seq(Segment)
          BY <1>1, <3>3 DEF Value
        <4> QED BY <3>3, <3>4, <4>1 DEF Value
      <3> QED BY <3>5, <3>6
    <2>2. CASE ~IsSet(redis, b)
      <3>1. added = Store(redis, b, SetValue({m}))
        BY <1>1, <2>2 DEF SADD
      <3>2. b \in DOMAIN added /\ added[b] = SetValue({m})
        BY <3>1 DEF Store
      <3>3. SetValue({m}).kind = "set" /\ m \in SetValue({m}).members
        BY DEF SetValue
      <3>4. SetValue({m}) \in Value
        <4>1. {m} \in SUBSET Seq(Segment) /\ <<>> \in Seq(Segment)
          BY <1>1
        <4> QED BY <4>1 DEF SetValue, Value, Never
      <3> QED BY <3>2, <3>3, <3>4
    <2> QED BY <2>1, <2>2
  <1> HIDE DEF added
  <1>3. b \in DOMAIN indexed /\ indexed[b] = [v EXCEPT !.expires = ExpiresAt(bucketTTL)]
    BY <1>2 DEF EXPIRE
  <1> HIDE DEF indexed
  <1>4. b \in DOMAIN named /\ named[b] = indexed[b]
    BY <1>1, <1>3 DEF SET, Store
  <1> HIDE DEF named
  <1>5. Online(b, d) = EXPIRE(named, m, ExpiresAt(deviceTTL))
    BY <1>1 DEF Online, named, indexed, added
  <1>6. b \in DOMAIN Online(b, d) /\ Online(b, d)[b] = named[b]
    BY <1>1, <1>4, <1>5 DEF EXPIRE
  <1>7. PICK at : at = ExpiresAt(bucketTTL)
    OBVIOUS
  <1> QED BY <1>1, <1>2, <1>3, <1>4, <1>6, <1>7 DEF IsSet, Value

\* DEL leaves the other keys alone.
LEMMA DeleteSpares ==
    ASSUME NEW db, NEW m, NEW k \in DOMAIN db, k # m
    PROVE  k \in DOMAIN DEL(db, m) /\ DEL(db, m)[k] = db[k]
  BY DEF DEL

-----------------------------------------------------------------------------
(* The buckets in use are not of the future. *)

LEMMA PastKept ==
    ASSUME TypeInv, StoreInv, KeysPast, now' \in Nat, now <= now',
           \A s \in Setters : set'[s].pc \in {"stamp", "redis", "publish"} =>
              \/ set[s].pc \in {"stamp", "redis", "publish"} /\ set'[s].key = set[s].key
              \/ NumberOf(set'[s].key) = BucketOf(now),
           \A j \in DOMAIN commits' :
              \/ j \in DOMAIN commits /\ commits'[j] = commits[j]
              \/ \E s \in Setters : set[s].pc = "redis" /\ commits'[j].key = set[s].key
    PROVE  KeysPast'
  <1>1. PICK x \in Int : x = BucketOf(now)
    BY BucketOrder DEF TypeInv
  <1>2. PICK y \in Int : y = BucketOf(now') /\ x <= y
    BY <1>1, BucketOrder DEF TypeInv
  <1>3. ASSUME NEW s \in Setters, set[s].pc \in {"stamp", "redis", "publish"}
        PROVE  NumberOf(set[s].key) \in Int /\ NumberOf(set[s].key) <= x
    <2>1. set[s].pc \in Running
      BY <1>3 DEF Running
    <2>2. PICK u \in Seq(Segment) : u = set[s].dev.user
      BY <2>1, RunningFacts
    <2>3. PICK z \in Int : set[s].key = Append(u, z)
      BY <1>3, <2>2 DEF StoreInv, HandlersHoldKeys, BucketKey
    <2>4. NumberOf(set[s].key) = z
      BY <2>3, LastOfKey DEF NumberOf
    <2> QED BY <1>1, <1>3, <2>4 DEF KeysPast
  <1>4. ASSUME NEW s \in Setters, set'[s].pc \in {"stamp", "redis", "publish"}
        PROVE  NumberOf(set'[s].key) <= y
    <2>1. CASE set[s].pc \in {"stamp", "redis", "publish"} /\ set'[s].key = set[s].key
      <3>1. PICK z \in Int : z = NumberOf(set[s].key) /\ z <= x
        BY <1>3, <2>1
      <3> QED BY <1>2, <2>1, <3>1
    <2>2. CASE NumberOf(set'[s].key) = BucketOf(now)
      BY <1>1, <1>2, <2>2
    <2> QED BY <1>4, <2>1, <2>2
  <1>5. ASSUME NEW j \in DOMAIN commits' PROVE NumberOf(commits'[j].key) <= y
    <2>1. CASE j \in DOMAIN commits /\ commits'[j] = commits[j]
      <3>1. PICK z \in Int : z = BucketOfCommit(j) /\ z <= x
        BY <1>1, <2>1, CommitNumber DEF KeysPast
      <3>2. NumberOf(commits'[j].key) = z
        BY <2>1, <3>1 DEF NumberOf, BucketOfCommit
      <3> QED BY <1>2, <3>1, <3>2
    <2>2. CASE \E s \in Setters : set[s].pc = "redis" /\ commits'[j].key = set[s].key
      <3>1. PICK s \in Setters : set[s].pc = "redis" /\ commits'[j].key = set[s].key
        BY <2>2
      <3>2. PICK z \in Int : z = NumberOf(set[s].key) /\ z <= x
        BY <1>3, <3>1
      <3> QED BY <1>2, <3>1, <3>2
    <2> QED BY <2>1, <2>2
  <1>6. \A s \in Setters : set'[s].pc \in {"stamp", "redis", "publish"} =>
           NumberOf(set'[s].key) <= BucketOf(now')
    BY <1>2, <1>4
  <1>7. \A j \in DOMAIN commits' : commits'[j].key[Len(commits'[j].key)] <= BucketOf(now')
    BY <1>2, <1>5 DEF NumberOf
  <1> QED BY <1>6, <1>7 DEF KeysPast, NumberOf, BucketOfCommit, BucketOf

\* No step puts a key of the future in use.
LEMMA PastNext ==
    ASSUME TypeInv, StoreInv, KeysPast, [Next]_vars
    PROVE  KeysPast'
  <1>0. now \in Nat /\ set \in [Setters -> SetState]
    BY DEF TypeInv
  <1>1. CASE set' = set /\ commits' = commits /\ now' \in Nat /\ now <= now'
    BY <1>1, PastKept
  <1>2. CASE \E s \in Setters, req \in Requests : SetStatus(s, req)
    <2>1. PICK s \in Setters, req \in Requests : SetStatus(s, req)
      BY <1>2
    <2>2. now' = now /\ commits' = commits /\ set'[s].pc = "bucket"
      BY <1>0, <2>1 DEF SetStatus, IdleSet
    <2>3. \A t \in Setters : t # s => set'[t].pc = set[t].pc /\ set'[t].key = set[t].key
      BY <1>0, <2>1 DEF SetStatus, SetState
    <2> QED BY <1>0, <2>2, <2>3, PastKept
  <1>3. CASE \E s \in Setters : SetLocal(s) \/ Publish(s)
    <2>1. PICK s \in Setters : SetLocal(s) \/ Publish(s)
      BY <1>3
    <2>2. now' = now /\ commits' = commits
      BY <2>1 DEF SetLocal, Publish, RejectStatus, ReadBucket, StampEvent, RedisFails,
             ReplyStatus, PublishEvent, RetryPublish, PublishFails
    <2>3. CASE ReadBucket(s)
      <3>1. PICK u \in Seq(Segment) : u = set[s].dev.user
        BY <2>3, RunningFacts DEF ReadBucket, Running
      <3>2. PICK x \in Int : /\ x = BucketOf(now)
                             /\ String(CurrentBucket(now, u, BucketSize)) = Append(u, x)
        <4>1. /\ BucketOf(now) \in Int
              /\ Index(BucketWithOffset(now, u, BucketSize, 0)) = BucketOf(now) + 0
          BY <1>0, OffsetNumber, BucketOrder
        <4>2. String(BucketWithOffset(now, u, BucketSize, 0))
                = Append(u, Index(BucketWithOffset(now, u, BucketSize, 0)))
          BY <1>0, BucketNumber
        <4> QED BY <4>1, <4>2 DEF CurrentBucket
      <3>3. /\ \A t \in Setters : t # s => set'[t] = set[t]
            /\ set'[s].key = Append(u, x)
        BY <1>0, <2>3, <3>1, <3>2 DEF ReadBucket, SetState
      <3>4. NumberOf(set'[s].key) = BucketOf(now)
        BY <3>2, <3>3, LastOfKey DEF NumberOf
      <3>5. \A t \in Setters :
               \/ set'[t].pc = set[t].pc /\ set'[t].key = set[t].key
               \/ NumberOf(set'[t].key) = BucketOf(now)
        BY <3>3, <3>4
      <3> QED BY <1>0, <2>2, <3>5, PastKept
    <2>4. CASE StampEvent(s) \/ RetryPublish(s)
      <3>1. /\ set[s].pc \in {"stamp", "publish"} /\ set'[s].key = set[s].key
            /\ \A t \in Setters : t # s => set'[t] = set[t]
        BY <1>0, <2>4 DEF StampEvent, RetryPublish, SetState
      <3> QED BY <1>0, <2>2, <3>1, PastKept
    <2>5. CASE \/ \E req \in Requests : RejectStatus(s, req)
               \/ RedisFails(s) \/ ReplyStatus(s) \/ PublishEvent(s) \/ PublishFails(s)
      <3>1. /\ IdleSet.pc = "idle" /\ DoneSet(TRUE).pc = "done" /\ DoneSet(FALSE).pc = "done"
        BY DEF DoneSet, IdleSet
      <3>2. PICK r \in {IdleSet, DoneSet(TRUE), DoneSet(FALSE)} : set' = [set EXCEPT ![s] = r]
        BY <2>5 DEF RejectStatus, RedisFails, ReplyStatus, PublishEvent, PublishFails
      <3>3. set'[s].pc \in {"idle", "done"} /\ \A t \in Setters : t # s => set'[t] = set[t]
        BY <1>0, <3>1, <3>2
      <3> QED BY <1>0, <2>2, <3>3, PastKept
    <2> QED BY <2>1, <2>3, <2>4, <2>5 DEF SetLocal, Publish
  <1>4. CASE \E s \in Setters : CommitStatus(s)
    <2>1. PICK s \in Setters : CommitStatus(s)
      BY <1>4
    <2>2. PICK c : commits' = Append(commits, c) /\ c.key = set[s].key
      BY <2>1 DEF CommitStatus
    <2>3. \A j \in DOMAIN commits' : \/ j \in DOMAIN commits /\ commits'[j] = commits[j]
                                     \/ commits'[j].key = set[s].key
      BY <2>2 DEF TypeInv
    <2>4. set[s].pc = "redis" /\ now' = now
      BY <2>1 DEF CommitStatus
    <2>5. DoneSet(TRUE).pc = "done"
      BY DEF DoneSet, IdleSet
    <2>6. /\ \A t \in Setters : t # s => set'[t] = set[t]
          /\ set'[s].pc = "done" \/ set'[s].key = set[s].key
      BY <1>0, <2>1, <2>5 DEF CommitStatus, SetState
    <2> QED BY <1>0, <2>3, <2>4, <2>6, PastKept
  <1>5. CASE (\E g \in Getters : GetReturns(g) \/ GetContinues(g)) \/ UNCHANGED vars
    <2>1. UNCHANGED <<now, set, commits>>
      BY <1>5 DEF GetReturns, GetContinues, RejectDevices, GetDevices, RangeBucket,
             UnionBuckets, UnionWrongType, SkipDevice, SendDevice, ParseFails,
             GetWrongType, GetFails, FinishDevices, ReplyDevices, vars
    <2> QED BY <1>0, <1>1, <2>1
  <1>6. CASE Tick
    <2>1. now' = now + TickSize /\ UNCHANGED <<set, commits>>
      BY <1>6 DEF Tick
    <2> QED BY <1>0, <1>1, <2>1, ConstantFacts
  <1>7. CASE Crash
    <2>1. UNCHANGED <<now, commits>> /\ \A s \in Setters : set'[s].pc = "idle"
      BY <1>7 DEF Crash, IdleSet
    <2> QED BY <1>0, <2>1, PastKept
  <1> QED BY <1>2, <1>3, <1>4, <1>5, <1>6, <1>7, NextCases

-----------------------------------------------------------------------------
(* What is in sight is kept. *)

\* Time passes, and what has not reached its time to live is kept.
LEMMA SightKept ==
    ASSUME TypeInv, StoreInv, KeptInSight, commits' = commits, now' \in Nat, now <= now',
           \A k \in DOMAIN redis : redis[k].expires > now' =>
              k \in DOMAIN redis' /\ redis'[k] = redis[k]
    PROVE  KeptInSight'
  <1> SUFFICES ASSUME NEW j \in DOMAIN commits, commits[j].dev.status = Device_ONLINE,
                      InSight(j)'
               PROVE  /\ NoCollision(commits[j].dev.user)' => Indexed(j)'
                      /\ Untouched(j)' => Alive(j)'
    BY DEF KeptInSight, NoCollision
  <1>1. PICK b \in Int : b = BucketOfCommit(j) /\ b = BucketOfCommit(j)'
    BY CommitNumber DEF BucketOfCommit
  <1>2. PICK x \in Int : x = BucketOf(now)
    BY BucketOrder DEF TypeInv
  <1>3. PICK y \in Int : y = BucketOf(now') /\ x <= y /\ b >= y - NumBuckets
    <2>1. BucketOf(now') \in Int /\ x <= BucketOf(now')
      BY <1>2, BucketOrder DEF TypeInv
    <2> QED BY <2>1, <1>1 DEF InSight, BucketOf
  <1>4. InSight(j)
    BY <1>1, <1>2, <1>3, ConstantFacts DEF InSight
  <1>5. PICK h \in Int : h = Horizon(b) /\ now' < h
    <2>1. now' < Horizon(b)
      BY <1>1, <1>3, SightEnds
    <2>2. Horizon(b) \in Int
      BY <1>1, ConstantFacts DEF Horizon
    <2> QED BY <2>1, <2>2
  <1>6. PICK k : k = commits[j].key
    OBVIOUS
  <1>7. PICK m : m = makeKey(commits[j].dev)
    OBVIOUS
  <1>8. Database(redis)
    BY DEF TypeInv
  <1>9. NoCollision(commits[j].dev.user)' => Indexed(j)'
    <2> SUFFICES ASSUME NoCollision(commits[j].dev.user)'
                 PROVE  IsSet(redis', k) /\ m \in redis'[k].members /\ redis'[k].expires >= h
      BY <1>1, <1>5, <1>6, <1>7 DEF Indexed, IsSet, Horizon
    <2>1. NoCollision(commits[j].dev.user)
      BY DEF NoCollision
    <2>2. IsSet(redis, k) /\ m \in redis[k].members /\ redis[k].expires >= h
      BY <1>1, <1>4, <1>5, <1>6, <1>7, <2>1 DEF KeptInSight, Indexed
    <2>3. k \in DOMAIN redis /\ redis[k].expires \in Int
      BY <1>8, <2>2 DEF IsSet, Database, Value
    <2>4. redis'[k] = redis[k] /\ k \in DOMAIN redis'
      BY <1>5, <2>2, <2>3
    <2> QED BY <2>2, <2>4 DEF IsSet
  <1>10. Untouched(j)' => Alive(j)'
    <2> SUFFICES ASSUME Untouched(j)'
                 PROVE  /\ IsString(redis', m) /\ redis'[m].string = commits[j].dev.user
                        /\ redis'[m].expires >= h
      BY <1>1, <1>5, <1>7 DEF Alive, IsString, Horizon
    <2>1. Untouched(j)
      BY DEF Untouched, PutOnline
    <2>2. IsString(redis, m) /\ redis[m].string = commits[j].dev.user /\ redis[m].expires >= h
      BY <1>1, <1>4, <1>5, <1>7, <2>1 DEF KeptInSight, Alive
    <2>3. m \in DOMAIN redis /\ redis[m].expires \in Int
      BY <1>8, <2>2 DEF IsString, Database, Value
    <2>4. redis'[m] = redis[m] /\ m \in DOMAIN redis'
      BY <1>5, <2>2, <2>3
    <2> QED BY <2>2, <2>4 DEF IsString
  <1> QED BY <1>9, <1>10

\* A bucket key of a user without collisions is not a device key in use.
LEMMA BucketFree ==
    ASSUME TypeInv, StoreInv, NEW u \in Seq(Segment), NEW x \in Int, NoCollision(u)
    PROVE  ~IsString(redis, Append(u, x))
  <1> SUFFICES ASSUME IsString(redis, Append(u, x)) PROVE FALSE
    OBVIOUS
  <1>1. PICK k : k = Append(u, x) /\ k \in DOMAIN redis /\ redis[k].kind = "string"
    BY DEF IsString
  <1>2. PICK i \in DOMAIN commits : makeKey(commits[i].dev) = k
    BY <1>1 DEF StoreInv, StringsWritten, PutKey
  <1>3. commits[i].dev \in Device /\ commits[i].dev.id # <<>>
    BY CommitFacts DEF StoreInv, CommitsHoldKeys
  <1>4. Collides(commits[i].dev, u)
    BY <1>1, <1>2, <1>3, KeysCollide
  <1> QED BY <1>4 DEF NoCollision

\* A write indexes its device and gives its key the user, both for longer than
\* the write is in sight; the earlier writes in sight stay so.
LEMMA SightCommit ==
    ASSUME TypeInv, StoreInv, FreshInv, NEW s \in Setters, CommitStatus(s)
    PROVE  KeptInSight'
  <1>0. PICK b, d, c, n :
          /\ b = set[s].key /\ d = set[s].dev /\ n = Len(commits) + 1
          /\ c = [key |-> set[s].key, dev |-> set[s].dev, timestamp |-> set[s].timestamp]
    OBVIOUS
  <1>1. /\ set[s].pc \in Running /\ set[s].pc = "redis"
        /\ d \in Device /\ b \in Seq(Segment) /\ d.user \in Seq(Segment)
        /\ d.id # <<>> /\ BucketKey(b, d.user)
    BY <1>0, RunningFacts DEF CommitStatus, Running, StoreInv, HandlersHoldKeys
  <1>2. /\ commits' = Append(commits, c) /\ redis' = WriteStatus(b, d) /\ now' = now
        /\ now \in Nat /\ Database(redis) /\ c.key = b /\ c.dev = d
    BY <1>0 DEF CommitStatus, TypeInv
  <1>3. /\ n \in DOMAIN commits' /\ commits'[n] = c /\ Len(commits') = n
        /\ DOMAIN commits = 1 .. n - 1 /\ DOMAIN commits' = 1 .. n /\ n \in Nat \ {0}
        /\ \A j \in DOMAIN commits : j \in DOMAIN commits' /\ commits'[j] = commits[j]
    BY <1>0, <1>2 DEF TypeInv
  <1>4. PICK v \in Seq(Segment) : v = d.user
    BY <1>1
  <1>5. PICK x \in Int : b = Append(v, x) /\ NumberOf(b) = x /\ x <= BucketOf(now)
    <2>1. PICK x \in Int : b = Append(v, x)
      BY <1>1, <1>4 DEF BucketKey
    <2>2. NumberOf(b) = x
      BY <2>1, LastOfKey DEF NumberOf
    <2>3. NumberOf(b) <= BucketOf(now)
      BY <1>0, <1>1 DEF FreshInv, KeysPast
    <2> QED BY <2>1, <2>2, <2>3
  <1>6. PICK m \in Seq(Segment) : m = makeKey(d)
    BY <1>1, DeviceKeyTyped
  <1>7. ASSUME NEW j \in DOMAIN commits, commits[j].dev.status = Device_ONLINE, InSight(j)
        PROVE  /\ NoCollision(commits[j].dev.user)' => Indexed(j)'
               /\ Untouched(j)' => Alive(j)'
    <2>1. PICK y \in Int : /\ y = BucketOfCommit(j) /\ y = BucketOfCommit(j)'
                           /\ y <= BucketOf(now)
      <3>1. BucketOfCommit(j) \in Int /\ BucketOfCommit(j) <= BucketOf(now)
        BY CommitNumber DEF FreshInv, KeysPast
      <3>2. BucketOfCommit(j)' = BucketOfCommit(j)
        BY <1>3 DEF BucketOfCommit
      <3> QED BY <3>1, <3>2
    <2>2. PICK h \in Int : h = Horizon(y)
      BY <2>1, ConstantFacts DEF Horizon
    <2>3. ExpiresAt(bucketTTL) >= h /\ ExpiresAt(deviceTTL) >= h
      BY <1>2, <2>1, <2>2, OutlivesSight
    <2>4. PICK e \in Device : e = commits[j].dev /\ e = commits'[j].dev
      BY <1>3, CommitFacts
    <2>5. PICK u \in Seq(Segment) : u = e.user
      BY <2>4, CommitFacts
    <2>6. PICK k \in Seq(Segment) : k = commits[j].key /\ k = commits'[j].key /\ k = Append(u, y)
      <3>1. commits[j].key = Append(commits[j].dev.user, BucketOfCommit(j))
        BY CommitNumber
      <3> QED BY <1>3, <2>1, <2>4, <2>5, <3>1, CommitFacts
    <2>7. ASSUME NoCollision(u)'
          PROVE  IsSet(redis', k) /\ makeKey(e) \in redis'[k].members /\ redis'[k].expires >= h
      <3>1. NoCollision(u) /\ ~Collides(d, u)
        BY <1>2, <1>3, <2>7 DEF NoCollision
      <3>2. IsSet(redis, k) /\ makeKey(e) \in redis[k].members /\ redis[k].expires >= h
        BY <1>7, <2>1, <2>2, <2>4, <2>5, <2>6, <3>1 DEF FreshInv, KeptInSight, Indexed
      <3>3. k # m
        BY <1>1, <1>6, <2>1, <2>6, <3>1, KeysCollide
      <3>4. CASE d.status = Device_ONLINE
        <4>1. redis' = Online(b, d)
          BY <1>2, <3>4 DEF WriteStatus
        <4>2. /\ IsSet(redis', k) /\ redis[k].members \subseteq redis'[k].members
              /\ redis'[k].expires \in {redis[k].expires, ExpiresAt(bucketTTL)}
          BY <1>1, <1>2, <1>6, <3>2, <3>3, <4>1, OnlineKeepsSet
        <4> QED BY <2>3, <3>2, <4>2
      <3>5. CASE d.status # Device_ONLINE
        <4>1. redis' = DEL(redis, m)
          BY <1>2, <1>6, <3>5 DEF WriteStatus
        <4>2. k \in DOMAIN redis
          BY <3>2 DEF IsSet
        <4>3. k \in DOMAIN redis' /\ redis'[k] = redis[k]
          BY <3>3, <4>1, <4>2, DeleteSpares
        <4> QED BY <3>2, <4>3 DEF IsSet
      <3> QED BY <3>4, <3>5
    <2>8. ASSUME Untouched(j)'
          PROVE  /\ IsString(redis', makeKey(e)) /\ redis'[makeKey(e)].string = u
                 /\ redis'[makeKey(e)].expires >= h
      <3>1. \A i \in j + 1 .. n : SameDevice(commits'[i].dev, e) => PutOnline(i, u, e)'
        BY <1>3, <2>4, <2>5, <2>8 DEF Untouched, PutOnline
      <3>2. j \in 1 .. n - 1
        BY <1>3
      <3>3. n \in j + 1 .. n
        BY <1>3, <3>2
      <3>4. CASE m = makeKey(e)
        <4>1. SameDevice(d, e)
          BY <1>1, <1>6, <2>4, <3>4, SameKey
        <4>2. PutOnline(n, u, e)'
          BY <1>2, <1>3, <3>1, <3>3, <4>1
        <4>3. d.status = Device_ONLINE /\ d.user = u
          BY <1>2, <1>3, <4>2 DEF PutOnline
        <4>4. redis' = Online(b, d)
          BY <1>2, <4>3 DEF WriteStatus
        <4> QED BY <1>6, <2>3, <3>4, <4>3, <4>4, OnlineSets
      <3>5. CASE m # makeKey(e)
        <4>1. Untouched(j)
          <5>1. ASSUME NEW i \in j + 1 .. Len(commits), SameDevice(commits[i].dev, e)
                PROVE  PutOnline(i, u, e)
            <6>1. i \in j + 1 .. n /\ i \in DOMAIN commits
              BY <1>0, <1>3, <3>2, <5>1
            <6>2. commits'[i] = commits[i]
              BY <1>3, <6>1
            <6> QED BY <3>1, <5>1, <6>1, <6>2 DEF PutOnline
          <5> QED BY <2>4, <2>5, <5>1 DEF Untouched
        <4>2. /\ IsString(redis, makeKey(e)) /\ redis[makeKey(e)].string = u
              /\ redis[makeKey(e)].expires >= h
          BY <1>7, <2>1, <2>2, <2>4, <2>5, <4>1 DEF FreshInv, KeptInSight, Alive
        <4>3. CASE d.status = Device_ONLINE
          <5>1. redis' = Online(b, d)
            BY <1>2, <4>3 DEF WriteStatus
          <5>2. /\ IsString(redis', makeKey(e))
                /\ redis'[makeKey(e)].string = redis[makeKey(e)].string
                /\ redis'[makeKey(e)].expires
                      \in {redis[makeKey(e)].expires, ExpiresAt(bucketTTL)}
            BY <1>1, <1>2, <1>6, <3>5, <4>2, <5>1, OnlineSpares
          <5> QED BY <2>3, <4>2, <5>2
        <4>4. CASE d.status # Device_ONLINE
          <5>1. redis' = DEL(redis, m)
            BY <1>2, <1>6, <4>4 DEF WriteStatus
          <5>2. makeKey(e) \in DOMAIN redis
            BY <4>2 DEF IsString
          <5>3. makeKey(e) \in DOMAIN redis' /\ redis'[makeKey(e)] = redis[makeKey(e)]
            BY <3>5, <5>1, <5>2, DeleteSpares
          <5> QED BY <4>2, <5>3 DEF IsString
        <4> QED BY <4>3, <4>4
      <3> QED BY <3>4, <3>5
    <2> QED BY <2>1, <2>2, <2>4, <2>5, <2>6, <2>7, <2>8
            DEF Indexed, Alive, NoCollision, IsSet, IsString, Horizon
  <1>8. ASSUME d.status = Device_ONLINE
        PROVE  (NoCollision(v)' => Indexed(n)') /\ (Untouched(n)' => Alive(n)')
    <2>1. redis' = Online(b, d)
      BY <1>2, <1>8 DEF WriteStatus
    <2>2. PICK h \in Int : h = Horizon(x)
      BY ConstantFacts DEF Horizon
    <2>3. ExpiresAt(bucketTTL) >= h /\ ExpiresAt(deviceTTL) >= h
      BY <1>2, <1>5, <2>2, OutlivesSight
    <2>4. BucketOfCommit(n)' = x
      BY <1>2, <1>3, <1>5 DEF BucketOfCommit, NumberOf
    <2>5. /\ IsString(redis', m) /\ redis'[m].string = d.user /\ redis'[m].expires >= h
      BY <1>6, <2>1, <2>3, OnlineSets
    <2>6. ASSUME NoCollision(v)'
          PROVE  IsSet(redis', b) /\ m \in redis'[b].members /\ redis'[b].expires >= h
      <3>1. NoCollision(v) /\ ~Collides(d, v)
        BY <1>2, <1>3, <2>6 DEF NoCollision
      <3>2. b # m /\ ~IsString(redis, b)
        BY <1>1, <1>5, <1>6, <3>1, KeysCollide, BucketFree
      <3> QED BY <1>1, <1>2, <1>6, <2>1, <2>3, <3>2, OnlineIndexes
    <2>7. commits'[n].key = b /\ commits'[n].dev = d
      BY <1>2, <1>3
    <2>8. NoCollision(v)' => Indexed(n)'
      BY <1>6, <2>2, <2>4, <2>6, <2>7 DEF Indexed, IsSet, Horizon
    <2>9. Alive(n)'
      BY <1>6, <2>2, <2>4, <2>5, <2>7 DEF Alive, IsString, Horizon
    <2> QED BY <2>8, <2>9
  <1>9. ASSUME NEW j \in DOMAIN commits', commits'[j].dev.status = Device_ONLINE, InSight(j)',
               NEW u, u = commits'[j].dev.user
        PROVE  (NoCollision(u)' => Indexed(j)') /\ (Untouched(j)' => Alive(j)')
    <2>1. CASE j = n
      <3>1. d.status = Device_ONLINE /\ u = v
        BY <1>2, <1>3, <1>4, <1>9, <2>1
      <3> QED BY <1>8, <2>1, <3>1
    <2>2. CASE j # n
      <3>1. j \in DOMAIN commits
        BY <1>3, <2>2
      <3>2. commits'[j] = commits[j]
        BY <1>3, <3>1
      <3>3. InSight(j)
        BY <1>2, <1>9, <3>2 DEF InSight, BucketOfCommit, BucketOf
      <3> QED BY <1>7, <1>9, <3>1, <3>2, <3>3 DEF NoCollision
    <2> QED BY <2>1, <2>2
  <1> QED BY <1>9 DEF KeptInSight, NoCollision

\* FreshInv holds in every state.
LEMMA FreshInvariance == Spec => []FreshInv
  <1>1. Init => FreshInv
    <2> SUFFICES ASSUME Init PROVE FreshInv
      OBVIOUS
    <2>1. DOMAIN commits = {} /\ \A s \in Setters : set[s].pc = "idle"
      BY DEF Init, IdleSet
    <2> QED BY <2>1 DEF FreshInv, KeysPast, KeptInSight
  <1>2. TypeInv /\ StoreInv /\ FreshInv /\ [Next]_vars => FreshInv'
    <2> SUFFICES ASSUME TypeInv, StoreInv, FreshInv, [Next]_vars PROVE FreshInv'
      OBVIOUS
    <2>1. KeysPast' /\ now \in Nat
      BY PastNext DEF FreshInv, TypeInv
    <2>2. KeptInSight'
      <3>1. CASE \/ \E s \in Setters, req \in Requests : SetStatus(s, req)
                 \/ \E s \in Setters : SetLocal(s) \/ Publish(s)
                 \/ \E g \in Getters : GetReturns(g) \/ GetContinues(g)
                 \/ Crash \/ UNCHANGED vars
        <4>1. UNCHANGED <<now, redis, commits>>
          BY <3>1 DEF SetStatus, SetLocal, Publish, RejectStatus, ReadBucket, StampEvent,
                 RedisFails, ReplyStatus, PublishEvent, RetryPublish, PublishFails, GetReturns,
                 GetContinues, RejectDevices, GetDevices, RangeBucket, UnionBuckets,
                 UnionWrongType, SkipDevice, SendDevice, ParseFails, GetWrongType, GetFails,
                 FinishDevices, ReplyDevices, Crash, vars
        <4> QED BY <2>1, <4>1, SightKept DEF FreshInv
      <3>2. CASE \E s \in Setters : CommitStatus(s)
        BY <3>2, SightCommit
      <3>3. CASE Tick
        <4>1. now' = now + TickSize /\ commits' = commits /\ redis' = Evict(redis, now')
          BY <3>3 DEF Tick
        <4>2. \A k \in DOMAIN redis : redis[k].expires > now' =>
                 k \in DOMAIN redis' /\ redis'[k] = redis[k]
          BY <4>1 DEF Evict
        <4> QED BY <2>1, <4>1, <4>2, SightKept, ConstantFacts DEF FreshInv
      <3> QED BY <3>1, <3>2, <3>3, NextCases
    <2> QED BY <2>1, <2>2 DEF FreshInv
  <1> QED BY <1>1, <1>2, TypeInvariance, StoreInvariance, PTL DEF Spec

-----------------------------------------------------------------------------
(***************************************************************************)
(* A GetDevices call.  Its keys are in the order of time and none is of    *)
(* the future; what was written before it began was written in no later    *)
(* bucket.  Then a range without a hole has all the buckets in sight, and  *)
(* each device of theirs is among those to visit until it is sent.         *)
(***************************************************************************)
Ordered(r) ==
    /\ \A n \in DOMAIN r.keys : NumberOf(r.keys[n]) <= BucketOf(now) + n - 1 - NumBuckets
    /\ \A n, m \in DOMAIN r.keys :
          n < m => NumberOf(r.keys[m]) - NumberOf(r.keys[n]) >= m - n
    /\ r.pc = "range" => Len(r.keys) = r.i + NumBuckets
    /\ r.pc \in {"sunion", "stream"} => Len(r.keys) = NumBuckets + 1

WrittenBefore(r) == \A j \in 1 .. r.mark : BucketOfCommit(j) <= BucketOf(r.begin)

NoGap(keys) == NumberOf(keys[Len(keys)]) - NumberOf(keys[1]) = NumBuckets

Wanted(j, u) ==
    /\ PutOnline(j, u, commits[j].dev)
    /\ commits[j].dev.type \in DOMAIN Device_Type_name
    /\ InSight(j) /\ Untouched(j)

Visits(r) ==
    /\ r.pc = "stream" \/ (r.pc = "done" /\ r.err = "none")
    /\ NoGap(r.keys) /\ NoCollision(r.user)
    => \A j \in 1 .. r.mark : Wanted(j, r.user) =>
          \/ r.pc = "stream" /\ makeKey(commits[j].dev) \in r.todo
          \/ commits[j].dev \in r.sent

VisitOK(r) == Ordered(r) /\ WrittenBefore(r) /\ Visits(r)

VisitInv == \A g \in Getters : VisitOK(get[g])

\* The numbers of a call's buckets.
LEMMA RangeNumbers ==
    ASSUME NEW r \in GetState, ReadOK(r), NEW n \in DOMAIN r.keys
    PROVE  /\ NumberOf(r.keys[n]) \in Int /\ r.keys[n] = Append(r.user, NumberOf(r.keys[n]))
           /\ InWindow(NumberOf(r.keys[n]), r.begin)
  <1>1. PICK u \in Seq(Segment) : u = r.user
    BY DEF GetState
  <1>2. PICK x \in Int : r.keys[n] = Append(u, x) /\ InWindow(x, r.begin)
    BY <1>1 DEF ReadOK, KeysInWindow
  <1>3. NumberOf(r.keys[n]) = x
    BY <1>2, LastOfKey DEF NumberOf
  <1> QED BY <1>1, <1>2, <1>3

\* What holds of a call goes on to hold while time passes and writes are added.
LEMMA VisitGrows ==
    ASSUME TypeInv, StoreInv, Grows, now' \in Nat, now <= now', NEW r \in GetState, ReadOK(r),
           VisitOK(r)
    PROVE  VisitOK(r)'
  <1>1. /\ Len(commits) \in Nat /\ Len(commits)' \in Nat /\ Len(commits) <= Len(commits)'
        /\ DOMAIN commits = 1 .. Len(commits) /\ DOMAIN commits' = 1 .. Len(commits)'
        /\ \A j \in DOMAIN commits : j \in DOMAIN commits' /\ commits'[j] = commits[j]
    BY GrowFacts
  <1>2. r.mark \in Nat /\ r.mark <= Len(commits) /\ now \in Nat /\ r.keys \in Seq(Seq(Segment))
    BY DEF GetState, ReadOK, TypeInv
  <1>3. PICK x \in Int, y \in Int : x = BucketOf(now) /\ y = BucketOf(now') /\ x <= y
    BY <1>2, BucketOrder
  <1>4. Ordered(r)'
    <2>1. ASSUME NEW n \in DOMAIN r.keys
          PROVE  NumberOf(r.keys[n]) <= y + n - 1 - NumBuckets
      <3>1. PICK z \in Int : z = NumberOf(r.keys[n]) /\ z <= x + n - 1 - NumBuckets
        BY <1>3, RangeNumbers DEF VisitOK, Ordered
      <3> QED BY <1>2, <1>3, <3>1, ConstantFacts
    <2> QED BY <1>3, <2>1 DEF VisitOK, Ordered, NumberOf, BucketOf
  <1>5. WrittenBefore(r)'
    BY <1>1, <1>2 DEF VisitOK, WrittenBefore, BucketOfCommit
  <1>6. Visits(r)'
    <2> SUFFICES ASSUME r.pc = "stream" \/ (r.pc = "done" /\ r.err = "none"),
                        NoGap(r.keys), NoCollision(r.user)',
                        NEW j \in 1 .. r.mark, Wanted(j, r.user)'
                 PROVE  \/ r.pc = "stream" /\ makeKey(commits'[j].dev) \in r.todo
                        \/ commits'[j].dev \in r.sent
      BY DEF Visits, NoGap, NumberOf
    <2>1. j \in DOMAIN commits /\ commits'[j] = commits[j]
      <3>1. PICK k \in Nat : k = r.mark /\ k <= Len(commits)
        BY <1>2
      <3>2. j \in 1 .. k
        BY <3>1
      <3>3. j \in DOMAIN commits
        BY <1>1, <3>1, <3>2
      <3> QED BY <1>1, <3>3
    <2>2. NoCollision(r.user)
      BY <1>1 DEF NoCollision
    <2>3. InSight(j)
      <3>1. PICK b \in Int : b = BucketOfCommit(j) /\ b = BucketOfCommit(j)'
        BY <2>1, CommitNumber DEF BucketOfCommit
      <3>2. b >= y - NumBuckets
        BY <1>3, <3>1 DEF Wanted, InSight, BucketOf
      <3> QED BY <1>3, <3>1, <3>2, ConstantFacts DEF InSight
    <2>4. Untouched(j)
      <3> SUFFICES ASSUME NEW m \in j + 1 .. Len(commits),
                          SameDevice(commits[m].dev, commits[j].dev)
                   PROVE  PutOnline(m, commits[j].dev.user, commits[j].dev)
        BY DEF Untouched
      <3>1. m \in DOMAIN commits /\ m \in j + 1 .. Len(commits)'
        BY <1>1, <2>1
      <3>2. commits'[m] = commits[m]
        BY <1>1, <3>1
      <3> QED BY <2>1, <3>1, <3>2 DEF Wanted, Untouched, PutOnline
    <2>5. Wanted(j, r.user)
      BY <2>1, <2>3, <2>4 DEF Wanted, PutOnline
    <2> QED BY <2>1, <2>2, <2>5 DEF VisitOK, Visits
  <1> QED BY <1>4, <1>5, <1>6 DEF VisitOK

\* What a call is known by when its range is what it was and it has returned
\* an error, or goes on with no less to visit and to show.
LEMMA VisitKept ==
    ASSUME NEW q, NEW r, VisitOK(q), r.user = q.user, r.begin = q.begin, r.mark = q.mark,
           r.keys = q.keys,
           \/ r.pc = "done" /\ r.err # "none"
           \/ r.pc = "stream" /\ q.pc = "stream" /\ Visits(r)
           \/ r.pc = "done" /\ Visits(r)
    PROVE  VisitOK(r)
  <1>1. Ordered(r) /\ WrittenBefore(r)
    BY DEF VisitOK, Ordered, WrittenBefore
  <1>2. Visits(r)
    BY DEF Visits
  <1> QED BY <1>1, <1>2 DEF VisitOK

\* A call starts after the writes of now and before.
LEMMA VisitStarts ==
    ASSUME TypeInv, FreshInv, NEW r, r.keys = <<>>,
           \/ /\ r.pc = "range" /\ r.i = FirstOffset /\ r.begin = now /\ r.mark = Len(commits)
           \/ r.pc = "idle" /\ r.mark = 0
    PROVE  VisitOK(r)
  <1>1. Ordered(r)
    BY ConstantFacts DEF Ordered, FirstOffset
  <1>2. WrittenBefore(r)
    <2>1. DOMAIN commits = 1 .. Len(commits)
      BY DEF TypeInv
    <2> QED BY <2>1 DEF FreshInv, KeysPast, WrittenBefore
  <1>3. Visits(r)
    BY DEF Visits
  <1> QED BY <1>1, <1>2, <1>3 DEF VisitOK

\* One iteration of BucketRange.
LEMMA VisitRange ==
    ASSUME TypeInv, ReadInv, VisitInv, NEW g \in Getters, RangeBucket(g)
    PROVE  \E r : VisitOK(r) /\ get' = [get EXCEPT ![g] = r]
  <1>1. PICK q \in GetState : q = get[g]
    BY DEF TypeInv
  <1>2. /\ ReadOK(q) /\ VisitOK(q) /\ q.i \in FirstOffset .. 1 /\ q.user \in Seq(Segment)
        /\ q.keys \in Seq(Seq(Segment)) /\ q.pc = "range" /\ now \in Nat
    BY <1>1 DEF ReadInv, VisitInv, GetState, TypeInv, RangeBucket
  <1>3. q.i \in Int /\ now \in Int /\ NumBuckets \in Nat /\ Len(q.keys) = q.i + NumBuckets
    BY <1>2, ConstantFacts DEF FirstOffset, VisitOK, Ordered
  <1> DEFINE b == BucketWithOffset(now, q.user, BucketSize, q.i)
  <1>4. PICK y \in Int : y = BucketOf(now)
    BY <1>2, BucketOrder
  <1>5. PICK x \in Int : x = Index(b) /\ String(b) = Append(q.user, x) /\ x = y + q.i
    <2>1. Index(b) = y + q.i
      BY <1>2, <1>3, <1>4, OffsetNumber
    <2> QED BY <2>1, <1>2, <1>3, <1>4, BucketNumber
  <1>6. PICK key \in Seq(Segment) : key = String(b) /\ key = Append(q.user, x)
    <2>1. String(b) \in Seq(Segment)
      BY <1>2, <1>3, BucketKeyTyped
    <2> QED BY <1>5, <2>1
  <1>7. PICK pc \in {"range", "sunion"} : pc = IF q.i = 0 THEN "sunion" ELSE "range"
    OBVIOUS
  <1> DEFINE r == [q EXCEPT !.keys = Append(@, key), !.i = @ + 1, !.pc = pc]
  <1>8. get' = [get EXCEPT ![g] = r]
    BY <1>1, <1>6, <1>7 DEF RangeBucket, TypeInv
  <1>9. /\ r.user = q.user /\ r.begin = q.begin /\ r.mark = q.mark
        /\ r.i = q.i + 1 /\ r.pc = pc /\ r.keys = Append(q.keys, key)
    BY DEF GetState
  <1> HIDE DEF r, b
  <1>10. PICK l \in Nat : l = Len(q.keys) /\ DOMAIN q.keys = 1 .. l
    BY <1>2
  <1>11. PICK keys \in Seq(Seq(Segment)) :
            /\ keys = Append(q.keys, key) /\ Len(keys) = l + 1 /\ DOMAIN keys = 1 .. l + 1
            /\ keys[l + 1] = key /\ \A n \in 1 .. l : keys[n] = q.keys[n]
    <2>1. Append(q.keys, key) \in Seq(Seq(Segment))
      BY <1>2, <1>6
    <2>2. PICK keys \in Seq(Seq(Segment)) : keys = Append(q.keys, key)
      BY <2>1, Zenon
    <2>3. Len(keys) = l + 1 /\ keys[l + 1] = key /\ \A n \in 1 .. l : keys[n] = q.keys[n]
      BY <1>2, <1>10, <2>2
    <2>4. DOMAIN keys = 1 .. l + 1
      BY <2>2, <2>3
    <2> QED BY <2>2, <2>3, <2>4, Zenon
  <1>12. NumberOf(key) = x
    BY <1>2, <1>6, LastOfKey DEF NumberOf
  <1>13. \A n \in 1 .. l : /\ NumberOf(q.keys[n]) \in Int
                           /\ NumberOf(q.keys[n]) <= y + n - 1 - NumBuckets
    BY <1>2, <1>4, <1>10, RangeNumbers DEF VisitOK, Ordered
  <1>14. ASSUME NEW n \in 1 .. l + 1
         PROVE  NumberOf(keys[n]) <= y + n - 1 - NumBuckets
    <2>1. CASE n = l + 1
      <3>1. NumberOf(keys[n]) = y + q.i
        BY <1>5, <1>11, <1>12, <2>1
      <3>2. PICK i \in Int, c \in Nat : i = q.i /\ c = NumBuckets
        BY <1>3
      <3>3. n = i + c + 1
        BY <1>3, <1>10, <2>1, <3>2
      <3> QED BY <3>1, <3>2, <3>3
    <2>2. CASE n # l + 1
      <3>1. n \in 1 .. l
        BY <1>10, <2>2
      <3> QED BY <1>11, <1>13, <3>1
    <2> QED BY <2>1, <2>2
  <1>15. ASSUME NEW n \in 1 .. l + 1, NEW m \in 1 .. l + 1, n < m
         PROVE  NumberOf(keys[m]) - NumberOf(keys[n]) >= m - n
    <2>1. n \in 1 .. l /\ keys[n] = q.keys[n]
      BY <1>10, <1>11, <1>15
    <2>2. CASE m = l + 1
      <3>1. PICK z \in Int : z = NumberOf(keys[n]) /\ z <= y + n - 1 - NumBuckets
        BY <1>13, <2>1
      <3>2. PICK w \in Int : w = NumberOf(keys[m]) /\ w = y + q.i
        BY <1>3, <1>5, <1>11, <1>12, <2>2
      <3>3. PICK i \in Int, c \in Nat : i = q.i /\ c = NumBuckets
        BY <1>3
      <3>4. n \in Int /\ m = i + c + 1
        BY <1>3, <1>10, <2>2, <3>3
      <3>5. w = y + i /\ z <= y + n - 1 - c
        BY <3>1, <3>2, <3>3
      <3>6. w - z >= m - n
        BY <3>4, <3>5
      <3> QED BY <3>1, <3>2, <3>6
    <2>3. CASE m # l + 1
      <3>1. m \in 1 .. l /\ keys[m] = q.keys[m]
        BY <1>10, <1>11, <2>3
      <3> QED BY <1>2, <1>10, <1>15, <2>1, <3>1 DEF VisitOK, Ordered
    <2> QED BY <2>2, <2>3
  <1>16. Ordered(r)
    <2>1. r.pc = "range" => Len(r.keys) = r.i + NumBuckets
      BY <1>3, <1>9, <1>10, <1>11
    <2>2. r.pc \in {"sunion", "stream"} => Len(r.keys) = NumBuckets + 1
      <3>1. r.pc \in {"sunion", "stream"} => q.i = 0
        BY <1>7, <1>9
      <3> QED BY <1>3, <1>9, <1>10, <1>11, <3>1
    <2> QED BY <1>4, <1>9, <1>11, <1>14, <1>15, <2>1, <2>2 DEF Ordered
  <1>17. WrittenBefore(r)
    BY <1>2, <1>9 DEF VisitOK, WrittenBefore
  <1>18. Visits(r)
    BY <1>7, <1>9 DEF Visits
  <1> QED BY <1>8, <1>16, <1>17, <1>18 DEF VisitOK

\* A range without a hole has the bucket of each write in sight that was
\* executed before the call.
LEMMA RangeCovers ==
    ASSUME TypeInv, StoreInv, NEW r \in GetState, ReadOK(r), Ordered(r), WrittenBefore(r),
           r.pc = "sunion", NoGap(r.keys), NEW j \in 1 .. r.mark, j \in DOMAIN commits,
           commits[j].dev.user = r.user, InSight(j)
    PROVE  \E n \in DOMAIN r.keys : r.keys[n] = commits[j].key
  <1>1. PICK c \in Nat : c = NumBuckets
    BY ConstantFacts
  <1>2. PICK keys \in Seq(Seq(Segment)) :
          keys = r.keys /\ Len(keys) = c + 1 /\ DOMAIN keys = 1 .. c + 1
    <2>1. r.keys \in Seq(Seq(Segment)) /\ Len(r.keys) = c + 1
      BY <1>1 DEF GetState, Ordered
    <2> QED BY <2>1
  <1>3. PICK b \in Int : b = BucketOfCommit(j) /\ commits[j].key = Append(r.user, b)
    BY CommitNumber
  <1>4. PICK y \in Int : y = BucketOf(now)
    <2>1. now \in Int
      BY DEF TypeInv
    <2> QED BY <2>1, BucketBounds
  <1>5. PICK t \in Int : t = BucketOf(r.begin)
    <2>1. r.begin \in Int
      BY DEF GetState
    <2> QED BY <2>1, BucketBounds
  <1>6. \A n \in 1 .. c + 1 : /\ NumberOf(keys[n]) \in Int
                              /\ keys[n] = Append(r.user, NumberOf(keys[n]))
                              /\ NumberOf(keys[n]) >= t - c
    <2> SUFFICES ASSUME NEW n \in 1 .. c + 1
                 PROVE  /\ NumberOf(keys[n]) \in Int
                        /\ keys[n] = Append(r.user, NumberOf(keys[n]))
                        /\ NumberOf(keys[n]) >= t - c
      OBVIOUS
    <2>1. n \in DOMAIN r.keys /\ keys[n] = r.keys[n]
      BY <1>2
    <2>2. /\ NumberOf(keys[n]) \in Int /\ keys[n] = Append(r.user, NumberOf(keys[n]))
          /\ InWindow(NumberOf(keys[n]), r.begin)
      BY <2>1, RangeNumbers
    <2> QED BY <1>1, <1>5, <2>2 DEF InWindow
  <1>7. PICK first \in Int : first = NumberOf(keys[1]) /\ first >= t - c
    <2>1. 1 \in 1 .. c + 1
      OBVIOUS
    <2> QED BY <1>6, <2>1
  <1>8. PICK last \in Int : last = NumberOf(keys[c + 1]) /\ last <= y /\ last - first = c
    <2>1. c + 1 \in 1 .. c + 1 /\ c + 1 \in Int
      OBVIOUS
    <2>2. PICK last \in Int : last = NumberOf(keys[c + 1])
      BY <1>6, <2>1
    <2>3. last <= y + (c + 1) - 1 - c
      BY <1>1, <1>2, <1>4, <2>1, <2>2 DEF Ordered
    <2>4. last - first = c
      <3>1. NumberOf(keys[Len(keys)]) - NumberOf(keys[1]) = NumBuckets
        BY <1>2 DEF NoGap
      <3> QED BY <1>1, <1>2, <1>7, <2>2, <3>1
    <2>5. last <= y
      BY <2>3
    <2> QED BY <2>2, <2>4, <2>5, Zenon
  <1>9. b >= y - c /\ b <= t
    <2>1. b >= y - c
      BY <1>1, <1>3, <1>4 DEF InSight
    <2>2. b <= t
      BY <1>3, <1>5 DEF WrittenBefore
    <2> QED BY <2>1, <2>2
  <1>10. PICK n \in 1 .. c + 1 : n = b - first + 1
    <2>1. b - first + 1 \in 1 .. c + 1
      BY <1>7, <1>8, <1>9
    <2> QED BY <2>1
  <1>11. PICK x \in Int : x = NumberOf(keys[n]) /\ keys[n] = Append(r.user, x)
    BY <1>6
  <1>12. \A p, q \in 1 .. c + 1 : p < q => NumberOf(keys[q]) - NumberOf(keys[p]) >= q - p
    BY <1>2 DEF Ordered
  <1>13. x >= first + n - 1
    <2>1. CASE n = 1
      BY <1>7, <1>11, <2>1
    <2>2. CASE n # 1
      <3>1. 1 \in 1 .. c + 1 /\ 1 < n
        BY <2>2
      <3>2. x - first >= n - 1
        BY <1>7, <1>11, <1>12, <3>1
      <3> QED BY <3>2
    <2> QED BY <2>1, <2>2
  <1>14. x <= first + n - 1
    <2>1. CASE n = c + 1
      BY <1>8, <1>11, <2>1
    <2>2. CASE n # c + 1
      <3>1. c + 1 \in 1 .. c + 1 /\ n < c + 1
        BY <2>2
      <3>2. last - x >= (c + 1) - n
        BY <1>8, <1>11, <1>12, <3>1
      <3> QED BY <1>8, <3>2
    <2> QED BY <2>1, <2>2
  <1>15. x = b
    BY <1>10, <1>13, <1>14
  <1> QED BY <1>2, <1>3, <1>11, <1>15

\* The SUNION has the key of each device wanted.
LEMMA VisitUnion ==
    ASSUME TypeInv, StoreInv, FreshInv, ReadInv, VisitInv, NEW g \in Getters, UnionBuckets(g)
    PROVE  \E r : VisitOK(r) /\ get' = [get EXCEPT ![g] = r]
  <1>1. PICK q \in GetState : q = get[g]
    BY DEF TypeInv
  <1>2. ReadOK(q) /\ VisitOK(q) /\ q.pc = "sunion" /\ q.user \in Seq(Segment)
    BY <1>1 DEF ReadInv, VisitInv, GetState, UnionBuckets
  <1>3. PICK todo : todo = SUNION(redis, KeySet(g))
    OBVIOUS
  <1> DEFINE r == [q EXCEPT !.pc = "stream", !.todo = todo]
  <1>4. get' = [get EXCEPT ![g] = r]
    BY <1>1, <1>3 DEF UnionBuckets, TypeInv
  <1>5. /\ r.user = q.user /\ r.begin = q.begin /\ r.mark = q.mark
        /\ r.keys = q.keys /\ r.pc = "stream" /\ r.todo = todo
    BY DEF GetState
  <1> HIDE DEF r
  <1>6. Ordered(r) /\ WrittenBefore(r)
    BY <1>2, <1>5 DEF VisitOK, Ordered, WrittenBefore
  <1>7. ASSUME NoGap(q.keys), NoCollision(q.user), NEW j \in 1 .. q.mark, Wanted(j, q.user)
        PROVE  makeKey(commits[j].dev) \in todo
    <2>1. j \in DOMAIN commits
      <3>1. q.mark \in Nat /\ q.mark <= Len(commits) /\ Len(commits) \in Nat
        BY <1>2 DEF GetState, ReadOK, TypeInv
      <3>2. PICK m \in Nat, l \in Nat : m = q.mark /\ l = Len(commits) /\ m <= l
        BY <3>1
      <3>3. DOMAIN commits = 1 .. l
        BY <3>2 DEF TypeInv
      <3> QED BY <3>2, <3>3
    <2>2. commits[j].dev.status = Device_ONLINE /\ commits[j].dev.user = q.user /\ InSight(j)
      BY <1>7 DEF Wanted, PutOnline
    <2>3. PICK n \in DOMAIN q.keys : q.keys[n] = commits[j].key
      BY <1>2, <1>7, <2>1, <2>2, RangeCovers DEF VisitOK
    <2>4. Indexed(j)
      BY <1>7, <2>1, <2>2 DEF FreshInv, KeptInSight
    <2>5. commits[j].key \in KeySet(g) \cap DOMAIN redis
      BY <1>1, <2>3, <2>4 DEF KeySet, Indexed, IsSet
    <2>6. makeKey(commits[j].dev) \in redis[commits[j].key].members
      BY <2>4 DEF Indexed
    <2> QED BY <1>3, <2>5, <2>6 DEF SUNION
  <1>8. Visits(r)
    BY <1>5, <1>7 DEF Visits
  <1> QED BY <1>4, <1>6, <1>8 DEF VisitOK

\* A device wanted is the device its key is parsed into.
LEMMA ParsedWanted ==
    ASSUME NEW d \in Device, d.type \in DOMAIN Device_Type_name, d.status = Device_ONLINE
    PROVE  parseDevice(d.user, makeKey(d)) = d
  <1>1. d.type = 0
    BY DEF Device_Type_name
  <1>2. Head(makeKey(d)) = WS /\ Tail(makeKey(d)) = d.id
    <2>1. EnumName(d.type) = WS
      BY <1>1, TypeNames
    <2> QED BY <2>1, DeviceKey
  <1>3. parseDevice(d.user, makeKey(d))
           = [id |-> d.id, type |-> 0, user |-> d.user, status |-> Device_ONLINE]
    BY <1>2 DEF parseDevice, Device_Type_value
  <1>4. d = [id |-> d.id, type |-> d.type, user |-> d.user, status |-> d.status]
    BY DEF Device
  <1> QED BY <1>1, <1>3, <1>4

\* A device wanted is in the store.
LEMMA WantedAlive ==
    ASSUME TypeInv, FreshInv, NEW r \in GetState, ReadOK(r), NEW j \in 1 .. r.mark,
           Wanted(j, r.user)
    PROVE  /\ j \in DOMAIN commits /\ IsString(redis, makeKey(commits[j].dev))
           /\ redis[makeKey(commits[j].dev)].string = commits[j].dev.user
           /\ commits[j].dev \in Device
           /\ parseDevice(commits[j].dev.user, makeKey(commits[j].dev)) = commits[j].dev
  <1>1. j \in DOMAIN commits
    <2>1. r.mark \in Nat /\ r.mark <= Len(commits) /\ Len(commits) \in Nat
      BY DEF GetState, ReadOK, TypeInv
    <2>2. PICK m \in Nat, l \in Nat : m = r.mark /\ l = Len(commits) /\ m <= l
      BY <2>1
    <2>3. DOMAIN commits = 1 .. l
      BY <2>2 DEF TypeInv
    <2> QED BY <2>2, <2>3
  <1>2. commits[j].dev.status = Device_ONLINE
    BY DEF Wanted, PutOnline
  <1>3. Alive(j)
    BY <1>1, <1>2 DEF FreshInv, KeptInSight, Wanted
  <1>4. PICK d \in Device : d = commits[j].dev
    BY <1>1, CommitFacts
  <1>5. d.type \in DOMAIN Device_Type_name
    BY <1>4 DEF Wanted
  <1>6. parseDevice(d.user, makeKey(d)) = d
    BY <1>2, <1>4, <1>5, ParsedWanted
  <1> QED BY <1>1, <1>3, <1>4, <1>6 DEF Alive

\* A device is skipped, or sent: only a device wanted that is no longer to be
\* visited has been sent.
LEMMA VisitOne ==
    ASSUME TypeInv, FreshInv, ReadInv, VisitInv, NEW g \in Getters, NEW k \in get[g].todo,
           SkipDevice(g, k) \/ SendDevice(g, k)
    PROVE  \E r : VisitOK(r) /\ get' = [get EXCEPT ![g] = r]
  <1>1. PICK q \in GetState : q = get[g]
    BY DEF TypeInv
  <1>2. ReadOK(q) /\ VisitOK(q) /\ q.pc = "stream"
    BY <1>1 DEF ReadInv, VisitInv, SkipDevice, SendDevice
  <1>3. PICK sent :
          \/ SkipDevice(g, k) /\ sent = q.sent
          \/ SendDevice(g, k) /\ sent = q.sent \cup {parseDevice(redis[k].string, k)}
    OBVIOUS
  <1> DEFINE r == [q EXCEPT !.sent = sent, !.todo = @ \ {k}]
  <1>4. get' = [get EXCEPT ![g] = r]
    <2>1. CASE SkipDevice(g, k) /\ sent = q.sent
      <3>1. r = [q EXCEPT !.todo = @ \ {k}]
        BY <2>1 DEF GetState
      <3> QED BY <1>1, <2>1, <3>1 DEF SkipDevice, TypeInv
    <2>2. CASE SendDevice(g, k) /\ sent = q.sent \cup {parseDevice(redis[k].string, k)}
      BY <1>1, <2>2 DEF SendDevice, TypeInv
    <2> QED BY <1>3, <2>1, <2>2
  <1>5. /\ r.user = q.user /\ r.begin = q.begin /\ r.mark = q.mark /\ r.keys = q.keys
        /\ r.pc = "stream" /\ r.todo = q.todo \ {k} /\ r.sent = sent
    BY <1>2 DEF GetState
  <1> HIDE DEF r
  <1>6. Visits(r)
    <2> SUFFICES ASSUME NoGap(q.keys), NoCollision(q.user), NEW j \in 1 .. q.mark,
                        Wanted(j, q.user)
                 PROVE  makeKey(commits[j].dev) \in q.todo \ {k} \/ commits[j].dev \in sent
      BY <1>5 DEF Visits
    <2>1. /\ IsString(redis, makeKey(commits[j].dev))
          /\ redis[makeKey(commits[j].dev)].string = commits[j].dev.user
          /\ parseDevice(commits[j].dev.user, makeKey(commits[j].dev)) = commits[j].dev
      BY <1>2, WantedAlive
    <2>2. makeKey(commits[j].dev) \in q.todo \/ commits[j].dev \in q.sent
      BY <1>2 DEF VisitOK, Visits
    <2>3. q.sent \subseteq sent
      BY <1>3
    <2>4. ASSUME makeKey(commits[j].dev) = k PROVE commits[j].dev \in sent
      <3>1. ~SkipDevice(g, k)
        BY <2>1, <2>4 DEF SkipDevice, IsString
      <3>2. parseDevice(redis[k].string, k) = commits[j].dev
        BY <2>1, <2>4
      <3> QED BY <1>3, <3>1, <3>2
    <2> QED BY <2>2, <2>3, <2>4
  <1>7. VisitOK(r)
    BY <1>2, <1>5, <1>6, VisitKept
  <1> QED BY <1>4, <1>7

\* The steps of a GetDevices handler.
LEMMA VisitGet ==
    ASSUME TypeInv, StoreInv, FreshInv, ReadInv, VisitInv, NEW g \in Getters,
           GetReturns(g) \/ GetContinues(g)
    PROVE  \E r : VisitOK(r) /\ get' = [get EXCEPT ![g] = r]
  <1>1. PICK q \in GetState : q = get[g] /\ ReadOK(q) /\ VisitOK(q)
    BY DEF TypeInv, ReadInv, VisitInv
  <1>2. CASE \/ \E u \in QueryUsers : RejectDevices(g, u)
             \/ GetFails(g) \/ UnionWrongType(g)
             \/ \E k \in get[g].todo : ParseFails(g, k) \/ GetWrongType(g, k)
    <2>1. PICK err \in {"request", "io", "wrongtype", "parse"} :
            get' = [get EXCEPT ![g] = Returned(g, err)]
      BY <1>2 DEF RejectDevices, GetFails, UnionWrongType, ParseFails, GetWrongType
    <2>2. PICK r : r = Returned(g, err)
      OBVIOUS
    <2>3. /\ r.user = q.user /\ r.begin = q.begin /\ r.mark = q.mark /\ r.keys = q.keys
          /\ r.err = err
      BY <1>1, <2>2, ReturnedFacts
    <2>4. r.pc = "done"
      BY <1>1, <2>2 DEF Returned, GetState
    <2>5. VisitOK(r)
      BY <1>1, <2>3, <2>4, VisitKept
    <2> QED BY <2>1, <2>2, <2>5
  <1>3. CASE FinishDevices(g)
    <2>1. PICK r : r = Returned(g, "none")
      OBVIOUS
    <2>2. /\ r.user = q.user /\ r.begin = q.begin /\ r.mark = q.mark /\ r.keys = q.keys
          /\ r.sent = q.sent
      BY <1>1, <2>1, ReturnedFacts
    <2>3. r.pc = "done"
      BY <1>1, <2>1 DEF Returned, GetState
    <2>4. q.pc = "stream" /\ q.todo = {} /\ get' = [get EXCEPT ![g] = r]
      BY <1>1, <1>3, <2>1 DEF FinishDevices
    <2>5. Visits(r)
      BY <1>1, <2>2, <2>4 DEF VisitOK, Visits
    <2>6. VisitOK(r)
      BY <1>1, <2>2, <2>3, <2>5, VisitKept
    <2> QED BY <2>4, <2>6
  <1>4. CASE \E u \in QueryUsers : GetDevices(g, u)
    <2>1. PICK u \in QueryUsers : GetDevices(g, u)
      BY <1>4
    <2>2. PICK r : r = [IdleGet EXCEPT !.pc = "range", !.user = u, !.i = FirstOffset,
                                       !.begin = now, !.mark = Len(commits)]
      OBVIOUS
    <2>3. /\ r.pc = "range" /\ r.i = FirstOffset /\ r.begin = now /\ r.mark = Len(commits)
          /\ r.keys = <<>>
      BY <2>2 DEF IdleGet
    <2>4. VisitOK(r)
      BY <2>3, VisitStarts
    <2> QED BY <2>1, <2>2, <2>4 DEF GetDevices
  <1>5. CASE ReplyDevices(g)
    <2>1. PICK r : r = IdleGet
      OBVIOUS
    <2>2. VisitOK(r)
      <3>1. r.pc = "idle" /\ r.mark = 0 /\ r.keys = <<>>
        BY <2>1 DEF IdleGet
      <3> QED BY <3>1, VisitStarts
    <2> QED BY <1>5, <2>1, <2>2 DEF ReplyDevices
  <1>6. CASE RangeBucket(g)
    BY <1>6, VisitRange
  <1>7. CASE UnionBuckets(g)
    BY <1>7, VisitUnion
  <1>8. CASE \E k \in get[g].todo : SkipDevice(g, k) \/ SendDevice(g, k)
    BY <1>8, VisitOne
  <1> QED BY <1>2, <1>3, <1>4, <1>5, <1>6, <1>7, <1>8 DEF GetReturns, GetContinues

\* VisitInv holds in every state.
LEMMA VisitInvariance == Spec => []VisitInv
  <1>1. Init => VisitInv
    <2> SUFFICES ASSUME Init, NEW g \in Getters PROVE VisitOK(get[g])
      BY DEF VisitInv
    <2>1. get[g] = IdleGet
      BY DEF Init
    <2>2. PICK r : r = get[g] /\ r.pc = "idle" /\ r.mark = 0 /\ r.keys = <<>>
      BY <2>1 DEF IdleGet
    <2>3. VisitOK(r)
      BY <2>2 DEF VisitOK, Ordered, WrittenBefore, Visits
    <2> QED BY <2>2, <2>3
  <1>2. TypeInv /\ TypeInv' /\ StoreInv /\ FreshInv /\ ReadInv /\ VisitInv /\ [Next]_vars
        => VisitInv'
    <2> SUFFICES ASSUME TypeInv, TypeInv', StoreInv, FreshInv, ReadInv, VisitInv, [Next]_vars
                 PROVE  VisitInv'
      OBVIOUS
    <2>1. now \in Nat /\ get \in [Getters -> GetState]
      BY DEF TypeInv
    <2>2. now' \in Nat /\ now <= now' /\ Grows
      <3>1. CASE Tick
        BY <2>1, <3>1, ConstantFacts DEF Tick, Grows
      <3>2. CASE \/ \E s \in Setters, req \in Requests : SetStatus(s, req)
                 \/ \E s \in Setters : SetLocal(s) \/ CommitStatus(s) \/ Publish(s)
                 \/ \E g \in Getters : GetReturns(g) \/ GetContinues(g)
                 \/ Crash \/ UNCHANGED vars
        <4>1. now' = now /\ Grows
          BY <3>2 DEF SetStatus, SetLocal, CommitStatus, Publish, RejectStatus, ReadBucket,
                 StampEvent, RedisFails, ReplyStatus, PublishEvent, RetryPublish, PublishFails,
                 GetReturns, GetContinues, RejectDevices, GetDevices, RangeBucket, UnionBuckets,
                 UnionWrongType, SkipDevice, SendDevice, ParseFails, GetWrongType, GetFails,
                 FinishDevices, ReplyDevices, Crash, vars, Grows
        <4> QED BY <2>1, <4>1
      <3> QED BY <3>1, <3>2, NextCases
    <2>3. ASSUME NEW r \in GetState, NEW g \in Getters, ReadOK(r), VisitOK(r), r = get'[g]
          PROVE  VisitOK(get[g])'
      <3>1. VisitOK(r)'
        BY <2>2, <2>3, VisitGrows
      <3> QED BY <2>3, <3>1 DEF VisitOK, Ordered, WrittenBefore, Visits
    <2>4. CASE get' = get
      <3> SUFFICES ASSUME NEW g \in Getters PROVE VisitOK(get[g])'
        BY DEF VisitInv
      <3>1. PICK r \in GetState : r = get[g] /\ ReadOK(r) /\ VisitOK(r)
        BY <2>1 DEF ReadInv, VisitInv
      <3> QED BY <2>3, <2>4, <3>1
    <2>5. CASE Crash
      <3> SUFFICES ASSUME NEW g \in Getters PROVE VisitOK(get[g])'
        BY DEF VisitInv
      <3>1. PICK r : r = get'[g] /\ r.pc = "idle" /\ r.mark = 0 /\ r.keys = <<>>
        BY <2>5 DEF Crash, IdleGet
      <3>2. VisitOK(r)'
        BY <3>1 DEF VisitOK, Ordered, WrittenBefore, Visits
      <3> QED BY <3>1, <3>2 DEF VisitOK, Ordered, WrittenBefore, Visits
    <2>6. CASE \E g \in Getters : GetReturns(g) \/ GetContinues(g)
      <3> SUFFICES ASSUME NEW h \in Getters PROVE VisitOK(get[h])'
        BY DEF VisitInv
      <3>1. PICK g \in Getters : GetReturns(g) \/ GetContinues(g)
        BY <2>6
      <3>2. UNCHANGED <<now, redis, commits>>
        BY <3>1 DEF GetReturns, GetContinues, RejectDevices, GetDevices, RangeBucket,
               UnionBuckets, UnionWrongType, SkipDevice, SendDevice, ParseFails, GetWrongType,
               GetFails, FinishDevices, ReplyDevices
      <3>3. PICK r : r = get'[h] /\ VisitOK(r)
        <4>1. PICK r : VisitOK(r) /\ get' = [get EXCEPT ![g] = r]
          BY <3>1, VisitGet
        <4> QED BY <2>1, <4>1 DEF VisitInv
      <3> QED BY <3>2, <3>3 DEF VisitOK, Ordered, WrittenBefore, Visits, Wanted, PutOnline,
                 InSight, Untouched, NoCollision, BucketOfCommit
    <2>7. CASE UNCHANGED vars
      BY <2>4, <2>7 DEF vars
    <2>8. CASE \/ \E s \in Setters, req \in Requests : SetStatus(s, req)
               \/ \E s \in Setters : SetLocal(s) \/ CommitStatus(s) \/ Publish(s)
               \/ Tick
      <3>1. get' = get
        BY <2>8 DEF SetStatus, SetLocal, CommitStatus, Publish, RejectStatus, ReadBucket,
               StampEvent, RedisFails, ReplyStatus, PublishEvent, RetryPublish, PublishFails,
               Tick
      <3> QED BY <2>4, <3>1
    <2> QED BY <2>5, <2>6, <2>7, <2>8, NextCases
  <1> QED BY <1>1, <1>2, TypeInvariance, StoreInvariance, FreshInvariance, ReadInvariance,
             PTL DEF Spec

\* GetDevices misses nobody whose last sign of life is within the window, for
\* every size and number of buckets, however long Redis, the clock and the
\* writers make each step take.
THEOREM NobodyMissed == Spec => []NoMissedDevice
  <1>1. TypeInv /\ FreshInv /\ ReadInv /\ VisitInv => NoMissedDevice
    <2> SUFFICES ASSUME TypeInv, FreshInv, ReadInv, VisitInv, NEW g \in Getters,
                        get[g].pc = "done", get[g].err = "none", NoHole(g),
                        \A m \in DOMAIN commits : ~Collides(commits[m].dev, get[g].user),
                        NEW j \in 1 .. get[g].mark, NEW d, d = commits[j].dev,
                        PutOnline(j, get[g].user, d), d.type \in DOMAIN Device_Type_name,
                        BucketOfCommit(j) >= BucketOf(now) - NumBuckets,
                        \A m \in j + 1 .. Len(commits) :
                           SameDevice(commits[m].dev, d) => PutOnline(m, get[g].user, d)
                 PROVE  [d EXCEPT !.status = Device_ONLINE] \in get[g].sent
      BY DEF NoMissedDevice
    <2>1. PICK r \in GetState : r = get[g] /\ ReadOK(r) /\ VisitOK(r)
      BY DEF TypeInv, ReadInv, VisitInv
    <2>2. NoGap(r.keys) /\ NoCollision(r.user)
      BY <2>1 DEF NoHole, NoGap, NumberOf, NoCollision
    <2>3. d.user = r.user /\ d.status = Device_ONLINE
      BY <2>1 DEF PutOnline
    <2>4. Wanted(j, r.user)
      BY <2>1, <2>3 DEF Wanted, InSight, Untouched
    <2>5. d \in r.sent
      BY <2>1, <2>2, <2>4 DEF VisitOK, Visits
    <2>6. d \in Device
      BY <2>1, <2>4, WantedAlive
    <2>7. [d EXCEPT !.status = Device_ONLINE] = d
      BY <2>3, <2>6 DEF Device
    <2> QED BY <2>1, <2>5, <2>7
  <1> QED BY <1>1, TypeInvariance, FreshInvariance, ReadInvariance, VisitInvariance, PTL
=============================================================================
