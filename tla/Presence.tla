------------------------------ MODULE Presence ------------------------------
(***************************************************************************)
(* devicepresence/manager.go: the presence manager.  Concurrent gRPC       *)
(* handlers run SetStatus and GetDevices against one Redis database and    *)
(* one Kafka topic; every handler step is an action, so handlers, the      *)
(* clock, failures of Redis and Kafka, and crashes of the process          *)
(* interleave in every order.                                              *)
(*                                                                         *)
(* Strings (user ids, device ids, Redis keys) are sequences of segments,   *)
(* see module Bucket.  The empty string is the empty sequence.             *)
(***************************************************************************)
EXTENDS Bucket, Redis, FiniteSets

CONSTANTS
    Setters, Getters, \* the goroutines that run SetStatus and GetDevices
    Text,             \* the segments that are not decimal numbers
    WS,               \* the segment "WS", the name of the device type 0
    Nil,              \* no device
    Requests,         \* the devices of the status requests, and Nil
    QueryUsers,       \* the user ids of the devices requests
    BucketSize, NumBuckets,     \* the constants of manager.go
    RetryMax,                   \* Producer.Retry.Max of sarama
    StartTime, TickSize,        \* the clock at the start, and its step
    MaxTime, MaxCalls           \* bounds: on the clock, on SetStatus calls

Segment == Text \cup Int
Device == [id : Seq(Segment), type : Int, user : Seq(Segment), status : Int]

ASSUME PresenceAssumption ==
    /\ WS \in Text
    /\ \A t \in Text : t \notin Int
    /\ Requests \subseteq Device \cup {Nil} /\ Nil \notin Device
    /\ QueryUsers \subseteq Seq(Segment)
    /\ NumBuckets \in Nat \ {0} /\ NumBuckets < Second /\ RetryMax \in Nat
    /\ BucketSize \in Nat /\ BucketSize >= Second /\ BucketSize % Second = 0
    /\ StartTime \in Nat /\ StartTime >= NumBuckets * BucketSize
    /\ TickSize \in Nat \ {0} /\ MaxTime \in Nat /\ MaxCalls \in Nat

VARIABLES
    now,     \* the clock, shared by the service and Redis
    redis,   \* the Redis database
    topic,   \* user id -> the events published with that key, in order
    set,     \* the SetStatus handlers
    get,     \* the GetDevices handlers
    \* The variables below are not in the code.
    started, \* SetStatus calls so far, for the bound MaxCalls
    commits, \* history: the SetStatus writes in the order Redis executed them
    settled  \* history: events of acknowledged calls no other call has touched

vars == <<now, redis, topic, set, get, started, commits, settled>>

-----------------------------------------------------------------------------
(* The generated enums and the conversions between devices and keys. *)

Device_ONLINE == 0
Device_Type_name == [v \in {0} |-> WS]
Device_Type_value == [s \in {WS} |-> 0]

\* proto.EnumName: a value without a name is printed as a number.
EnumName(v) == IF v \in DOMAIN Device_Type_name THEN Device_Type_name[v] ELSE v

\* A mutant: the key is made of the user instead of the type.
BugKeyOfUser(d) == d.user \o d.id

makeKey(d) == <<EnumName(d.type)>> \o d.id

\* A mutant: the key is split at every ":".
BugSplitAll(k) == Len(k) = 2 /\ Head(k) \in DOMAIN Device_Type_value

\* parseDevice succeeds: SplitN(key, ":", 2) has two parts, the first of them
\* the name of a type.
Parses(k) == Len(k) >= 2 /\ Head(k) \in DOMAIN Device_Type_value

parseDevice(userID, k) ==
    [id |-> Tail(k), type |-> Device_Type_value[Head(k)],
     user |-> userID, status |-> Device_ONLINE]

Valid(req) == req # Nil /\ req.id # <<>> /\ req.user # <<>>

-----------------------------------------------------------------------------
(* The Redis side of a status change. *)

\* A mutant: the time to live is given in the unit EXPIRE takes.
BugTTLInSeconds == BucketSize \div Second

\* int(BucketSize): a Duration counts nanoseconds, EXPIRE takes seconds.
bucketTTL == BucketSize
deviceTTL == NumBuckets * BucketSize

ExpiresAt(seconds) == now + seconds * Second

\* MULTI; SADD; EXPIRE; SET; EXPIRE; EXEC.  A command that fails inside the
\* transaction does not stop the others and is not reported by Do("EXEC").
Online(bucketKey, d) ==
    LET indexed == EXPIRE(SADD(redis, bucketKey, makeKey(d)), bucketKey,
                          ExpiresAt(bucketTTL))
    IN  EXPIRE(SET(indexed, makeKey(d), d.user), makeKey(d), ExpiresAt(deviceTTL))

\* A mutant: every status is recorded as a sign of life.
BugAlwaysOnline(bucketKey, d) == Online(bucketKey, d)

WriteStatus(bucketKey, d) ==
    IF d.status = Device_ONLINE THEN Online(bucketKey, d) ELSE DEL(redis, makeKey(d))

-----------------------------------------------------------------------------
(* Handler states.  What a handler no longer needs is reset. *)

IdleSet == [pc |-> "idle", dev |-> Nil, key |-> <<>>, timestamp |-> 0,
            tries |-> 0, alone |-> FALSE, err |-> FALSE]

DoneSet(err) == [IdleSet EXCEPT !.pc = "done", !.err = err]

IdleGet == [pc |-> "idle", user |-> <<>>, i |-> 0, keys |-> <<>>, todo |-> {},
            sent |-> {}, err |-> "none", begin |-> 0, mark |-> 0]

Running == {"bucket", "stamp", "redis", "publish"}

\* Setter s is working on the device with key k.
WorksOn(s, k) == set[s].pc \in Running /\ makeKey(set[s].dev) = k

\* The number of the bucket of time t.
BucketOf(t) == Index(CurrentBucket(t, <<>>, BucketSize))

PartitionKeys == {r.user : r \in Requests \ {Nil}}

Init ==
    /\ now = StartTime
    /\ redis = EmptyDatabase
    /\ topic = [u \in PartitionKeys |-> <<>>]
    /\ set = [s \in Setters |-> IdleSet]
    /\ get = [g \in Getters |-> IdleGet]
    /\ started = 0
    /\ commits = <<>>
    /\ settled = {}

-----------------------------------------------------------------------------
(* SetStatus *)

\* validateRequest fails: an error before anything is touched.
RejectStatus(s, req) ==
    /\ set[s].pc = "idle"
    /\ ~Valid(req)
    /\ set' = [set EXCEPT ![s] = DoneSet(TRUE)]
    /\ UNCHANGED <<now, redis, topic, get, started, commits, settled>>

SetStatus(s, req) ==
    /\ set[s].pc = "idle"
    /\ started < MaxCalls
    /\ Valid(req)
    /\ LET k == makeKey(req)
           others == {t \in Setters : WorksOn(t, k)}
       IN  /\ set' = [t \in Setters |->
                        IF t = s THEN [IdleSet EXCEPT !.pc = "bucket", !.dev = req,
                                                      !.alone = others = {}]
                        ELSE IF t \in others THEN [set[t] EXCEPT !.alone = FALSE]
                        ELSE set[t]]
           /\ settled' = {e \in settled : makeKey(e.dev) # k}
    /\ started' = started + 1
    /\ UNCHANGED <<now, redis, topic, get, commits>>

\* bucketKey := util.CurrentBucket(clock.New(), req.Device.UserId, BucketSize)
ReadBucket(s) ==
    /\ set[s].pc = "bucket"
    /\ set' = [set EXCEPT
                 ![s].key = String(CurrentBucket(now, set[s].dev.user, BucketSize)),
                 ![s].pc = "stamp"]
    /\ UNCHANGED <<now, redis, topic, get, started, commits, settled>>

\* event.Timestamp is a second reading of the clock.
StampEvent(s) ==
    /\ set[s].pc = "stamp"
    /\ set' = [set EXCEPT ![s].timestamp = now, ![s].pc = "redis"]
    /\ UNCHANGED <<now, redis, topic, get, started, commits, settled>>

\* Redis executes the command; the reply arrives, or the connection breaks
\* first and Do returns an error for a write that has happened.
CommitStatus(s) ==
    /\ set[s].pc = "redis"
    /\ redis' = WriteStatus(set[s].key, set[s].dev)
    /\ commits' = Append(commits, [key |-> set[s].key, dev |-> set[s].dev,
                                   timestamp |-> set[s].timestamp])
    /\ \/ set' = [set EXCEPT ![s].pc = "publish"]
       \/ set' = [set EXCEPT ![s] = DoneSet(TRUE)]
    /\ UNCHANGED <<now, topic, get, started, settled>>

\* A mutant: the error of Do is not looked at.
BugIgnoreRedisError(s) ==
    /\ set[s].pc = "redis"
    /\ set' = [set EXCEPT ![s].pc = "publish"]
    /\ UNCHANGED <<now, redis, topic, get, started, commits, settled>>

\* The pool could not connect, the connection broke before the command was
\* executed, or Redis refused it.
RedisFails(s) ==
    /\ set[s].pc = "redis"
    /\ set' = [set EXCEPT ![s] = DoneSet(TRUE)]
    /\ UNCHANGED <<now, redis, topic, get, started, commits, settled>>

-----------------------------------------------------------------------------
(* sendMessage: SyncProducer.SendMessage tries up to RetryMax + 1 times. *)

EventOf(s) == [timestamp |-> set[s].timestamp, dev |-> set[s].dev]

Produce(s) == [topic EXCEPT ![set[s].dev.user] = Append(@, EventOf(s))]

\* The broker appended the event and acknowledged it: SetStatus returns nil.
PublishEvent(s) ==
    /\ set[s].pc = "publish"
    /\ topic' = Produce(s)
    /\ set' = [set EXCEPT ![s] = DoneSet(FALSE)]
    /\ settled' = IF set[s].alone THEN settled \cup {EventOf(s)} ELSE settled
    /\ UNCHANGED <<now, redis, get, started, commits>>

\* A mutant: the retries are not limited.
BugRetryForever(s) ==
    /\ set[s].pc = "publish"
    /\ set' = [set EXCEPT ![s].tries = @ + 1]
    /\ topic' \in {topic, Produce(s)}
    /\ UNCHANGED <<now, redis, get, started, commits, settled>>

\* An attempt fails with a retriable error, the event appended or not.
RetryPublish(s) ==
    /\ set[s].pc = "publish"
    /\ set[s].tries < RetryMax
    /\ set' = [set EXCEPT ![s].tries = @ + 1]
    /\ topic' \in {topic, Produce(s)}
    /\ UNCHANGED <<now, redis, get, started, commits, settled>>

\* A mutant: the error of SendMessage is dropped.
BugIgnorePublishError(s) ==
    /\ set[s].pc = "publish"
    /\ set' = [set EXCEPT ![s] = DoneSet(FALSE)]
    /\ settled' = IF set[s].alone THEN settled \cup {EventOf(s)} ELSE settled
    /\ UNCHANGED <<now, redis, topic, get, started, commits>>

\* The last attempt failed, or the error is not retriable (message too large,
\* no partition, producer shutting down): SetStatus returns the error.
PublishFails(s) ==
    /\ set[s].pc = "publish"
    /\ set' = [set EXCEPT ![s] = DoneSet(TRUE)]
    /\ topic' \in {topic, Produce(s)}
    /\ UNCHANGED <<now, redis, get, started, commits, settled>>

\* The gRPC handler writes the reply or the error; the goroutine is done.
ReplyStatus(s) ==
    /\ set[s].pc = "done"
    /\ set' = [set EXCEPT ![s] = IdleSet]
    /\ UNCHANGED <<now, redis, topic, get, started, commits, settled>>

-----------------------------------------------------------------------------
(* GetDevices *)

\* GetDevices returns err; what has been streamed stays streamed.
Returned(g, err) ==
    [get[g] EXCEPT !.pc = "done", !.err = err, !.todo = {}, !.i = 0]

RejectDevices(g, u) ==
    /\ get[g].pc = "idle"
    /\ u = <<>>
    /\ get' = [get EXCEPT ![g] = Returned(g, "request")]
    /\ UNCHANGED <<now, redis, topic, set, started, commits, settled>>

\* Mutants: one bucket too many / too few.
BugRangeTooLong == -NumBuckets - 1

FirstOffset == -NumBuckets

GetDevices(g, u) ==
    /\ get[g].pc = "idle"
    /\ u # <<>>
    /\ get' = [get EXCEPT ![g] = [IdleGet EXCEPT !.pc = "range", !.user = u,
                                    !.i = FirstOffset, !.begin = now,
                                    !.mark = Len(commits)]]
    /\ UNCHANGED <<now, redis, topic, set, started, commits, settled>>

\* One iteration of BucketRange, with its own reading of the clock, and the
\* conversion of the bucket to its key.
RangeBucket(g) ==
    /\ get[g].pc = "range"
    /\ LET key == String(BucketWithOffset(now, get[g].user, BucketSize, get[g].i))
       IN  get' = [get EXCEPT ![g].keys = Append(@, key),
                              ![g].i = @ + 1,
                              ![g].pc = IF get[g].i = 0 THEN "sunion" ELSE "range"]
    /\ UNCHANGED <<now, redis, topic, set, started, commits, settled>>

KeySet(g) == {get[g].keys[n] : n \in DOMAIN get[g].keys}

UnionBuckets(g) ==
    /\ get[g].pc = "sunion"
    /\ \A k \in KeySet(g) : ~IsString(redis, k)
    /\ get' = [get EXCEPT ![g].pc = "stream", ![g].todo = SUNION(redis, KeySet(g))]
    /\ UNCHANGED <<now, redis, topic, set, started, commits, settled>>

UnionWrongType(g) ==
    /\ get[g].pc = "sunion"
    /\ \E k \in KeySet(g) : IsString(redis, k)
    /\ get' = [get EXCEPT ![g] = Returned(g, "wrongtype")]
    /\ UNCHANGED <<now, redis, topic, set, started, commits, settled>>

\* GET returns nil: the device went offline.
SkipDevice(g, k) ==
    /\ get[g].pc = "stream" /\ k \in get[g].todo
    /\ k \notin DOMAIN redis
    /\ get' = [get EXCEPT ![g].todo = @ \ {k}]
    /\ UNCHANGED <<now, redis, topic, set, started, commits, settled>>

\* A mutant: the device that was sent is visited again.
BugNoProgress(g, k) ==
    /\ get[g].pc = "stream" /\ k \in get[g].todo
    /\ IsString(redis, k) /\ Parses(k)
    /\ get' = [get EXCEPT ![g].sent = @ \cup {parseDevice(redis[k].string, k)}]
    /\ UNCHANGED <<now, redis, topic, set, started, commits, settled>>

\* GET returns the user id; the device is parsed and sent on the stream.
SendDevice(g, k) ==
    /\ get[g].pc = "stream" /\ k \in get[g].todo
    /\ IsString(redis, k) /\ Parses(k)
    /\ get' = [get EXCEPT ![g].sent = @ \cup {parseDevice(redis[k].string, k)},
                          ![g].todo = @ \ {k}]
    /\ UNCHANGED <<now, redis, topic, set, started, commits, settled>>

\* parseDevice fails: GetDevices returns in the middle of the list.
ParseFails(g, k) ==
    /\ get[g].pc = "stream" /\ k \in get[g].todo
    /\ IsString(redis, k) /\ ~Parses(k)
    /\ get' = [get EXCEPT ![g] = Returned(g, "parse")]
    /\ UNCHANGED <<now, redis, topic, set, started, commits, settled>>

GetWrongType(g, k) ==
    /\ get[g].pc = "stream" /\ k \in get[g].todo
    /\ IsSet(redis, k)
    /\ get' = [get EXCEPT ![g] = Returned(g, "wrongtype")]
    /\ UNCHANGED <<now, redis, topic, set, started, commits, settled>>

\* Do("SUNION"), Do("GET") or stream.Send fails.
GetFails(g) ==
    /\ \/ get[g].pc = "sunion"
       \/ get[g].pc = "stream" /\ get[g].todo # {}
    /\ get' = [get EXCEPT ![g] = Returned(g, "io")]
    /\ UNCHANGED <<now, redis, topic, set, started, commits, settled>>

FinishDevices(g) ==
    /\ get[g].pc = "stream" /\ get[g].todo = {}
    /\ get' = [get EXCEPT ![g] = Returned(g, "none")]
    /\ UNCHANGED <<now, redis, topic, set, started, commits, settled>>

ReplyDevices(g) ==
    /\ get[g].pc = "done"
    /\ get' = [get EXCEPT ![g] = IdleGet]
    /\ UNCHANGED <<now, redis, topic, set, started, commits, settled>>

-----------------------------------------------------------------------------
(* The environment *)

\* Time passes, and Redis drops the keys whose time has come.
Tick ==
    /\ now + TickSize <= MaxTime
    /\ now' = now + TickSize
    /\ redis' = Evict(redis, now')
    /\ UNCHANGED <<topic, set, get, started, commits, settled>>

\* The process dies (glog.Fatalf in Dial or sendMessage, a panic, a kill) and
\* is started again: the handlers are gone, Redis and Kafka are not.
Crash ==
    /\ set' = [s \in Setters |-> IdleSet]
    /\ get' = [g \in Getters |-> IdleGet]
    /\ UNCHANGED <<now, redis, topic, started, commits, settled>>

SetStep(s) ==
    \/ ReadBucket(s) \/ StampEvent(s) \/ CommitStatus(s)
    \/ PublishEvent(s) \/ RetryPublish(s) \/ ReplyStatus(s)

GetStep(g) ==
    \/ RangeBucket(g) \/ UnionBuckets(g) \/ UnionWrongType(g)
    \/ \E k \in get[g].todo :
          SkipDevice(g, k) \/ SendDevice(g, k) \/ ParseFails(g, k) \/ GetWrongType(g, k)
    \/ FinishDevices(g) \/ ReplyDevices(g)

Next ==
    \/ \E s \in Setters, req \in Requests : RejectStatus(s, req) \/ SetStatus(s, req)
    \/ \E s \in Setters : SetStep(s) \/ RedisFails(s) \/ PublishFails(s)
    \/ \E g \in Getters, u \in QueryUsers : RejectDevices(g, u) \/ GetDevices(g, u)
    \/ \E g \in Getters : GetStep(g) \/ GetFails(g)
    \/ Tick
    \/ Crash

Spec == Init /\ [][Next]_vars

\* A handler that can go on goes on: goroutines are scheduled, and Redis, Kafka
\* and the stream answer.  Failures and crashes may happen but need not.
FairSpec ==
    /\ Spec
    /\ \A s \in Setters : WF_vars(SetStep(s))
    /\ \A g \in Getters : WF_vars(GetStep(g))

-----------------------------------------------------------------------------
Value == [kind : {"set", "string"}, members : SUBSET Seq(Segment),
          string : Seq(Segment), expires : Int]
Commit == [key : Seq(Segment), dev : Device, timestamp : Nat]
Event == [timestamp : Nat, dev : Device]

SetState == [pc : {"idle", "done"} \cup Running, dev : Device \cup {Nil},
             key : Seq(Segment), timestamp : Nat, tries : 0 .. RetryMax,
             alone : BOOLEAN, err : BOOLEAN]
GetState == [pc : {"idle", "range", "sunion", "stream", "done"},
             user : Seq(Segment), i : FirstOffset .. 1, keys : Seq(Seq(Segment)),
             todo : SUBSET Seq(Segment), sent : SUBSET Device,
             err : {"none", "request", "wrongtype", "parse", "io"},
             begin : Nat, mark : Nat]

TypeOK ==
    /\ now \in Nat
    /\ \A k \in DOMAIN redis : k \in Seq(Segment) /\ redis[k] \in Value
    /\ topic \in [PartitionKeys -> Seq(Event)]
    /\ set \in [Setters -> SetState]
    /\ get \in [Getters -> GetState]
    /\ started \in Nat
    /\ commits \in Seq(Commit)
    /\ settled \subseteq Event

-----------------------------------------------------------------------------
(* Properties of SetStatus and the event stream *)

Occurrences(e, log) == {n \in DOMAIN log : log[n] = e}

CommitsOf(e) == {j \in DOMAIN commits : [timestamp |-> commits[j].timestamp,
                                         dev |-> commits[j].dev] = e}

(***************************************************************************)
(* SetStatus never announces what it has not stored: every event in the    *)
(* topic belongs to a status change Redis has executed, whatever failed,   *)
(* crashed or was retried in between.                                      *)
(***************************************************************************)
EventsOnlyAfterCommit ==
    \A u \in PartitionKeys : \A n \in DOMAIN topic[u] : CommitsOf(topic[u][n]) # {}

(***************************************************************************)
(* A status change is published at most once per attempt of SendMessage:   *)
(* lost acknowledgements duplicate an event, but no more often than the    *)
(* retry limit of the producer allows.                                     *)
(***************************************************************************)
DuplicatesBounded ==
    \A u \in PartitionKeys : \A n \in DOMAIN topic[u] :
        Cardinality(Occurrences(topic[u][n], topic[u]))
            <= (RetryMax + 1) * Cardinality(CommitsOf(topic[u][n]))

\* Event e is in the partition of its user, with no other event for its device
\* after it.
LastInLog(e) ==
    LET log == topic[e.dev.user] IN
    \E n \in Occurrences(e, log) :
        \A m \in DOMAIN log : m > n => makeKey(log[m].dev) # makeKey(e.dev)

\* No event for the device, in any partition, is stamped later.
LatestOfAll(e) ==
    \A u \in PartitionKeys : \A n \in DOMAIN topic[u] :
        makeKey(topic[u][n].dev) = makeKey(e.dev) => topic[u][n].timestamp <= e.timestamp

\* The device's key holds its user until it expires, or holds no user.  It can
\* expire with the time to live of a bucket, when it is spelled like a bucket
\* key, and there may be a bucket in its place.
StoreAgrees(e) ==
    LET k == makeKey(e.dev) IN
    IF e.dev.status = Device_ONLINE
    THEN now < e.timestamp + bucketTTL * Second =>
            IsString(redis, k) /\ redis[k].string = e.dev.user
    ELSE ~IsString(redis, k)

(***************************************************************************)
(* The stream and the store agree once things are quiet: when SetStatus    *)
(* was acknowledged and no other call for the device overlapped it or      *)
(* started since, its event is the last one for the device in the user's   *)
(* partition, no event for the device in any partition has a later         *)
(* Timestamp, and the device's key in Redis says the same as the event.    *)
(***************************************************************************)
SettledStreamAgrees ==
    \A e \in settled : LastInLog(e) /\ LatestOfAll(e) /\ StoreAgrees(e)

-----------------------------------------------------------------------------
(* Properties of GetDevices *)

SameDevice(c, d) == c.id = d.id /\ c.type = d.type

\* The j-th write put device d online for user u.
PutOnline(j, u, d) ==
    /\ commits[j].dev.status = Device_ONLINE
    /\ commits[j].dev.user = u
    /\ SameDevice(commits[j].dev, d)

\* After the first n writes, device d is online and belongs to u.
OnlineAfter(n, u, d) ==
    \E j \in 1 .. n : /\ PutOnline(j, u, d)
                      /\ \A m \in j + 1 .. n : ~SameDevice(commits[m].dev, d)

BucketOfCommit(j) == commits[j].key[Len(commits[j].key)]

(***************************************************************************)
(* GetDevices reports no stale device: every device on the stream was put  *)
(* online for the requested user in the bucket of the call's start or one  *)
(* of the NumBuckets before it (or during the call), although the bucket   *)
(* keys are computed one by one from a moving clock and the sets behind    *)
(* them are never emptied.                                                 *)
(***************************************************************************)
NoStaleDevice ==
    \A g \in Getters : \A d \in get[g].sent :
        \E j \in DOMAIN commits :
            /\ PutOnline(j, get[g].user, d)
            /\ BucketOfCommit(j) >= BucketOf(get[g].begin) - NumBuckets

(***************************************************************************)
(* Every device GetDevices streams was online, and belonged to the user    *)
(* the stream names, at some moment between the start of the call and now: *)
(* the SUNION may be old when the GETs run, the answers are not.           *)
(***************************************************************************)
StreamedWasOnline ==
    \A g \in Getters : \A d \in get[g].sent :
        \E n \in get[g].mark .. Len(commits) : OnlineAfter(n, d.user, d)

(***************************************************************************)
(* GetDevices names another user than the one asked for only when the      *)
(* device has been handed over: it was put online for the requested user   *)
(* and later for the user named.                                           *)
(***************************************************************************)
ForeignOnlyAfterHandover ==
    \A g \in Getters : \A d \in get[g].sent :
        d.user # get[g].user =>
            \E i, j \in DOMAIN commits :
                i < j /\ PutOnline(i, get[g].user, d) /\ PutOnline(j, d.user, d)

\* The key of device d, "<type>:<id>", is also the key of a bucket of user u.
Collides(d, u) ==
    /\ d.id[Len(d.id)] \in Int
    /\ u = <<EnumName(d.type)>> \o SubSeq(d.id, 1, Len(d.id) - 1)

\* BucketRange left no hole: the clock did not enter a new bucket in its loop.
NoHole(g) ==
    LET keys == get[g].keys
        n == Len(keys)
    IN  keys[n][Len(keys[n])] - keys[1][Len(keys[1])] = NumBuckets

(***************************************************************************)
(* GetDevices misses nobody: when it returns nil, it has streamed every    *)
(* device that was online for the user when the call started, whose last   *)
(* bucket is still within the window, and that nothing but refreshes by    *)
(* the same user has touched since; provided the clock did not enter a new *)
(* bucket inside the BucketRange loop, and no device key took the place of *)
(* one of the user's bucket keys.                                          *)
(***************************************************************************)
NoMissedDevice ==
    \A g \in Getters :
        /\ get[g].pc = "done" /\ get[g].err = "none" /\ NoHole(g)
        /\ \A m \in DOMAIN commits : ~Collides(commits[m].dev, get[g].user)
        => \A j \in 1 .. get[g].mark :
                LET d == commits[j].dev IN
                /\ PutOnline(j, get[g].user, d)
                /\ d.type \in DOMAIN Device_Type_name
                /\ BucketOfCommit(j) >= BucketOf(now) - NumBuckets
                /\ \A m \in j + 1 .. Len(commits) :
                      SameDevice(commits[m].dev, d) => PutOnline(m, get[g].user, d)
                => [d EXCEPT !.status = Device_ONLINE] \in get[g].sent

(***************************************************************************)
(* GetDevices fails to parse a key only when a device of a type without a  *)
(* name was put online for that user: validateRequest lets such a type     *)
(* through and makeKey prints it as a number.  Ids containing ":" survive  *)
(* the round trip through makeKey and parseDevice.                         *)
(***************************************************************************)
ParseErrorOnlyFromUnknownType ==
    \A g \in Getters : get[g].err = "parse" =>
        \E j \in DOMAIN commits :
            /\ commits[j].dev.type \notin DOMAIN Device_Type_name
            /\ PutOnline(j, get[g].user, commits[j].dev)


(***************************************************************************)
(* Device keys and bucket keys share one key space.  GetDevices meets a    *)
(* value of the wrong kind only when the key of a device that was put      *)
(* online is spelled like a bucket key of the user asked for, or of        *)
(* another user with a bucket.                                             *)
(***************************************************************************)
WrongTypeOnlyFromCollision ==
    \A g \in Getters : get[g].err = "wrongtype" =>
        \E i, j \in DOMAIN commits :
            /\ commits[i].dev.status = Device_ONLINE
            /\ \/ Collides(commits[i].dev, get[g].user)
               \/ Collides(commits[i].dev, commits[j].dev.user)

(***************************************************************************)
(* Every call returns: no SetStatus or GetDevices handler is stuck, given  *)
(* that Redis, Kafka and the stream answer (nothing in the service times   *)
(* out on its own).  GetDevices ends although devices are added to the     *)
(* buckets while it runs.                                                  *)
(***************************************************************************)
CallsReturn ==
    /\ \A s \in Setters : set[s].pc # "idle" ~> set[s].pc = "idle"
    /\ \A g \in Getters : get[g].pc # "idle" ~> get[g].pc = "idle"
=============================================================================
