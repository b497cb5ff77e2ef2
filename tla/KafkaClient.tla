----------------------------- MODULE KafkaClient -----------------------------
(* sarama's Client: the seed brokers, the brokers and partitions it learnt     *)
(* from metadata responses, and the callers that look up leaders, partitions,  *)
(* replicas and offsets in that cache and refresh it when they find nothing.   *)
(* Each section the code runs under client.lock is one step; what it does      *)
(* between two sections (a request to a broker, broker.Close, a sleep) lets    *)
(* the other callers, the background updater and Close run.                    *)
(*                                                                             *)
(* Brokers are objects compared by identity (Objs), each with an address, an   *)
(* ID (NoID for a seed) and whether it is open.  The cluster is what its       *)
(* answers are: every answer to a metadata request is one of Answers, or the   *)
(* request fails.                                                              *)
EXTENDS Naturals, Sequences, FiniteSets, SequencesExt

CONSTANTS
    Seeds,      \* the addresses given to NewClient
    Topics,
    Answers,    \* responses: [brokers |-> id -> address, topics |-> topic -> ...]
    Callers,    \* goroutines that use the client
    Ops,        \* what they call
    Background, \* the goroutine of backgroundMetadataUpdater, or a caller
    RetryMax,   \* conf.Metadata.Retry.Max
    Closers,    \* goroutines that call Close
    Objs,       \* bound: broker objects in use at a time
    Once,       \* bound: each goroutine makes one call
    MaxClosing  \* bound: goroutines of safeAsyncClose at a time

VARIABLES
    seedBrokerAddrs, seedBroker, deadBrokerAddrs,
    brokers,    \* id -> object
    metadata,   \* topic -> partition -> [err, leader]
    cachedPartitionsResults,
    closed,     \* brokers and metadata are nil
    obj,        \* the broker objects
    closing,    \* objects a safeAsyncClose goroutine is about to close
    proc,       \* the callers
    up,         \* NewClient has returned the client
    panicked

vars == <<seedBrokerAddrs, seedBroker, deadBrokerAddrs, brokers, metadata,
          cachedPartitionsResults, closed, obj, closing, proc, up, panicked>>
seeds == <<seedBrokerAddrs, seedBroker, deadBrokerAddrs>>
cache == <<brokers, metadata, cachedPartitionsResults, closed>>

None == 0
NoID == 0
NoLeader == "LeaderNotAvailable"
Unknown == "UnknownTopicOrPartition"
Main == "NewClient"
Goroutines == Callers \cup Closers \cup {Background, Main}
TheTopic == CHOOSE t \in Topics : TRUE      \* lookups are for one partition
ThePart == 1

Empty == [x \in {} |-> 0]
Without(f, s) == [x \in DOMAIN f \ s |-> f[x]]

Held == {seedBroker} \cup {brokers[i] : i \in DOMAIN brokers}
        \cup {proc[p].broker : p \in Goroutines} \cup {proc[p].value : p \in Goroutines} \cup closing
(* n new objects, in a fixed order: never used or closed ones as long as there *)
(* are any, else one that is open and that nothing refers to any more.         *)
NewBrokers(n) ==
    SubSeq(SetToSortSeq({o \in Objs \ Held : ~obj[o].open}, <)
           \o SetToSortSeq({o \in Objs \ Held : obj[o].open}, <), 1, n)
NewBroker == NewBrokers(1)[1]
Broker(addr, id, open) == [addr |-> addr, id |-> id, open |-> open]
Open(o) == [obj EXCEPT ![o].open = TRUE]
Found == Cardinality(Objs) + 1      \* a value that is not a broker

(* The objects after a step; of one that nothing refers to any more, only      *)
(* whether it is open still matters.                                           *)
Objects(f) ==
    obj' = [o \in Objs |-> IF o \in Held' THEN f[o] ELSE Broker(Seeds[1], NoID, f[o].open)]

Idle == [pc |-> "idle", op |-> "none", topics |-> {}, retries |-> 0, broker |-> None,
         first |-> "nil", value |-> None, err |-> "nil"]
At(p, s) == proc[p].pc = s
Go(p, r) == proc' = [proc EXCEPT ![p] = r @@ @]

Return(p, value, err) ==
    Go(p, [pc |-> "idle", topics |-> {}, retries |-> 0, broker |-> None,
           value |-> value, err |-> err])

(* NewClient: the first seed is opened and the constructor refreshes all       *)
(* topics before anybody else has the client.                                  *)
Init ==
    /\ seedBrokerAddrs = Seeds
    /\ seedBroker = 1
    /\ deadBrokerAddrs = {}
    /\ brokers = Empty /\ metadata = Empty /\ cachedPartitionsResults = Empty
    /\ closed = FALSE
    /\ obj = [o \in Objs |-> Broker(Seeds[1], NoID, o = 1)]
    /\ closing = {}
    /\ proc = [p \in Goroutines |-> IF p # Main THEN Idle
                ELSE [Idle EXCEPT !.pc = "refresh", !.op = "RefreshMetadata"]]
    /\ up = FALSE
    /\ panicked = FALSE

----------------------------------------------------------------------------
(* Calls.  Leader has no check for a closed client; Partitions,                *)
(* WritablePartitions and Replicas have one, without the lock.                 *)

Call(p, op) ==
    /\ up /\ ~panicked /\ At(p, "idle") /\ (Once => proc[p].op = "none")
    /\ Go(p, [pc |-> CASE op \in {"Leader", "GetOffset"} -> "look"
                       [] op = "RefreshMetadata" -> "refresh"
                       [] OTHER -> "check",
              op |-> op, first |-> "nil", value |-> None, err |-> "nil",
              topics |-> IF op = "RefreshMetadata" THEN {} ELSE {TheTopic}])
    /\ UNCHANGED <<seeds, cache, closing, up, panicked>>
    /\ Objects(obj)

(* The ticker of backgroundMetadataUpdater, until closer is closed. *)
Tick ==
    /\ ~closed
    /\ Call(Background, "RefreshMetadata")

CheckClosed(p) ==
    /\ At(p, "check")
    /\ IF closed THEN Return(p, None, "ClosedClient") ELSE Go(p, [pc |-> "look"])
    /\ UNCHANGED <<seeds, cache, closing, up, panicked>>
    /\ Objects(obj)

Known == TheTopic \in DOMAIN metadata /\ ThePart \in DOMAIN metadata[TheTopic]

(* cachedLeader: the leader (opened), or the error. *)
cachedLeader ==
    LET m == metadata[TheTopic][ThePart]
    IN  CASE ~Known -> [value |-> None, err |-> Unknown]
          [] Known /\ (m.err = NoLeader \/ m.leader \notin DOMAIN brokers) ->
                [value |-> None, err |-> NoLeader]
          [] OTHER -> [value |-> brokers[m.leader], err |-> "nil"]

cachedPartitions(set) ==
    IF TheTopic \in DOMAIN cachedPartitionsResults
    THEN cachedPartitionsResults[TheTopic][set] ELSE <<None>>

(* What one look at the cache gives: found, the value and the error a caller   *)
(* that finds nothing more returns.                                            *)
Look(op) ==
    CASE op \in {"Leader", "GetOffset"} -> cachedLeader
      [] op \in {"Partitions", "WritablePartitions"} ->
            LET c == cachedPartitions(op)
            IN  IF c \in {<<>>, <<None>>} THEN [value |-> None, err |-> IF c = <<>> THEN "nil" ELSE Unknown]
                ELSE [value |-> Found, err |-> "nil"]
      [] op = "Replicas" ->
            IF ~Known THEN [value |-> None, err |-> Unknown]
            ELSE [value |-> Found, err |-> IF metadata[TheTopic][ThePart].err = "ReplicaNotAvailable"
                                       THEN "ReplicaNotAvailable" ELSE "nil"]

BrokerOp(op) == op \in {"Leader", "GetOffset"}
Opened(op, v) == IF BrokerOp(op) /\ v # None THEN Open(v) ELSE obj

(* GetOffset asks the leader once Leader returned no error. *)
Answer(p, value, err) ==
    IF proc[p].op = "GetOffset" /\ err = "nil" THEN Go(p, [pc |-> "offset", broker |-> value])
    ELSE Return(p, IF proc[p].op = "GetOffset" THEN None ELSE value, err)

FirstLook(p) ==
    /\ At(p, "look")
    /\ LET l == Look(proc[p].op)
       IN  /\ IF l.value = None THEN Go(p, [pc |-> "refresh", first |-> l.err])
              ELSE Answer(p, l.value, l.err)
           /\ UNCHANGED <<seeds, cache, closing, up, panicked>>
           /\ Objects(Opened(proc[p].op, l.value))

(* After the refresh.  In Leader the second error is assigned to the variable  *)
(* of the inner scope: the first one is returned with whatever was found.      *)
LeaderErr(p, l) == proc[p].first

SecondLook(p) ==
    /\ At(p, "again")
    /\ LET l == Look(proc[p].op)
       IN  /\ Answer(p, l.value, IF BrokerOp(proc[p].op) THEN LeaderErr(p, l) ELSE l.err)
           /\ UNCHANGED <<seeds, cache, closing, up, panicked>>
           /\ Objects(Opened(proc[p].op, l.value))

(* GetAvailableOffsets: a request error, no block, a block's error, a number   *)
(* of offsets other than one, or the offset.                                   *)
GetOffset(p) ==
    /\ At(p, "offset")
    /\ \E err \in {"nil", "request", "IncompleteResponse", "block", "OffsetOutOfRange"} :
            Return(p, IF err = "nil" THEN Found ELSE None, err)
    /\ UNCHANGED <<seeds, cache, closing, up, panicked>>
    /\ Objects(obj)

----------------------------------------------------------------------------
(* RefreshMetadata and tryRefreshMetadata. *)

(* The refresh is over: NewClient gives the client out or closes it, a plain   *)
(* refresh returns, a lookup looks again or returns the error.                 *)
Refreshed(p, err) ==
    CASE p = Main -> /\ up' = (err \in {"nil", NoLeader, "ReplicaNotAvailable"})
                     /\ Go(p, [pc |-> IF up' THEN "done" ELSE "close", broker |-> None, topics |-> {}, retries |-> 0])
      [] p # Main /\ proc[p].op = "RefreshMetadata" -> UNCHANGED up /\ Return(p, None, err)
      [] OTHER -> UNCHANGED up /\ IF err = "nil" THEN Go(p, [pc |-> "again", broker |-> None])
                                  ELSE Return(p, None, err)

RefreshMetadata(p) ==
    /\ At(p, "refresh")
    /\ IF closed THEN Refreshed(p, "ClosedClient")
       ELSE Go(p, [pc |-> "any", retries |-> RetryMax]) /\ UNCHANGED up
    /\ UNCHANGED <<seeds, cache, closing, panicked>>
    /\ Objects(obj)

(* any: the seed if there is one, else some broker, opened. *)
any(p) ==
    /\ At(p, "any")
    /\ UNCHANGED <<seeds, cache, closing, up, panicked>>
    /\ LET candidates == IF seedBroker # None THEN {seedBroker}
                         ELSE {brokers[i] : i \in DOMAIN brokers}
       IN  \/ \E b \in candidates : Go(p, [pc |-> "ask", broker |-> b]) /\ Objects(Open(b))
           \/ candidates = {} /\ Go(p, [pc |-> "out", broker |-> None]) /\ Objects(obj)

(* GetMetadata fails: the request could not be encoded, or the broker is       *)
(* closed and then disconnected.                                               *)
Unencodable(p) ==
    /\ At(p, "ask")
    /\ Refreshed(p, "PacketEncodingError")
    /\ UNCHANGED <<seeds, cache, closing, panicked>>
    /\ Objects(obj)

Fails(p) ==
    /\ At(p, "ask")
    /\ Go(p, [pc |-> "drop"])
    /\ UNCHANGED <<seeds, cache, closing, up, panicked>>
    /\ Objects([obj EXCEPT ![proc[p].broker].open = FALSE])

(* disconnectBroker *)
disconnectBroker(p) ==
    /\ At(p, "drop")
    /\ Go(p, [pc |-> "any", broker |-> None])
    /\ UNCHANGED <<metadata, cachedPartitionsResults, closed, closing, up, panicked>>
    /\ LET b == proc[p].broker
           rest == Tail(seedBrokerAddrs)
           n == NewBroker
       IN  /\ deadBrokerAddrs' = deadBrokerAddrs \cup {obj[b].addr}
           /\ IF b = seedBroker
              THEN /\ seedBrokerAddrs' = rest
                   /\ seedBroker' = IF rest = <<>> THEN None ELSE n
                   /\ UNCHANGED brokers
                   /\ Objects(IF rest = <<>> THEN obj ELSE [obj EXCEPT ![n] = Broker(rest[1], NoID, TRUE)])
              ELSE /\ brokers' = Without(brokers, {obj[b].id})
                   /\ UNCHANGED <<seedBrokerAddrs, seedBroker>>
                   /\ Objects(obj)

OutOfBrokers(p) ==
    /\ At(p, "out") /\ proc[p].retries = 0
    /\ Refreshed(p, "OutOfBrokers")
    /\ UNCHANGED <<seeds, cache, closing, panicked>>
    /\ Objects(obj)

BugKeepSeed(p) ==
    /\ At(p, "out") /\ proc[p].retries > 0
    /\ deadBrokerAddrs' = {}
    /\ Go(p, [pc |-> "any", retries |-> proc[p].retries - 1])
    /\ UNCHANGED <<cache, closing, up, panicked>>
    /\ \E order \in SetToSeqs(deadBrokerAddrs \cup ToSet(seedBrokerAddrs)) :
            /\ seedBrokerAddrs' = order
            /\ seedBroker' = IF seedBroker # None THEN seedBroker ELSE NewBroker
            /\ Objects(IF seedBroker # None THEN obj
                       ELSE [obj EXCEPT ![NewBroker] = Broker(order[1], NoID, TRUE)])

(* resurrectDeadBrokers: all addresses again, in the order of the map. *)
resurrectDeadBrokers(p) ==
    /\ At(p, "out") /\ proc[p].retries > 0
    /\ deadBrokerAddrs' = {}
    /\ Go(p, [pc |-> "any", retries |-> proc[p].retries - 1])
    /\ UNCHANGED <<cache, closing, up, panicked>>
    /\ \E order \in SetToSeqs(deadBrokerAddrs \cup ToSet(seedBrokerAddrs)) :
            /\ seedBrokerAddrs' = order
            /\ seedBroker' = NewBroker
            /\ Objects([obj EXCEPT ![NewBroker] = Broker(order[1], NoID, TRUE)])

(* updateMetadata, brokers: new IDs and changed addresses are taken over. *)
Taken(r) == {i \in DOMAIN r.brokers : i \notin DOMAIN brokers \/ obj[brokers[i]].addr # r.brokers[i]}

(* updateMetadata, topics: which are stored, which retried and the last error. *)
Stored(r) == {t \in DOMAIN r.topics : r.topics[t].err \in {"nil", NoLeader}}
toRetry(r) ==
    {t \in DOMAIN r.topics :
        \/ r.topics[t].err \in {Unknown, NoLeader}
        \/ t \in Stored(r) /\ \E i \in DOMAIN r.topics[t].parts : r.topics[t].parts[i].err = NoLeader}
TopicErrs(r) ==
    LET bad == {r.topics[t].err : t \in DOMAIN r.topics \ Stored(r)}
    IN  IF bad = {} THEN {"nil"} ELSE bad

setPartitionCache(parts) ==
    [Partitions |-> SetToSortSeq(DOMAIN parts, <),
     WritablePartitions |-> SetToSortSeq({i \in DOMAIN parts : parts[i].err # NoLeader}, <)]

(* A closed client has no maps to write to. *)
updateMetadata(p, r) ==
    LET taken == Taken(r)
        ids == SetToSortSeq(taken, <)
        new == NewBrokers(Len(ids))
        num == [i \in taken |-> new[CHOOSE k \in 1 .. Len(ids) : ids[k] = i]]
        stored == [t \in Stored(r) |-> r.topics[t].parts]
    IN  /\ brokers' = num @@ brokers
        /\ closing' = closing \cup {brokers[i] : i \in taken \cap DOMAIN brokers}
        /\ metadata' = stored @@ Without(metadata, DOMAIN r.topics)
        /\ cachedPartitionsResults' = [t \in Stored(r) |-> setPartitionCache(stored[t])]
                                       @@ Without(cachedPartitionsResults, DOMAIN r.topics)
        /\ Objects([o \in {num[i] : i \in taken} |->
                        LET i == CHOOSE i \in taken : num[i] = o IN Broker(r.brokers[i], i, FALSE)] @@ obj)

Answered(p) ==
    /\ At(p, "ask") /\ ~closed /\ Cardinality(closing) < MaxClosing
    /\ \E r \in Answers :
        /\ proc[p].topics # {} => DOMAIN r.topics = proc[p].topics
        /\ \E err \in TopicErrs(r) :
            IF toRetry(r) # {} /\ proc[p].retries > 0
            THEN /\ Go(p, [pc |-> "any", topics |-> toRetry(r), retries |-> proc[p].retries - 1, broker |-> None])
                 /\ UNCHANGED up
            ELSE Refreshed(p, err)
        /\ UNCHANGED <<seeds, closed, panicked>>
        /\ updateMetadata(p, r)

AnsweredClosed(p) ==
    /\ At(p, "ask") /\ closed
    /\ panicked' = TRUE
    /\ UNCHANGED <<seeds, cache, obj, closing, proc, up>>

----------------------------------------------------------------------------
(* Close: the check without the lock, then the rest with it.  The seed, and    *)
(* the addresses, stay.  The mutants close a seed that is not there, and none. *)
CloseCheck(p) ==
    /\ p \in Closers /\ up /\ ~panicked /\ At(p, "idle") /\ (Once => proc[p].op = "none")
    /\ IF closed THEN Return(p, None, "ClosedClient") ELSE Go(p, [pc |-> "close", op |-> "Close"])
    /\ UNCHANGED <<seeds, cache, closing, up, panicked>>
    /\ Objects(obj)

Close(p) ==
    /\ At(p, "close")
    /\ IF closed THEN panicked' = TRUE /\ UNCHANGED <<brokers, metadata, closed, closing>>
       ELSE /\ closing' = closing \cup {brokers[i] : i \in DOMAIN brokers} \cup ({seedBroker} \ {None})
            /\ brokers' = Empty /\ metadata' = Empty /\ closed' = TRUE
            /\ UNCHANGED panicked
    /\ Go(p, [pc |-> IF p = Main THEN "done" ELSE "idle"])
    /\ UNCHANGED <<seeds, cachedPartitionsResults, up>>
    /\ Objects(obj)

(* The goroutine of safeAsyncClose. *)
safeAsyncClose(o) ==
    /\ o \in closing
    /\ closing' = closing \ {o}
    /\ UNCHANGED <<seeds, cache, proc, up, panicked>>
    /\ Objects([obj EXCEPT ![o].open = FALSE])

Step(p) ==
    \/ CheckClosed(p) \/ FirstLook(p) \/ SecondLook(p) \/ GetOffset(p)
    \/ RefreshMetadata(p) \/ any(p) \/ Unencodable(p) \/ Fails(p) \/ disconnectBroker(p)
    \/ OutOfBrokers(p) \/ resurrectDeadBrokers(p) \/ Answered(p) \/ AnsweredClosed(p)
    \/ Close(p)

(* A program whose goroutine panicked, or that was never given the client, ends. *)
Over == /\ \/ panicked
           \/ \A p \in Goroutines : proc[p].pc \in {"idle", "done"} /\ (Once \/ ~up)
        /\ UNCHANGED vars

Next ==
    \/ \E p \in Callers, op \in Ops : Call(p, op)
    \/ Tick
    \/ \E p \in Closers : CloseCheck(p)
    \/ ~panicked /\ \E p \in Goroutines : Step(p)
    \/ ~panicked /\ \E o \in Objs : safeAsyncClose(o)
    \/ Over

Spec == Init /\ [][Next]_vars

----------------------------------------------------------------------------
Addrs == ToSet(Seeds) \cup UNION {{r.brokers[i] : i \in DOMAIN r.brokers} : r \in Answers}

TypeOK ==
    /\ ToSet(seedBrokerAddrs) \subseteq Addrs /\ deadBrokerAddrs \subseteq Addrs
    /\ \A i \in DOMAIN brokers : brokers[i] \in Objs
    /\ DOMAIN metadata \subseteq Topics /\ DOMAIN cachedPartitionsResults \subseteq Topics
    /\ closing \subseteq Objs

(* seedBroker is a connection to the first of seedBrokerAddrs, and there is    *)
(* none exactly when the addresses are used up, however the refreshes of       *)
(* several callers drop and resurrect them: disconnectBroker of a broker that  *)
(* another caller has already dropped must not drop the next one.              *)
SeedIsFirst ==
    IF seedBrokerAddrs = <<>> THEN seedBroker = None
    ELSE seedBroker # None /\ obj[seedBroker].addr = seedBrokerAddrs[1]

(* Whatever fails, an address given to NewClient is never lost: it is a seed   *)
(* or a dead broker to resurrect.                                              *)
AddressesKept == ToSet(Seeds) \subseteq ToSet(seedBrokerAddrs) \cup deadBrokerAddrs

(* "It is important to update this value whenever metadata is changed": the    *)
(* cached partition lists are those of the metadata, after refreshes of other  *)
(* topics, failures and retries.                                               *)
CacheAgrees ==
    ~closed =>
        /\ DOMAIN cachedPartitionsResults = DOMAIN metadata
        /\ \A t \in DOMAIN metadata : cachedPartitionsResults[t] = setPartitionCache(metadata[t])

(* A client that Close shuts down while its own background updater refreshes   *)
(* does not bring the program down.                                            *)
NoPanic == ~panicked

(* A call that has returned, or was not made. *)
AtRest(p) == proc[p].pc \in {"idle", "done"}

=============================================================================
