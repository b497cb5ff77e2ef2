# Device presence: TLA+ models, checks and proofs

The service keeps track of which devices of a user are online. Clients call
`SetStatus` when a device comes or goes and repeat it as a heartbeat;
`GetDevices` streams the devices a user has online. State lives in Redis, every
status change is also published to a Kafka topic, and any number of gRPC handlers
run at once. Nothing in the repository tests the manager. The libraries the service
is built from are vendored under `src/Godeps`; the ones it runs on (redigo, sarama,
gRPC, HTTP/2, protocol buffers, contexts, the logger) are modelled too, because what
the manager may rely on is decided there.

## Inventory

| Part | Source | State | Operations | What makes it correct |
|---|---|---|---|---|
| time buckets | `util/bucket.go` | none; every call reads the clock | `CurrentBucket`, `BucketWithOffset`, `BucketRange`, `String` | later offsets give later buckets; a range lies where the clock was |
| presence manager | `devicepresence/manager.go` | the locals of each handler | `SetStatus`, `GetDevices` | nothing stale or foreign is streamed, nobody is missed, stream and store agree, errors have the causes the code gives them |
| Redis (external) | as `manager.go` uses it | sets `<user>:<bucket>` of device keys, strings `<type>:<id>` holding the user, times to live | `MULTI..EXEC`, `SADD`, `SET`, `EXPIRE`, `DEL`, `SUNION`, `GET` | |
| process lifecycle | `main.go`, `grpc/server.go` | pool, producer, listener, connections | start, serve, stop, deferred closes | each death of a serving process has its cause; a stopped server lets `main` return |
| Redis connections | `redigo/redis` `pool.go`, `conn.go` | idle list, active count, waiters; pending replies, sticky error | `Get`, `Close`, `Send`, `Flush`, `Receive`, `Do` | a connection has one user and carries nothing over to the next; replies go to their commands |
| Kafka producer | `sarama` `async_producer.go`, `sync_producer.go` | the goroutines' buffers, retry levels, reference counts | `SendMessage`, `Close` | one answer per call, no success without an append, order within a partition |
| Kafka client, broker, consumer | `sarama` `client.go`, `broker.go`, `consumer.go` | metadata and seeds; promises; workers and children | lookups, refresh, requests, subscriptions, `Close` | answers go to their callers, no address is lost, each message once and in order |
| circuit breaker | `go-resiliency/breaker` | state, error and success counts, timer | `Run`, `Go` | opens on a burst of errors and on nothing else, with one timer |
| Kafka encoding, partitioners | `sarama` requests, responses, `partitioner.go` | offsets in a buffer; round-robin position | `encode`, `decode`, `Partition` | what is written is read; cut packets are refused |
| gRPC server transport | `grpc/transport` | streams, quota pools | frames in, writes, status, `Close` | windows are kept; a stream ends once |
| gRPC client | `grpc` `clientconn.go`, `call.go`, `stream.go`, `http2_client.go` | transport, streams, readiness | `Invoke`, `NewClientStream`, reconnect, `Close` | a call gets the answer to its own request |
| HTTP/2 server, framer, hpack | `bradfitz/http2` | streams, windows, write queues; buffers; dynamic tables | frames in and out | no sequence of frames panics the serve loop, and what blocks it is known; frames and headers arrive as sent |
| protocol buffers | `golang/protobuf/proto` | a buffer and an offset; extension maps | `Marshal`, `Unmarshal`, `Size`, `Merge`, extensions | round trips, missing required fields, cuts |
| contexts | `x/net/context` | a tree of contexts with timers | construction, cancellation | no child is lost between construction and cancellation |
| logging | `glog` | buffers, files, `-v` and `-vmodule` | lines, rotation, flush, exit, `V` | no line lost, torn or out of order |

`PROJECT.json` has the components with their sources and the state of their models, also those
that are not modelled: the protobuf text format, redigo's reply helpers, the HTTP/2
client transport, snappy, the mock clock, OAuth2 and cloud code, tests and examples, build
files. None of them has a part in what the service does, or all they do is a pure
conversion.

**How the parts interact.** `main` builds the pool, the producer and the listener and
serves. A call arrives through the framer, header compression and the server transport, which starts a
handler goroutine. `SetStatus` validates the request, borrows a
connection of the pool, reads the clock for the bucket and again for the event's timestamp, writes
Redis in one transaction (or deletes the device key), and then publishes the event
through the producer with the user id as its key. `GetDevices` computes
`NumBuckets + 1` bucket keys, asks for their union, and then visits the devices with one
`GET` each, streaming those that are still there. The two share only Redis. There is
no lock, no version and no timeout in the manager.

**What is hard.** Handlers interleave at every clock reading and every Redis
command; the bucket is old when the write is executed, the union is old when the
`GET`s run; store and stream are two systems with a crash, a lost reply or an
error between them; the producer retries what may have been appended; device keys
do not contain the user; device keys and bucket keys share one key space. In the
libraries: state read before an unlock and used after it (the breaker, the client, `Open`), results
that arrive late, shared windows, workers shared by reference count, timers against
cancellation, limits of queues and integers. The list, with lines and the
properties that watch them, is `hazards` in `PROJECT.json`.

## Modules

| Module | Models |
|---|---|
| `Bucket`, `BucketRange` | `util/bucket.go`: clamp, offset and the two integer divisions as operators; the loop against a ticking clock |
| `Redis` | the Redis commands as functions of a database (external) |
| `Presence` | the handlers of `manager.go`, the outcomes of `Do` and `SendMessage`, clock, crash |
| `Lifecycle` | `main` and the gRPC server around the handlers |
| `RedisPool`, `Lease` | redigo's pool; what a pool promises. The pool implements `Lease` |
| `RedisConn` | one redigo connection over a socket that can break |
| `Producer`, `SyncSend` | sarama's producer; what `SendMessage` promises and `Presence` assumes. The producer implements `SyncSend` |
| `KafkaClient`, `KafkaBroker`, `KafkaConsumer`, `Breaker` | the rest of sarama's goroutines |
| `KafkaWire`, `Partitioner` | sarama's encoding; its partitioners |
| `GrpcTransport`, `GrpcClient` | the two ends of a gRPC connection |
| `Http2Server`, `Http2Priority`, `Framer`, `Hpack` | `bradfitz/http2` |
| `ProtoCodec`, `Proto`, `ProtoExtensions` | `golang/protobuf` |
| `Context`, `Glog`, `GlogV` | contexts; the logger |
| `MCBucketRange`, `MCPresence` | constants for one module |
| `MCRedis`, `MCProducer`, `MCKafka`, `MCTransport`, `MCCodecs`, `MCProgress` | several components or instances beside each other: a behaviour is one of them (`part`). What proofs are about is extended (`MCKafka`: breaker, broker connection and consumer; `MCTransport`: both ends of gRPC; `MCProgress`: process and contexts), the rest instantiated |
| `BucketFacts`, `*_proofs` | lemmas and theorems |

### The presence manager

A string is the sequence of its `:`-separated segments, so joining with
`:` is `Append` and splitting at the first `:` is `Head`/`Tail`; a segment that is a
decimal number is that number. That is all `makeKey`, `Bucket.String` and `SplitN`
can tell apart. Times are integers in the clock's unit and `Second` is the number of
units in a second, so that `int(BucketSize)` used as seconds is a number `Second`
times too large in the model as in the code.

`set[s]` and `get[g]` are the locals and the position of a
handler goroutine; `redis`, `topic` and `now` are what the handlers share.
`started`, `commits`, `settled`, and `begin`, `mark`, `alone` inside the handlers are
history for bounds and properties and never guard a step of the code (`started`
bounds the number of calls).

| Code (`manager.go`) | Action |
|---|---|
| 48-50 validation error | `RejectStatus` |
| 47-53 start of the call | `SetStatus` |
| 55 bucket key | `ReadBucket` |
| 57-60 event and timestamp | `StampEvent` |
| 62-77 `EXEC` or `DEL` executed, reply received or lost | `CommitStatus` |
| 70-77 not executed | `RedisFails` |
| 79-84 published and acknowledged | `PublishEvent` |
| sarama's retry, message appended or not | `RetryPublish` |
| 79-81 gave up, message appended or not | `PublishFails` |
| 109-111, 108-115 | `RejectDevices`, `GetDevices` |
| 115 one iteration of `BucketRange` | `RangeBucket` |
| 116-119 `SUNION` | `UnionBuckets`, `UnionWrongType`, `GetFails` |
| 121-137 one device | `SkipDevice`, `SendDevice`, `ParseFails`, `GetWrongType`, `GetFails` |
| 138 | `FinishDevices` |
| the gRPC handler answers | `ReplyStatus`, `ReplyDevices` |

`Tick` moves the clock and lets Redis expire keys. `Crash` drops every handler and
starts over with Redis and Kafka as they are. The clock does not run backwards and is
shared with Redis. A command or a produce request for which the client has seen an
error has been executed by then or never will be; the same for what a dead process
had in flight. Redis loses no data. A message key is a partition of its own: order
between users is never used.

### The libraries

In every module a goroutine has a position, and one action is what the code does
between two places where another goroutine can run: a section under a mutex, a send
or receive on a channel, a read or write of a socket. Payloads are model values or
small numbers; sizes are in units that keep the limits of the code (windows, frame and fetch
sizes, the bits of a varint, an `int32` or a hash) at a few units. What a remote peer does is a
choice over every frame, answer or error the code distinguishes. Each module's
head comment says what its state stands for and what it leaves out; the `note` of the
component in `PROJECT.json` repeats what is left out; `map` names the lines behind every definition.

## Runs

| Run | Instance | Shows |
|---|---|---|
| `bucket_range` | a second is 4 units; sizes -1, 0, 3, 4, 6, 8; offsets -2..1; 15 instants | no bucket twice for any size; with whole seconds, no bucket further off than the clock moved |
| `bucket_range_clock` | the call of `TestBucketRange` | **violated**: a range can skip a bucket |
| `presence_window` | 2 setters, 2 calls, 1 getter, 3 buckets of time, window of 2 | nothing stale, nothing that was not online, nothing foreign that was not handed over, nobody missed |
| `presence_stream` | 2 setters, 3 calls, 2 instants, 1 retry | no event without a stored change, bounded duplicates, agreement of stream and store once a device is quiet |
| `presence_calls` | absent and odd fields, ids with `:`, an unknown type, keys that meet; fair handlers | types; parse errors and wrong types only from their causes; every call returns |
| `redis` | the pool with a limit of 1 and 3 waiting goroutines, and as `main.go` sets it (2 goroutines, 1 idle, no limit); one connection with 2 commands, nested and error replies | the pool implements `Lease`, counts exactly, loses no wakeup, gives back clean connections; replies go to their commands; `Get` and every call on a broken connection return |
| `producer` | 2 messages on one partition with 2 retries; 2 partitions sharing a connection with 1 retry | order through the retry levels; `SendMessage` implements `SyncSend` |
| `producer_owner` | 1 message, 1 retry, `Close` | **violated**: a chaser is answered like a caller's message |
| `kafka` | breaker: 3 goroutines, thresholds 2, 4 instants; client: every lookup against moving and failing metadata, two refreshes against `Close`; consumer: 2 children on one broker, 1 child over 2 brokers with 3 messages around the fetch size; broker: 3 goroutines, 4 requests, any of them written in part | breaker, client, consumer and broker keep their promises (below) |
| `transport` | client: 2 calls, one streaming, 2 transports; server: 2 streams in shared windows; resets, deadlines and messages that are cut, odd or one too many; HTTP/2: 3 frames of any kind, 4 frames in shared windows; priority tree of 4 streams | answers go to their calls; the serve loop does not panic and is stuck only after a skipped frame; windows are kept; a stream ends once |
| `codecs` | every packet, message, frame and header type with boundary values; cut, doubled, passed on by older programs; partitioners with 5-bit hashes | what is encoded is decoded; damage is noticed; round robin walks the partitions there are |
| `progress` | each component at its smallest, under fairness | what kills the process has its cause; no context child is lost; no log line is lost; what is begun ends |

**Why the bounds are enough.** *Presence.* A tick is a whole bucket, so every gap between two steps
can be a rollover. `NumBuckets = 1` gives a window of two buckets, the smallest with
an old bucket in it; three buckets of time let a device fall out of it. Two calls
make a handover, an online/offline pair or a refresh from a stale bucket, and both
may overlap the getter; the third call in `presence_stream` comes after an
overlapping pair. Getters only read, so one is enough. `RetryMax = 1` gives a
duplicate and a last attempt. Symmetry is over the setters, and not used for liveness.
In the window run user B never goes offline (a `DEL` by B is the same command as one
by A) and only A is queried (B is A's mirror image). The safety properties of these runs
are also proved for every value of the constants. *Libraries.* Two goroutines race for every window
without a lock, a third waits or closes; limits are at one or two so that they are met and
exceeded; counters that only tell answers apart (correlation ids, transports, object
numbers) go as far as the steps of the instance need; words have so few bits that their
largest and smallest values and the next byte of a varint occur. The HTTP/2 server's windows are
integers that wrap at 5 instead of 2^31 - 1, with an initial window of 2 that a `SETTINGS` makes 1,
so they do become negative. Where a deadlock
check is off (`CHECK_DEADLOCK FALSE`), the part ends: a connection is closed, an
exchange is over, or a bound on calls or time is used up.

**Fairness.** `FairSpec` of `Presence` has weak fairness on the ordinary steps of each handler:
the Go scheduler runs every goroutine, and Redis, Kafka and the client are assumed to
answer. Failures and crashes are not forced to happen, and the clock is not fair. The code
gives no more: it sets no timeouts, so without the assumption a call may hang
forever. `MCRedis` has the same for the pool and the connection. `MCProgress` has one
weak fairness for the union of the steps (`Steps`) that a goroutine can take by itself,
and for timers, dials and time; a part whose steps all end needs no more. That the producer
answers each message it took (`Results`) is what `Closing`, the producer's own part, shows of it. The
consumer's goroutines loop in a `select` while they wait for each other, and so have weak fairness each;
and strong fairness where a `select` finds one of its cases ready again
and again, since Go picks among ready cases at random. `CallsReturn` excepts what the code
leaves hanging: a handler of a stream that `handleRSTStream` has marked done and `closeStream`
left with its mutex locked; and a handler that panicked, which ends the process.

**Refinements.** `RedisPool` implements `Lease` and `Producer` implements `SyncSend`
(`ImplementsLease`, `ImplementsSyncSend`, as steps of the abstract modules under their
refinement mappings). `SyncSend` is what the four publishing actions of `Presence`
assume: `RetryPublish` appends or not, `PublishEvent` is a success after an append,
`PublishFails` an error after which nothing is appended.

## What the code does differently from what it says

Two runs show it, and are kept as findings:

- `bucket_range_clock`: `BucketRange` reads the clock per iteration. If the clock enters a
  new bucket inside the loop, one bucket is left out; `TestBucketRange` asserts
  consecutive buckets over a mock clock that is set but not frozen. `NoMissedDevice`
  therefore holds only for ranges without such a hole (`NoHole`).
- `producer_owner`: `Close` "flushes any messages it may have buffered"; when a message
  is being retried, the chaser comes back after the dispatcher has stopped, is answered like a
  message, and `handleErrors` panics.

Others were met while modelling. The models do what the code does, and the properties
are stated around them:

- http2: `startFrameWrite` fakes the write of a frame of a reset stream and can
  block the serve goroutine on its own channel, or start a writer beside another, and the two
  share the `Framer`, the hpack encoder and the buffer (`server.go:759`); a response
  writer is recycled with its `curWrite` still queued or being written, so that
  another response's chunk goes out for the one that was charged (1771, 1406); `flow.add`
  computes in 32 bits what remains of a window and refuses updates of a negative one
  (`flow.go:45`); a `StreamError` of the reader
  ends it with the connection open (535); `noteBodyReadFromHandler` ignores `doneServing` (1476).
- grpc: `closeStream` returns with the stream locked when it is already done
  (`http2_server.go:594`), and the handler's next `Write` or `WriteStatus` blocks forever;
  `processUnaryRPC` panics over a message that is cut or of another payload format
  (`server.go:238`, 273), and after `WriteStatus` reads on and runs the handler for a further
  message (223), whose reply can follow the status, although `WriteStatus` says "There is no further I/O operations being able to perform
  on this stream" (`http2_server.go:419`); a cancelled acquire takes quota out of sight of other waiters
  (`control.go:116`); the client's transport numbers repeat after a failed dial
  (`clientconn.go:127`), `Close` does not wake those who wait for a transport (211) and can
  miss one being dialed (146); an answer that overtakes `NewStream` is dropped
  (`http2_client.go:271`), a reset before headers leaves `Header` waiting (467).
- sarama: a compressed message's checksum is popped in the wrong place (`message.go:123`); the least
  `int32` hash has no partition and an unencodable key no random one (`partitioner.go:112`, 102); `Close`
  of the client against a refresh leaves seeds open or panics on a nil map, and `Leader`
  returns a leader with an old error (`client.go:371`, 544, 268); one request more than
  `MaxOpenRequests` is sent, and a second `Open` can overtake the first (`broker.go:261`, 56); a request that was
  written in part leaves the connection open and its id to the next one (250), and after a read
  that broke off 32 bits of anything can match an id (350); `getSubset` panics over
  a negative length (`real_decoder.go:197`).
- protobuf: `Size` of maps with long tags or entries, required fields inside groups, nil
  messages in maps, `Merge` of zero values and of extensions, defaults inside maps,
  merging into decoded extensions, packed extensions, commas in the JSON of message sets.
- others: `WithDeadline` does not forget its entry in the parent (`context.go:322`); the
  framer writes a reserved bit and refuses a zero dependency (`frame.go:695`, 828); hpack's size
  limit (`encode.go:135`); glog truncates a file created in the same second and documents `V` the
  wrong way round (`glog_file.go:114`, `glog.go:1001`); redigo's `Do("")` hides errors (`conn.go:440`).

**What holds although it looks odd.** The times to live are nanoseconds given as
seconds. The window properties hold because of that: with the bucket's time to live in
seconds (the mutant of `bucketTTL`) a bucket expires after one bucket size while
`GetDevices` still counts on it. `SetStatus` may return an error for a change that
was stored, and even published; nothing contradicts that, and the properties say only
what survives it.

## Proofs

**Assumptions.** The proofs use the assumptions named in the modules and nothing
about the bounds: `SecondAssumption` (a second is some units), `RangeAssumption`,
`PresenceAssumption` (a bucket is a whole number of seconds, at least one; at least one
bucket of history and fewer than units in a second, so that the times to live, which
are too long by that factor, outlast the window; a clock that is at least a window past
zero; typed requests), `BreakerAssumption`, `BrokerAssumption` (at least one open request is allowed, as `Config.Validate`
demands; the two marks for the holder of a lock are not goroutines), `ConsumerAssumption` (finitely many partition consumers; the mark for no worker is not a worker), `LifecycleAssumption` (a call comes on a connection),
`ContextAssumption` (a context is made from one that exists, so none is its own ancestor),
`RedisPoolAssumption` (finitely many goroutines, at least one; limits are natural numbers, 0 for none),
`GrpcClientAssumption` (finitely many calls, which are told apart from the marks of a stream's
end; at least one transport) and `GrpcTransportAssumption` (finitely many streams with positive
numbers; positive initial window and frame length; limits and sizes are natural numbers). The values of `manager.go` (a minute, 5 buckets and
10^9 units) satisfy them.

**Buckets.** `BucketFacts` proves what the two divisions of `Bucket.String` do with any
divisor. `BucketRange_proofs`, for all sizes, offsets and non-decreasing clocks, proves
type correctness (`RangeTypeCorrect`), `RangeStrictlyIncreasing` (`RangeNeverRepeats`) and
`RangeFollowsClock` (`RangeFollows`). That later buckets have larger numbers is not
inductive: nothing would relate the next bucket to the ones before it. `RangeInv` says
that timestamps are at least one clamped size apart and lie between where the clock at
the start of the call and the present clock put their offset; the upper bound gives the
distance to the next one, and `NumberStep` turns a distance of one size into a larger
number, also for sizes that are not whole seconds.

**The presence manager**, for any handlers, requests, bucket constants, retry limit,
interleaving, failures and crashes:

| Theorem | Property | Inductive invariant, and what it adds |
|---|---|---|
| `TypeCorrect` | `TypeOK` | `TypeInv`: a running `SetStatus` works on a device of a request, so its partition exists; the range loop has not passed offset 0 |
| `StoreBeforeAnnounce` | `EventsOnlyAfterCommit` | `PublishInv`: a handler at `sendMessage` has its change among the commits |
| `NothingStale`, `StreamedOnline`, `ForeignHandedOver`, `ParseErrorExplained`, `WrongTypeExplainedAlways` | `NoStaleDevice`, `StreamedWasOnline`, `ForeignOnlyAfterHandover`, `ParseErrorOnlyFromUnknownType`, `WrongTypeOnlyFromCollision` | `StoreInv` and `ReadInv`, below |
| `StreamAgreesWithStore` | `SettledStreamAgrees` | `StreamInv`, below |
| `DuplicatesAreBounded` | `DuplicatesBounded` | `AttemptsInv`: each event in the topic can be given an origin (a commit with its contents) and an attempt number up to `RetryMax`, no two the same pair, and a publishing handler a commit of its own of which only attempts below its own are used. Counting is then the pigeonhole theorem |
| `NobodyMissed` | `NoMissedDevice` | `FreshInv` and `VisitInv`, below |
`StoreInv` says where what is in Redis comes from: a string is the user of the last
write for its key, a set has members each of which a write with that bucket key put
there, and handlers on their way to a write hold a valid device and a key of a bucket of
its user. `ReadInv` follows a `GetDevices` call: its keys are keys of buckets of its user, none
older than `NumBuckets` before its start; what it has still to visit was written in one of them;
what it has streamed was parsed from the last write of its device at a moment since the
call began. The key of a bucket at an offset has the number of the clock's bucket plus
the offset (`OffsetNumber`), and a device key that equals a bucket key is spelled as
`Collides` says (`KeysCollide`).

That nobody is missed looks the other way: what was written must still be there.
`FreshInv` says of each write whose bucket is in the window of a call starting now that, unless
a key collides, its bucket has the device and outlasts the window, and that the
device key does too unless it was touched since. It needs that no bucket in use is of
the future, and that the times to live outlast the window wherever in its bucket the clock was.
`VisitInv` says of a call whose range left no hole that every device it must find is
yet to be visited or sent. Holes are real: the clock is read once per offset, and a range that takes
as long as a bucket skips one.

`StreamInv` follows a call nobody has overlapped: it is the only one at work on its device,
its stamp is no earlier than any event the topic has for the device, and once its write is
executed the store says what its event will say, with a time to live at least one bucket's
(the key may be spelled like a bucket key, and `EXPIRE` then shortens it). The property
alone would not survive the acknowledgement: it speaks of settled events only.

**The circuit breaker.** `Kafka_proofs` proves, for any number of goroutines,
thresholds and timeout, type correctness (`BreakerTypeCorrect`), `OneTimerWhileOpen`,
`ClosedMeansNoBurst` and `OpensOnBurst`.

**The broker connection.** `Kafka_proofs` proves `OwnAnswer` (`OwnAnswerHolds`) for any goroutines, any
limit of open requests, and reads and writes that time out or break off anywhere. What comes
after a read that broke off, or in answer to a request that followed a torn one, is `Garbled`: any
32 bits may match, and `Respond` then tells "any bytes", which the property sets apart from a response
to another's request. The property is not
inductive: it says of promises only who waits for them. `BrokerInv` adds that the lock is with
the goroutine that closes or promises (`LockHeld`); that, with the flag of `Open` set, the dial,
the connection and one goroutine between flag and lock take turns (`FlagHeld`); that receiver and channel
live as long as the connection, and who closes it has closed the channel (`ChannelHeld`); that nobody is promised
twice and every promised number has been used (`PromisesApart`); and that a response on the
stream with the number of a pending promise is the one to that promise's request
(`StreamOwn`). The last is why a response that comes after its request timed out reaches nobody: its
number is not used again. A failed write leaves its number to the next request, but
no response to itself: what had reached the peer was no request. `OneOver` counts: the waiting goroutines are those of the
channel, the one the receiver serves and the one that holds the lock.

**The consumer.** `Kafka_proofs` proves `OneOwner` (`OneOwnerHolds`) for any partition consumers,
brokers, broker workers, log and fetch sizes, with failed fetches, errors of blocks, changes of leader and `AsyncClose`
anywhere. (The runs check two restrictions of `ConsumerNext`, `Sharing` and `Reading` in
`MCKafka`.) A child is handed about by its trigger channel, and no
single part of the property survives a step alone. `ConsumerInv` adds that the dispatcher waits for the trigger
exactly while the worker the child was given to has it, in its buffer or among its
subscriptions, or in what an abandoned worker drains (`Held`); that a worker has
it in one of these only, so that it lets it go once (`HeldOnce`); where the trigger has a token or is closed (`Placed`);
that the input of a worker is open exactly while some child refers to it, and its
manager then still receives (`Counted`); and that the worker registered for a broker is
that broker's and open (`Registered`), so that a child is not handed to one that ends. `SameBrokers`,
`OneChild` and `TakesOrGivesUp` say what is left to show of a step that changes no reference, one child, or a
reference: the steps of each kind cite them.

`EveryMessageOnce` is proved beside it (`EveryMessageOnceHolds`): `ReadInv` says of each consumer that
what waits to be delivered goes on from its offset without a gap (`FromNext`). `SendsRun` shows
this of `ToSend` for any response with a run of the log, `SendsUpto` and `SendsTurned` for the
responses of the model: an earlier start, the wrong place, or messages turned round. That
every message is delivered in the end is not part of it.

**The gRPC client.** `Grpc_proofs` proves `OwnAnswer` (`AnswersAreOwn`) for any
number of calls and transports, whatever the server sends: what a call receives was sent
for that call. Numbers are handed out by `NewStream` in three steps (the right to write, the
header frame, the entry among the streams), and a call whose transport fails retries on the
next. `ClientInv` says that the holder of the right to write is alone at its transport
(`Exclusive`), that the frame it wrote has the next number (`Claimed`) and that a call with a
number wrote the frame with that number (`Numbered`). Two more parts are there because the
model has as many numbers as calls: the numbers taken at a transport were written by
different calls that have not come back to it (`TakenUp`), so the pigeonhole theorem leaves
one for each; and a call leaves a transport for a later one only (`Later`), although a failed
dial sets the sequence number of `ClientConn` back to 0.

**The gRPC server transport.** `Grpc_proofs` proves `WithinWindow` (`WithinWindowHolds`) and
`StatusOnce` (`StatusOnceHolds`) for any streams, windows, limits, messages and
updates of the windows, with messages that are cut, of an unknown format or one too many, and resets,
deadlines and failed writes anywhere. That nothing follows the status, as `WriteStatus` says, does not hold: a
unary call reads on, and its reply to a further message is written if `select` overlooks the
cancelled context. `StatusOnce` says that `END_STREAM` goes out once all the same, and that nothing
but such a reply follows it. The runs check two
parts of `ServerNext` (`SharingNext` and `ResettingNext` in `MCTransport`); the theorems are about all of it
together. `ServerInv` adds to the properties the types, that a frame that waits to be written fits
into what is left of its message (`FrameFits`), and that a stream whose end is on the wire is about to be closed or done, so that its
handler writes no second status; that the handler has returned or is that of a unary call, and that a unary call that
writes again had a further message to answer (`EndedInv`, `HasEnded`, `GoesOn`). Windows are accounts:
what a stream has sent, has acquired, has cut for a frame and has left
in its pool is at most what was granted (`Account`), and the same holds for the
connection, where the streams' bytes are added up as units (`Units`). `SumSplit` and `SumUpdate` say
how such a sum changes with one stream; a step moves an amount within one stream's account, from
the connection's pool to a stream, or adds what `handleWindowUpdate` was given. `AddPool`,
`CancelPool` and `TakePool` are what the three operations of a quota pool do to its total: `cancel`
hides quota from the others but loses none.

**The process.** `Process_proofs` proves, for any number of connections and calls, type
correctness (`LifecycleTypeCorrect`), `DeathsExplained` (`DeathsAreExplained`)
and that no connection is open after `Stop`, the one that was between
`Accept` and its transport included (`StoppedIsFinal`). A process that serves can die of a wrong
`REDIS_PORT`, of a `SetStatus` whose message is cut or of another payload format, of a send on the
`Input` the deferred `producer.Close` has closed, and of a chaser that is answered during that `Close`;
`DeathsExplained` ties each to the state that brings it about, and says that `main` does not
return before every message the producer took has its result. `ProcessInv` orders what the
property leaves out: nobody calls while `main` still builds (`Began`), one connection at a time
is between `Accept` and its transport and the open ones are those the server knows (`Serving`),
the producer goes through `closing` and `closed` while `main` waits in `closeProducer`, which it leaves
with no result owed (`Closes`), and each death leaves its cause in place (`Causes`).

**The contexts.** `Process_proofs` also proves `ChildrenComplete` (`ChildrenCompleteHolds`) for any
tree of contexts and any mixture of kinds, with `WithCancel`, `WithDeadline`, cancellation, timers and
watched foreign parents in any order. A context that has been made and is not done
is among the children of the nearest cancelCtx above it, or that one is being cancelled and some
goroutine has the child before it. `ContextInv` adds what makes that inductive: constructors run
after those of the parent and publish the child last (`MadeInOrder`, `ChildrenPublished`); a goroutine in `cancel` is a
stack of frames of which each but the last waits in its loop over the children for the next
(`Nested`), and what a frame says of its context is so (`FramesTrue`); a timer set on a context that is done, and a
done context among its parent's children, have a frame that will see to them
(`TimersStopping`, `Forgetting`). `Swapped` says what a step does to the frames of all
goroutines (one goes, some come), and `SetTopSwaps`, `PushSwaps`, `PopSwaps` and `StartSwaps` that each step does no more.
`parentCancelCtx` is a recursive function up the tree. That the tree has no cycle gives it a solution
(`SolvedBelow`, `ThroughSolves`), and the proof uses its equation only (`Upward`).

**The connection pool.** `RedisPool_proofs` proves, for any finite number of goroutines, any
commands, connections, limits and `Wait`, type correctness (`PoolTypeCorrect`), `ActiveIsExact`
(`ActiveExact`), `IdleIsClean` (`IdleClean`), `NoLostWakeup` (`NoWakeupLost`) and that the pool
refines `Lease` (`PoolLeases`): each of its steps is a step of `Lease` or leaves the leases as they
are. Clean means no open transaction, watched key or unread reply: subscriptions
(`pool.go:334`-352), which the service does not use, are not in the model. None of these is inductive. `PoolInv` adds that a connection is in one place (one goroutine,
once in the idle list, or once in the list `Pool.Close` walks), and closed or not yet made when it
is in none (`Places`); that a connection under test is clean, one a goroutine
works with has the open transaction and replies the goroutine's own record says, and one it puts
back is clean or has failed (`Cleaned`); and that, while any goroutine waits, as many
woken ones are on their way as connections could be had (`Wakes`). The property asks
only for one of them: it would not survive that one taking its connection while two are free. What a
step does to the goroutines and the counters is said once (`Step`), and the lemmas
`Placing`, `Counting`, `Waking`, `Cleaning` carry each part over any such step.

**Only model-checked.** Liveness (`CallsReturn`, the ends of `Get` and of calls on a broken
connection in `ServicePoolKept` and `OwnReplies`) and everything with
`ENABLED` or fairness is out of the prover's reach. So are the recursive definitions of
the codecs (`RoundTrip`, `DamageNoticed`): what they compute for every input needs induction over
data. The invariants of the single redigo connection (`RedisConn`, which
parses replies recursively), of the sarama client and producer, and of the HTTP/2
server and the logger are not proved. The bounds of
`EveryMessageOnce` and `TruncationNoticed` are those of what a broker sends: a response is a run of
the log, begins too early, or has an older message after the one asked for (a newer one before it
would lose it, `consumer.go:545`); bytes are cut off, not
altered, and an altered length inside a message set would pass for a cut (`message_set.go:72`).


## Not modelled

Memory, TLS, credentials, metadata, compression, timeouts of sockets other than as
failures, Redis persistence and replication, a clock that steps back, and the components
listed as `not_modelled` in `PROJECT.json` with the reason there.
