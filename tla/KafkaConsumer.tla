---------------------------- MODULE KafkaConsumer ----------------------------
(* sarama's Consumer.  Every partition consumer (a child) has a dispatcher     *)
(* goroutine, which finds the leader of its partition and hands the child to   *)
(* the worker of that broker; a worker is two goroutines, a                    *)
(* subscriptionManager that batches the children handed to it and a            *)
(* subscriptionConsumer that fetches for them.  A child is given back by a     *)
(* send on its trigger channel, or by closing it when the child is dying.      *)
(* Workers are counted by reference and shared; a worker whose broker failed   *)
(* is abandoned, and the next child of that broker gets a new one.             *)
(*                                                                             *)
(* The channels input, newSubscriptions and wait have no buffer: a send and    *)
(* its receive are one step.  The user reads messages and errors.  The log of  *)
(* a partition is the offsets 0 .. LogEnd - 1; a fetch for an offset whose     *)
(* message is larger than the fetch size brings only a partial message.        *)
EXTENDS Integers, Sequences, FiniteSets

CONSTANTS
    Children, PartitionOf,
    Brokers,
    BrokerWorkers,      \* bound: broker consumers at a time
    LogEnd, Size(_),    \* the log of a partition and the size of a message
    Default, MaxFetch,  \* conf.Consumer.Fetch.Default and Max
    Width,              \* bits of fetchSize
    MaxResponseSize     \* a longer response is refused: the fetch fails

(* The mark for no worker is not one of them. *)
ASSUME ConsumerAssumption == 0 \notin BrokerWorkers /\ IsFiniteSet(Children)

VARIABLES
    child,              \* the partition consumers and their dispatchers
    children,           \* the registered ones
    brokerConsumers,    \* broker -> its current worker
    worker,
    broken              \* a send on a closed channel, or a close of one

consumerVars == <<child, children, brokerConsumers, worker, broken>>

None == 0
NoWorker == [broker |-> None, refs |-> 0, inputOpen |-> FALSE, manager |-> "done", buffer |-> {},
             consumer |-> "done", subscriptions |-> {}, todo |-> {}]

ConsumerInit ==
    /\ child = [c \in Children |->
            [at |-> "none", broker |-> None, trigger |-> 0, triggerOpen |-> TRUE, dying |-> FALSE,
             offset |-> 0, fetchSize |-> Default, pending |-> <<>>, incomplete |-> FALSE, got |-> <<>>, skipped |-> {}]]
    /\ children = {}
    /\ brokerConsumers = [b \in Brokers |-> None]
    /\ worker = [w \in BrokerWorkers |-> NoWorker]
    /\ broken = FALSE

----------------------------------------------------------------------------
(* The trigger channel, of capacity one. *)

(* child.trigger <- none{} and close(child.trigger), as updates of the child. *)
Triggered(r) == [r EXCEPT !.trigger = @ + 1]
TriggerClosed(r) == [r EXCEPT !.triggerOpen = FALSE]
Misused(c) == ~child[c].triggerOpen
CanTrigger(c) == Misused(c) \/ child[c].trigger = 0

(* refBrokerConsumer, for the caller that hands c over next. *)
Free == {w \in BrokerWorkers : worker[w] = NoWorker /\ \A c \in Children : child[c].broker # w}
refBrokerConsumer(c, b) ==
    LET w == IF brokerConsumers[b] # None THEN brokerConsumers[b] ELSE CHOOSE f \in Free : TRUE
    IN  /\ brokerConsumers[b] # None \/ Free # {}
        /\ brokerConsumers' = [brokerConsumers EXCEPT ![b] = w]
        /\ worker' = IF brokerConsumers[b] # None THEN [worker EXCEPT ![w].refs = worker[w].refs + 1]
                     ELSE [worker EXCEPT ![w] =
                            [NoWorker EXCEPT !.broker = b, !.refs = 1, !.inputOpen = TRUE,
                                             !.manager = "loop", !.consumer = "wait"]]
        /\ child' = [child EXCEPT ![c] = [@ EXCEPT !.broker = w, !.at = "push"]]

unrefBrokerConsumer(w) ==
    LET r == worker[w]
        last == r.refs = 1
        b == r.broker
    IN  /\ worker' = [worker EXCEPT ![w] = [r EXCEPT !.refs = r.refs - 1, !.inputOpen = ~last]]
        /\ brokerConsumers' = IF last /\ brokerConsumers[b] = w
                              THEN [brokerConsumers EXCEPT ![b] = None] ELSE brokerConsumers

(* ConsumePartition: the starting offset and the leader are found (or the call *)
(* fails), the child is added unless its partition has one, its dispatcher is  *)
(* started and the child handed to the leader's worker.                        *)
ConsumePartition(c) ==
    /\ child[c].at = "none"
    /\ \A d \in children : PartitionOf[d] # PartitionOf[c]
    /\ children' = children \cup {c}
    /\ \E b \in Brokers : refBrokerConsumer(c, b)
    /\ UNCHANGED broken

AsyncClose(c) ==
    /\ child[c].at \notin {"none", "done"} /\ ~child[c].dying
    /\ child' = [child EXCEPT ![c].dying = TRUE]
    /\ UNCHANGED <<children, brokerConsumers, worker, broken>>

----------------------------------------------------------------------------
(* dispatcher *)

(* One token of the trigger, or its end. *)
RangeTrigger(c) ==
    /\ child[c].at = "range"
    /\ \/ /\ child[c].trigger = 1
          /\ child' = [child EXCEPT ![c] = [@ EXCEPT !.trigger = 0, !.at = "select"]]
       \/ /\ child[c].trigger = 0 /\ ~child[c].triggerOpen
          /\ child' = [child EXCEPT ![c].at = "unref"]
    /\ UNCHANGED <<children, brokerConsumers, worker, broken>>

Dying(c) ==
    /\ child[c].at = "select" /\ child[c].dying
    /\ broken' = (broken \/ Misused(c))
    /\ child' = [child EXCEPT ![c] = TriggerClosed([child[c] EXCEPT !.at = "range"])]
    /\ UNCHANGED <<children, brokerConsumers, worker>>

(* After the backoff: the old worker is given up. *)
Backoff(c) ==
    /\ child[c].at = "select"
    /\ child' = [child EXCEPT ![c] = [@ EXCEPT !.at = "dispatch", !.broker = None]]
    /\ IF child[c].broker # None THEN unrefBrokerConsumer(child[c].broker)
       ELSE UNCHANGED <<worker, brokerConsumers>>
    /\ UNCHANGED <<children, broken>>

(* dispatch: a refresh and a lookup that may fail, then the leader's worker. *)
Dispatch(c) ==
    /\ child[c].at = "dispatch"
    /\ \E b \in Brokers : refBrokerConsumer(c, b)
    /\ UNCHANGED <<children, broken>>

DispatchFails(c) ==
    /\ child[c].at = "dispatch" /\ CanTrigger(c)
    /\ broken' = (broken \/ Misused(c))
    /\ child' = [child EXCEPT ![c] = Triggered([child[c] EXCEPT !.at = "range"])]
    /\ UNCHANGED <<children, brokerConsumers, worker>>

(* child.broker.input <- child, received by the manager. *)
Input(c) ==
    /\ child[c].at = "push"
    /\ LET w == child[c].broker
       IN  /\ worker[w].manager = "loop"
           /\ worker' = [worker EXCEPT ![w].buffer = @ \cup {c}]
           /\ broken' = (broken \/ ~worker[w].inputOpen)
    /\ child' = [child EXCEPT ![c].at = "range"]
    /\ UNCHANGED <<children, brokerConsumers>>

(* The end of the dispatcher: unref, removeChild, and the channels closed. *)
Unref(c) ==
    /\ child[c].at = "unref"
    /\ IF child[c].broker # None THEN unrefBrokerConsumer(child[c].broker)
       ELSE UNCHANGED <<worker, brokerConsumers>>
    /\ child' = [child EXCEPT ![c] = [@ EXCEPT !.at = "remove", !.broker = None]]
    /\ UNCHANGED <<children, broken>>

Remove(c) ==
    /\ child[c].at = "remove"
    /\ children' = children \ {c}
    /\ child' = [child EXCEPT ![c].at = "done"]
    /\ UNCHANGED <<brokerConsumers, worker, broken>>

----------------------------------------------------------------------------
(* subscriptionManager *)

(* The buffer (or nil) goes to the consumer, at the head of its loop or in     *)
(* abort.                                                                      *)
Subscribe(w) ==
    /\ worker[w].manager \in {"loop", "flush"}
    /\ worker[w].manager = "flush" => worker[w].buffer # {}
    /\ worker[w].consumer \in {"range", "drain"}
    /\ worker' = [worker EXCEPT ![w].buffer = {},
                    ![w].subscriptions = IF worker[w].consumer = "range" THEN @ \cup worker[w].buffer ELSE @,
                    ![w].todo = IF worker[w].consumer = "range" THEN {} ELSE worker[w].buffer,
                    ![w].consumer = IF @ = "range" THEN "update" ELSE "drain2"]
    /\ UNCHANGED <<child, children, brokerConsumers, broken>>

(* A token on wait, when there is something to subscribe to or the input is    *)
(* closed.                                                                     *)
Wait(w) ==
    /\ worker[w].consumer = "wait"
    /\ (worker[w].manager = "loop" /\ worker[w].buffer # {}) \/ worker[w].manager \in {"flush", "done"}
    /\ worker' = [worker EXCEPT ![w].consumer = "range"]
    /\ UNCHANGED <<child, children, brokerConsumers, broken>>

InputClosed(w) ==
    /\ worker[w].manager = "loop" /\ ~worker[w].inputOpen
    /\ worker' = [worker EXCEPT ![w].manager = IF worker[w].buffer = {} THEN "done" ELSE "flush"]
    /\ UNCHANGED <<child, children, brokerConsumers, broken>>

Flushed(w) ==
    /\ worker[w].manager = "flush" /\ worker[w].buffer = {}
    /\ worker' = [worker EXCEPT ![w].manager = "done"]
    /\ UNCHANGED <<child, children, brokerConsumers, broken>>

----------------------------------------------------------------------------
(* subscriptionConsumer *)

Ended(w) ==
    /\ worker[w].consumer \in {"range", "drain"} /\ worker[w].manager = "done"
    /\ worker' = [worker EXCEPT ![w] = NoWorker]
    /\ UNCHANGED <<child, children, brokerConsumers, broken>>

(* updateSubscriptionCache: the dying are let go.  Then wait, or fetch. *)
updateSubscriptionCache(w) ==
    /\ worker[w].consumer = "update"
    /\ LET dead == {c \in worker[w].subscriptions : child[c].dying}
           left == worker[w].subscriptions \ dead
       IN  /\ broken' = (broken \/ \E c \in dead : Misused(c))
           /\ child' = [c \in Children |-> IF c \in dead THEN TriggerClosed(child[c]) ELSE child[c]]
           /\ worker' = [worker EXCEPT ![w].subscriptions = left,
                                       ![w].consumer = IF left = {} THEN "wait" ELSE "fetch"]
    /\ UNCHANGED <<children, brokerConsumers>>

(* The messages a response can hold for a child: a run of the log that reaches *)
(* its offset (an earlier start is a compressed set that began there) and what *)
(* a broker that loses its place would send.                                   *)
Upto(a, b) == [i \in 1 .. b - a + 1 |-> a + i - 1]
Batches(c) ==
    LET o == child[c].offset
    IN  ({Upto(a, b) : a \in {o, o - 1} \cap Nat, b \in {o - 1, o, o + 1} \cap (0 .. LogEnd - 1)}
         \cup (IF o \in 1 .. LogEnd - 1 THEN {<<o, o - 1>>} ELSE {})) \ {<<>>}

TooLarge(c) == child[c].offset < LogEnd /\ Size(child[c].offset) > child[c].fetchSize

(* A partial message fills the fetch size. *)
Fetched(w) ==
    /\ worker[w].consumer = "fetch"
    /\ \A c \in worker[w].subscriptions : TooLarge(c) => child[c].fetchSize <= MaxResponseSize
    /\ worker' = [worker EXCEPT ![w].consumer = "handle", ![w].todo = worker[w].subscriptions]
    /\ UNCHANGED <<child, children, brokerConsumers, broken>>

(* A failed fetch: abort, from its first lines. *)
FetchFails(w) ==
    /\ worker[w].consumer = "fetch"
    /\ brokerConsumers' = [brokerConsumers EXCEPT ![worker[w].broker] = None]
    /\ worker' = [worker EXCEPT ![w].consumer = "abort", ![w].todo = worker[w].subscriptions]
    /\ UNCHANGED <<child, children, broken>>

(* The rest of abort: every child it has, and every one still handed to it, is *)
(* given back.                                                                 *)
Abort(w, c) ==
    /\ worker[w].consumer \in {"abort", "drain2"} /\ c \in worker[w].todo /\ CanTrigger(c)
    /\ broken' = (broken \/ Misused(c))
    /\ child' = [child EXCEPT ![c] = Triggered(@)]
    /\ worker' = [worker EXCEPT ![w].todo = @ \ {c}, ![w].subscriptions = @ \ {c}]
    /\ UNCHANGED <<children, brokerConsumers>>

AbortNext(w) ==
    /\ worker[w].consumer \in {"abort", "drain2"} /\ worker[w].todo = {}
    /\ worker' = [worker EXCEPT ![w].consumer = "drain"]
    /\ UNCHANGED <<child, children, brokerConsumers, broken>>

Handling(w, c) == worker[w].consumer = "handle" /\ c \in worker[w].todo /\ child[c].pending = <<>>

(* A mutant: a child that is given back stays subscribed. *)
BugGiveBack(w, c, r) ==
    /\ CanTrigger(c)
    /\ broken' = (broken \/ Misused(c))
    /\ child' = [child EXCEPT ![c] = Triggered(r)]
    /\ worker' = [worker EXCEPT ![w].todo = @ \ {c}]
    /\ UNCHANGED <<children, brokerConsumers>>

(* No block for the child, or one with an error: it is given back. *)
GiveBack(w, c, r) ==
    /\ CanTrigger(c)
    /\ broken' = (broken \/ Misused(c))
    /\ child' = [child EXCEPT ![c] = Triggered(r)]
    /\ worker' = [worker EXCEPT ![w].todo = @ \ {c}, ![w].subscriptions = @ \ {c}]
    /\ UNCHANGED <<children, brokerConsumers>>

BlockError(w, c) == Handling(w, c) /\ GiveBack(w, c, child[c])

(* handleResponse, no message: more is asked for, or the message is skipped.   *)
Wrap(n) == LET m == n % 2^Width IN IF m >= 2^(Width - 1) THEN m - 2^Width ELSE m
Grown(size) ==
    LET twice == Wrap(2 * size)
    IN  IF MaxFetch > 0 /\ twice > MaxFetch THEN MaxFetch ELSE twice
NoMessage(w, c) ==
    /\ Handling(w, c)
    /\ LET r == child[c]
       IN  child' = [child EXCEPT ![c] =
                IF ~TooLarge(c) THEN r
                ELSE IF MaxFetch > 0 /\ r.fetchSize = MaxFetch
                     THEN [r EXCEPT !.offset = r.offset + 1, !.skipped = r.skipped \cup {r.offset}]
                     ELSE [r EXCEPT !.fetchSize = Grown(r.fetchSize)]]
    /\ worker' = [worker EXCEPT ![w].todo = @ \ {c}]
    /\ UNCHANGED <<children, brokerConsumers, broken>>

(* handleResponse, messages: those before the offset at the start are passed   *)
(* over, the others sent one by one; one that is out of order after that, or   *)
(* none to send, makes the response incomplete.                                *)
BugSent(batch, i, offset) == \A j \in 1 .. i - 1 : batch[j] < batch[i]   \* a mutant: from the start
Sent(batch, i, offset) == batch[i] >= offset /\ \A j \in 1 .. i - 1 : batch[j] < batch[i]
ToSend(batch, offset) ==    \* the k-th sent is the one with k sent up to it
    LET sent == {i \in 1 .. Len(batch) : Sent(batch, i, offset)}
    IN  [k \in 1 .. Cardinality(sent) |->
            batch[CHOOSE i \in sent : Cardinality({j \in sent : j <= i}) = k]]
Incomplete(batch, offset) ==
    \/ ToSend(batch, offset) = <<>>
    \/ \E i \in 1 .. Len(batch) : ~Sent(batch, i, offset) /\ \E j \in 1 .. i - 1 : batch[j] >= offset

Messages(w, c) ==
    /\ Handling(w, c) /\ ~TooLarge(c)
    /\ \E batch \in Batches(c) :
        LET pending == ToSend(batch, child[c].offset)
            r == [child[c] EXCEPT !.fetchSize = Default]
        IN  IF pending = <<>> THEN GiveBack(w, c, r)
            ELSE /\ child' = [child EXCEPT ![c] = [r EXCEPT !.pending = pending,
                                            !.incomplete = Incomplete(batch, child[c].offset)]]
                 /\ UNCHANGED <<children, brokerConsumers, worker, broken>>

Deliver(w, c) ==
    /\ worker[w].consumer = "handle" /\ c \in worker[w].todo /\ child[c].pending # <<>>
    /\ LET m == Head(child[c].pending)
           last == Len(child[c].pending) = 1
           r == [child[c] EXCEPT !.pending = Tail(@), !.got = Append(@, m), !.offset = m + 1,
                                 !.incomplete = @ /\ ~last]
       IN  IF last /\ child[c].incomplete THEN GiveBack(w, c, r)
           ELSE /\ child' = [child EXCEPT ![c] = r]
                /\ worker' = IF last THEN [worker EXCEPT ![w].todo = @ \ {c}] ELSE worker
                /\ UNCHANGED <<children, brokerConsumers, broken>>

Handled(w) ==
    /\ worker[w].consumer = "handle" /\ worker[w].todo = {}
    /\ worker' = [worker EXCEPT ![w].consumer = "range"]
    /\ UNCHANGED <<child, children, brokerConsumers, broken>>

----------------------------------------------------------------------------
Dispatcher(c) ==
    \/ RangeTrigger(c) \/ Dying(c) \/ Backoff(c) \/ Dispatch(c) \/ DispatchFails(c) \/ Input(c)
    \/ Unref(c) \/ Remove(c)
Manager(w) == Subscribe(w) \/ InputClosed(w) \/ Flushed(w)
Fetcher(w) ==
    \/ Wait(w) \/ Ended(w) \/ updateSubscriptionCache(w) \/ Fetched(w) \/ FetchFails(w)
    \/ AbortNext(w) \/ Handled(w)
    \/ \E c \in Children : Abort(w, c) \/ BlockError(w, c) \/ NoMessage(w, c) \/ Messages(w, c) \/ Deliver(w, c)

Over == (\A c \in Children : child[c].at = "done") /\ (\A w \in BrokerWorkers : worker[w] = NoWorker) /\ UNCHANGED consumerVars

ConsumerNext ==
    \/ \E c \in Children : ConsumePartition(c) \/ AsyncClose(c) \/ Dispatcher(c)
    \/ \E w \in BrokerWorkers : Manager(w) \/ Fetcher(w)
    \/ Over

ConsumerSpec == ConsumerInit /\ [][ConsumerNext]_consumerVars

----------------------------------------------------------------------------
(* Where a child is: with its dispatcher, on the way to a worker, or with one. *)
With(c) == {w \in BrokerWorkers : c \in worker[w].buffer \cup worker[w].subscriptions
                                   \cup (IF worker[w].consumer = "drain2" THEN worker[w].todo ELSE {})}

(* The trigger channel is never closed twice and nobody sends on it, or on a   *)
(* worker's input, once it is closed: what AsyncClose's comment promises of    *)
(* "whatever worker owns this child".                                          *)
NothingBreaks == ~broken

(* A child has one owner: it is in one worker, or its dispatcher has it (a     *)
(* token in the trigger, a closed trigger, or under way), never both.          *)
Owned ==
    \A c \in Children :
        LET mine == child[c].at \notin {"none", "range"} \/ child[c].trigger = 1 \/ ~child[c].triggerOpen
        IN  /\ Cardinality(With(c)) <= 1
            /\ With(c) # {} => ~mine
            /\ With(c) = {} /\ child[c].at = "range" => mine

(* A worker's reference count is the number of children that hold it: it is    *)
(* not ended under a child that was handed to it, also after it is abandoned.  *)
RefsExact ==
    \A w \in BrokerWorkers :
        /\ worker[w].refs = Cardinality({c \in Children : child[c].broker = w})
        /\ worker[w].refs > 0 => worker[w].inputOpen

(***************************************************************************)
(* A partition consumer is with one worker or with its dispatcher, never   *)
(* both and never neither; a worker's reference count is the number of     *)
(* children that hold it; and no channel is used after it is closed.       *)
(***************************************************************************)
OneOwner == Owned /\ RefsExact /\ NothingBreaks

(* Messages come in order, each once, none left out but those reported as too   *)
(* large.                                                                      *)
InOrder ==
    \A c \in Children :
        LET got == child[c].got
        IN  /\ \A i \in 1 .. Len(got) - 1 : got[i] < got[i + 1]
            /\ {got[i] : i \in 1 .. Len(got)} \cup child[c].skipped = 0 .. child[c].offset - 1
            /\ {got[i] : i \in 1 .. Len(got)} \cap child[c].skipped = {}

(* Only a message larger than Fetch.Max is given up. *)
SkipsOnlyTooLarge == \A c \in Children : \A o \in child[c].skipped : Size(o) > MaxFetch

(***************************************************************************)
(* Through failed fetches, changes of leader and responses out of order a  *)
(* consumer's messages come in order, each once, none left out but those   *)
(* larger than Fetch.Max.                                                  *)
(***************************************************************************)
EveryMessageOnce == InOrder /\ SkipsOnlyTooLarge
=============================================================================
