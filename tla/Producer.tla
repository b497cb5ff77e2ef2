------------------------------ MODULE Producer ------------------------------
(***************************************************************************)
(* sarama's producer: SyncProducer.SendMessage over the goroutines of      *)
(* async_producer.go.  A message goes from Input through topicDispatcher,  *)
(* partitionDispatcher, leaderDispatcher and messageAggregator to the      *)
(* flusher, which sends it to the broker; what must be retried goes back   *)
(* through retryHandler to Input.                                          *)
(*                                                                         *)
(* One topic and one broker, as the service has.  A goroutine with several *)
(* things to send on channels keeps them in its outbox `out` and takes up  *)
(* no other message before they are sent, one by one; retryHandler, the    *)
(* aggregator and the two loops of sync_producer.go are always ready to    *)
(* receive, so a send to them is a step of the sender alone.               *)
(***************************************************************************)
EXTENDS Integers, Sequences, SequencesExt, FiniteSets

CONSTANTS
    Msgs,          \* the calls of SendMessage, each with its own goroutine
    Big,           \* the messages larger than MaxMessageBytes
    Parts, PartOf, \* partitions, and the partitioner's choice for a message
    RetryMax,      \* Producer.Retry.Max
    Flushers,      \* broker producers: aggregator, flusher and their channel
    ShutsDown,     \* bound: whether Close is called at all
    None

VARIABLES
    user,     \* the goroutines in SendMessage
    closer,   \* the goroutine of AsyncClose
    td, pd,   \* topicDispatcher, partitionDispatcher
    ld,       \* the leaderDispatchers, one per partition
    fl,       \* the broker producers
    current,  \* p.brokers[broker]
    rh,       \* retryHandler
    out,      \* what each goroutine has still to send
    log,      \* the partitions at the broker
    entered,  \* history: the messages in the order topicDispatcher took them
    acked,    \* history: the place in the log of what SendMessage succeeded on
    panicked  \* what the process died of, if it did

vars == <<user, closer, td, pd, ld, fl, current, rh, out, log, entered, acked, panicked>>

Alive == "alive"

Goroutines == {"td", "pd"} \cup Parts \cup Flushers

-----------------------------------------------------------------------------
(* Messages, and what a goroutine can send. *)

Message == [id : Msgs \cup {None}, part : Parts \cup {None},
            retries : 0 .. RetryMax, chaser : BOOLEAN]

NewMessage(m) == [id |-> m, part |-> None, retries |-> 0, chaser |-> FALSE]

Chaser(p, retries) == [id |-> None, part |-> p, retries |-> retries, chaser |-> TRUE]

Item(to, m) == [to |-> to, m |-> m, f |-> None]
ToBroker(f, m) == [to |-> "broker", m |-> m, f |-> f]
UnrefBroker(f) == [to |-> "unrefBroker", m |-> NewMessage(None), f |-> f]
Ref == Item("ref", NewMessage(None))
Unref == Item("unref", NewMessage(None))
Shutdown == Item("shutdown", NewMessage(None))

Map(f(_), s) == [i \in DOMAIN s |-> f(s[i])]

\* returnErrors and returnSuccesses.
returnErrors(batch) == LET e(m) == Item("error", m) IN Map(e, batch)
returnSuccesses(batch) == LET e(m) == Item("success", m) IN Map(e, batch)

retryMessages(batch) ==
    LET again(m) == IF m.retries >= RetryMax THEN Item("error", m)
                    ELSE Item("retry", [m EXCEPT !.retries = @ + 1])
    IN  Map(again, batch)

-----------------------------------------------------------------------------

NoFlusher == [pc |-> "none", buffer |-> <<>>, open |-> FALSE, refs |-> 0,
              closing |-> FALSE, retrying |-> {}, request |-> <<>>]

NoLeader == [pc |-> "none", q |-> <<>>, cur |-> NewMessage(None), hw |-> 0,
             buf |-> [r \in 0 .. RetryMax |-> <<>>],
             expect |-> [r \in 0 .. RetryMax |-> FALSE], output |-> None]

Init ==
    /\ user = [m \in Msgs |-> "idle"]
    /\ closer = "idle"
    /\ td = [pc |-> "run", handler |-> FALSE]
    /\ pd = [pc |-> "none", q |-> <<>>, open |-> TRUE]
    /\ ld = [p \in Parts |-> NoLeader]
    /\ fl = [f \in Flushers |-> NoFlusher]
    /\ current = None
    /\ rh = [pc |-> "run", refs |-> 0, down |-> FALSE, buf |-> <<>>]
    /\ out = [g \in Goroutines |-> <<>>]
    /\ log = [p \in Parts |-> <<>>]
    /\ entered = <<>>
    /\ acked = [m \in Msgs |-> 0]
    /\ panicked = Alive

\* Goroutine g can take up its next work.
Ready(g) == panicked = Alive /\ out[g] = <<>>

-----------------------------------------------------------------------------
(* sync_producer.go *)

\* SendMessage up to the send on Input().
SendMessage(m) ==
    /\ panicked = Alive /\ user[m] = "idle"
    /\ user' = [user EXCEPT ![m] = "sending"]
    /\ UNCHANGED <<closer, td, pd, ld, fl, current, rh, out, log, entered, acked, panicked>>

\* Input has been closed under the sender.
SendOnClosed(m) ==
    /\ panicked = Alive /\ user[m] = "sending" /\ rh.pc = "done"
    /\ panicked' = "send on closed Input"
    /\ UNCHANGED <<user, closer, td, pd, ld, fl, current, rh, out, log, entered, acked>>

\* Close: AsyncClose sends the shutdown message, wg waits.
Close ==
    /\ panicked = Alive /\ ShutsDown /\ closer = "idle"
    /\ closer' = "sending"
    /\ UNCHANGED <<user, td, pd, ld, fl, current, rh, out, log, entered, acked, panicked>>

-----------------------------------------------------------------------------
(* topicDispatcher *)

\* What becomes of a message taken from Input.
Dispatch(m) ==
    IF m.id \in Big THEN returnErrors(<<m>>)
    ELSE (IF td.handler THEN <<>> ELSE <<Ref>>) \o <<Item("topic", m)>>

\* Input: a message of a SendMessage, or one that retryHandler brings back.
TakeInput(m) ==
    \/ /\ m.id \in Msgs /\ m = NewMessage(m.id) /\ user[m.id] = "sending"
       /\ user' = [user EXCEPT ![m.id] = "waiting"]
       /\ entered' = Append(entered, m.id)
       /\ UNCHANGED rh
    \/ /\ rh.pc \in {"run", "flush"} /\ rh.buf # <<>> /\ m = Head(rh.buf)
       /\ rh' = [rh EXCEPT !.buf = Tail(@)]
       /\ UNCHANGED <<user, entered>>

Inputs == {NewMessage(m) : m \in Msgs} \cup {rh.buf[i] : i \in DOMAIN rh.buf}

TopicDispatch ==
    /\ Ready("td") /\ td.pc = "run"
    /\ \E m \in Inputs :
          /\ TakeInput(m)
          /\ out' = [out EXCEPT !["td"] = Dispatch(m)]
          /\ td' = [td EXCEPT !.handler = @ \/ m.id \notin Big]
    /\ UNCHANGED <<closer, pd, ld, fl, current, log, acked, panicked>>

\* The shutdown message: the topic's handler is closed, retryHandler is told.
TopicShutdown ==
    /\ Ready("td") /\ td.pc = "run" /\ closer = "sending"
    /\ closer' = "sent"
    /\ td' = [td EXCEPT !.pc = "drain"]
    /\ pd' = [pd EXCEPT !.open = FALSE]
    /\ out' = [out EXCEPT !["td"] = <<Shutdown>>]
    /\ UNCHANGED <<user, ld, fl, current, rh, log, entered, acked, panicked>>

\* What still comes in after that is refused.
TopicDrain ==
    /\ Ready("td") /\ td.pc = "drain"
    /\ \E m \in Inputs :
          TakeInput(m) /\ out' = [out EXCEPT !["td"] = returnErrors(<<m>>)]
    /\ UNCHANGED <<closer, td, pd, ld, fl, current, log, acked, panicked>>

\* Input is closed and empty: the client is closed, then errors and successes.
TopicDone ==
    /\ Ready("td") /\ td.pc = "drain" /\ rh.pc = "done"
    /\ td' = [td EXCEPT !.pc = "done"]
    /\ UNCHANGED <<user, closer, pd, ld, fl, current, rh, out, log, entered, acked, panicked>>

-----------------------------------------------------------------------------
(* partitionDispatcher *)

\* A message seen for the first time gets its partition; the first message of
\* a partition starts the leaderDispatcher.
PartitionDispatch ==
    /\ Ready("pd") /\ pd.q # <<>>
    /\ LET m == Head(pd.q)
           placed == IF m.retries = 0 THEN [m EXCEPT !.part = PartOf[m.id]] ELSE m
           start == IF ld[placed.part].pc = "none" THEN <<Ref>> ELSE <<>>
       IN  \/ out' = [out EXCEPT !["pd"] = start \o <<Item("leader", placed)>>]
           \/ \* assignPartition fails, or the breaker is open
              m.retries = 0 /\ out' = [out EXCEPT !["pd"] = returnErrors(<<m>>)]
    /\ pd' = [pd EXCEPT !.q = Tail(@)]
    /\ UNCHANGED <<user, closer, td, ld, fl, current, rh, log, entered, acked, panicked>>

PartitionDone ==
    /\ Ready("pd") /\ pd.pc = "run" /\ pd.q = <<>> /\ ~pd.open
    /\ pd' = [pd EXCEPT !.pc = "done"]
    /\ out' = [out EXCEPT !["pd"] = <<Unref>>]
    /\ UNCHANGED <<user, closer, td, ld, fl, current, rh, log, entered, acked, panicked>>

-----------------------------------------------------------------------------
(* leaderDispatcher *)

\* getBrokerProducer: the broker's channel, or a new one with its goroutines.
Selected == IF current # None THEN {current} ELSE {f \in Flushers : fl[f] = NoFlusher /\ out[f] = <<>>}

getBrokerProducer(f) ==
    /\ fl' = [fl EXCEPT ![f] = IF current = None
                               THEN [NoFlusher EXCEPT !.pc = "run", !.open = TRUE, !.refs = 1]
                               ELSE [@ EXCEPT !.refs = @ + 1]]
    /\ IF current # None THEN UNCHANGED <<rh, panicked>>
       ELSE IF rh.pc = "run" THEN rh' = [rh EXCEPT !.refs = @ + 1] /\ UNCHANGED panicked
       ELSE panicked' = "send on closed retries" /\ UNCHANGED rh
    /\ current' = f

\* The metadata cannot be had, or there is no leader.
NoBroker == UNCHANGED <<fl, rh, current, panicked>>

\* The leader is prefetched; when that fails the first message asks again.
LeaderStart(p) ==
    /\ Ready(p) /\ ld[p].pc = "new"
    /\ \/ \E f \in Selected :
             getBrokerProducer(f) /\ ld' = [ld EXCEPT ![p].pc = "run", ![p].output = f]
       \/ ld' = [ld EXCEPT ![p].pc = "run"] /\ NoBroker
    /\ UNCHANGED <<user, closer, td, pd, out, log, entered, acked>>

\* A new, higher retry level: a chaser after what is on its way, then the
\* broker is let go and the message waits for a new one.
LeaderRaise(p) ==
    LET m == Head(ld[p].q) IN
    /\ Ready(p) /\ ld[p].pc = "run" /\ ld[p].q # <<>> /\ m.retries > ld[p].hw
    /\ ld' = [ld EXCEPT ![p].q = Tail(@), ![p].hw = m.retries,
                        ![p].expect[m.retries] = TRUE,
                        ![p].pc = "send", ![p].cur = m, ![p].output = None]
    /\ out' = [out EXCEPT ![p] = <<ToBroker(ld[p].output, Chaser(p, m.retries - 1)),
                                   UnrefBroker(ld[p].output)>>]
    /\ UNCHANGED <<user, closer, td, pd, fl, current, rh, log, entered, acked, panicked>>

\* Retrying, and the message is of a lower level: it is kept for later; a
\* chaser says that its level is complete.
LeaderBuffer(p) ==
    LET m == Head(ld[p].q) IN
    /\ Ready(p) /\ ld[p].pc = "run" /\ ld[p].q # <<>> /\ m.retries < ld[p].hw
    /\ ld' = IF m.chaser THEN [ld EXCEPT ![p].q = Tail(@), ![p].expect[m.retries] = FALSE]
             ELSE [ld EXCEPT ![p].q = Tail(@), ![p].buf[m.retries] = Append(@, m)]
    /\ UNCHANGED <<user, closer, td, pd, fl, current, rh, out, log, entered, acked, panicked>>

\* The chaser of the present level: this level is done.
LeaderChased(p) ==
    LET m == Head(ld[p].q) IN
    /\ Ready(p) /\ ld[p].pc = "run" /\ ld[p].q # <<>>
    /\ ld[p].hw > 0 /\ m.retries = ld[p].hw /\ m.chaser
    /\ ld' = [ld EXCEPT ![p].q = Tail(@), ![p].expect[ld[p].hw] = FALSE, ![p].pc = "flush"]
    /\ UNCHANGED <<user, closer, td, pd, fl, current, rh, out, log, entered, acked, panicked>>

\* One round of the flushing loop: down a level, out with its buffer.
LeaderFlush(p) ==
    LET hw == ld[p].hw - 1
        buf == ld[p].buf[hw]
        stop == ld[p].expect[hw] \/ hw = 0
        at(o) == [ld EXCEPT ![p].hw = hw, ![p].buf[hw] = <<>>, ![p].output = o,
                            ![p].pc = IF stop THEN "run" ELSE "flush"]
        to(f) == LET e(m) == ToBroker(f, m) IN Map(e, buf)
    IN  /\ Ready(p) /\ ld[p].pc = "flush"
        /\ \/ /\ ld[p].output # None
              /\ ld' = at(ld[p].output)
              /\ out' = [out EXCEPT ![p] = to(ld[p].output)]
              /\ NoBroker
           \/ /\ ld[p].output = None
              /\ \E f \in Selected :
                    getBrokerProducer(f) /\ ld' = at(f) /\ out' = [out EXCEPT ![p] = to(f)]
           \/ /\ ld[p].output = None
              /\ ld' = at(None)
              /\ out' = [out EXCEPT ![p] = returnErrors(buf)]
              /\ NoBroker
        /\ UNCHANGED <<user, closer, td, pd, log, entered, acked>>

\* The message contains real data and can go on.
LeaderTake(p) ==
    LET m == Head(ld[p].q) IN
    /\ Ready(p) /\ ld[p].pc = "run" /\ ld[p].q # <<>>
    /\ m.retries = ld[p].hw /\ ~(ld[p].hw > 0 /\ m.chaser)
    /\ ld' = [ld EXCEPT ![p].q = Tail(@), ![p].pc = "send", ![p].cur = m]
    /\ UNCHANGED <<user, closer, td, pd, fl, current, rh, out, log, entered, acked, panicked>>

\* With a broker, or after refreshing the metadata, which may fail.
LeaderSend(p) ==
    LET m == ld[p].cur
        at(o) == [ld EXCEPT ![p].pc = "run", ![p].cur = NewMessage(None), ![p].output = o]
    IN  /\ Ready(p) /\ ld[p].pc = "send"
        /\ \/ /\ ld[p].output # None
              /\ ld' = at(ld[p].output)
              /\ out' = [out EXCEPT ![p] = <<ToBroker(ld[p].output, m)>>]
              /\ NoBroker
           \/ /\ ld[p].output = None
              /\ \E f \in Selected :
                    /\ getBrokerProducer(f) /\ ld' = at(f)
                    /\ out' = [out EXCEPT ![p] = <<ToBroker(f, m)>>]
           \/ /\ ld[p].output = None
              /\ ld' = at(None)
              /\ out' = [out EXCEPT ![p] = returnErrors(<<m>>)]
              /\ NoBroker
        /\ UNCHANGED <<user, closer, td, pd, log, entered, acked>>

LeaderDone(p) ==
    /\ Ready(p) /\ ld[p].pc = "run" /\ ld[p].q = <<>> /\ pd.pc = "done"
    /\ ld' = [ld EXCEPT ![p].pc = "done", ![p].output = None]
    /\ out' = [out EXCEPT ![p] =
                 (IF ld[p].output = None THEN <<>> ELSE <<UnrefBroker(ld[p].output)>>) \o <<Unref>>]
    /\ UNCHANGED <<user, closer, td, pd, fl, current, rh, log, entered, acked, panicked>>

-----------------------------------------------------------------------------
(* messageAggregator hands its buffer over; flusher sends it. *)

\* A mutant: what goes back stays in the batch as well.
BugRetriedAndSent(f, batch) ==
    LET one(acc, m) ==
          [acc EXCEPT !.back = IF m.part \in acc.retrying THEN Append(@, m) ELSE @,
                      !.retrying = IF m.chaser THEN @ \ {m.part} ELSE @,
                      !.request = Append(@, m)]
    IN  FoldLeft(one, [retrying |-> fl[f].retrying, back |-> <<>>, request |-> <<>>], batch)

\* A mutant: what follows a failed message of its partition is sent on.
BugOvertake(f, batch) ==
    [retrying |-> {}, back |-> SelectSeq(batch, LAMBDA m : m.chaser),
     request |-> SelectSeq(batch, LAMBDA m : ~m.chaser)]

\* The messages of a batch: those of a partition that is being retried go
\* back at once, up to and with its chaser; the others make the request.
Sort(f, batch) ==
    LET one(acc, m) ==
          IF m.part \in acc.retrying
          THEN [acc EXCEPT !.back = Append(@, m),
                           !.retrying = IF m.chaser THEN @ \ {m.part} ELSE @]
          ELSE [acc EXCEPT !.request = Append(@, m)]
    IN  FoldLeft(one, [retrying |-> fl[f].retrying, back |-> <<>>, request |-> <<>>], batch)

FlushBatch(f) ==
    /\ Ready(f) /\ fl[f].pc = "run" /\ fl[f].buffer # <<>>
    /\ LET batch == fl[f].buffer
           sorted == Sort(f, batch)
       IN  IF fl[f].closing
           THEN /\ fl' = [fl EXCEPT ![f].buffer = <<>>]
                /\ out' = [out EXCEPT ![f] = retryMessages(batch)]
           ELSE /\ fl' = [fl EXCEPT ![f].buffer = <<>>, ![f].retrying = sorted.retrying,
                             ![f].request = sorted.request,
                             ![f].pc = IF sorted.request = <<>> THEN "run" ELSE "sent"]
                /\ out' = [out EXCEPT ![f] = retryMessages(sorted.back)]
    /\ UNCHANGED <<user, closer, td, pd, ld, current, rh, log, entered, acked, panicked>>

OfPart(s, p) == SelectSeq(s, LAMBDA m : m.part = p)
Ids(s) == LET id(m) == m.id IN Map(id, s)

\* The broker appends the messages of the partitions in done.
Appended(f, done) ==
    [p \in Parts |-> IF p \in done THEN log[p] \o Ids(OfPart(fl[f].request, p)) ELSE log[p]]

Answered(f) == [fl EXCEPT ![f].pc = "run", ![f].request = <<>>]

\* A response: every partition succeeds, must be retried although it may have
\* been appended, or is refused (or left out of the response).
FlushResponse(f) ==
    /\ Ready(f) /\ fl[f].pc = "sent"
    /\ \E ok, retry \in SUBSET {m.part : m \in ToSet(fl[f].request)} :
          /\ ok \cap retry = {}
          /\ \E done \in {ok, ok \cup retry} :
                log' = Appended(f, done)
          /\ fl' = [Answered(f) EXCEPT ![f].retrying = @ \cup retry]
          /\ LET batch == fl[f].request
                 answers(p) == LET s == OfPart(batch, p) IN
                     IF p \in ok THEN returnSuccesses(s)
                     ELSE IF p \in retry THEN retryMessages(s) ELSE returnErrors(s)
             IN  out' = [out EXCEPT ![f] = FlattenSeq(Map(answers, SetToSeq(Parts)))]
    /\ UNCHANGED <<user, closer, td, pd, ld, current, rh, entered, acked, panicked>>

\* No response: the connection broke before or after the broker had appended.
FlushError(f) ==
    /\ Ready(f) /\ fl[f].pc = "sent"
    /\ log' \in {Appended(f, {}), Appended(f, Parts)}
    /\ current' = None
    /\ fl' = [Answered(f) EXCEPT ![f].closing = TRUE]
    /\ out' = [out EXCEPT ![f] = retryMessages(fl[f].request)]
    /\ UNCHANGED <<user, closer, td, pd, ld, rh, entered, acked, panicked>>

FlushDone(f) ==
    /\ Ready(f) /\ fl[f].pc = "run" /\ ~fl[f].open /\ fl[f].buffer = <<>>
    /\ fl' = [fl EXCEPT ![f] = NoFlusher]
    /\ out' = [out EXCEPT ![f] = <<Unref>>]
    /\ UNCHANGED <<user, closer, td, pd, ld, current, rh, log, entered, acked, panicked>>

-----------------------------------------------------------------------------
(* retryHandler *)

\* What retryHandler makes of x received from p.retries.
Retries(x) ==
    CASE x.to = "ref" -> [rh EXCEPT !.refs = @ + 1]
      [] x.to = "unref" ->
            [rh EXCEPT !.refs = @ - 1,
                       !.pc = IF rh.refs = 1 /\ rh.down THEN "flush" ELSE @]
      [] x.to = "shutdown" ->
            [rh EXCEPT !.down = TRUE, !.pc = IF rh.refs = 0 THEN "flush" ELSE @]
      [] x.to = "retry" -> [rh EXCEPT !.buf = Append(@, x.m)]

\* Everything has been handed back: close(p.input).
CloseInput ==
    /\ panicked = Alive /\ rh.pc = "flush" /\ rh.buf = <<>>
    /\ rh' = [rh EXCEPT !.pc = "done"]
    /\ UNCHANGED <<user, closer, td, pd, ld, fl, current, out, log, entered, acked, panicked>>

-----------------------------------------------------------------------------
(* The first item of an outbox is sent. *)

SendRetries(x) ==
    /\ x.to \in {"ref", "unref", "shutdown", "retry"}
    /\ IF rh.pc = "run" THEN rh' = Retries(x) /\ UNCHANGED panicked
                        ELSE panicked' = "send on closed retries" /\ UNCHANGED rh
    /\ UNCHANGED <<user, pd, ld, fl, current, acked>>

SendOn(x) ==
    /\ \/ x.to = "topic" /\ pd' = [pd EXCEPT !.q = Append(@, x.m), !.pc = "run"] /\ UNCHANGED ld
       \/ /\ x.to = "leader" /\ UNCHANGED pd
          /\ ld' = [ld EXCEPT ![x.m.part].q = Append(@, x.m),
                              ![x.m.part].pc = IF @ = "none" THEN "new" ELSE @]
    /\ UNCHANGED <<user, fl, current, rh, acked, panicked>>

\* output <- msg: on nil it blocks for ever, on a closed channel it panics.
SendBroker(x) ==
    /\ x.to = "broker" /\ x.f # None
    /\ IF fl[x.f].open THEN fl' = [fl EXCEPT ![x.f].buffer = Append(@, x.m)] /\ UNCHANGED panicked
                       ELSE panicked' = "send on closed broker channel" /\ UNCHANGED fl
    /\ UNCHANGED <<user, pd, ld, current, rh, acked>>

\* unrefBrokerProducer: the last reference closes the channel.
unrefBrokerProducer(x) ==
    /\ x.to = "unrefBroker"
    /\ fl' = [fl EXCEPT ![x.f].refs = @ - 1, ![x.f].open = fl[x.f].refs > 1]
    /\ current' = IF fl[x.f].refs = 1 /\ current = x.f THEN None ELSE current
    /\ UNCHANGED <<user, pd, ld, rh, acked, panicked>>

Place(m) ==
    LET places == {i \in DOMAIN log[PartOf[m]] : log[PartOf[m]][i] = m}
    IN  IF places = {} THEN 0 ELSE CHOOSE i \in places : \A j \in places : j <= i

\* handleSuccesses and handleErrors pass the result to the expectation of the
\* SendMessage; a message nobody waits for has no expectation to assert.
Answer(x) ==
    /\ x.to \in {"success", "error"}
    /\ IF x.m.id = None THEN panicked' = "no expectation" /\ UNCHANGED <<user, acked>>
       ELSE /\ user' = [user EXCEPT ![x.m.id] = IF @ # "waiting" THEN "twice"
                                               ELSE IF x.to = "success" THEN "ok" ELSE "failed"]
            /\ acked' = IF x.to = "success" THEN [acked EXCEPT ![x.m.id] = Place(x.m.id)] ELSE acked
            /\ UNCHANGED panicked
    /\ UNCHANGED <<pd, ld, fl, current, rh>>

Emit(g) ==
    /\ panicked = Alive /\ out[g] # <<>>
    /\ LET x == Head(out[g]) IN
          SendRetries(x) \/ SendOn(x) \/ SendBroker(x) \/ unrefBrokerProducer(x) \/ Answer(x)
    /\ out' = [out EXCEPT ![g] = Tail(@)]
    /\ UNCHANGED <<closer, td, log, entered>>

-----------------------------------------------------------------------------

\* Close has returned and every SendMessage has its answer.
Finished ==
    \/ panicked # Alive
    \/ (ShutsDown => td.pc = "done") /\ \A m \in Msgs : user[m] \in {"ok", "failed"}

Step ==
    \/ TopicDispatch \/ TopicShutdown \/ TopicDrain \/ TopicDone
    \/ PartitionDispatch \/ PartitionDone \/ CloseInput
    \/ \E p \in Parts :
          \/ LeaderStart(p) \/ LeaderRaise(p) \/ LeaderBuffer(p) \/ LeaderChased(p)
          \/ LeaderFlush(p) \/ LeaderTake(p) \/ LeaderSend(p) \/ LeaderDone(p)
    \/ \E f \in Flushers :
          FlushBatch(f) \/ FlushResponse(f) \/ FlushError(f) \/ FlushDone(f)
    \/ \E g \in Goroutines : Emit(g)

Next ==
    \/ \E m \in Msgs : SendMessage(m) \/ SendOnClosed(m)
    \/ Close \/ Step
    \/ Finished /\ UNCHANGED vars

Spec == Init /\ [][Next]_vars

-----------------------------------------------------------------------------
(* Properties *)

TypeOK ==
    /\ user \in [Msgs -> {"idle", "sending", "waiting", "ok", "failed", "twice"}]
    /\ closer \in {"idle", "sending", "sent"}
    /\ td \in [pc : {"run", "drain", "done"}, handler : BOOLEAN]
    /\ pd \in [pc : {"none", "run", "done"}, q : Seq(Message), open : BOOLEAN]
    /\ ld \in [Parts -> [pc : {"none", "new", "run", "send", "flush", "done"},
                         q : Seq(Message), cur : Message, hw : 0 .. RetryMax,
                         buf : [0 .. RetryMax -> Seq(Message)],
                         expect : [0 .. RetryMax -> BOOLEAN], output : Flushers \cup {None}]]
    /\ fl \in [Flushers -> [pc : {"none", "run", "sent"}, buffer : Seq(Message),
                            open : BOOLEAN, refs : Nat, closing : BOOLEAN,
                            retrying : SUBSET Parts, request : Seq(Message)]]
    /\ current \in Flushers \cup {None}
    /\ rh \in [pc : {"run", "flush", "done"}, refs : Nat, down : BOOLEAN, buf : Seq(Message)]
    /\ log \in [Parts -> Seq(Msgs)]
    /\ panicked \in {Alive, "send on closed Input", "send on closed retries",
                    "send on closed broker channel", "no expectation"}

Before(m, n) == \E i, j \in DOMAIN entered : i < j /\ entered[i] = m /\ entered[j] = n

(***************************************************************************)
(* "responsible for maintaining message order during retries" (comment on  *)
(* leaderDispatcher): of two messages of a partition that both succeed,    *)
(* the one that entered the producer first has the earlier place in the    *)
(* log, through any number of failed attempts and changes of connection.   *)
(***************************************************************************)
OrderKept ==
    \A m, n \in Msgs :
        user[m] = "ok" /\ user[n] = "ok" /\ PartOf[m] = PartOf[n] /\ Before(m, n)
        => acked[m] < acked[n]

(***************************************************************************)
(* What handleErrors and handleSuccesses receive belongs to a SendMessage  *)
(* that waits for it: the chasers the producer sends to itself never get   *)
(* there.  Close "shuts down the producer and flushes any messages it may  *)
(* have buffered" (sync_producer.go).                                      *)
(***************************************************************************)
ResultsHaveAnOwner == panicked # "no expectation"

StatusOf(m) == IF user[m] \in {"sending", "waiting"} THEN "pending" ELSE user[m]

Statuses == [m \in Msgs |-> StatusOf(m)]

S == INSTANCE SyncSend WITH Attempts <- RetryMax + 1, status <- Statuses

(***************************************************************************)
(* The pipeline implements SyncSend: one answer per call, success only for *)
(* what is in the log, at most RetryMax + 1 copies, and nothing but the    *)
(* callers' messages in the log: no chaser, nothing after the answer.      *)
(***************************************************************************)
ImplementsSyncSend == S!Init /\ [][UNCHANGED <<Statuses, log>> \/ S!Next]_vars
=============================================================================
