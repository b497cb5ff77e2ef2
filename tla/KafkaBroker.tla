----------------------------- MODULE KafkaBroker -----------------------------
(* sarama's Broker: one connection that goroutines open, send requests on and  *)
(* close.  Open takes the lock and leaves it to the goroutine that dials; a    *)
(* request is written under the lock and a promise for its response queued;    *)
(* responseReceiver reads the responses in the order of the promises.          *)
(* The stream is the responses the peer owes or has sent, in order.  A read    *)
(* may time out; when it does so inside a response, or a header does not match *)
(* and its body is left, the reader has lost its place in the stream.  A write *)
(* may leave part of a request on the wire; the peer has then lost its place   *)
(* in the requests.  The connection stays open in both cases.                  *)
EXTENDS Naturals, Sequences, FiniteSets

CONSTANTS
    Procs,              \* goroutines that use the broker
    MayClose,           \* those that call Close
    MaxOpenRequests,    \* conf.Net.MaxOpenRequests
    MaxRequests         \* bound: requests in a behaviour (the 32 bits do not wrap)

\* The capacity of the channel of promises is MaxOpenRequests - 1.
ASSUME BrokerAssumption ==
    /\ MaxOpenRequests \in Nat \ {0} /\ MaxRequests \in Nat
    /\ "nobody" \notin Procs /\ "dial" \notin Procs

VARIABLES
    opened,         \* 0 or 1, set without the lock
    lock,           \* who holds it
    conn,           \* connected
    connErr,
    correlationID,
    responses,      \* the channel of promises: [id, p]
    responsesOpen,
    receiver,       \* "off", "range", "read" or "tell"
    current,        \* the promise the receiver is at
    stream,         \* the responses to come: [id, p], p = Nobody when given up
    aligned,        \* the reader is at a header
    torn,           \* part of a request is on the wire, and its rest will not follow
    pc,             \* of each goroutine
    result          \* of its last request

brokerVars == <<opened, lock, conn, connErr, correlationID, responses, responsesOpen, receiver,
                current, stream, aligned, torn, pc, result>>
link == <<opened, conn, connErr>>
wire == <<stream, torn>>
reading == <<responsesOpen, receiver, current, aligned>>

Nobody == "nobody"
NoPromise == [id |-> 0, p |-> Nobody]

BrokerInit ==
    /\ opened = 0 /\ lock = Nobody /\ conn = FALSE /\ connErr = FALSE
    /\ correlationID = 0
    /\ responses = <<>> /\ responsesOpen = FALSE
    /\ receiver = "off" /\ current = NoPromise
    /\ stream = <<>> /\ aligned = TRUE /\ torn = FALSE
    /\ pc = [p \in Procs |-> "new"]
    /\ result = [p \in Procs |-> "none"]

Goto(p, at) == pc' = [pc EXCEPT ![p] = at]
Resting(p) == pc[p] \in {"new", "idle"}

----------------------------------------------------------------------------
(* Open: the flag first, then the lock. *)
OpenCAS(p) ==
    /\ Resting(p)
    /\ IF opened = 1 THEN Goto(p, "idle") /\ UNCHANGED opened      \* ErrAlreadyConnected
       ELSE Goto(p, "opening") /\ opened' = 1
    /\ UNCHANGED <<lock, conn, connErr, correlationID, responses, reading, wire, result>>

OpenLock(p) ==
    /\ pc[p] = "opening" /\ lock = Nobody
    /\ lock' = IF conn THEN Nobody ELSE "dial"
    /\ Goto(p, "idle")
    /\ UNCHANGED <<link, correlationID, responses, reading, wire, result>>

DialFails ==
    /\ lock = "dial"
    /\ connErr' = TRUE /\ opened' = 0 /\ lock' = Nobody
    /\ UNCHANGED <<conn, correlationID, responses, reading, wire, pc, result>>

Dialed ==
    /\ lock = "dial"
    /\ conn' = TRUE /\ connErr' = FALSE /\ lock' = Nobody
    /\ responses' = <<>> /\ responsesOpen' = TRUE /\ receiver' = "range"
    /\ stream' = <<>> /\ aligned' = TRUE /\ torn' = FALSE
    /\ UNCHANGED <<opened, correlationID, current, pc, result>>

----------------------------------------------------------------------------

(* Close: the channel of promises is closed, the receiver waited for. *)
CloseLock(p) ==
    /\ p \in MayClose /\ pc[p] = "idle" /\ lock = Nobody
    /\ IF conn THEN lock' = p /\ responsesOpen' = FALSE /\ Goto(p, "closing")
       ELSE UNCHANGED <<lock, responsesOpen, pc>>                   \* ErrNotConnected
    /\ UNCHANGED <<link, correlationID, responses, receiver, current, aligned, wire, result>>

CloseDone(p) ==
    /\ pc[p] = "closing" /\ receiver = "off"
    /\ conn' = FALSE /\ connErr' = FALSE /\ opened' = 0 /\ lock' = Nobody
    /\ stream' = <<>> /\ aligned' = TRUE /\ torn' = FALSE
    /\ Goto(p, "idle")
    /\ UNCHANGED <<correlationID, responses, responsesOpen, receiver, current, result>>

----------------------------------------------------------------------------
(* send and sendAndReceive *)

NotConnected(p) ==
    /\ pc[p] = "idle" /\ lock = Nobody /\ ~conn
    /\ result' = [result EXCEPT ![p] = IF connErr THEN "connErr" ELSE "NotConnected"]
    /\ UNCHANGED <<link, lock, correlationID, responses, reading, wire, pc>>

(* The request cannot be encoded, or not be written as a whole: nothing or     *)
(* part of it is on the wire, and its correlation id is used again.            *)
WriteFails(p) ==
    /\ pc[p] = "idle" /\ lock = Nobody /\ conn
    /\ result' = [result EXCEPT ![p] = "error"]
    /\ torn' \in {torn, TRUE}
    /\ UNCHANGED <<link, lock, correlationID, responses, reading, stream, pc>>

(* Written; without a response to wait for (NoResponse) that is all.  After a  *)
(* part of a request the peer takes this one for its rest, and what it answers *)
(* is no response to anything.                                                 *)
Write(p, promiseResponse) ==
    /\ pc[p] = "idle" /\ lock = Nobody /\ conn
    /\ correlationID < MaxRequests
    /\ correlationID' = correlationID + 1
    /\ IF promiseResponse
       THEN /\ lock' = p /\ Goto(p, "promise")
            /\ stream' = IF torn THEN stream
                         ELSE Append(stream, [id |-> correlationID, p |-> p])
            /\ result' = [result EXCEPT ![p] = "none"]
       ELSE /\ result' = [result EXCEPT ![p] = "none"]
            /\ UNCHANGED <<lock, pc, stream>>
    /\ UNCHANGED <<link, responses, reading, torn>>

(* The channel takes the promise when it has room for it, or when the receiver *)
(* is there to take it; the lock is held until then.                           *)
Promise(p) ==
    /\ pc[p] = "promise"
    /\ LET promise == [id |-> correlationID - 1, p |-> p]
       IN  \/ /\ Len(responses) < MaxOpenRequests - 1
              /\ responses' = Append(responses, promise)
              /\ UNCHANGED <<receiver, current>>
           \/ /\ responses = <<>> /\ receiver = "range" /\ responsesOpen
              /\ current' = promise /\ receiver' = "read"
              /\ UNCHANGED responses
    /\ lock' = Nobody
    /\ Goto(p, "await")
    /\ UNCHANGED <<link, correlationID, responsesOpen, aligned, wire, result>>

----------------------------------------------------------------------------
(* responseReceiver *)

Take ==
    /\ receiver = "range"
    /\ IF responses # <<>>
       THEN /\ current' = Head(responses) /\ responses' = Tail(responses) /\ receiver' = "read"
       ELSE /\ ~responsesOpen /\ receiver' = "off" /\ UNCHANGED <<current, responses>>
    /\ UNCHANGED <<link, lock, correlationID, responsesOpen, wire, aligned, pc, result>>

(* What the caller is told ends its promise; its response, if it still comes,  *)
(* is nobody's.                                                                *)
Tell(outcome) ==
    LET p == current.p
    IN  /\ pc[p] = "await"
        /\ Goto(p, "idle")
        /\ result' = [result EXCEPT ![p] = outcome]
        /\ receiver' = "range" /\ current' = NoPromise
        /\ UNCHANGED <<link, lock, correlationID, responses, responsesOpen, torn>>
GivenUp(s) == [i \in 1 .. Len(s) |-> IF s[i].p = current.p THEN [s[i] EXCEPT !.p = Nobody] ELSE s[i]]

(* A deadline that cannot be set, or a header that does not come in time: no   *)
(* byte is read, or some.                                                      *)
NoHeader ==
    /\ receiver = "read"
    /\ stream' = GivenUp(stream)
    /\ aligned' \in {aligned, FALSE}
    /\ Tell("error")

(* What comes is not, or not known to be, the beginning of a response. *)
Garbled == ~aligned \/ (torn /\ stream = <<>>)

(* Eight bytes that are no header, or one of another response, whose body      *)
(* stays in the stream.                                                        *)
WrongHeader ==
    /\ receiver = "read"
    /\ Garbled \/ (stream # <<>> /\ Head(stream).id # current.id)
    /\ stream' = GivenUp(stream) /\ aligned' = FALSE
    /\ Tell("error")

(* The ids are compared, 32 bits of whatever came, and nothing else is. *)
BugMatches == Garbled \/ stream # <<>>     \* a mutant: no check of the correlation id
Matches == Garbled \/ (stream # <<>> /\ Head(stream).id = current.id)

BodyFails ==
    /\ receiver = "read" /\ Matches
    /\ stream' = GivenUp(stream) /\ aligned' = FALSE
    /\ Tell("error")

(* The bytes that follow are the response.  Where the place in the stream is   *)
(* lost they are anyone's, or nobody's.                                        *)
Respond ==
    /\ receiver = "read" /\ Matches
    /\ IF Garbled THEN stream' = GivenUp(stream) /\ aligned' = FALSE /\ Tell("any bytes")
       ELSE /\ stream' = Tail(stream) /\ UNCHANGED aligned
            /\ Tell(IF Head(stream).p = current.p THEN "answer" ELSE "wrong answer")

----------------------------------------------------------------------------
Receiver == Take \/ NoHeader \/ WrongHeader \/ BodyFails \/ Respond
Dial == DialFails \/ Dialed
Goes(p) == OpenLock(p) \/ CloseDone(p) \/ Promise(p)

BrokerNext ==
    \/ \E p \in Procs :
        \/ OpenCAS(p) \/ CloseLock(p) \/ NotConnected(p) \/ WriteFails(p)
        \/ \E promiseResponse \in BOOLEAN : Write(p, promiseResponse)
        \/ Goes(p)
    \/ Dial \/ Receiver

BrokerSpec == BrokerInit /\ [][BrokerNext]_brokerVars

----------------------------------------------------------------------------
BrokerTypeOK ==
    /\ opened \in {0, 1} /\ conn \in BOOLEAN /\ connErr \in BOOLEAN
    /\ lock \in Procs \cup {Nobody, "dial"}
    /\ correlationID \in 0 .. MaxRequests
    /\ Len(responses) < MaxOpenRequests \/ responses = <<>>
    /\ receiver \in {"off", "range", "read"} /\ aligned \in BOOLEAN /\ torn \in BOOLEAN

(* Where both ends still know their place a caller gets the response to its    *)
(* own request, or an error: after timeouts and late responses, and writes     *)
(* that failed and left nothing, never that of another.                        *)
AnswersOwn == \A p \in Procs : result[p] # "wrong answer"

(* With the lock free, the flag that Open tests says whether the broker is     *)
(* connected, but for goroutines between the flag and the lock.                *)
OpenedAgrees ==
    lock = Nobody => /\ conn => opened = 1
                     /\ (opened = 1 /\ ~conn) <=> \E p \in Procs : pc[p] = "opening"

(* A promise is waited for exactly when the receiver has it or will: closing   *)
(* the broker cannot drop one.                                                 *)
PromisesKept ==
    \A p \in Procs : pc[p] = "await" <=>
        (current.p = p \/ \E i \in 1 .. Len(responses) : responses[i].p = p)

Outstanding == Cardinality({p \in Procs : pc[p] \in {"promise", "await"}})

(* Sending blocks with one request too many, not with more. *)
OneOverAtMost == Outstanding <= MaxOpenRequests + 1

(***************************************************************************)
(* A caller of a broker gets the response to its own request or an error,  *)
(* after timeouts, late responses and failed writes, for as long as no     *)
(* response was read in part or left behind its header, and no request was *)
(* written in part: only then can a header match by chance.  Closing the   *)
(* broker drops no promise, and sending blocks with one request too many   *)
(* at most.                                                                *)
(***************************************************************************)
OwnAnswer == AnswersOwn /\ PromisesKept /\ OpenedAgrees /\ OneOverAtMost

=============================================================================
