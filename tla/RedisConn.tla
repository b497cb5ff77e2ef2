------------------------------ MODULE RedisConn -----------------------------
(***************************************************************************)
(* One redigo connection (redis/conn.go): a writer goroutine that calls    *)
(* Send and Flush, a reader that calls Receive, and Do, which may run when *)
(* neither does.  They share the counter of pending replies, the sticky    *)
(* error and the socket.  Replies travel as the cells of the Redis         *)
(* protocol, lines and bytes of bulk strings, and arrive in pieces.        *)
(***************************************************************************)
EXTENDS Integers, Sequences, SequencesExt

CONSTANTS Commands,
          Reply,         \* the server's reply to each command
          bufferSize,    \* commands that fit the bufio.Writer
          MaxCommands    \* bound: commands sent, and replies pending after failed writes

None == "none"

VARIABLES pending, err,   \* of the connection
          open,           \* the socket
          bw, bwErr,      \* commands in the write buffer, and its sticky error
          net,            \* commands on their way to the server
          in,             \* cells on their way to the client, or in its read buffer
          sent,           \* every command written, in order
          read,           \* the number of replies read
          writer,         \* [at, cmd]
          reader,         \* [at, v]
          do              \* [at, cmd, left, replies]

vars == <<pending, err, open, bw, bwErr, net, in, sent, read, writer, reader, do>>

-----------------------------------------------------------------------------
(* Replies                                                                 *)

\* A reply is its kind, its text or number, and its bytes or elements.
Value(k, n, vs) == [k |-> k, n |-> n, vs |-> vs]

Status(n) == Value("status", n, <<>>)
ErrorReply(n) == Value("error", n, <<>>)
Integer(n) == Value("int", n, <<>>)
Bulk(bytes) == Value("bulk", 0, [i \in DOMAIN bytes |-> Value("byte", bytes[i], <<>>)])
Array(vs) == Value("array", 0, vs)
Nil == Value("nil", 0, <<>>)

Cell(t, n) == <<[t |-> t, n |-> n]>>

RECURSIVE Cells(_)
\* What the server sends; each cell is a line, or a byte of a bulk string.
Cells(r) ==
  CASE r.k = "status" -> Cell("+", r.n)
    [] r.k = "error" -> Cell("-", r.n)
    [] r.k = "int" -> Cell(":", r.n)
    [] r.k = "nil" -> Cell("$", -1)
    [] r.k = "byte" -> Cell("byte", r.n)
    [] r.k = "bulk" -> Cell("$", Len(r.vs)) \o FlattenSeq([i \in DOMAIN r.vs |-> Cells(r.vs[i])]) \o Cell("crlf", 0)
    [] r.k = "array" -> Cell("*", Len(r.vs)) \o FlattenSeq([i \in DOMAIN r.vs |-> Cells(r.vs[i])])

Done(v, rest) == [s |-> "ok", v |-> v, rest |-> rest]

\* The reader blocks for more input; the input is not a reply.
More == [s |-> "more", v |-> Nil, rest |-> <<>>]
ProtocolError == [s |-> "protocolError", v |-> Nil, rest |-> <<>>]

RECURSIVE readReply(_), ReadElements(_, _, _)

\* The next n replies, after the elements vs of an array.
ReadElements(n, c, vs) ==
  IF n = 0 THEN Done(Array(vs), c)
  ELSE LET next(r) == IF r.s = "ok" THEN ReadElements(n - 1, r.rest, Append(vs, r.v)) ELSE r
       IN  CHOOSE all \in {next(r) : r \in {readReply(c)}} : TRUE

ReadLine(line, c) ==
  CASE line.t = "+" -> Done(Status(line.n), Tail(c))
    [] line.t = "-" -> Done(ErrorReply(line.n), Tail(c))
    [] line.t = ":" -> Done(Integer(line.n), Tail(c))
    [] line.t \in {"$", "*"} /\ line.n < 0 -> Done(Nil, Tail(c))
    [] line.t = "$" /\ line.n >= 0 ->
         IF Len(c) < line.n + 2 THEN More
         ELSE IF c[line.n + 2].t # "crlf" THEN ProtocolError
         ELSE Done(Bulk([i \in 1 .. line.n |-> c[i + 1].n]), SubSeq(c, line.n + 3, Len(c)))
    [] line.t = "*" /\ line.n >= 0 -> ReadElements(line.n, Tail(c), <<>>)
    [] OTHER -> ProtocolError

readReply(c) == IF c = <<>> THEN More ELSE ReadLine(Head(c), c)

-----------------------------------------------------------------------------

Init ==
  /\ pending = 0
  /\ err = None
  /\ open = TRUE
  /\ bw = <<>>
  /\ bwErr = FALSE
  /\ net = <<>>
  /\ in = <<>>
  /\ sent = <<>>
  /\ read = 0
  /\ writer = [at |-> "idle", cmd |-> None]
  /\ reader = [at |-> "idle", v |-> Nil]
  /\ do = [at |-> "idle", cmd |-> None, left |-> 0, replies |-> <<>>]

\* fatal and Close: the first error stays, and the socket is closed to unblock
\* the other goroutine.
fatal(e) ==
  /\ err' = IF err = None THEN e ELSE err
  /\ open' = (open /\ err # None)

Socket == <<err, open>>

\* bufio.Writer.Write of commands: a full buffer goes to the socket first, and
\* an error stays with the buffer.
CanBuffer == ~bwErr /\ (Len(bw) < bufferSize \/ open)

Buffered(cmd) ==
  IF Len(bw) < bufferSize
  THEN bw' = Append(bw, cmd) /\ UNCHANGED net
  ELSE bw' = <<cmd>> /\ net' = net \o bw

writeFails == bwErr' = TRUE /\ fatal("write") /\ UNCHANGED <<bw, net, sent>>

-----------------------------------------------------------------------------
(* The writer                                                              *)

\* Send counts the reply before the command is written.
Send(cmd) ==
  /\ writer.at = "idle" /\ do.at = "idle" /\ Len(sent) < MaxCommands /\ pending < MaxCommands
  /\ pending' = pending + 1
  /\ writer' = [at |-> "write", cmd |-> cmd]
  /\ UNCHANGED <<err, open, bw, bwErr, net, in, sent, read, reader, do>>

writeCommand ==
  /\ writer.at = "write"
  /\ \/ /\ CanBuffer
        /\ Buffered(writer.cmd)
        /\ sent' = Append(sent, writer.cmd)
        /\ UNCHANGED <<err, open, bwErr>>
     \/ ~CanBuffer /\ writeFails
  /\ writer' = [at |-> "idle", cmd |-> None]
  /\ UNCHANGED <<pending, in, read, reader, do>>

Flush ==
  /\ writer.at = "idle" /\ do.at = "idle" /\ bw # <<>>
  /\ \/ ~bwErr /\ open /\ net' = net \o bw /\ bw' = <<>> /\ UNCHANGED <<err, open, bwErr, sent>>
     \/ (bwErr \/ ~open) /\ writeFails
  /\ UNCHANGED <<pending, in, read, writer, reader, do>>

-----------------------------------------------------------------------------
(* The reader                                                              *)

\* The next reply, if it is all there; the end of a closed socket otherwise.
ReadOne(r) == r.s = "ok" /\ in' = r.rest /\ read' = read + 1

ReadFails(r) == r.s # "ok" /\ (~open \/ r.s = "protocolError")

Receive ==
  /\ reader.at = "idle" /\ do.at = "idle"
  /\ reader' = [at |-> "read", v |-> Nil]
  /\ UNCHANGED <<pending, err, open, bw, bwErr, net, in, sent, read, writer, do>>

ReceiveReply ==
  /\ reader.at = "read"
  /\ \E r \in {readReply(in)} :
       \/ ReadOne(r) /\ reader' = [at |-> "count", v |-> r.v] /\ UNCHANGED Socket
       \/ /\ ReadFails(r)
          /\ fatal("read")
          /\ reader' = [at |-> "idle", v |-> Nil]
          /\ UNCHANGED <<in, read>>
  /\ UNCHANGED <<pending, bw, bwErr, net, sent, writer, do>>

\* "The pending field is decremented after the reply is read".
ReceiveCount ==
  /\ reader.at = "count"
  /\ pending' = IF pending > 0 THEN pending - 1 ELSE 0
  /\ reader' = [at |-> "idle", v |-> Nil]
  /\ UNCHANGED <<err, open, bw, bwErr, net, in, sent, read, writer, do>>

-----------------------------------------------------------------------------
(* Do                                                                      *)

BugDo(cmd) ==
  /\ writer.at = "idle" /\ reader.at = "idle" /\ do.at = "idle"
  /\ Len(sent) < MaxCommands
  /\ pending' = 0
  /\ do' = [at |-> "write", cmd |-> cmd, left |-> IF pending = 0 THEN 1 ELSE pending, replies |-> <<>>]
  /\ UNCHANGED <<err, open, bw, bwErr, net, in, sent, read, writer, reader>>

\* cmd is None for Do("").
Do(cmd) ==
  /\ writer.at = "idle" /\ reader.at = "idle" /\ do.at = "idle"
  /\ Len(sent) < MaxCommands
  /\ pending' = 0
  /\ do' = IF cmd = None /\ pending = 0
           THEN [at |-> "idle", cmd |-> None, left |-> 0, replies |-> <<>>]
           ELSE [at |-> "write", cmd |-> cmd, left |-> IF cmd = None THEN pending ELSE pending + 1, replies |-> <<>>]
  /\ UNCHANGED <<err, open, bw, bwErr, net, in, sent, read, writer, reader>>

\* writeCommand and Flush; the error of a failed write comes out of Flush.
DoWrite ==
  /\ do.at = "write"
  /\ LET out == bw \o (IF do.cmd = None THEN <<>> ELSE <<do.cmd>>)
         ok == ~bwErr /\ (open \/ out = <<>>)
     IN  \/ /\ ok
            /\ net' = net \o out
            /\ bw' = <<>>
            /\ sent' = IF do.cmd = None THEN sent ELSE Append(sent, do.cmd)
            /\ do' = [do EXCEPT !.at = "read"]
            /\ UNCHANGED <<err, open, bwErr>>
         \/ ~ok /\ writeFails /\ do' = [do EXCEPT !.at = "idle"]
  /\ UNCHANGED <<pending, in, read, writer, reader>>

DoRead ==
  /\ do.at = "read"
  /\ \E r \in {readReply(in)} :
       \/ /\ ReadOne(r)
          /\ do' = [do EXCEPT !.at = IF do.left = 1 THEN "done" ELSE "read", !.left = @ - 1,
                              !.replies = Append(@, r.v)]
          /\ UNCHANGED Socket
       \/ /\ ReadFails(r)
          /\ fatal("read")
          /\ do' = [do EXCEPT !.at = "idle"]
          /\ UNCHANGED <<in, read>>
  /\ UNCHANGED <<pending, bw, bwErr, net, sent, writer, reader>>

DoValue == IF do.cmd = None THEN do.replies ELSE Last(do.replies)

FirstError(replies) ==
  LET failed == SelectSeq(replies, LAMBDA v : v.k = "error")
  IN  IF failed = <<>> THEN Nil ELSE Head(failed)

\* The error Do returns beside the reply: the first of the error replies, which
\* may be of an earlier Send.  Do("") leaves them among its replies.
DoError == IF do.cmd = None THEN Nil ELSE FirstError(do.replies)

Return ==
  /\ do.at = "done"
  /\ do' = [do EXCEPT !.at = "idle", !.replies = <<>>]
  /\ UNCHANGED <<pending, err, open, bw, bwErr, net, in, sent, read, writer, reader>>

-----------------------------------------------------------------------------

Close ==
  /\ err = None
  /\ fatal("closed")
  /\ UNCHANGED <<pending, bw, bwErr, net, in, sent, read, writer, reader, do>>

\* The server answers the next command.
Server ==
  /\ net # <<>> /\ open
  /\ in' = in \o Cells(Reply[Head(net)])
  /\ net' = Tail(net)
  /\ UNCHANGED <<pending, err, open, bw, bwErr, sent, read, writer, reader, do>>

Break ==
  /\ open
  /\ open' = FALSE
  /\ UNCHANGED <<pending, err, bw, bwErr, net, in, sent, read, writer, reader, do>>

\* What had not reached the read buffer when the socket closed is lost, from
\* any place in a reply on.
Lose ==
  /\ ~open /\ in # <<>>
  /\ in' = Front(in)
  /\ UNCHANGED <<pending, err, open, bw, bwErr, net, sent, read, writer, reader, do>>

\* A call that has been made goes on.
ReceiveStep == ReceiveReply \/ ReceiveCount
DoStep == DoWrite \/ DoRead \/ Return

Next ==
  \/ \E cmd \in Commands : Send(cmd) \/ Do(cmd)
  \/ Do(None)
  \/ writeCommand \/ Flush \/ Receive \/ ReceiveStep \/ DoStep
  \/ Close
  \/ Server \/ Break \/ Lose

Spec == Init /\ [][Next]_vars

-----------------------------------------------------------------------------
(* Properties                                                              *)

\* The replies of the commands with numbers m .. n.
Replies(m, n) == [i \in 1 .. n - m + 1 |-> Reply[sent[m + i - 1]]]

\* Do returns the reply to its own command, and Do("") every reply that was
\* pending, after any pipeline of Send, Flush and Receive by two goroutines;
\* Receive returns the next one.  Do's error is the first error reply to the
\* commands that were pending and its own, and to no earlier one.  No reply is
\* made of parts of two, or of one that was cut off.
OwnReplies ==
  /\ reader.at = "count" => reader.v = Reply[sent[read]]
  /\ do.at = "done" =>
       IF do.cmd = None
       THEN DoValue = Replies(read - Len(do.replies) + 1, read) /\ read = Len(sent)
       ELSE /\ DoValue = Reply[do.cmd] /\ read = Len(sent)
            /\ DoError = FirstError(Replies(read - Len(do.replies) + 1, read))

\* Between calls of a connection without an error the counter is the number
\* of commands whose reply has not been read.
PendingExact ==
  (err = None /\ writer.at = "idle" /\ reader.at = "idle" /\ do.at = "idle") =>
    \/ pending = Len(sent) - read
    \/ ~open

\* An error, from either goroutine or from Close, ends every call: nobody
\* waits on a connection that has failed (conn.go:131, "to unblock other
\* reader or writer").
ErrorUnblocks ==
  (err # None) ~> (reader.at # "read" /\ do.at # "read" /\ writer.at # "write")

=============================================================================
