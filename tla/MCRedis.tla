------------------------------ MODULE MCRedis -------------------------------
(***************************************************************************)
(* redigo under TLC: a pool with a limit and waiting goroutines (extended, *)
(* its names are its own), the pool as main.go configures it, and one      *)
(* connection.  A behaviour is one of the three (part); what it does not   *)
(* use rests in its initial state.                                         *)
(***************************************************************************)
EXTENDS RedisPool

CONSTANTS Callers,             \* the goroutines of the service
          Transactions         \* the commands they send

VARIABLES part,
          time, list, inUse, over, left, goroutine, link,      \* RedisPool
          pending, err, open, bw, bwErr, net, in, sent, read,  \* RedisConn
          writer, reader, do

\* main.go: no limit on connections, nobody waits.
Service == INSTANCE RedisPool WITH
    Handlers <- Callers, MaxIdle <- 1, MaxActive <- 0, Wait <- FALSE,
    IdleTimeout <- 1, MaxTime <- 1, MaxPending <- 1, Commands <- Transactions,
    now <- time, idle <- list, active <- inUse, closed <- over, toClose <- left,
    hs <- goroutine, conn <- link

\* A nested array with a nil and an empty string, and an error.
Replied == [c \in {"exec", "bad"} |->
    LET v(k, n, vs) == [k |-> k, n |-> n, vs |-> vs]
    IN  IF c = "bad" THEN v("error", 4, <<>>)
        ELSE v("array", 0, <<v("bulk", 0, <<v("byte", 1, <<>>), v("byte", 2, <<>>)>>),
                             v("nil", 0, <<>>), v("array", 0, <<v("int", 3, <<>>)>>),
                             v("bulk", 0, <<>>)>>)]

Connection == INSTANCE RedisConn WITH
    Commands <- {"exec", "bad"}, Reply <- Replied, bufferSize <- 1, MaxCommands <- 2

serviceVars == <<time, list, inUse, over, left, goroutine, link>>
connVars == <<pending, err, open, bw, bwErr, net, in, sent, read, writer, reader, do>>
allVars == <<part, vars, serviceVars, connVars>>

InitAll ==
    /\ part \in {"limited", "service", "connection"}
    /\ Init /\ Service!Init /\ Connection!Init

LimitedStep == part = "limited" /\ Next /\ UNCHANGED <<part, serviceVars, connVars>>
ServiceStep == part = "service" /\ Service!Next /\ UNCHANGED <<part, vars, connVars>>
ConnectionStep == part = "connection" /\ Connection!Next /\ UNCHANGED <<part, vars, serviceVars>>

NextAll == LimitedStep \/ ServiceStep \/ ConnectionStep

\* The goroutines of each part run; the server answers or the connection fails.
Fairness ==
    /\ \A h \in Callers : WF_serviceVars(part = "service" /\ Service!GetStep(h))
    /\ WF_connVars(part = "connection" /\ Connection!writeCommand)
    /\ WF_connVars(part = "connection" /\ Connection!ReceiveStep)
    /\ WF_connVars(part = "connection" /\ Connection!DoStep)
    /\ WF_connVars(part = "connection" /\ Connection!Server)

SpecAll == InitAll /\ [][NextAll]_allVars /\ Fairness

-----------------------------------------------------------------------------
(* pool.go; the properties of RedisPool itself are checked of its instance *)
(* with a limit.                                                           *)

\* As main.go configures it the pool counts exactly, hands out clean
\* connections only and implements Lease; and Pool.Get comes back, however many
\* connections it prunes or finds dead.
ServicePoolKept ==
    /\ Service!L!Init
    /\ [](part = "service" => Service!ActiveIsExact /\ Service!IdleIsClean)
    /\ [][part = "service" => UNCHANGED Service!Leases \/ Service!L!Next]_allVars
    /\ \A h \in Callers :
          part = "service" /\ Service!Getting(h) ~> part = "service" /\ ~Service!Getting(h)

-----------------------------------------------------------------------------
(* conn.go *)

\* Do and Receive return the replies to their own commands, whole, after any
\* pipeline of Send, Flush and Receive, and the count of pending replies is
\* right; an error or Close ends every call on the connection.
OwnReplies ==
    /\ [](part = "connection" => Connection!OwnReplies /\ Connection!PendingExact)
    /\ Connection!ErrorUnblocks
=============================================================================
