----------------------------- MODULE RedisPool -----------------------------
(***************************************************************************)
(* redigo's connection pool (redis/pool.go) over its connections           *)
(* (redis/conn.go).  Goroutines take a connection, send commands and give  *)
(* it back; every place where the code lets go of the pool's mutex is a    *)
(* place where another goroutine can run.  A connection carries only what  *)
(* the protocol depends on: how many replies are outstanding on either     *)
(* side, and the transaction state of the server.                          *)
(***************************************************************************)
EXTENDS Integers, Sequences, FiniteSets

CONSTANTS
    Handlers,            \* the goroutines
    Conns,               \* connections that can be dialed: a bound
    MaxIdle, MaxActive, Wait, IdleTimeout,   \* the fields of Pool
    Commands,            \* the commands goroutines send
    MaxPending, MaxTime, \* bounds: on Send before Do, on the clock
    NoConn

ASSUME RedisPoolAssumption ==
    /\ IsFiniteSet(Handlers) /\ Handlers # {}
    /\ MaxIdle \in Nat /\ MaxActive \in Nat /\ IdleTimeout \in Nat

VARIABLES
    now,
    idle,      \* Pool.idle, most recently used first: [c, t]
    active,    \* Pool.active
    closed,    \* Pool.closed
    toClose,   \* what is left of the list Pool.Close walks
    hs,        \* the goroutines
    conn       \* the connections

vars == <<now, idle, active, closed, toClose, hs, conn>>

-----------------------------------------------------------------------------
(* redis/conn.go *)

NewConn == [open |-> FALSE, dead |-> FALSE, err |-> FALSE, pending |-> 0,
            unsent |-> 0, unread |-> 0, multi |-> FALSE, watch |-> FALSE]

\* The server's transaction state once it has executed cmd.
Executed(k, cmd) ==
    [k EXCEPT
        !.multi = CASE cmd = "MULTI" -> TRUE
                    [] cmd \in {"EXEC", "DISCARD"} -> FALSE
                    [] OTHER -> @,
        !.watch = CASE cmd = "WATCH" /\ ~k.multi -> TRUE
                    [] cmd \in {"EXEC", "DISCARD"} -> FALSE
                    [] cmd = "UNWATCH" /\ ~k.multi -> FALSE
                    [] OTHER -> @]

\* conn.Close and conn.fatal: the first error sticks and closes the socket;
\* what was under way on it is gone.
CloseConn(k) == [NewConn EXCEPT !.dead = TRUE, !.err = TRUE, !.pending = k.pending]

\* conn.Send: one reply more to read; the command waits in the write buffer.
SendTo(k, cmd) ==
    IF k.err THEN [k EXCEPT !.pending = @ + 1]
    ELSE [Executed(k, cmd) EXCEPT !.pending = @ + 1, !.unsent = @ + 1]

\* conn.Do: what was sent and cmd go out, and pending + 1 replies are read.
DoOn(k, cmd) ==
    IF k.dead THEN CloseConn([k EXCEPT !.pending = 0])
    ELSE [Executed(k, cmd) EXCEPT !.pending = 0, !.unsent = 0,
                                  !.unread = k.unread + k.unsent - k.pending]

\* conn.Do(""): nothing is sent but what waits, and pending replies are read.
DoNothing(k) ==
    IF k.pending = 0 THEN k
    ELSE IF k.dead THEN CloseConn([k EXCEPT !.pending = 0])
    ELSE [k EXCEPT !.pending = 0, !.unsent = 0,
                   !.unread = k.unread + k.unsent - k.pending]

\* conn.Flush and conn.Receive, for clients that pipeline by hand.
FlushOn(k) == IF k.dead THEN CloseConn(k) ELSE [k EXCEPT !.unread = @ + k.unsent, !.unsent = 0]

ReceiveOn(k) ==
    IF k.dead THEN CloseConn(k)
    ELSE [k EXCEPT !.unread = @ - 1, !.pending = IF @ > 0 THEN @ - 1 ELSE @]

\* internal.LookupCommandInfo: the states a command enters and leaves.
Sets(cmd) == {s \in {"multi", "watch"} : cmd = [multi |-> "MULTI", watch |-> "WATCH"][s]}
Clears(cmd) == IF cmd \in {"EXEC", "DISCARD"} THEN {"multi", "watch"}
               ELSE IF cmd = "UNWATCH" THEN {"watch"} ELSE {}

-----------------------------------------------------------------------------
(* redis/pool.go *)

Out == [pc |-> "out", c |-> NoConn, n |-> 0, state |-> {}]

At(pc, c, n) == [pc |-> pc, c |-> c, n |-> n, state |-> {}]

Init ==
    /\ now = 0
    /\ idle = <<>> /\ active = 0 /\ closed = FALSE /\ toClose = <<>>
    /\ hs = [h \in Handlers |-> Out]
    /\ conn = [c \in Conns |-> NewConn]

Waiters(f) == {w \in Handlers : f[w].pc = "wait"}

\* cond.Signal: one waiter, if there is any, goes on.
Signal(f) ==
    IF Waiters(f) = {} THEN {f} ELSE {[f EXCEPT ![w].pc = "woken"] : w \in Waiters(f)}

\* The oldest idle connection has been idle for too long.
Stale == IdleTimeout > 0 /\ idle # <<>> /\ idle[Len(idle)].t + IdleTimeout <= now

\* A mutant: what is pruned is not counted off.
BugPruneUncounted(h, n) ==
    /\ n > 0 /\ Stale
    /\ idle' = SubSeq(idle, 1, Len(idle) - 1)
    /\ hs' \in Signal([hs EXCEPT ![h] = At("prune", idle[Len(idle)].c, n - 1)])
    /\ UNCHANGED <<active, closed>>

\* With the mutex held: the oldest connection leaves, to be closed outside.
PruneOne(h, n) ==
    /\ n > 0 /\ Stale
    /\ idle' = SubSeq(idle, 1, Len(idle) - 1)
    /\ active' = active - 1
    /\ hs' \in Signal([hs EXCEPT ![h] = At("prune", idle[Len(idle)].c, n - 1)])
    /\ UNCHANGED closed

\* With the mutex held, act connections active: at most n idle connections
\* are tried, then a new one is dialed.
Acquire(h, f, act, n) ==
    /\ \/ /\ n > 0 /\ idle # <<>>
          /\ idle' = Tail(idle) /\ active' = act
          /\ hs' = [f EXCEPT ![h] = At("test", Head(idle).c, n - 1)]
       \/ /\ ~(n > 0 /\ idle # <<>>)
          /\ UNCHANGED idle
          /\ LET under == MaxActive = 0 \/ act < MaxActive
                 next == CASE closed -> Out
                           [] ~closed /\ under -> At("dial", NoConn, 0)
                           [] ~closed /\ ~under /\ ~Wait -> Out
                           [] OTHER -> At("wait", NoConn, 0)
             IN  /\ hs' = [f EXCEPT ![h] = next]
                 /\ active' = IF next.pc = "dial" THEN act + 1 ELSE act
    /\ UNCHANGED closed

\* Pool.get up to the first point where the mutex is released.
Get(h) ==
    /\ hs[h].pc = "out"
    /\ PruneOne(h, Len(idle)) \/ (~Stale /\ Acquire(h, hs, active, Len(idle)))
    /\ UNCHANGED <<now, toClose, conn>>

\* ic.c.Close() without the mutex, and the next round.
Prune(h) ==
    /\ hs[h].pc = "prune"
    /\ conn' = [conn EXCEPT ![hs[h].c] = CloseConn(@)]
    /\ \/ PruneOne(h, hs[h].n)
       \/ ~(hs[h].n > 0 /\ Stale) /\ Acquire(h, hs, active, Len(idle))
    /\ UNCHANGED <<now, toClose>>

\* TestOnBorrow: DoPing on the connection, without the mutex.
TestOnBorrow(h) ==
    /\ hs[h].pc = "test"
    /\ conn' = [conn EXCEPT ![hs[h].c] = DoOn(@, "PING")]
    /\ hs' = [hs EXCEPT ![h].pc = IF conn'[hs[h].c].err THEN "failed" ELSE "held",
                        ![h].n = IF conn'[hs[h].c].err THEN @ ELSE 0]
    /\ UNCHANGED <<now, idle, active, closed, toClose>>

\* The test failed: the connection is closed and released, and the loop goes on.
DropFailed(h) ==
    /\ hs[h].pc = "failed"
    /\ conn' = [conn EXCEPT ![hs[h].c] = CloseConn(@)]
    /\ \E f \in Signal(hs) : Acquire(h, f, active - 1, hs[h].n)
    /\ UNCHANGED <<now, toClose>>

Dial(h, c) ==
    /\ hs[h].pc = "dial"
    /\ conn[c] = NewConn
    /\ conn' = [conn EXCEPT ![c].open = TRUE]
    /\ hs' = [hs EXCEPT ![h] = At("held", c, 0)]
    /\ UNCHANGED <<now, idle, active, closed, toClose>>

\* A mutant: the place of a connection that was never made is not given back.
BugKeepPlace(h) ==
    /\ hs[h].pc = "dial"
    /\ hs' = [hs EXCEPT ![h] = Out]
    /\ UNCHANGED <<now, idle, active, closed, toClose, conn>>

DialFails(h) ==
    /\ hs[h].pc = "dial"
    /\ active' = active - 1
    /\ hs' \in Signal([hs EXCEPT ![h] = Out])
    /\ UNCHANGED <<now, idle, closed, toClose, conn>>

\* cond.Wait returns: the loop of get starts again.
Woken(h) ==
    /\ hs[h].pc = "woken"
    /\ Acquire(h, hs, active, Len(idle))
    /\ UNCHANGED <<now, toClose, conn>>

\* The state flags of pooledConnection after cmd.
Flags(h, cmd) == (hs[h].state \cup Sets(cmd)) \ Clears(cmd)

Send(h, cmd) ==
    /\ hs[h].pc = "held"
    /\ conn[hs[h].c].pending < MaxPending
    /\ hs' = [hs EXCEPT ![h].state = Flags(h, cmd)]
    /\ conn' = [conn EXCEPT ![hs[h].c] = SendTo(@, cmd)]
    /\ UNCHANGED <<now, idle, active, closed, toClose>>

Do(h, cmd) ==
    /\ hs[h].pc = "held"
    /\ hs' = [hs EXCEPT ![h].state = Flags(h, cmd)]
    /\ conn' = [conn EXCEPT ![hs[h].c] = DoOn(@, cmd)]
    /\ UNCHANGED <<now, idle, active, closed, toClose>>

Flush(h) ==
    /\ hs[h].pc = "held"
    /\ conn' = [conn EXCEPT ![hs[h].c] = FlushOn(@)]
    /\ UNCHANGED <<now, idle, active, closed, toClose, hs>>

\* Without a reply on the way Receive blocks.
Receive(h) ==
    /\ hs[h].pc = "held"
    /\ conn[hs[h].c].unread > 0 \/ conn[hs[h].c].dead
    /\ conn' = [conn EXCEPT ![hs[h].c] = ReceiveOn(@)]
    /\ UNCHANGED <<now, idle, active, closed, toClose, hs>>

\* A mutant: an open transaction goes back to the pool.
BugNoDiscard(h) ==
    /\ hs[h].pc = "held"
    /\ conn' = [conn EXCEPT ![hs[h].c] = DoNothing(@)]
    /\ hs' = [hs EXCEPT ![h] = At("put", hs[h].c, 0)]
    /\ UNCHANGED <<now, idle, active, closed, toClose>>

\* pooledConnection.Close up to put: leave the transaction, read every reply.
CloseHandle(h) ==
    /\ hs[h].pc = "held"
    /\ LET k == conn[hs[h].c]
           left == CASE "multi" \in hs[h].state -> SendTo(k, "DISCARD")
                     [] hs[h].state = {"watch"} -> SendTo(k, "UNWATCH")
                     [] OTHER -> k
       IN  conn' = [conn EXCEPT ![hs[h].c] = DoNothing(left)]
    /\ hs' = [hs EXCEPT ![h] = At("put", hs[h].c, 0)]
    /\ UNCHANGED <<now, idle, active, closed, toClose>>

\* A mutant of put: nobody is told.
BugNoSignal(h) ==
    /\ hs[h].pc = "put"
    /\ ~closed
    /\ idle' = <<[c |-> hs[h].c, t |-> now]>> \o idle
    /\ hs' = [hs EXCEPT ![h] = Out]
    /\ UNCHANGED <<now, active, closed, toClose, conn>>

\* Pool.put: into the idle list, or out of the pool together with the oldest
\* connection when there are too many; closed outside the mutex.
Put(h) ==
    /\ hs[h].pc = "put"
    /\ LET c == hs[h].c
           pushed == <<[c |-> c, t |-> now]>> \o idle
           keep == ~closed /\ ~conn[c].err
       IN  \/ /\ keep /\ Len(pushed) <= MaxIdle
              /\ idle' = pushed
              /\ hs' \in Signal([hs EXCEPT ![h] = Out])
              /\ UNCHANGED active
           \/ /\ keep /\ Len(pushed) > MaxIdle
              /\ idle' = SubSeq(pushed, 1, Len(pushed) - 1)
              /\ active' = active - 1
              /\ hs' \in Signal([hs EXCEPT ![h] = At("drop", pushed[Len(pushed)].c, 0)])
           \/ /\ ~keep
              /\ active' = active - 1
              /\ hs' \in Signal([hs EXCEPT ![h] = At("drop", c, 0)])
              /\ UNCHANGED idle
    /\ UNCHANGED <<now, closed, toClose, conn>>

\* A mutant: the connection that left the pool is forgotten.
BugForgetClose(h) ==
    /\ hs[h].pc = "drop"
    /\ hs' = [hs EXCEPT ![h] = Out]
    /\ UNCHANGED <<now, idle, active, closed, toClose, conn>>

Drop(h) ==
    /\ hs[h].pc = "drop"
    /\ conn' = [conn EXCEPT ![hs[h].c] = CloseConn(@)]
    /\ hs' = [hs EXCEPT ![h] = Out]
    /\ UNCHANGED <<now, idle, active, closed, toClose>>

\* Pool.Close: the list is taken with the mutex held, every waiter is woken.
Close ==
    /\ ~closed
    /\ closed' = TRUE
    /\ idle' = <<>> /\ toClose' = idle
    /\ active' = active - Len(idle)
    /\ hs' = [h \in Handlers |->
                IF hs[h].pc = "wait" THEN [hs[h] EXCEPT !.pc = "woken"] ELSE hs[h]]
    /\ UNCHANGED <<now, conn>>

\* The loop of Pool.Close, without the mutex.
CloseNext ==
    /\ toClose # <<>>
    /\ conn' = [conn EXCEPT ![Head(toClose).c] = CloseConn(@)]
    /\ toClose' = Tail(toClose)
    /\ UNCHANGED <<now, idle, active, closed, hs>>

-----------------------------------------------------------------------------
(* The environment *)

\* The server or the network gives a connection up.
Break(c) ==
    /\ conn[c].open /\ ~conn[c].dead
    /\ conn' = [conn EXCEPT ![c].dead = TRUE]
    /\ UNCHANGED <<now, idle, active, closed, toClose, hs>>

Tick ==
    /\ now < MaxTime
    /\ now' = now + 1
    /\ UNCHANGED <<idle, active, closed, toClose, hs, conn>>

GetStep(h) ==
    \/ Prune(h) \/ TestOnBorrow(h) \/ DropFailed(h) \/ Woken(h)
    \/ DialFails(h) \/ \E c \in Conns : Dial(h, c)

PutStep(h) == Put(h) \/ Drop(h)

Next ==
    \/ \E h \in Handlers :
          \/ Get(h) \/ GetStep(h) \/ Flush(h) \/ Receive(h) \/ CloseHandle(h) \/ PutStep(h)
          \/ \E cmd \in Commands : Send(h, cmd) \/ Do(h, cmd)
    \/ \E c \in Conns : Break(c)
    \/ Close \/ CloseNext \/ Tick

Spec == Init /\ [][Next]_vars

-----------------------------------------------------------------------------
(* Properties *)

Pcs == {"out", "prune", "test", "failed", "dial", "wait", "woken", "held", "put", "drop"}

ConnType ==
    [open : BOOLEAN, dead : BOOLEAN, err : BOOLEAN, pending : Nat,
     unsent : Nat, unread : Nat, multi : BOOLEAN, watch : BOOLEAN]

\* The shape of the state; replies are never over-read (unread is a natural).
TypeOK ==
    /\ now \in Nat /\ active \in Nat /\ closed \in BOOLEAN
    /\ idle \in Seq([c : Conns, t : Nat]) /\ toClose \in Seq([c : Conns, t : Nat])
    /\ hs \in [Handlers -> [pc : Pcs, c : Conns \cup {NoConn}, n : Nat,
                            state : SUBSET {"multi", "watch"}]]
    /\ conn \in [Conns -> ConnType]

HasConn == {"prune", "test", "failed", "held", "put", "drop"}

InIdle == {idle[i].c : i \in DOMAIN idle}
InClose == {toClose[i].c : i \in DOMAIN toClose}
Owners(c) == {h \in Handlers : hs[h].pc \in HasConn /\ hs[h].c = c}

(***************************************************************************)
(* Pool.active is exact: it counts the idle connections, those goroutines  *)
(* work with or test, and the dials under way; and not those already       *)
(* given up whose Close is still to come.  MaxActive is respected.         *)
(***************************************************************************)
ActiveIsExact ==
    /\ active = Len(idle)
              + Cardinality({h \in Handlers : hs[h].pc \in {"test", "failed", "dial", "held", "put"}})
    /\ MaxActive > 0 => active <= MaxActive

(***************************************************************************)
(* A connection in the idle list is clean: no transaction or watch of the  *)
(* goroutine before is open at the server, nothing waits to be sent and no *)
(* reply is left that the next goroutine would take for its own; and there *)
(* are at most MaxIdle of them.                                            *)
(***************************************************************************)
IdleIsClean ==
    /\ \A c \in InIdle :
          conn[c].open /\ ~conn[c].err /\ ~conn[c].multi /\ ~conn[c].watch
          /\ conn[c].unsent = 0 /\ conn[c].unread = 0
    /\ Len(idle) <= MaxIdle

(***************************************************************************)
(* No waiter sleeps on cond while a connection could be had: every release *)
(* and every put has signalled, and whoever was woken for it still comes.  *)
(***************************************************************************)
NoLostWakeup ==
    Waiters(hs) # {} /\ (\A h \in Handlers : hs[h].pc # "woken")
    => ~closed /\ idle = <<>> /\ active >= MaxActive

\* h is inside Get, and does not wait for another to return a connection.
Getting(h) == hs[h].pc \in {"prune", "test", "failed", "dial"}

\* Who has a connection; Lease knows neither "shared" nor "lost".
LeaseOf(c) ==
    LET owners == Owners(c) \cup (IF c \in InIdle \cup InClose THEN {"pooled"} ELSE {})
    IN  IF owners = {}
        THEN IF conn[c].open THEN "lost" ELSE IF conn[c].err THEN "closed" ELSE "new"
        ELSE IF Cardinality(owners) = 1 THEN CHOOSE o \in owners : TRUE ELSE "shared"

Leases == [c \in Conns |-> LeaseOf(c)]

L == INSTANCE Lease WITH Users <- Handlers, lease <- Leases

(***************************************************************************)
(* The pool implements Lease: a connection is with one goroutine at a time *)
(* although it is tested, closed and dialed with the mutex released, none  *)
(* is forgotten open, also by Pool.Close, and a closed one never comes     *)
(* back.                                                                   *)
(***************************************************************************)
ImplementsLease == L!Init /\ [][UNCHANGED Leases \/ L!Next]_vars
=============================================================================
