------------------------------- MODULE Context -------------------------------
(* golang.org/x/net/context: a tree of contexts, made and cancelled by many    *)
(* goroutines.  A cancelCtx holds its mutex while it cancels its children, one *)
(* by one and with theirs; a timerCtx is a cancelCtx with a timer; a value     *)
(* context is looked through; a foreign context (any other implementation)     *)
(* is watched by a goroutine.  A goroutine inside cancel is a stack of frames. *)
EXTENDS Naturals, Sequences, FiniteSets

CONSTANTS
    Ctx, Root,      \* the contexts a behaviour makes, and Background
    Parent,
    Kinds,          \* how they may be made: functions to the names in Makers
    Deadline,       \* of those made by WithDeadline
    MaxTime         \* bound on the clock

Makers == {"cancel", "deadline", "value", "foreign"}

(* No context is its own ancestor. *)
ASSUME ContextAssumption ==
    /\ Root \notin Ctx /\ Parent \in [Ctx -> Ctx \cup {Root}] /\ Kinds \subseteq [Ctx -> Makers]
    /\ \A S \in SUBSET Ctx : S # {} => \E c \in S : Parent[c] \notin S

VARIABLES
    kind,           \* how each context is made
    made,           \* "no", "propagate", "arm", "yes": how far its constructor is
    timed,          \* it is a timerCtx
    err, children, mu, timer,
    watched,        \* a goroutine waits for it and its foreign parent
    stack,          \* of each goroutine that cancels
    started,        \* the goroutines that have run
    now

contextVars == <<kind, made, timed, err, children, mu, timer, watched, stack, started, now>>

Free == <<"free", "free">>
Threads == {"user", "timer", "watch", "new"} \X Ctx

(* parentCancelCtx: value contexts are looked through. *)
Through(k) ==
    LET up[p \in Ctx \cup {Root}] == IF p # Root /\ k[p] = "value" THEN up[Parent[p]] ELSE p
    IN  up
Above(c) == Through(kind)[Parent[c]]
IsCancel(p) == p # Root /\ kind[p] \in {"cancel", "deadline"}

(* Deadline() of a context: that of the nearest timerCtx. *)
never == MaxTime + 1
dl[p \in Ctx \cup {Root}] ==
    IF p = Root \/ kind[p] = "foreign" THEN never
    ELSE IF timed[p] THEN Deadline[p] ELSE dl[Parent[p]]

ContextInit ==
    /\ kind \in Kinds
    /\ made = [c \in Ctx |-> "no"]
    /\ timed = [c \in Ctx |-> FALSE]
    /\ err = [c \in Ctx |-> "nil"]
    /\ children = [c \in Ctx |-> {}]
    /\ mu = [c \in Ctx |-> Free]
    /\ timer = [c \in Ctx |-> FALSE]
    /\ watched = {}
    /\ stack = [t \in Threads |-> <<>>]
    /\ started = {}
    /\ now = 0

Frame(c, remove, e) == [c |-> c, at |-> "enter", remove |-> remove, err |-> e, todo |-> {}]
Start(t, c, remove, e) ==
    /\ stack' = [stack EXCEPT ![t] = <<Frame(c, remove, e)>>]
    /\ started' = started \cup {t}

----------------------------------------------------------------------------

(* WithCancel, WithDeadline, WithTimeout and WithValue. *)
New(c) ==
    /\ made[c] = "no" /\ (Parent[c] # Root => made[Parent[c]] = "yes")
    /\ timed' = [timed EXCEPT ![c] = kind[c] = "deadline" /\ ~(dl[Parent[c]] < Deadline[c])]
    /\ made' = [made EXCEPT ![c] = IF IsCancel(c) THEN "propagate" ELSE "yes"]
    /\ UNCHANGED <<kind, err, children, mu, timer, watched, stack, started, now>>

(* Mutants: a parent that is done is not noticed; a foreign one not watched. *)
BugPropagate(c) ==
    /\ made[c] = "propagate"
    /\ IF IsCancel(Above(c)) THEN children' = [children EXCEPT ![Above(c)] = @ \cup {c}] ELSE UNCHANGED children
    /\ watched' = watched
    /\ made' = [made EXCEPT ![c] = IF timed[c] THEN "arm" ELSE "yes"]
    /\ UNCHANGED <<kind, err, timed, mu, timer, stack, started, now>>

(* propagateCancel: nobody else has the child yet. *)
propagateCancel(c) ==
    /\ made[c] = "propagate"
    /\ LET p == Above(c)
       IN  CASE p = Root -> UNCHANGED <<err, children, watched>>
             [] IsCancel(p) ->
                  /\ mu[p] = Free
                  /\ IF err[p] # "nil" THEN err' = [err EXCEPT ![c] = err[p]] /\ UNCHANGED children
                     ELSE children' = [children EXCEPT ![p] = @ \cup {c}] /\ UNCHANGED err
                  /\ UNCHANGED watched
             [] OTHER -> watched' = watched \cup {c} /\ UNCHANGED <<err, children>>
    /\ made' = [made EXCEPT ![c] = IF timed[c] THEN "arm" ELSE "yes"]
    /\ UNCHANGED <<kind, timed, mu, timer, stack, started, now>>

(* The rest of WithDeadline: cancel at once, or set the timer. *)
Arm(c) ==
    /\ made[c] = "arm"
    /\ IF Deadline[c] <= now
       THEN Start(<<"new", c>>, c, TRUE, "DeadlineExceeded") /\ UNCHANGED timer
       ELSE /\ mu[c] = Free
            /\ timer' = [timer EXCEPT ![c] = err[c] = "nil"]
            /\ UNCHANGED <<stack, started>>
    /\ made' = [made EXCEPT ![c] = "yes"]
    /\ UNCHANGED <<kind, timed, err, children, mu, watched, now>>

(* What calls cancel: the CancelFunc, the timer, the goroutine that watches a  *)
(* foreign parent.                                                             *)
Cancel(c) ==
    /\ made[c] = "yes" /\ IsCancel(c) /\ <<"user", c>> \notin started
    /\ Start(<<"user", c>>, c, TRUE, "Canceled")
    /\ UNCHANGED <<kind, made, timed, err, children, mu, timer, watched, now>>

TimerFires(c) ==
    /\ timer[c] /\ Deadline[c] <= now
    /\ timer' = [timer EXCEPT ![c] = FALSE]
    /\ Start(<<"timer", c>>, c, TRUE, "DeadlineExceeded")
    /\ UNCHANGED <<kind, made, timed, err, children, mu, watched, now>>

Watch(c) ==
    /\ c \in watched
    /\ watched' = watched \ {c}
    /\ \/ err[Above(c)] # "nil" /\ Start(<<"watch", c>>, c, FALSE, err[Above(c)])
       \/ err[c] # "nil" /\ UNCHANGED <<stack, started>>
    /\ UNCHANGED <<kind, made, timed, err, children, mu, timer, now>>

ForeignDone(c) ==
    /\ kind[c] = "foreign" /\ made[c] = "yes" /\ err[c] = "nil"
    /\ err' = [err EXCEPT ![c] = "Canceled"]
    /\ UNCHANGED <<kind, made, timed, children, mu, timer, watched, stack, started, now>>

Tick ==
    /\ now < MaxTime
    /\ now' = now + 1
    /\ UNCHANGED <<kind, made, timed, err, children, mu, timer, watched, stack, started>>

----------------------------------------------------------------------------
(* cancel *)
top(t) == stack[t][Len(stack[t])]
AtTop(t, at) == stack[t] # <<>> /\ top(t).at = at
SetTop(t, f) == stack' = [stack EXCEPT ![t][Len(stack[t])] = f]

(* The mutex is taken; a context that is already cancelled is left alone. *)
Enter(t) ==
    /\ AtTop(t, "enter")
    /\ LET f == top(t)
       IN  /\ mu[f.c] = Free
           /\ IF err[f.c] # "nil" THEN SetTop(t, [f EXCEPT !.at = "stop"]) /\ UNCHANGED <<err, mu>>
              ELSE /\ err' = [err EXCEPT ![f.c] = f.err]
                   /\ mu' = [mu EXCEPT ![f.c] = t]
                   /\ SetTop(t, [f EXCEPT !.at = "children", !.todo = children[f.c]])
    /\ UNCHANGED <<kind, made, timed, children, timer, watched, started, now>>

CancelChild(t) ==
    /\ AtTop(t, "children")
    /\ \E k \in top(t).todo :
            stack' = [stack EXCEPT ![t] = Append([stack[t] EXCEPT ![Len(stack[t])].todo = @ \ {k}],
                                                 Frame(k, FALSE, top(t).err))]
    /\ UNCHANGED <<kind, made, timed, err, children, mu, timer, watched, started, now>>

ChildrenDone(t) ==
    /\ AtTop(t, "children") /\ top(t).todo = {}
    /\ children' = [children EXCEPT ![top(t).c] = {}]
    /\ mu' = [mu EXCEPT ![top(t).c] = Free]
    /\ SetTop(t, [top(t) EXCEPT !.at = IF top(t).remove THEN "remove" ELSE "stop"])
    /\ UNCHANGED <<kind, made, timed, err, timer, watched, started, now>>

(* delete(p.children, c): c is the *cancelCtx, while a timerCtx was entered as *)
(* the *timerCtx it is part of.                                                *)
Key(c) == IF timed[c] THEN {} ELSE {c}
RemoveFromParent(t) ==
    /\ AtTop(t, "remove")
    /\ LET c == top(t).c
           p == Above(c)
       IN  IF IsCancel(p) THEN mu[p] = Free /\ children' = [children EXCEPT ![p] = @ \ Key(c)]
           ELSE UNCHANGED children
    /\ SetTop(t, [top(t) EXCEPT !.at = "stop"])
    /\ UNCHANGED <<kind, made, timed, err, mu, timer, watched, started, now>>

(* The end of cancel; that of a timerCtx stops its timer. *)
StopTimer(t) ==
    /\ AtTop(t, "stop")
    /\ LET c == top(t).c
       IN  IF timed[c] THEN mu[c] = Free /\ timer' = [timer EXCEPT ![c] = FALSE]
           ELSE UNCHANGED timer
    /\ stack' = [stack EXCEPT ![t] = SubSeq(@, 1, Len(@) - 1)]
    /\ UNCHANGED <<kind, made, timed, err, children, mu, watched, started, now>>

Run(t) == Enter(t) \/ CancelChild(t) \/ ChildrenDone(t) \/ RemoveFromParent(t) \/ StopTimer(t)
Construct(c) == propagateCancel(c) \/ Arm(c)
Quiet == \A t \in Threads : stack[t] = <<>>
Over == /\ now = MaxTime /\ Quiet
        /\ \A c \in Ctx : made[c] = "yes" /\ ~timer[c] /\ c \notin watched
        /\ UNCHANGED contextVars

ContextNext ==
    \/ \E c \in Ctx : New(c) \/ Construct(c) \/ Cancel(c) \/ TimerFires(c) \/ Watch(c) \/ ForeignDone(c)
    \/ \E t \in Threads : Run(t)
    \/ Tick \/ Over

ContextSpec == ContextInit /\ [][ContextNext]_contextVars

----------------------------------------------------------------------------

(* "Canceling this context releases resources associated with the deadline     *)
(* timer": no cancelled context has a timer running once cancel returned.      *)
TimersStopped == Quiet => \A c \in Ctx : made[c] = "yes" /\ err[c] # "nil" => ~timer[c]

Forgotten(c) == (Quiet /\ made[c] = "yes" /\ err[c] # "nil" /\ IsCancel(Above(c))) => c \notin children[Above(c)]

(* A cancelled cancelCtx is not among its parent's children any more. *)
CancelForgotten == \A c \in Ctx : ~timed[c] => Forgotten(c)

(* The children a context will cancel are exactly those that are not done and  *)
(* not under cancellation: none is lost between propagateCancel and cancel.    *)
ChildrenKept ==
    \A c \in Ctx :
        (IsCancel(c) /\ made[c] \in {"arm", "yes"} /\ IsCancel(Above(c)) /\ err[c] = "nil")
            => IF err[Above(c)] = "nil" THEN c \in children[Above(c)]
               ELSE \E t \in Threads : \E i \in 1 .. Len(stack[t]) :
                        (stack[t][i].c = Above(c) /\ c \in stack[t][i].todo) \/ stack[t][i].c = c

(***************************************************************************)
(* The children a context will cancel are exactly those that are not done  *)
(* and not under cancellation, so none is lost between propagateCancel and *)
(* cancel; and once cancel has returned no done context has a timer        *)
(* running and no cancelCtx is still among its parent's children.          *)
(***************************************************************************)
ChildrenComplete == ChildrenKept /\ TimersStopped /\ CancelForgotten
=============================================================================
