------------------------------- MODULE Lease -------------------------------
(***************************************************************************)
(* What a connection pool promises, whatever it does inside: a connection  *)
(* belongs to one user at a time, passes from one user to another only     *)
(* through the pool, and is never used again once it is closed.            *)
(***************************************************************************)
CONSTANTS Conns,     \* connections that can be made
          Users      \* goroutines

VARIABLE lease       \* who has the connection

New == "new"         \* not made yet
Pooled == "pooled"   \* in the pool, nobody's
Closed == "closed"

Init == lease = [c \in Conns |-> New]

Make(u, c) == lease[c] = New /\ lease' = [lease EXCEPT ![c] = u]

Borrow(u, c) == lease[c] = Pooled /\ lease' = [lease EXCEPT ![c] = u]

Return(u, c) == lease[c] = u /\ lease' = [lease EXCEPT ![c] = Pooled]

\* Returning one connection can push another, pooled one out of the pool.
Exchange(u, c, d) ==
    /\ lease[c] = u /\ lease[d] = Pooled
    /\ lease' = [lease EXCEPT ![c] = Pooled, ![d] = u]

Drop(u, c) == lease[c] = u /\ lease' = [lease EXCEPT ![c] = Closed]

\* The pool gives up what nobody uses.
DropPooled(u, c) == lease[c] = Pooled /\ lease' = [lease EXCEPT ![c] = Closed]

\* A connection that failed or expired is dropped for the next one.
DropAndBorrow(u, c, d) ==
    /\ lease[c] = u /\ lease[d] = Pooled
    /\ lease' = [lease EXCEPT ![c] = Closed, ![d] = u]

Next ==
    \E u \in Users, c \in Conns :
        \/ Make(u, c) \/ Borrow(u, c) \/ Return(u, c) \/ Drop(u, c) \/ DropPooled(u, c)
        \/ \E d \in Conns \ {c} : Exchange(u, c, d) \/ DropAndBorrow(u, c, d)

Spec == Init /\ [][Next]_lease
=============================================================================
