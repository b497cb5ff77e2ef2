--------------------------- MODULE Http2Priority ---------------------------
(***************************************************************************)
(* The priority tree of an HTTP/2 connection (adjustStreamPriority in      *)
(* bradfitz/http2 server.go).  Streams leave the map when they close, but  *)
(* stay where they are in the tree: other streams still point to them.     *)
(***************************************************************************)
EXTENDS Naturals

CONSTANT Ids   \* stream identifiers

VARIABLES
    open,     \* the keys of sc.streams
    used,     \* identifiers used so far
    parent    \* stream.parent, 0 for nil

vars == <<open, used, parent>>

Init == open = {} /\ used = {} /\ parent = [i \in Ids |-> 0]

\* k-fold parents of i: what the loop over piter visits when it ends.
RECURSIVE Ancestors(_, _, _)
Ancestors(up, i, seen) ==
    IF i = 0 \/ i \in seen THEN seen ELSE Ancestors(up, up[i], seen \cup {i})

\* A parent that depends on the stream takes the stream's place first.  An
\* exclusive stream adopts the other children of its parent.
adjustStreamPriority(up, streams, i, dep, exclusive) ==
    LET p == IF dep \in streams THEN dep ELSE 0
        moved == IF i \in Ancestors(up, p, {}) THEN [up EXCEPT ![p] = up[i]] ELSE up
        placed == [moved EXCEPT ![i] = p]
    IN  IF i \notin streams \/ p = i THEN up
        ELSE IF exclusive /\ (p # 0 \/ dep = 0)
        THEN [j \in Ids |-> IF j \in streams \ {i} /\ placed[j] = p THEN i ELSE placed[j]]
        ELSE placed

\* HEADERS of a new stream, with or without a priority.
Open(i) ==
    /\ i \notin used
    /\ used' = used \cup {i}
    /\ open' = open \cup {i}
    /\ \/ UNCHANGED parent
       \/ \E dep \in Ids \cup {0}, exclusive \in BOOLEAN :
             parent' = adjustStreamPriority(parent, open', i, dep, exclusive)

processPriority(i) ==
    /\ \E dep \in Ids \cup {0}, exclusive \in BOOLEAN :
          parent' = adjustStreamPriority(parent, open, i, dep, exclusive)
    /\ UNCHANGED <<open, used>>

closeStream(i) ==
    /\ i \in open
    /\ open' = open \ {i}
    /\ UNCHANGED <<used, parent>>

Next == \E i \in Ids : Open(i) \/ processPriority(i) \/ closeStream(i)

Spec == Init /\ [][Next]_vars

-----------------------------------------------------------------------------

(***************************************************************************)
(* No sequence of priorities, not even one that runs through closed        *)
(* streams, makes a stream its own ancestor: the loop over the parents, on *)
(* the serve goroutine, ends.                                              *)
(***************************************************************************)
Acyclic == \A i \in Ids : i \notin Ancestors(parent, parent[i], {})
=============================================================================
