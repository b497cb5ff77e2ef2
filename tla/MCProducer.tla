----------------------------- MODULE MCProducer -----------------------------
(***************************************************************************)
(* The producer under TLC, in three scenarios: two calls on one partition  *)
(* with two retries each, two calls whose partitions share the broker's    *)
(* connection, and a call that Close overtakes.                            *)
(***************************************************************************)
EXTENDS Integers, Sequences, TLC

CONSTANTS Scenarios, Msgs, Flushers, None,
          OneCall, NoCalls,     \* {a message}, {}
          OnePart, TwoParts

VARIABLES scenario,
          user, closer, td, pd, ld, fl, current, rh, out, log, entered, acked, panicked

OnePartition == [m \in Msgs |-> CHOOSE p \in OnePart : TRUE]
OwnPartition == CHOOSE f \in [Msgs -> TwoParts] : \A m, n \in Msgs : f[m] = f[n] => m = n

Retry == INSTANCE Producer WITH
    Big <- NoCalls, Parts <- OnePart, PartOf <- OnePartition, RetryMax <- 2, ShutsDown <- FALSE
Share == INSTANCE Producer WITH
    Big <- NoCalls, Parts <- TwoParts, PartOf <- OwnPartition, RetryMax <- 1, ShutsDown <- FALSE
Close == INSTANCE Producer WITH
    Msgs <- OneCall, Big <- NoCalls, Parts <- OnePart, PartOf <- OnePartition, RetryMax <- 1,
    ShutsDown <- TRUE

vars == <<scenario, user, closer, td, pd, ld, fl, current, rh, out, log, entered, acked, panicked>>

Init ==
    /\ scenario \in Scenarios
    /\ \/ scenario = "retry" /\ Retry!Init
       \/ scenario = "share" /\ Share!Init
       \/ scenario = "close" /\ Close!Init

Next ==
    /\ \/ scenario = "retry" /\ Retry!Next
       \/ scenario = "share" /\ Share!Next
       \/ scenario = "close" /\ Close!Next
    /\ UNCHANGED scenario

Spec == Init /\ [][Next]_vars

\* Connections are alike, and so are two calls together with their partitions.
Swapped == {g \in Permutations(Msgs \cup TwoParts) :
                \A m \in Msgs : g[m] \in Msgs /\ g[OwnPartition[m]] = OwnPartition[g[m]]}
Symmetry == {f @@ g : f \in Permutations(Flushers), g \in Swapped}

-----------------------------------------------------------------------------
\* Of two messages of a partition that both succeed the one that entered the
\* producer first has the earlier place in the log, through retries on two
\* levels and changes of connection.
OrderKept == scenario = "retry" => Retry!OrderKept

\* The pipeline implements SyncSend, alone on its connection and sharing it:
\* one answer per call, success only for what is in the log, no message more
\* often than it was tried, nothing after the answer.
ImplementsSyncSend ==
    /\ scenario = "retry" => Retry!S!Init
    /\ scenario = "share" => Share!S!Init
    /\ [][scenario = "retry" => UNCHANGED <<Retry!Statuses, log>> \/ Retry!S!Next]_vars
    /\ [][scenario = "share" => UNCHANGED <<Share!Statuses, log>> \/ Share!S!Next]_vars

\* What handleErrors and handleSuccesses receive belongs to a SendMessage that
\* waits for it, also while Close flushes what is buffered.
ResultsHaveAnOwner == scenario = "close" => Close!ResultsHaveAnOwner
=============================================================================
