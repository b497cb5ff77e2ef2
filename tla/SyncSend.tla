------------------------------ MODULE SyncSend ------------------------------
(***************************************************************************)
(* What SyncProducer promises the presence manager, and what Presence      *)
(* relies on: SendMessage returns once, with success only for a message    *)
(* that is in its partition; a message is appended only while its call is  *)
(* under way, and at most Attempts times.                                  *)
(***************************************************************************)
EXTENDS Integers, Sequences, FiniteSets

CONSTANTS Msgs, Parts, PartOf, Attempts

VARIABLES status,  \* the call that sends each message
          log      \* the partitions

Init ==
    /\ status = [m \in Msgs |-> "idle"]
    /\ log = [p \in Parts |-> <<>>]

Call(m) ==
    /\ status[m] = "idle"
    /\ status' = [status EXCEPT ![m] = "pending"]
    /\ UNCHANGED log

Copies(s, m) == Cardinality({i \in DOMAIN s : s[i] = m})

\* The broker appends messages whose calls are under way, alone or in batches.
Append_ ==
    /\ \A p \in Parts :
          /\ Len(log'[p]) >= Len(log[p]) /\ SubSeq(log'[p], 1, Len(log[p])) = log[p]
          /\ \A i \in Len(log[p]) + 1 .. Len(log'[p]) :
                LET m == log'[p][i] IN
                m \in Msgs /\ PartOf[m] = p /\ status[m] = "pending"
                /\ Copies(log'[p], m) <= Attempts
    /\ UNCHANGED status

Succeed(m) ==
    /\ status[m] = "pending" /\ Copies(log[PartOf[m]], m) > 0
    /\ status' = [status EXCEPT ![m] = "ok"]
    /\ UNCHANGED log

Fail(m) ==
    /\ status[m] = "pending"
    /\ status' = [status EXCEPT ![m] = "failed"]
    /\ UNCHANGED log

Next == Append_ \/ \E m \in Msgs : Call(m) \/ Succeed(m) \/ Fail(m)

Spec == Init /\ [][Next]_<<status, log>>
=============================================================================
