---------------------------- MODULE Partitioner ----------------------------
(***************************************************************************)
(* The partitioners of sarama (partitioner.go), and the choice             *)
(* async_producer.go makes with one (assignPartition).  The service uses   *)
(* the default, the hash partitioner, with the user's id as the key.  The  *)
(* hash of a key is a Width-bit number read as a signed one.               *)
(***************************************************************************)
EXTENDS Integers

CONSTANTS
    Width,       \* 32 in the code
    Kind,        \* "manual", "random", "roundRobin", "hash"
    MaxParts,    \* bound: the number of partitions changes up to this
    Unencodable, \* a key that fails to encode
    Nil          \* no key

\* A key is its hash.
Keys == (0 .. 2 ^ Width - 1) \cup {Unencodable, Nil}

VARIABLES
    n,       \* partitions of the topic
    rr,      \* the round robin's next partition
    msg,     \* the message: key, partition set by hand
    choice   \* what Partition and then assignPartition gave

vars == <<n, rr, msg, choice>>

NoChoice == [part |-> 0, err |-> "no", final |-> "none", n |-> 0]

Init ==
    /\ n \in 0 .. MaxParts /\ rr = 0 /\ choice = NoChoice
    /\ msg = [key |-> Nil, part |-> 0]

\* A mutant: the walk starts again one too late.
BugRound == IF rr > n THEN 0 ELSE rr

Round == IF rr >= n THEN 0 ELSE rr

\* A number of Width bits as an int32.
Signed(x) == IF x >= 2 ^ (Width - 1) THEN x - 2 ^ Width ELSE x

\* -x in Width bits: the least number is its own negation.
Negated(x) == IF x = -(2 ^ (Width - 1)) THEN x ELSE -x

\* Go's %: the sign of the dividend.
Rem(x, m) == IF x >= 0 THEN x % m ELSE -((-x) % m)

Hashed(key) == LET hash == Signed(key) IN Rem(IF hash < 0 THEN Negated(hash) ELSE hash, n)

Random == {[part |-> p, err |-> "no"] : p \in 0 .. n - 1}

Partition(m) ==
    CASE Kind = "manual" -> {[part |-> m.part, err |-> "no"]}
      [] Kind = "random" -> Random
      [] Kind = "roundRobin" -> {[part |-> Round, err |-> "no"]}
      [] Kind = "hash" ->
            IF m.key = Nil THEN Random
            ELSE IF m.key = Unencodable THEN {[part |-> -1, err |-> "encode"]}
            ELSE {[part |-> Hashed(m.key), err |-> "no"]}

\* assignPartition: the choice is checked against the partitions there are.
assignPartition(k, p) ==
    /\ n > 0
    /\ \E c \in Partition([key |-> k, part |-> p]) :
          /\ choice' = [part |-> c.part, err |-> c.err, n |-> n,
                        final |-> IF c.err # "no" THEN c.err
                                  ELSE IF c.part < 0 \/ c.part >= n THEN "ErrInvalidPartition"
                                  ELSE "assigned"]
          /\ rr' = IF Kind = "roundRobin" THEN c.part + 1 ELSE rr
    /\ msg' = [key |-> k, part |-> p]
    /\ UNCHANGED n

\* Nothing to choose from.
NoPartitions(k) ==
    /\ n = 0
    /\ choice' = [NoChoice EXCEPT !.final = "ErrLeaderNotAvailable"]
    /\ msg' = [key |-> k, part |-> 0]
    /\ UNCHANGED <<n, rr>>

\* The topic gets partitions, or loses some of those that can be written to.
Repartition(m) == m # n /\ n' = m /\ UNCHANGED <<rr, msg, choice>>

Next ==
    \/ \E k \in Keys, p \in 0 .. MaxParts : assignPartition(k, p) \/ NoPartitions(k)
    \/ \E m \in 0 .. MaxParts : Repartition(m)

Spec == Init /\ [][Next]_vars

-----------------------------------------------------------------------------

\* A key whose hash is the least number.
Least == 2 ^ (Width - 1)

(***************************************************************************)
(* A message is assigned a partition unless its key does not encode or its *)
(* hash is the one number with no absolute value: then, and for no other   *)
(* key, the hash partitioner's choice can be out of range.                 *)
(***************************************************************************)
AssignedUnlessLeast ==
    choice.n > 0 /\ msg.key \notin {Unencodable, Least} => choice.final = "assigned"
=============================================================================
