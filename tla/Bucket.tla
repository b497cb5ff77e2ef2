------------------------------- MODULE Bucket -------------------------------
(***************************************************************************)
(* util/bucket.go: presence is recorded in one Redis set per user and per  *)
(* time bucket.  A Bucket is a prefix, a size and a timestamp; its String  *)
(* is the Redis key "<prefix>:<number of the bucket>".                     *)
(*                                                                         *)
(* Times and durations are integers counted in the clock's own unit        *)
(* (nanoseconds in Go); Second is the number of units in a second, 10^9 in *)
(* the program and a small number in the models.                           *)
(*                                                                         *)
(* A string is modelled by the sequence of its ":"-separated segments, so  *)
(* that joining with ":" is Append and splitting at the first ":" is       *)
(* Head/Tail.  A segment that is a decimal number is that number.          *)
(***************************************************************************)
EXTENDS Integers, Sequences

CONSTANT Second  \* time.Second

ASSUME SecondAssumption == Second \in Nat \ {0}

-----------------------------------------------------------------------------
\* Mutants: the size is not multiplied in / the prefix is forgotten / the
\* offset moves by seconds instead of buckets.
BugOffsetIgnored(now, prefix, bucketSize, offset) ==
    [prefix |-> prefix, timestamp |-> now,
     bucketSize |-> IF bucketSize <= Second THEN Second ELSE bucketSize]

BugOffsetInSeconds(now, prefix, bucketSize, offset) ==
    [prefix |-> prefix, timestamp |-> now + offset * Second,
     bucketSize |-> IF bucketSize <= Second THEN Second ELSE bucketSize]

BugNoPrefix(b) == <<(b.timestamp \div Second) \div (b.bucketSize \div Second)>>

-----------------------------------------------------------------------------
\* Sizes of a second or less, zero and negative ones included, are a second.
BucketWithOffset(now, prefix, bucketSize, offset) ==
    LET size == IF bucketSize <= Second THEN Second ELSE bucketSize
    IN  [prefix |-> prefix, timestamp |-> now + offset * size, bucketSize |-> size]

CurrentBucket(now, prefix, bucketSize) ==
    BucketWithOffset(now, prefix, bucketSize, 0)

\* timestamp.Unix() / int64(bucketSize.Seconds()): both divisions drop the
\* fraction.  (Go truncates towards zero and \div rounds down; they agree
\* because the clock is past 1970 by more than any offset.)
Index(b) == (b.timestamp \div Second) \div (b.bucketSize \div Second)

String(b) == Append(b.prefix, Index(b))
=============================================================================
