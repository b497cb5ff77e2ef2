---------------------------- MODULE BucketRange ----------------------------
(***************************************************************************)
(* util.BucketRange: the loop that builds the buckets of the offsets       *)
(* offsetStart..offsetEnd.  Every iteration calls BucketWithOffset, which  *)
(* reads the clock anew, so the clock may advance between two buckets of   *)
(* one range.  The module runs the loop over and over against a ticking    *)
(* clock.                                                                  *)
(***************************************************************************)
EXTENDS Bucket

CONSTANTS
    Prefix,                  \* the bucket prefix, a sequence of segments
    Sizes,                   \* the bucket sizes callers pass
    OffsetStart, OffsetEnd,  \* the range asked for
    StartTime,               \* the clock when the program starts
    TickSize, MaxTime        \* the clock's step, and a bound on it

ASSUME RangeAssumption ==
    /\ Prefix \in Seq(Int)
    /\ Sizes \subseteq Int
    /\ OffsetStart \in Int /\ OffsetEnd \in Int /\ OffsetStart <= OffsetEnd
    /\ StartTime \in Nat /\ TickSize \in Nat \ {0} /\ MaxTime \in Nat

VARIABLES
    now,        \* the real clock
    bucketSize, \* the argument of the running call
    i,          \* the loop variable
    buckets,    \* the slice built so far
    begin       \* history, not in the code: the clock when the call started

vars == <<now, bucketSize, i, buckets, begin>>

Buckets == [prefix : {Prefix}, timestamp : Int, bucketSize : Int]

TypeOK ==
    /\ now \in Nat
    /\ bucketSize \in Sizes
    /\ i \in OffsetStart .. OffsetEnd + 1
    /\ buckets \in Seq(Buckets)
    /\ begin \in Nat

Init ==
    /\ now = StartTime
    /\ bucketSize \in Sizes
    /\ i = OffsetStart
    /\ buckets = <<>>
    /\ begin = now

\* for i := offsetStart; i <= offsetEnd; i++ { buckets = append(...) }
Iterate ==
    /\ i <= OffsetEnd
    /\ buckets' = Append(buckets, BucketWithOffset(now, Prefix, bucketSize, i))
    /\ i' = i + 1
    /\ UNCHANGED <<now, bucketSize, begin>>

\* The range is returned and the next call starts from an empty slice.
Return ==
    /\ i > OffsetEnd
    /\ bucketSize' \in Sizes
    /\ i' = OffsetStart
    /\ buckets' = <<>>
    /\ begin' = now
    /\ UNCHANGED now

\* The clock is time.Now: it goes on whatever the loop does.
Tick ==
    /\ now + TickSize <= MaxTime
    /\ now' = now + TickSize
    /\ UNCHANGED <<bucketSize, i, buckets, begin>>

Next == Iterate \/ Return \/ Tick

Spec == Init /\ [][Next]_vars

-----------------------------------------------------------------------------
\* The number of the bucket of time t, for the size of the running call.
BucketOf(t) == Index(CurrentBucket(t, Prefix, bucketSize))

WholeSeconds(d) == d % Second = 0

(***************************************************************************)
(* No key twice: whatever the size (clamped, fractional seconds) and       *)
(* however often the clock ticks between two iterations of the loop in     *)
(* BucketRange, later buckets have larger numbers, so SUNION is never      *)
(* given a key twice.                                                      *)
(***************************************************************************)
RangeStrictlyIncreasing ==
    \A j, k \in DOMAIN buckets : j < k => Index(buckets[j]) < Index(buckets[k])

(***************************************************************************)
(* The range that BucketRange returns sits where it was asked for, up to   *)
(* the buckets the clock entered since the call started: each bucket is    *)
(* its offset away from a bucket the clock has been in.  In particular, a  *)
(* clock that stays in one bucket (it may tick) gives consecutive buckets. *)
(* The size must be a whole number of seconds, as BucketSize is.           *)
(***************************************************************************)
RangeFollowsClock ==
    WholeSeconds(bucketSize) =>
        \A k \in DOMAIN buckets :
            Index(buckets[k]) - (OffsetStart + k - 1) \in BucketOf(begin) .. BucketOf(now)

(***************************************************************************)
(* What TestBucketRange (bucket_test.go) asserts of the range -1..1 over a *)
(* mock clock that is set but not frozen: consecutive buckets.  The real   *)
(* clock can enter a new bucket between two iterations, and the range      *)
(* then skips one.                                                         *)
(***************************************************************************)
RangeIsConsecutive ==
    \A k \in 2 .. Len(buckets) : Index(buckets[k]) = Index(buckets[k - 1]) + 1
=============================================================================
