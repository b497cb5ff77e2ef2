------------------------- MODULE BucketRange_proofs -------------------------
(***************************************************************************)
(* Proofs about BucketRange, for every bucket size, every offset range and *)
(* every clock that does not run backwards.                                *)
(***************************************************************************)
EXTENDS BucketRange, BucketFacts

-----------------------------------------------------------------------------
\* Two buckets of a size, at least a size apart, have different numbers.
LEMMA IndexStep ==
    ASSUME NEW b \in Buckets, NEW c \in Buckets, b.bucketSize = c.bucketSize,
           b.bucketSize >= Second, b.timestamp + b.bucketSize <= c.timestamp
    PROVE  Index(b) < Index(c)
  <1>1. b.bucketSize \in Int /\ b.timestamp \in Int /\ c.timestamp \in Int
    BY DEF Buckets
  <1> QED
    BY <1>1, SecondAssumption, NumberStep DEF Index

-----------------------------------------------------------------------------
\* The size BucketWithOffset uses for the running call.
Size == IF bucketSize <= Second THEN Second ELSE bucketSize

(***************************************************************************)
(* The inductive invariant: the slice holds one bucket per offset visited, *)
(* all of the clamped size, each at least a size after the one before, and *)
(* each between where the clock at the start of the call and where the     *)
(* present clock would put it.  The upper bound is what carries the        *)
(* distance over to the next bucket.                                       *)
(***************************************************************************)
RangeInv ==
    /\ TypeOK
    /\ begin <= now
    /\ Len(buckets) = i - OffsetStart
    /\ \A k \in DOMAIN buckets : buckets[k].bucketSize = Size
    /\ \A k \in DOMAIN buckets :
          /\ begin + (OffsetStart + k - 1) * Size <= buckets[k].timestamp
          /\ buckets[k].timestamp <= now + (OffsetStart + k - 1) * Size
    /\ \A j, k \in DOMAIN buckets :
          j < k => buckets[j].timestamp + Size <= buckets[k].timestamp

\* The size a call works with, after the clamp in BucketWithOffset.
LEMMA SizeFacts ==
    ASSUME TypeOK
    PROVE  Size \in Int /\ Size >= Second /\ Second \in Nat \ {0}
  BY SecondAssumption, RangeAssumption DEF TypeOK, Size

\* A call starts with an empty slice.
LEMMA RangeInit == Init => RangeInv
  BY RangeAssumption DEF Init, RangeInv, TypeOK, Buckets

\* An iteration of the loop appends a bucket in its place.
LEMMA RangeIterate == RangeInv /\ Iterate => RangeInv'
  <1> SUFFICES ASSUME RangeInv, Iterate PROVE RangeInv'
    OBVIOUS
  <1> DEFINE b == BucketWithOffset(now, Prefix, bucketSize, i)
  <1>1. Size \in Int /\ Size >= Second /\ Second \in Nat \ {0}
    BY SizeFacts DEF RangeInv
  <1>2. b = [prefix |-> Prefix, timestamp |-> now + i * Size, bucketSize |-> Size]
    BY DEF BucketWithOffset, Size
  <1>3. /\ i \in Int /\ now \in Nat /\ OffsetStart \in Int /\ OffsetEnd \in Int
        /\ begin \in Nat /\ begin <= now /\ i <= OffsetEnd /\ OffsetStart <= i
        /\ buckets \in Seq(Buckets)
    BY RangeAssumption DEF RangeInv, TypeOK, Iterate
  <1>4. b \in Buckets
    BY <1>1, <1>2, <1>3 DEF Buckets
  <1>5. buckets' = Append(buckets, b) /\ i' = i + 1 /\ now' = now
        /\ bucketSize' = bucketSize /\ begin' = begin
    BY DEF Iterate
  <1>6. TypeOK'
    BY <1>3, <1>4, <1>5, RangeAssumption DEF RangeInv, TypeOK
  <1>7. Size' = Size
    BY <1>5 DEF Size
  <1> HIDE DEF b
  <1>8. /\ Len(buckets') = Len(buckets) + 1
        /\ DOMAIN buckets' = 1 .. Len(buckets) + 1
        /\ \A k \in DOMAIN buckets : buckets'[k] = buckets[k]
        /\ buckets'[Len(buckets) + 1] = b
        /\ DOMAIN buckets = 1 .. Len(buckets) /\ Len(buckets) \in Nat
    BY <1>3, <1>4, <1>5
  <1>9. Len(buckets) = i - OffsetStart
    BY DEF RangeInv
  <1>10. \A k \in DOMAIN buckets' : buckets'[k].bucketSize = Size
    BY <1>2, <1>8 DEF RangeInv
  <1>11. \A k \in DOMAIN buckets' :
            /\ begin + (OffsetStart + k - 1) * Size <= buckets'[k].timestamp
            /\ buckets'[k].timestamp <= now + (OffsetStart + k - 1) * Size
    <2> TAKE k \in DOMAIN buckets'
    <2>1. CASE k = Len(buckets) + 1
      <3>1. OffsetStart + k - 1 = i
        BY <2>1, <1>3, <1>9
      <3>2. buckets'[k].timestamp = now + i * Size
        BY <2>1, <1>2, <1>8
      <3> QED BY <3>1, <3>2, <1>1, <1>3
    <2>2. CASE k \in DOMAIN buckets
      BY <2>2, <1>8 DEF RangeInv
    <2> QED BY <2>1, <2>2, <1>8
  <1>12. \A j, k \in DOMAIN buckets' :
            j < k => buckets'[j].timestamp + Size <= buckets'[k].timestamp
    <2> SUFFICES ASSUME NEW j \in DOMAIN buckets', NEW k \in DOMAIN buckets', j < k
                 PROVE  buckets'[j].timestamp + Size <= buckets'[k].timestamp
      OBVIOUS
    <2>1. j \in DOMAIN buckets
      BY <1>8
    <2>2. CASE k \in DOMAIN buckets
      BY <2>1, <2>2, <1>8 DEF RangeInv
    <2>3. CASE k = Len(buckets) + 1
      <3>1. buckets'[k].timestamp = now + i * Size
        BY <2>3, <1>2, <1>8
      <3>2. buckets[j].timestamp <= now + (OffsetStart + j - 1) * Size
        BY <2>1 DEF RangeInv
      <3>3. j \in Int /\ OffsetStart + j - 1 <= i - 1
        BY <2>1, <1>3, <1>8, <1>9
      <3>4. (OffsetStart + j - 1) * Size <= (i - 1) * Size
        BY <3>3, <1>1, <1>3
      <3>5. (i - 1) * Size = i * Size - Size
        BY <1>1, <1>3
      <3>6. buckets'[j] = buckets[j] /\ buckets[j] \in Buckets
        BY <2>1, <1>3, <1>8
      <3>8. buckets[j].timestamp \in Int
        BY <3>6 DEF Buckets
      <3>7. /\ (OffsetStart + j - 1) * Size \in Int /\ (i - 1) * Size \in Int
            /\ i * Size \in Int
        BY <3>3, <1>1, <1>3
      <3> QED BY <3>1, <3>2, <3>4, <3>5, <3>6, <3>7, <3>8, <1>1, <1>3
    <2> QED BY <2>2, <2>3, <1>8
  <1>13. begin' <= now' /\ Len(buckets') = i' - OffsetStart
    BY <1>3, <1>5, <1>8, <1>9
  <1>14. /\ \A k \in DOMAIN buckets' : buckets'[k].bucketSize = Size'
         /\ \A k \in DOMAIN buckets' :
               /\ begin' + (OffsetStart + k - 1) * Size' <= buckets'[k].timestamp
               /\ buckets'[k].timestamp <= now' + (OffsetStart + k - 1) * Size'
         /\ \A j, k \in DOMAIN buckets' :
               j < k => buckets'[j].timestamp + Size' <= buckets'[k].timestamp
    BY <1>5, <1>7, <1>10, <1>11, <1>12, Zenon
  <1> QED
    BY <1>6, <1>13, <1>14, Zenon DEF RangeInv

\* The next call starts with an empty slice again.
LEMMA RangeReturn == RangeInv /\ Return => RangeInv'
  BY RangeAssumption DEF RangeInv, Return, TypeOK, Buckets

\* The clock leaves the slice alone and only moves the upper bound.
LEMMA RangeTick == RangeInv /\ Tick => RangeInv'
  <1> SUFFICES ASSUME RangeInv, Tick PROVE RangeInv'
    OBVIOUS
  <1>1. now' \in Nat /\ now <= now' /\ now \in Nat /\ begin \in Nat /\ begin <= now
    BY RangeAssumption DEF RangeInv, TypeOK, Tick
  <1>2. UNCHANGED <<bucketSize, i, buckets, begin>> /\ Size' = Size
    BY DEF Tick, Size
  <1>3. TypeOK'
    BY <1>1, <1>2 DEF RangeInv, TypeOK
  <1>4. \A k \in DOMAIN buckets :
            buckets[k].timestamp <= now' + (OffsetStart + k - 1) * Size
    <2> TAKE k \in DOMAIN buckets
    <2>1. buckets[k].timestamp <= now + (OffsetStart + k - 1) * Size
      BY DEF RangeInv
    <2>2. k \in Int /\ buckets[k] \in Buckets /\ OffsetStart \in Int
      BY RangeAssumption DEF RangeInv, TypeOK
    <2>4. buckets[k].timestamp \in Int
      BY <2>2 DEF Buckets
    <2>3. (OffsetStart + k - 1) * Size \in Int
      BY <2>2, SizeFacts DEF RangeInv
    <2> QED BY <2>1, <2>2, <2>3, <2>4, <1>1
  <1>5. \A k \in DOMAIN buckets :
            begin + (OffsetStart + k - 1) * Size <= buckets[k].timestamp
    BY DEF RangeInv
  <1> QED
    BY <1>1, <1>2, <1>3, <1>4, <1>5 DEF RangeInv

\* RangeInv holds in every state of the loop.
LEMMA RangeInvariance == Spec => []RangeInv
  <1>1. RangeInv /\ [Next]_vars => RangeInv'
    <2> SUFFICES ASSUME RangeInv, [Next]_vars PROVE RangeInv'
      OBVIOUS
    <2>1. CASE Iterate
      BY <2>1, RangeIterate
    <2>2. CASE Return
      BY <2>2, RangeReturn
    <2>3. CASE Tick
      BY <2>3, RangeTick
    <2>4. CASE UNCHANGED vars
      BY <2>4 DEF vars, RangeInv, TypeOK, Size
    <2> QED BY <2>1, <2>2, <2>3, <2>4 DEF Next
  <1> QED
    BY <1>1, RangeInit, PTL DEF Spec

\* The loop variable and the slice BucketRange builds keep their types.
THEOREM RangeTypeCorrect == Spec => []TypeOK
  <1>1. RangeInv => TypeOK
    BY DEF RangeInv
  <1> QED
    BY <1>1, RangeInvariance, PTL

\* BucketRange never lists a bucket twice, whatever the clock does between
\* two iterations of its loop.
THEOREM RangeNeverRepeats == Spec => []RangeStrictlyIncreasing
  <1>1. RangeInv => RangeStrictlyIncreasing
    <2> SUFFICES ASSUME RangeInv, NEW j \in DOMAIN buckets, NEW k \in DOMAIN buckets,
                        j < k
                 PROVE  Index(buckets[j]) < Index(buckets[k])
      BY DEF RangeStrictlyIncreasing
    <2>1. buckets[j] \in Buckets /\ buckets[k] \in Buckets
      BY DEF RangeInv, TypeOK
    <2>2. buckets[j].bucketSize = Size /\ buckets[k].bucketSize = Size
      BY DEF RangeInv
    <2>3. buckets[j].timestamp + Size <= buckets[k].timestamp
      BY DEF RangeInv
    <2>4. Size >= Second
      BY SizeFacts DEF RangeInv
    <2> QED
      BY <2>1, <2>2, <2>3, <2>4, IndexStep
  <1> QED
    BY <1>1, RangeInvariance, PTL

\* A range is off by no more buckets than the clock entered while BucketRange
\* was building it.
THEOREM RangeFollows == Spec => []RangeFollowsClock
  <1>1. RangeInv => RangeFollowsClock
    <2> SUFFICES ASSUME RangeInv, WholeSeconds(bucketSize), NEW k \in DOMAIN buckets
                 PROVE  Index(buckets[k]) - (OffsetStart + k - 1)
                            \in BucketOf(begin) .. BucketOf(now)
      BY DEF RangeFollowsClock
    <2>1. PICK z \in Int : z = Size /\ z >= Second /\ z % Second = 0
      BY SizeFacts, RangeAssumption DEF RangeInv, TypeOK, Size, WholeSeconds
    <2>2. PICK o \in Int : o = OffsetStart + k - 1
      BY RangeAssumption DEF RangeInv, TypeOK
    <2>3. buckets[k] \in Buckets /\ now \in Int /\ begin \in Int
      BY DEF RangeInv, TypeOK
    <2>4. PICK t \in Int : t = buckets[k].timestamp
      BY <2>3 DEF Buckets
    <2>5. begin + o * z <= t /\ t <= now + o * z /\ buckets[k].bucketSize = z
      BY <2>1, <2>2, <2>4 DEF RangeInv
    <2> DEFINE Number(x) == (x \div Second) \div (z \div Second)
    <2>6. \A x \in Int : Number(x) \in Int /\ Number(x + o * z) = Number(x) + o
      <3> TAKE x \in Int
      <3>1. x \div Second \in Int /\ z \div Second \in Nat \ {0}
        BY <2>1, SecondAssumption, SecondsOfSize, DivFacts
      <3>2. Number(x) \in Int
        BY <3>1, DivFacts
      <3>3. Number(x + o * z) = Number(x) + o
        <4>1. PICK u \in Nat \ {0} : u = z \div Second /\ z = u * Second
          BY <2>1, <3>1, SecondAssumption, SMTT(20)
        <4>2. PICK m \in Int : m = o * u
          OBVIOUS
        <4>3. PICK n \in Int : n = o * z
          OBVIOUS
        <4>4. n = m * Second
          BY <4>1, <4>2, <4>3, SecondAssumption, SMTT(20)
        <4>5. (x + n) \div Second = (x \div Second) + m
          BY <4>4, SecondAssumption, SMTT(20)
        <4>6. PICK y \in Int : y = x \div Second
          BY <3>1
        <4>7. (y + m) \div u = (y \div u) + o
          BY <4>2, SMTT(20)
        <4> QED
          BY <4>1, <4>3, <4>5, <4>6, <4>7
      <3> QED BY <3>2, <3>3
    <2>7. \A x, y \in Int : x <= y => Number(x) <= Number(y)
      BY <2>1, SecondAssumption, NumberMonotone
    <2>8. /\ Index(buckets[k]) = Number(t)
          /\ BucketOf(begin) = Number(begin) /\ BucketOf(now) = Number(now)
      <3>1. \A x \in Int : BucketOf(x) = Number(x + 0 * z)
        BY <2>1 DEF BucketOf, CurrentBucket, BucketWithOffset, Index, Size
      <3>2. \A x \in Int : x + 0 * z = x
        OBVIOUS
      <3> QED BY <3>1, <3>2, <2>3, <2>4, <2>5 DEF Index
    <2> HIDE DEF Number
    <2>9. begin + o * z \in Int /\ now + o * z \in Int
      BY <2>3
    <2>10. /\ Number(begin) + o <= Number(t) /\ Number(t) <= Number(now) + o
           /\ Number(begin) \in Int /\ Number(now) \in Int /\ Number(t) \in Int
      BY <2>3, <2>5, <2>6, <2>7, <2>9
    <2> QED
      BY <2>2, <2>8, <2>10
  <1> QED
    BY <1>1, RangeInvariance, PTL
=============================================================================
