---------------------------- MODULE BucketFacts ----------------------------
(***************************************************************************)
(* Lemmas about the integer divisions behind Bucket.String, for any bucket *)
(* size of at least a second.                                              *)
(***************************************************************************)
EXTENDS Bucket, TLAPS

-----------------------------------------------------------------------------
(* Division by a divisor that is not a numeral. *)

\* What a quotient is: the code's integer divisions in Bucket.String.
LEMMA DivFacts ==
    ASSUME NEW a \in Int, NEW d \in Nat \ {0}
    PROVE  /\ a \div d \in Int
           /\ d * (a \div d) <= a
           /\ a < d * (a \div d) + d
  OBVIOUS

\* A whole divisor more is a quotient more.
LEMMA DivStep ==
    ASSUME NEW a \in Int, NEW b \in Int, NEW d \in Nat \ {0}, a + d <= b
    PROVE  (a \div d) + 1 <= b \div d
  OBVIOUS

\* Division by a positive number keeps the order.
LEMMA DivMonotone ==
    ASSUME NEW a \in Int, NEW b \in Int, NEW d \in Nat \ {0}, a <= b
    PROVE  a \div d <= b \div d
  OBVIOUS

\* The seconds of a size of at least a second are positive.
LEMMA SecondsOfSize ==
    ASSUME NEW size \in Int, NEW S \in Nat \ {0}, size >= S
    PROVE  size \div S \in Nat \ {0} /\ (size \div S) * S <= size
  <1>1. size \div S \in Int /\ S * (size \div S) <= size
    BY DivFacts
  <1>2. (0 \div S) + 1 <= size \div S
    BY DivStep
  <1>3. 0 \div S = 0
    OBVIOUS
  <1> QED BY <1>1, <1>2, <1>3

\* Times a bucket apart have different bucket numbers, also when the size is
\* not a whole number of seconds.
LEMMA NumberStep ==
    ASSUME NEW t \in Int, NEW v \in Int, NEW size \in Int, NEW S \in Nat \ {0},
           size >= S, t + size <= v
    PROVE  (t \div S) \div (size \div S) < (v \div S) \div (size \div S)
  <1>1. PICK u \in Nat \ {0} : u = size \div S /\ u * S <= size
    BY SecondsOfSize
  <1>2. PICK x \in Int : x = t \div S
    BY DivFacts
  <1>3. PICK y \in Int : y = v \div S
    BY DivFacts
  <1>4. PICK m \in Int : m = u * S
    OBVIOUS
  <1>5. (t + m) \div S <= v \div S
    BY <1>1, <1>4, DivMonotone
  <1>6. (t + m) \div S = (t \div S) + u
    BY <1>4, SMTT(20)
  <1>7. x + u <= y
    BY <1>2, <1>3, <1>5, <1>6
  <1>8. (x \div u) + 1 <= y \div u
    BY <1>7, DivStep
  <1>9. x \div u \in Int /\ y \div u \in Int
    BY DivFacts
  <1> QED
    BY <1>1, <1>2, <1>3, <1>8, <1>9

\* Later times have no smaller numbers.
LEMMA NumberMonotone ==
    ASSUME NEW t \in Int, NEW v \in Int, NEW size \in Int, NEW S \in Nat \ {0},
           size >= S, t <= v
    PROVE  (t \div S) \div (size \div S) <= (v \div S) \div (size \div S)
  <1>1. PICK u \in Nat \ {0} : u = size \div S
    BY SecondsOfSize
  <1>2. t \div S \in Int /\ v \div S \in Int /\ t \div S <= v \div S
    BY DivFacts, DivMonotone
  <1> QED BY <1>1, <1>2, DivMonotone
=============================================================================
