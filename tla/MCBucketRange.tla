--------------------------- MODULE MCBucketRange ---------------------------
(***************************************************************************)
(* BucketRange for TLC.  A second is four clock units, so that fractions   *)
(* of a second exist: the sizes cover zero, negative and sub-second ones   *)
(* (clamped), one second, a second and a half, and two seconds.            *)
(***************************************************************************)
EXTENDS BucketRange

MCPrefix == <<7>>
MCSizes == {-1, 0, 3, 4, 6, 8}
MCOffsetStart == -2

\* The call of TestBucketRange: one-second buckets, offsets -1 to 1.
TestSizes == {4}
TestOffsetStart == -1
=============================================================================
