-------------------------- MODULE MCBucketChaining --------------------------
(* Keys of one radix partition (low bit 1): duplicates and hash collisions. *)
EXTENDS BucketChaining, RadixLayout

Lists(S, lo, hi) == UNION {[1 .. n -> S] : n \in lo .. hi}
MCRelationsR == Lists({1, 3, 5, 9}, 1, 4)
MCRelationsS == Lists({1, 3, 9, 11}, 1, 2)
=============================================================================
