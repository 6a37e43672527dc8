------------------------------ MODULE MCRunJoin ------------------------------
EXTENDS RunJoin

(* Two buckets of two: with all keys odd one chain grows to three buckets   *)
(* of both threads.  A table for one tuple would get no bucket.             *)
Overflowing ==
  [R |-> {<<1, 3, 1, 5, 1>>, <<1, 3, 5, 2, 7>>, <<1, 1>>}, S |-> {<< >>, <<2, 1, 1>>}]
MCNumBuckets == << 0, 1, 1, 2, 2, 4 >>

(* Dense keys of two, four and six tuples; six leave two buckets half full. *)
DenseBuckets ==
  [R |-> {<<2, 1>>, <<4, 2, 1, 3>>, <<1, 2, 3, 4>>, <<6, 5, 1, 3, 2, 4>>},
   S |-> {<<3>>, <<1, 9, 1>>, <<2, 6, 5, 4, 1>>}]

(* Dense keys in several orders, and arbitrary keys with up to three of the *)
(* same hash over both partitions; shares of S of one batch and a rest, of  *)
(* two batches, and with keys that have no partner.                         *)
Concise ==
  [R |-> {<<1, 2, 3, 4, 5, 6>>, <<4, 1, 6, 5, 3, 2>>, <<7, 1, 6, 2, 5, 3, 4>>,
          <<1, 9, 2, 17, 5, 13>>},
   S |-> {<<1, 1, 6, 4, 3>>, <<9, 6, 8, 2>>}]

(* Four partitions; R has no, one or all tuples in a partition and in a     *)
(* half; SHIFT is 0 for up to four tuples and 1 for five.                   *)
Crackable ==
  [R |-> {<<0, 1, 2, 3>>, <<3, 2, 3, 1>>, <<1, 0, 1>>, <<2, 3, 2, 3>>, <<6, 1, 4, 5, 3>>},
   S |-> {<< >>, <<3, 1, 0>>, <<2, 3, 5>>, <<3, 3, 1, 7>>}]

(* Shares of the same size, of two sizes with the same radix bits (7) and   *)
(* with different ones (5); keys beyond |R|, and blocks of equal keys.      *)
Sortable ==
  [R |-> {<< 4, 2, 1, 3 >>, << 1, 3, 3, 6, 8, 3, 2 >>, << 2, 5, 1, 4, 3 >>},
   S |-> {<< >>, << 3, 1, 3, 9, 2 >>}]

(* Fewer tuples of R than threads, shares of different size, and equal keys *)
(* in one table of a power of two and in one that is not full.              *)
AnyKeys == [R |-> {<< 2 >>, << 3, 1, 3 >>, << 5, 1, 3, 7, 2 >>}, S |-> {<< 3, 2 >>, << 3, 1, 1, 8 >>}]

MCWorkload ==
  [a \in Cracking \cup {"PHT_o", "PHT", "PHT_un", "CHT", "MWAY", "MWAY_1",
                        "NL", "INL", "NPO_st", "NPO_no", "NPBC_st"} |->
     CASE a \in {"PHT_o", "NPO_st"} -> Overflowing
       [] a \in {"PHT", "PHT_un", "NPO_no"} -> DenseBuckets
       [] a \in {"NL", "INL", "NPBC_st"} -> AnyKeys
       [] a = "CHT" -> Concise
       [] a \in {"MWAY", "MWAY_1"} -> Sortable
       [] OTHER -> Crackable]
MCGarbage == {0, 9}
=============================================================================
