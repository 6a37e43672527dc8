---------------------------- MODULE MCRadixJoin ----------------------------
(* Two radix bits and one pass up to four tuples of R, three bits and two   *)
(* passes with five; three threads get even and uneven shares, or none.     *)
EXTENDS RadixJoin

MCRelationsR ==
  {<< >>, <<6>>, <<3, 1>>, <<0, 4, 0>>, <<0, 3, 1>>, <<3, 2, 0, 1>>, <<2, 2, 6, 3>>,
   <<5, 1, 4, 0, 2>>, <<7, 3, 3, 11, 15>>}
MCRelationsS == {<< >>, <<3, 1>>, <<5, 1, 9>>, <<0, 1, 3>>, <<2, 2, 0, 3>>, <<11, 3, 1, 3, 4>>}
=============================================================================
