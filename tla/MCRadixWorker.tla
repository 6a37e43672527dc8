--------------------------- MODULE MCRadixWorker ---------------------------
(* Pass-1 clusters of even keys (R = 1), split by two more bits.  The keys  *)
(* 0, 8, 32 share all radix bits, 0 and 32 also the bin; with 5 equal radix *)
(* bits there is a block of 4 and a rest.                                   *)
EXTENDS RadixWorker, SequencesExt

HistogramClusters ==
  [R : BoundedSeq({0, 2, 8, 32}, 3) \ {<< >>}, S : BoundedSeq({0, 2, 8}, 2) \ {<< >>}]
  \cup [R : {<<0, 8, 32, 0, 16>>, <<4, 8, 2, 0, 6>>}, S : BoundedSeq({0, 4, 16, 40}, 2) \ {<< >>}]

(* Partitions of one to three tuples next to each other, in both relations, *)
(* with and without partners for all keys, and blocks of equal keys.        *)
SortMergeClusters ==
  [R : {<<10, 2>>, <<4, 10, 2>>, <<2, 4, 10, 12>>, <<12, 10, 2, 10, 4, 6>>, <<8, 2, 8>>},
   S : {<<2, 10>>, <<4, 10, 2, 2, 12>>, <<6, 4, 2, 12, 10, 10>>, <<2, 8, 2>>, <<2, 18, 4>>, <<4, 2>>}]

MCClusters1 ==
  [histogram_join |-> HistogramClusters, sortmerge_join |-> SortMergeClusters]
MCStaleKeys == {0, 8}

(* 0 in an enclave; the native build fills its buffers with a large key.    *)
MCFilledKeys == {0, 42}
=============================================================================
