----------------------------- MODULE MCBarrier -----------------------------
(* Threads that meet more often than the round counter has values.         *)
EXTENDS Barrier

CONSTANTS t1, t2, t3, t4

MCThreads == {t1, t2, t3, t4}
=============================================================================
