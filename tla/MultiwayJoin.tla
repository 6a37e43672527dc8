---------------------------- MODULE MultiwayJoin ----------------------------
(***************************************************************************)
(* MWAY, the multi-way sort-merge join (sortmergejoin_multiway.cpp, its    *)
(* driver in joincommon.cpp, partition.cpp): every thread partitions its   *)
(* shares of R and S into a region of its own in two shared arrays and     *)
(* sorts each partition there; then it merges, for a range of partitions,  *)
(* the chunks of all threads and joins the two merged relations.  The      *)
(* merge itself, here a step, is the subject of MultiwayMerge.             *)
(***************************************************************************)
EXTENDS Integers, Sequences, FiniteSets, SequencesExt

CONSTANTS
  NThreads,
  NParts,                  (* PARTFANOUT: 128            *)
  RelationsR, RelationsS,  (* key sequences to choose from *)
  L                        (* TUPLESPERCACHELINE: 8      *)

Threads == 0 .. NThreads - 1
Parts == 0 .. NParts - 1
Rels == {"R", "S"}

VARIABLES
  rkeys, skeys,
  tmp,                (* tmp_partR and tmp_partS: slot -> position in R or S    *)
  chunks,             (* threadrelchunks[t][p]: the sorted part p of thread t   *)
  buffer, live,       (* the stored merge buffer, by who allocated it; not freed *)
  merged,             (* mergedRelR and mergedRelS of t                         *)
  i, j,               (* where merge_join of t stands in them                   *)
  nresults, out, finished, pc,
  inside, passed, opened

bar == << inside, passed, opened >>
vars == << rkeys, skeys, tmp, chunks, buffer, live, merged, i, j, nresults, out, finished, pc, bar >>

(* The five barriers of sortmergejoin_multiway_thread. *)
After == << "partition", "sort", "merge", "release", "done" >>
Bar == INSTANCE AbstractBarrier WITH Rounds <- 5

-----------------------------------------------------------------------------
keys == [R |-> rkeys, S |-> skeys]

Share(rel) == Len(keys[rel]) \div NThreads
From(rel, t) == t * Share(rel) + 1
Size(rel, t) == IF t = NThreads - 1 THEN Len(keys[rel]) - t * Share(rel) ELSE Share(rel)
Tuples(rel, t) == From(rel, t) .. From(rel, t) + Size(rel, t) - 1

Log2Up(n) == CHOOSE e \in 0 .. n : 2 ^ e >= n /\ \A d \in 0 .. e - 1 : 2 ^ d < n
NRADIXBITS == Log2Up(NParts)

(* The radix bits follow the highest bit of the keys, if they are dense; a  *)
(* thread knows |R| only as the size of its own share times the threads.    *)
Bitshift(t) == Log2Up(Size("R", t) * NThreads) - NRADIXBITS

Hash(t, key) == ((key - 1) \div 2 ^ Bitshift(t)) % NParts

(* The number of threads is a power of two that divides the partitions, and *)
(* no shift is negative.                                                    *)
MultiwayAssumption ==
  /\ {NThreads, NParts, L} \subseteq {2 ^ e : e \in 0 .. NThreads + NParts + L}
  /\ NThreads <= NParts
  /\ RelationsR \cup RelationsS \subseteq Seq(Nat)
  /\ \A r \in RelationsR : 2 * NThreads * (Len(r) \div NThreads) > NParts

Init ==
  /\ rkeys \in RelationsR /\ skeys \in RelationsS
  /\ tmp = [rel \in Rels |-> [s \in 0 .. Len(keys[rel]) + NThreads * NParts * L - 1 |-> 0]]
  /\ chunks = [t \in Threads |-> << >>]
  /\ buffer = NThreads /\ live = {}
  /\ merged = [t \in Threads |-> << >>]
  /\ i = [t \in Threads |-> 1] /\ j = [t \in Threads |-> 1]
  /\ nresults = [t \in Threads |-> 0]
  /\ out = {} /\ finished = FALSE
  /\ pc = [t \in Threads |-> "barrier"]
  /\ Bar!Init

Goto(t, l) == pc' = [pc EXCEPT ![t] = l]

Arrive(t) ==
  /\ pc[t] = "barrier"
  /\ Bar!Enter(t)
  /\ UNCHANGED << rkeys, skeys, tmp, chunks, buffer, live, merged, i, j, nresults, out, finished, pc >>

Open ==
  /\ Bar!Open
  /\ UNCHANGED << rkeys, skeys, tmp, chunks, buffer, live, merged, i, j, nresults, out, finished, pc >>

Proceed(t) ==
  /\ pc[t] = "barrier"
  /\ Bar!Leave(t)
  /\ Goto(t, After[passed[t] + 1])
  /\ UNCHANGED << rkeys, skeys, tmp, chunks, buffer, live, merged, i, j, nresults, out, finished >>

-----------------------------------------------------------------------------
(* Partitioning and sorting. *)

(* The tuples of t for part p; each part starts on a line of its own, and   *)
(* the region of each thread has a line of padding for each part.           *)
Part(rel, t, p) == {r \in Tuples(rel, t) : Hash(t, keys[rel][r]) = p}

Base(rel, t) == t * (Share(rel) + NParts * L)

Align(x) == ((x + L - 1) \div L) * L
Start(rel, t, p) ==
  Base(rel, t) + FoldSet(LAMBDA q, sum : sum + Align(Cardinality(Part(rel, t, q))), 0, 0 .. p - 1)

(* The array with sequences of positions written to the parts of t. *)
Written(rel, t, seqs) ==
  [s \in DOMAIN tmp[rel] |->
     LET here == {p \in Parts : s - Start(rel, t, p) \in 0 .. Len(seqs[p]) - 1}
     IN IF here = {} THEN tmp[rel][s]
        ELSE LET p == CHOOSE p \in here : TRUE IN seqs[p][s - Start(rel, t, p) + 1]]

(* radix_cluster_optimized, of both relations. *)
Partition(t) ==
  /\ pc[t] = "partition"
  /\ tmp' = [rel \in Rels |->
       Written(rel, t, [p \in Parts |-> SetToSortSeq(Part(rel, t, p), <)])]
  /\ Goto(t, "barrier")
  /\ UNCHANGED << rkeys, skeys, chunks, buffer, live, merged, i, j, nresults, out, finished, bar >>

ChunkAt(rel, t, p) == [from |-> Start(rel, t, p), num |-> Cardinality(Part(rel, t, p))]
Content(rel, c) == [n \in 1 .. c.num |-> tmp[rel][c.from + n - 1]]
Sorted(rel, seq) ==
  SortSeq(seq, LAMBDA a, b : keys[rel][a] < keys[rel][b] \/ (keys[rel][a] = keys[rel][b] /\ a < b))

(* Each part is sorted in place: the pointers that scalarsort_tuples swaps  *)
(* leave the result where the input was.                                    *)
Sort(t) ==
  /\ pc[t] = "sort"
  /\ chunks' = [chunks EXCEPT ![t] = [p \in Parts |-> [rel \in Rels |-> ChunkAt(rel, t, p)]]]
  /\ tmp' = [rel \in Rels |->
       Written(rel, t, [p \in Parts |-> Sorted(rel, Content(rel, ChunkAt(rel, t, p)))])]
  /\ Goto(t, "allocate")
  /\ UNCHANGED << rkeys, skeys, buffer, live, merged, i, j, nresults, out, finished, bar >>

(* Every thread allocates the buffer that all will share, and stores it     *)
(* over that of the thread before.                                          *)
Allocate(t) ==
  /\ pc[t] = "allocate"
  /\ buffer' = t /\ live' = live \cup {t}
  /\ Goto(t, "barrier")
  /\ UNCHANGED << rkeys, skeys, tmp, chunks, merged, i, j, nresults, out, finished, bar >>

-----------------------------------------------------------------------------
(* Merging and joining. *)

perthread == NParts \div NThreads

(* The chunks of all threads in the partitions of t: Rparts and Sparts.     *)
MyParts(rel, t) ==
  [f \in 1 .. NParts |->
     Content(rel, chunks[(t + f - 1) % NThreads][t * perthread + (f - 1) \div NThreads][rel])]

(* A single thread does not merge, it joins its parts one by one. *)
Merge(t) ==
  /\ pc[t] = "merge"
  /\ merged' = [merged EXCEPT ![t] = [rel \in Rels |->
       IF NThreads = 1 THEN MyParts(rel, t) ELSE << Sorted(rel, FlattenSeq(MyParts(rel, t))) >>]]
  /\ Goto(t, "barrier")
  /\ UNCHANGED << rkeys, skeys, tmp, chunks, buffer, live, i, j, nresults, out, finished, bar >>

(* Thread 0 frees the buffer that is stored, whoever allocated it. *)
Release(t) ==
  /\ pc[t] = "release"
  /\ live' = IF t = 0 THEN live \ {buffer} ELSE live
  /\ Goto(t, "join")
  /\ UNCHANGED << rkeys, skeys, tmp, chunks, buffer, merged, i, j, nresults, out, finished, bar >>

(* merge_join of the first pair of sequences that is left. *)
RunR(t) == Head(merged[t]["R"])
RunS(t) == Head(merged[t]["S"])
Inside(t) == i[t] <= Len(RunR(t)) /\ j[t] <= Len(RunS(t))
KeyR(t, n) == rkeys[RunR(t)[n]]
KeyS(t, n) == skeys[RunS(t)[n]]

Skip(t) ==
  /\ pc[t] = "join" /\ Inside(t)
  /\ \/ KeyR(t, i[t]) < KeyS(t, j[t]) /\ i' = [i EXCEPT ![t] = @ + 1] /\ UNCHANGED j
     \/ KeyR(t, i[t]) > KeyS(t, j[t]) /\ j' = [j EXCEPT ![t] = @ + 1] /\ UNCHANGED i
  /\ UNCHANGED << rkeys, skeys, tmp, chunks, buffer, live, merged, nresults, out, finished, pc, bar >>

(* Where the tuples with the key of the n-th end. *)
RunEnd(ks, n) ==
  CHOOSE m \in n .. Len(ks) : ks[m] = ks[n] /\ (m = Len(ks) \/ ks[m + 1] # ks[n])

Match(t) ==
  /\ pc[t] = "join" /\ Inside(t) /\ KeyR(t, i[t]) = KeyS(t, j[t])
  /\ LET r == i[t] .. RunEnd([n \in DOMAIN RunR(t) |-> KeyR(t, n)], i[t])
         s == j[t] .. RunEnd([n \in DOMAIN RunS(t) |-> KeyS(t, n)], j[t])
     IN /\ nresults' = [nresults EXCEPT ![t] = @ + Cardinality(r) * Cardinality(s)]
        /\ out' = out \cup {<< RunR(t)[x], RunS(t)[y] >> : x \in r, y \in s}
        /\ i' = [i EXCEPT ![t] = @ + Cardinality(r)]
        /\ j' = [j EXCEPT ![t] = @ + Cardinality(s)]
  /\ UNCHANGED << rkeys, skeys, tmp, chunks, buffer, live, merged, finished, pc, bar >>

EndPair(t) ==
  /\ pc[t] = "join" /\ ~Inside(t)
  /\ merged' = [merged EXCEPT ![t] = [rel \in Rels |-> Tail(@[rel])]]
  /\ i' = [i EXCEPT ![t] = 1] /\ j' = [j EXCEPT ![t] = 1]
  /\ IF Len(merged[t]["R"]) = 1 THEN Goto(t, "barrier") ELSE UNCHANGED pc
  /\ UNCHANGED << rkeys, skeys, tmp, chunks, buffer, live, nresults, out, finished, bar >>

(* sortmergejoin_initrun joins the threads and adds up their results. *)
Return ==
  /\ ~finished /\ \A t \in Threads : pc[t] = "done"
  /\ finished' = TRUE
  /\ UNCHANGED << rkeys, skeys, tmp, chunks, buffer, live, merged, i, j, nresults, out, pc, bar >>

Step(t) ==
  \/ Arrive(t) \/ Proceed(t) \/ Partition(t) \/ Sort(t) \/ Allocate(t)
  \/ Merge(t) \/ Release(t) \/ Skip(t) \/ Match(t) \/ EndPair(t)

Total == SumFunction(nresults)

-----------------------------------------------------------------------------
(* The regions of the threads and their parts do not overlap: whatever the  *)
(* other threads wrote meanwhile, once all have sorted, each chunk holds    *)
(* the tuples of its thread with its radix bits, in the order of the keys.  *)
ChunksComplete ==
  opened >= 3 =>
    \A t \in Threads, p \in Parts, rel \in Rels :
      LET seq == Content(rel, chunks[t][p][rel])
      IN /\ Range(seq) = Part(rel, t, p) /\ Len(seq) = Cardinality(Part(rel, t, p))
         /\ \A n \in 1 .. Len(seq) - 1 : keys[rel][seq[n]] <= keys[rel][seq[n + 1]]

(* The stored buffer that a thread merges with, although it may have been   *)
(* allocated by another one, has not been freed.                            *)
BufferLive == \A t \in Threads : pc[t] = "merge" => buffer \in live

(* The threads know |R| well enough to use the same radix bits. *)
SameShift == \A t \in Threads : Bitshift(t) = Bitshift(0)
=============================================================================
