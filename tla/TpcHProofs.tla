---------------------------- MODULE TpcHProofs ------------------------------
(***************************************************************************)
(* Proofs about the TPC-H queries: the properties of the parallel filter,  *)
(* the chunked result tables of the joins and the chunked filter of query  *)
(* 19, as the query drivers call them, for every number of threads and     *)
(* every database.                                                         *)
(*                                                                         *)
(* The inductive invariant has a part for each of these components, a      *)
(* part for the place of the query in its plan, and one for its            *)
(* intermediate tables. The components are joined by what one hands to     *)
(* the next: the join of query 19 leaves at least one chunk for each       *)
(* thread, so that every thread of the chunked filter begins with a chunk  *)
(* that exists.                                                            *)
(***************************************************************************)
EXTENDS TpcHQueries, CountingLemmas

-----------------------------------------------------------------------------
(* The inductive invariant.                                                *)

(* The types of the filter, whose table holds what its rows range over. *)
FilterTypes ==
  /\ table \in Seq(Range(table))
  /\ results \in [F!Threads -> Seq(1 .. Len(table))]
  /\ copied \in [F!Threads -> Nat]
  /\ thread_start_positions \in [F!Threads -> Nat]
  /\ result_table \in Seq(0 .. Len(table))
  /\ filter_pc \in [F!Threads -> {"filter", "barrier", "copy", "done"}]
  /\ filtered \in BOOLEAN
  /\ inside \in SUBSET F!Threads
  /\ passed \in [F!Threads -> 0 .. 1]
  /\ opened \in 0 .. 1

(* Where the threads of the filter are: those at the barrier are inside it and
   have not passed it, those that copy have passed it, a selection is kept from
   the scan to the end of the copy and is no longer than the slice it is from,
   and after its return the filter has nothing left to do. *)
FilterPhases ==
  /\ \A t \in F!Threads :
       /\ t \in inside <=> filter_pc[t] = "barrier"
       /\ filter_pc[t] = "filter" => opened = 0
       /\ filter_pc[t] \in {"filter", "barrier"} => passed[t] = 0
       /\ filter_pc[t] = "copy" => opened = 1
       /\ filter_pc[t] = "done" => filtered \/ opened = 1
       /\ filter_pc[t] \in {"filter", "done"} => results[t] = << >>
       /\ filter_pc[t] # "copy" => copied[t] = 0
       /\ copied[t] <= Len(results[t])
       /\ Len(results[t]) <= F!Upto(t) - F!From(t) + 1
  /\ filtered => \A t \in F!Threads : filter_pc[t] = "done"

(* Where the copies go. Before the barrier opens no thread has a start position
   but the one of the first row; a start position is never beyond the rows of
   the slices before. Once it is open the copies are in the result, one behind
   the other, and what a thread has not yet copied is still zero. *)
FilterLayout ==
  /\ opened = 0 => \A t \in F!Threads : thread_start_positions[t] = 0
  /\ \A t \in F!Threads : thread_start_positions[t] < F!From(t)
  /\ opened = 1 =>
       /\ \A t \in F!Threads :
            thread_start_positions[t] + Len(results[t]) <= Len(result_table)
       /\ \A t, u \in F!Threads :
            u < t => thread_start_positions[u] + Len(results[u]) <= thread_start_positions[t]
       /\ \A t \in F!Threads : \A k \in copied[t] + 1 .. Len(results[t]) :
            result_table[thread_start_positions[t] + k] = 0

(* The invariant of the filter. *)
FilterInv == FilterTypes /\ FilterPhases /\ FilterLayout

(* What the threads of the join have inserted so far. *)
Values == UNION {Range(inserted[t]) : t \in C!Threads}

(* The types of the chunked tables, which exist once the join has been called. *)
ChunkTypes ==
  /\ join_pc \in {"idle", "join", "concatenated", "done"}
  /\ prealloc \in Nat
  /\ join_pc = "idle" => capacity = << >>
  /\ join_pc # "idle" =>
       /\ capacity \in [C!Threads -> Nat]
       /\ current \in [C!Threads -> Nat]
       /\ num_tuples \in [C!Threads -> Nat]
       /\ closed \in SUBSET C!Threads
       /\ inserted \in [C!Threads -> Seq(Values)]
       /\ chunks \in [C!Threads -> Seq(Seq(Values))]

(* The table of one thread. Before it is initialised it is empty; then no chunk
   is beyond the array, the chunks before the current one are full, those after
   it are empty, the chunks hold what the thread inserted in its order, and the
   number of tuples is theirs once the table is finished. *)
TableInv(t) ==
  /\ capacity[t] = 0 => chunks[t] = << >> /\ inserted[t] = << >> /\ t \notin closed
  /\ capacity[t] > 0 =>
       /\ C!num_chunks(t) <= capacity[t]
       /\ current[t] \in 1 .. C!num_chunks(t)
       /\ \A c \in 1 .. C!num_chunks(t) : Len(chunks[t][c]) <= ChunkTuples
       /\ \A c \in 1 .. current[t] - 1 : Len(chunks[t][c]) = ChunkTuples
       /\ \A c \in current[t] + 1 .. C!num_chunks(t) : chunks[t][c] = << >>
  /\ FlattenSeq(chunks[t]) = inserted[t]
  /\ num_tuples[t] = IF t \in closed THEN Len(inserted[t]) ELSE 0

(* The result of the join, whose list is that of all tables after the last of
   them is finished, and whose copy is taken from that list. *)
ChunkResult ==
  /\ join_pc \in {"concatenated", "done"} =>
       closed = C!Threads /\ result = FlattenSeq(chunks)
  /\ join_pc # "done" => solid = << >>
  /\ solid \in {<< >>, FlattenSeq(result)}

(* The invariant of the chunked tables. *)
ChunkInv ==
  /\ ChunkTypes
  /\ join_pc # "idle" => \A t \in C!Threads : TableInv(t)
  /\ ChunkResult

(* The types of the chunked filter, whose shared counter starts behind the
   chunks the threads begin with. *)
CountTypes ==
  /\ next_chunk \in Nat /\ next_chunk >= NThreads
  /\ chunk_id \in [K!Threads -> Nat]
  /\ matches \in [K!Threads -> Nat]
  /\ count_pc \in [K!Threads -> {"idle", "scan", "take", "done"}]
  /\ scanned \in [DOMAIN counts -> 0 .. 1]
  /\ counts \in [DOMAIN counts -> Nat]

(* The invariant of the chunked filter. All chunks taken are below the shared
   counter and differ, no chunk from the counter on has been scanned, and a
   thread that is about to scan has a chunk that nobody has scanned: a chunk of
   the table, which has one for each thread at least. *)
CountInv ==
  /\ CountTypes
  /\ \A t \in K!Threads : chunk_id[t] < next_chunk
  /\ \A t, u \in K!Threads : t # u => chunk_id[t] # chunk_id[u]
  /\ \/ /\ \A t \in K!Threads : count_pc[t] = "idle" /\ chunk_id[t] = t
        /\ DOMAIN counts = {}
     \/ /\ \A t \in K!Threads : count_pc[t] # "idle"
        /\ \E n \in Nat : n >= NThreads /\ DOMAIN counts = 0 .. n - 1
  /\ \A c \in DOMAIN counts : c >= next_chunk => scanned[c] = 0
  /\ \A t \in K!Threads : count_pc[t] = "scan" =>
       chunk_id[t] \in DOMAIN counts /\ scanned[chunk_id[t]] = 0

(* A query runs on one of its databases, at a step of its plan. *)
PlanInv ==
  /\ query \in DOMAIN Databases /\ db \in Databases[query]
  /\ outcome = "running" => step \in DOMAIN Plan[query]

(* A result of step i that no join has read, and freed, before step s. *)
Kept(q, i, s) ==
  /\ Plan[q][i].op \in {"filter", "copy"}
  /\ \A j \in i + 1 .. s - 1 :
       Plan[q][j].op = "join" => Plan[q][i].into \notin {Plan[q][j].R, Plan[q][j].S}

(* The intermediate tables of a query whose join keeps its tuples: each is a
   sequence, and those made and not yet freed are there. *)
TablesInv ==
  kind \in {"chunked", "empty"} /\ outcome = "running" =>
    /\ \A n \in DOMAIN tables : tables[n] \in Seq(Range(tables[n]))
    /\ \A i \in 1 .. step - 1 : Kept(query, i, step) => Plan[query][i].into \in DOMAIN tables

(* The inductive invariant. *)
IInv == PlanInv /\ TablesInv /\ FilterInv /\ ChunkInv /\ CountInv

-----------------------------------------------------------------------------
(* The instances and their parameters; positions in order.                 *)

(* The folds and cardinalities of the instances are those of the library. *)
LEMMA SameCardinality == ASSUME NEW S PROVE F!Cardinality(S) = Cardinality(S)
BY DEF F!Cardinality, Cardinality

(* A sum over a set, in the filter and in the library. *)
LEMMA SameSum == ASSUME NEW f, NEW S PROVE F!SumFunctionOnSet(f, S) = SumFunctionOnSet(f, S)
BY DEF F!SumFunctionOnSet, SumFunctionOnSet, F!FoldFunctionOnSet, FoldFunctionOnSet,
   F!MapThenFoldSet, MapThenFoldSet

(* A sum over all threads, in the filter and in the library. *)
LEMMA SameTotal == ASSUME NEW f PROVE F!SumFunction(f) = SumFunctionOnSet(f, DOMAIN f)
BY DEF F!SumFunctionOnSet, SumFunctionOnSet, F!FoldFunctionOnSet, FoldFunctionOnSet,
   F!MapThenFoldSet, MapThenFoldSet, F!SumFunction

(* The values of a function, in the filter and in the library. *)
LEMMA SameRange == ASSUME NEW f PROVE F!Range(f) = Range(f)
BY DEF F!Range, Range

(* The parameters that the instances take from the queries are positive. *)
LEMMA Params ==
  /\ NThreads \in Nat \ {0} /\ Align \in Nat \ {0}
  /\ Lanes \in Nat \ {0} /\ WideLanes \in Nat \ {0}
  /\ ChunkTuples \in Nat \ {0} /\ FirstCapacity \in Nat \ {0}
BY QueriesAssumption DEF F!FilterAssumption, C!TableAssumption

(* The element of a finite set of positions with any number of smaller ones. *)
LEMMA Ranked ==
  ASSUME NEW l \in Nat
  PROVE  \A S \in SUBSET (1 .. l) : \A k \in 1 .. Cardinality(S) :
           \E i \in S : Cardinality({j \in S : j < i}) = k - 1
<1> DEFINE P(n) == \A S \in SUBSET (1 .. l) : Cardinality(S) = n =>
                     \A k \in 1 .. n : \E i \in S : Cardinality({j \in S : j < i}) = k - 1
           N == {n \in Nat : P(n)}
<1>0. \A S \in SUBSET (1 .. l) : IsFiniteSet(S) /\ Cardinality(S) \in Nat
  <2>1. IsFiniteSet(1 .. l)
    BY FS_Interval
  <2> QED  BY <2>1, FS_Subset, FS_CardinalityType
<1>1. P(0)
  OBVIOUS
<1> HIDE DEF P
<1>2. ASSUME NEW n \in Nat, P(n) PROVE P(n + 1)
  <2> SUFFICES ASSUME NEW S \in SUBSET (1 .. l), Cardinality(S) = n + 1, NEW k \in 1 .. n + 1
               PROVE  \E i \in S : Cardinality({j \in S : j < i}) = k - 1
    BY DEF P
  <2>1. S # {}
    <3>1. Cardinality({}) = 0
      BY FS_EmptySet
    <3> QED  BY <3>1
  <2>2. PICK m : m \in S /\ \A x \in S : x <= m
    BY <2>1, MaxIn
  <2>3. PICK T : T = S \ {m} /\ T \in SUBSET (1 .. l)
    OBVIOUS
  <2>4. Cardinality(T) = n
    <3>1. Cardinality(S \ {m}) = Cardinality(S) - 1
      BY <1>0, <2>2, FS_RemoveElement
    <3> QED  BY <2>3, <3>1
  <2>5. CASE k = n + 1
    <3>0. \A j \in S : j \in Int /\ m \in Int /\ (j < m <=> j # m)
      BY <2>2
    <3>1. {j \in S : j < m} = T
      BY <2>3, <3>0
    <3> QED  BY <2>2, <2>4, <2>5, <3>1
  <2>6. CASE k # n + 1
    <3>1. k \in 1 .. n
      BY <2>6
    <3>2. PICK i : i \in T /\ Cardinality({j \in T : j < i}) = k - 1
      BY <1>2, <2>3, <2>4, <3>1 DEF P
    <3>3. {j \in T : j < i} = {j \in S : j < i} /\ i \in S
      BY <2>2, <2>3, <3>2
    <3> QED  BY <3>2, <3>3
  <2> QED  BY <2>5, <2>6
<1>3. \A n \in Nat : n \in N <=> P(n)
  OBVIOUS
<1> HIDE DEF N
<1>4. Nat \subseteq N
  <2>1. 0 \in N
    BY <1>1, <1>3
  <2>2. ASSUME NEW n \in Nat, n \in N PROVE n + 1 \in N
    <3>1. P(n + 1)
      BY <1>2, <1>3, <2>2
    <3>2. n + 1 \in Nat
      OBVIOUS
    <3> QED  BY <1>3, <3>1, <3>2
  <2> QED  BY <2>1, <2>2, Induction
<1>5. \A n \in Nat : P(n)
  BY <1>3, <1>4
<1> QED  BY <1>0, <1>5 DEF P

(* Positions in order are those positions, each in its place. *)
LEMMA InOrderType ==
  ASSUME NEW l \in Nat, NEW S, S \in SUBSET (1 .. l)
  PROVE  F!InOrder(S) \in Seq(S) /\ Len(F!InOrder(S)) = Cardinality(S)
<1>1. PICK q : q = F!InOrder(S)
  OBVIOUS
<1>2. /\ q = [k \in 1 .. Cardinality(S) |-> CHOOSE i \in S : Cardinality({j \in S : j < i}) = k - 1]
  BY <1>1 DEF F!InOrder, F!Cardinality, Cardinality
<1>3. Cardinality(S) \in Nat
  <2>1. IsFiniteSet(1 .. l)
    BY FS_Interval
  <2> QED  BY <2>1, FS_Subset, FS_CardinalityType
<1>4. ASSUME NEW k \in 1 .. Cardinality(S) PROVE q[k] \in S
  <2>1. \E i \in S : Cardinality({j \in S : j < i}) = k - 1
    BY Ranked
  <2> QED  BY <1>2, <2>1
<1>5. q \in [1 .. Cardinality(S) -> S]
  BY <1>2, <1>4
<1>6. q \in Seq(S) /\ Len(q) = Cardinality(S)
  BY <1>3, <1>5
<1> QED  BY <1>1, <1>6

-----------------------------------------------------------------------------
(* The slices of the filter.                                               *)

(* The rows of each slice but the last. *)
Share(l) == ((l \div NThreads) \div Align) * Align

(* The first row of a slice. *)
First(l, t) == t * Share(l) + 1

(* The last row of a slice: the last slice ends with the table. *)
Final(l, t) == IF t = NThreads - 1 THEN l ELSE (t + 1) * Share(l)

(* They are the slices of the filter, in this state and in the next. *)
LEMMA SliceNames ==
  \A t : /\ F!From(t) = First(Len(table), t) /\ F!Upto(t) = Final(Len(table), t)
        /\ F!From(t)' = First(Len(table'), t) /\ F!Upto(t)' = Final(Len(table'), t)
BY DEF F!From, F!Upto, F!tuples_per_thread, Share, First, Final

(* Multiples of a share. *)
LEMMA Multiples ==
  ASSUME NEW s \in Nat, NEW u \in Nat, NEW t \in Nat, u < t
  PROVE  u * s \in Nat /\ t * s \in Nat /\ (u + 1) * s = u * s + s /\ (u + 1) * s <= t * s
<1>1. u + 1 <= t /\ u + 1 \in Nat
  OBVIOUS
<1>2. (u + 1) * s <= t * s /\ t * s \in Nat
  BY <1>1, TimesMono
<1>3. u * s \in Nat /\ (u + 1) * s = u * s + s
  OBVIOUS
<1> QED  BY <1>2, <1>3

(* All shares together are no more than the table. *)
LEMMA ShareType ==
  ASSUME NEW l \in Nat
  PROVE  Share(l) \in Nat /\ NThreads * Share(l) <= l /\ \E q \in Nat : Share(l) = q * Align
<1>1. PICK p, q, s : p = l \div NThreads /\ q = p \div Align /\ s = q * Align
  OBVIOUS
<1>0. l \in Nat
  OBVIOUS
<1>2. p \in Nat /\ \E r \in Nat : l = NThreads * p + r
  <2>1. /\ l \div NThreads \in Nat /\ l % NThreads \in 0 .. NThreads - 1
        /\ l = NThreads * (l \div NThreads) + (l % NThreads)
    BY ONLY <1>0, Params, DivMod
  <2>2. l % NThreads \in Nat
    BY <2>1, Params
  <2> QED  BY ONLY <1>1, <2>1, <2>2
<1>3. q \in Nat /\ \E r \in Nat : p = Align * q + r
  <2>0. p \in Nat
    BY <1>2
  <2>1. /\ p \div Align \in Nat /\ p % Align \in 0 .. Align - 1
        /\ p = Align * (p \div Align) + (p % Align)
    BY ONLY <2>0, Params, DivMod
  <2>2. p % Align \in Nat
    BY <2>1, Params
  <2> QED  BY ONLY <1>1, <2>1, <2>2
<1>4. s \in Nat /\ s <= p
  <2>1. PICK r \in Nat : p = Align * q + r
    BY <1>3
  <2>2. Align * q = q * Align /\ q * Align \in Nat
    BY <1>3, Params
  <2> QED  BY ONLY <1>1, <1>2, <2>1, <2>2
<1>5. s * NThreads <= p * NThreads /\ s * NThreads \in Nat /\ p * NThreads \in Nat
  BY <1>2, <1>4, Params, TimesMono
<1>6. NThreads * s = s * NThreads /\ NThreads * p = p * NThreads
  BY <1>2, <1>4, Params
<1>7. NThreads * s <= l
  <2>1. PICK r \in Nat : l = NThreads * p + r
    BY <1>2
  <2> QED  BY ONLY <1>0, <1>5, <1>6, <2>1
<1>8. Share(l) = s
  BY <1>1 DEF Share
<1> QED  BY <1>1, <1>3, <1>4, <1>7, <1>8

(* The slices follow one another, from the first row to the last. *)
LEMMA Slices ==
  ASSUME NEW l \in Nat, NEW t \in F!Threads
  PROVE  /\ First(l, t) \in Nat \ {0} /\ Final(l, t) \in 0 .. l
         /\ First(l, t) <= Final(l, t) + 1
         /\ t # NThreads - 1 => First(l, t + 1) = Final(l, t) + 1
         /\ (First(l, t) - 1) % Align = 0
<1>1. PICK s : s = Share(l) /\ s \in Nat /\ NThreads * s <= l
  BY ShareType
<1>2. t \in Nat /\ t < NThreads
  BY Params DEF F!Threads
<1>3. /\ t * s \in Nat /\ NThreads * s \in Nat /\ (t + 1) * s = t * s + s
      /\ (t + 1) * s <= NThreads * s
  BY <1>1, <1>2, Params, Multiples
<1>4. /\ First(l, t) = t * s + 1 /\ First(l, t + 1) = (t + 1) * s + 1
      /\ Final(l, t) = IF t = NThreads - 1 THEN l ELSE (t + 1) * s
  BY <1>1 DEF First, Final
<1>5. (First(l, t) - 1) % Align = 0
  <2>1. PICK q \in Nat : s = q * Align
    BY <1>1, ShareType
  <2>2. PICK m : m = t * q /\ m \in Nat
    BY <1>2, <2>1
  <2>3. t * s = Align * m + 0
    BY <1>2, <2>1, <2>2, Params
  <2>4. 0 \in 0 .. Align - 1
    BY Params
  <2>5. (t * s) % Align = 0
    <3>1. PICK n : n = t * s
      OBVIOUS
    <3>2. n \in Nat /\ n = Align * m + 0 /\ m \in Nat /\ Align \in Nat \ {0}
      BY <1>3, <2>2, <2>3, <3>1, Params
    <3>3. n % Align = 0
      BY ONLY <2>4, <3>2, ModUnique
    <3> QED  BY <3>1, <3>3
  <2> QED  BY <1>3, <1>4, <2>5
<1>6. CASE t = NThreads - 1
  <2>1. t + 1 = NThreads
    BY <1>2, <1>6, Params
  <2>2. t * s <= NThreads * s
    BY <1>1, <1>3, <2>1
  <2>3. Final(l, t) = l
    BY <1>4, <1>6
  <2> QED  BY <1>1, <1>3, <1>4, <1>5, <1>6, <2>2, <2>3
<1>7. CASE t # NThreads - 1
  BY <1>1, <1>2, <1>3, <1>4, <1>5, <1>7
<1> QED  BY <1>6, <1>7

(* Every row is in one slice. *)
LEMMA OneSlice ==
  ASSUME NEW l \in Nat, NEW i \in 1 .. l
  PROVE  \E t \in F!Threads : \A u \in F!Threads : i \in First(l, u) .. Final(l, u) <=> u = t
<1>1. PICK s, n, k : s = Share(l) /\ n = NThreads - 1 /\ k = i - 1
  OBVIOUS
<1>2. s \in Nat /\ n \in Nat /\ k \in Nat
  BY <1>1, ShareType, Params
<1>3. \A u \in F!Threads : u \in Nat /\ u <= n
  BY <1>1, Params DEF F!Threads
<1>4. \A u \in F!Threads :
        /\ First(l, u) = u * s + 1
        /\ Final(l, u) = IF u = n THEN l ELSE (u + 1) * s
  BY <1>1 DEF First, Final
<1>5. CASE k < n * s
  <2>1. n * s \in Nat /\ s # 0
    BY <1>2, <1>5
  <2>2. PICK t : t = k \div s /\ t \in Nat /\ k = s * t + (k % s) /\ k % s \in 0 .. s - 1
    BY <1>2, <2>1, DivMod
  <2>3. t * s \in Nat /\ t * s <= k /\ k < t * s + s /\ (t + 1) * s = t * s + s
    BY <1>2, <2>2
  <2>4. t < n
    <3> SUFFICES ASSUME n <= t PROVE FALSE
      BY <1>2, <2>2
    <3>1. n * s <= t * s
      BY <1>2, <2>2, TimesMono
    <3> QED  BY <1>2, <1>5, <2>1, <2>3, <3>1
  <2>5. t \in F!Threads
    BY <1>1, <1>2, <2>2, <2>4 DEF F!Threads
  <2>6. ASSUME NEW u \in F!Threads PROVE i \in First(l, u) .. Final(l, u) <=> u = t
    <3>1. CASE u = t
      BY <1>1, <1>2, <1>4, <2>3, <2>4, <2>5, <3>1
    <3>2. CASE u < t
      <4>1. (u + 1) * s <= t * s /\ (u + 1) * s = u * s + s /\ u * s \in Nat
        BY <1>2, <1>3, <2>2, <3>2, Multiples
      <4>2. Final(l, u) = (u + 1) * s
        BY <1>2, <1>3, <1>4, <2>2, <2>4, <3>2
      <4> QED  BY <1>1, <1>2, <1>4, <2>3, <3>2, <4>1, <4>2
    <3>3. CASE u > t
      <4>1. (t + 1) * s <= u * s /\ u * s \in Nat
        BY <1>2, <1>3, <2>2, <3>3, Multiples
      <4>2. First(l, u) = u * s + 1
        BY <1>4
      <4>3. i < First(l, u) /\ First(l, u) \in Int
        BY <1>1, <1>2, <2>3, <4>1, <4>2
      <4> QED  BY <2>2, <3>3, <4>3
    <3> QED  BY <1>3, <2>2, <3>1, <3>2, <3>3
  <2> QED  BY <2>5, <2>6
<1>6. CASE ~(k < n * s)
  <2>1. n * s \in Nat /\ n * s <= k
    BY <1>2, <1>6
  <2>2. n \in F!Threads
    BY <1>1, <1>2 DEF F!Threads
  <2>3. ASSUME NEW u \in F!Threads PROVE i \in First(l, u) .. Final(l, u) <=> u = n
    <3>1. CASE u = n
      BY <1>1, <1>2, <1>4, <2>1, <3>1
    <3>2. CASE u # n
      <4>1. u < n
        BY <1>2, <1>3, <3>2
      <4>2. (u + 1) * s <= n * s /\ (u + 1) * s = u * s + s /\ u * s \in Nat
        BY <1>2, <1>3, <4>1, Multiples
      <4>3. Final(l, u) = (u + 1) * s
        BY <1>4, <3>2
      <4> QED  BY <1>1, <1>2, <1>4, <2>1, <3>2, <4>2, <4>3
    <3> QED  BY <3>1, <3>2
  <2> QED  BY <2>2, <2>3
<1> QED  BY <1>5, <1>6

(* What a thread selects are rows of its slice, each once. *)
LEMMA SelectedIn ==
  ASSUME Len(table) \in Nat, NEW t \in F!Threads
  PROVE  LET q == F!FilterFunction(F!From(t), F!Upto(t)) IN
           /\ q \in Seq(1 .. Len(table))
           /\ Len(q) <= F!Upto(t) - F!From(t) + 1
<1>1. PICK a, b, w, l : /\ a = F!From(t) /\ b = F!Upto(t) /\ w = F!VectorWidth /\ l = Len(table)
  OBVIOUS
<1>2. l \in Nat /\ a \in Nat \ {0} /\ b \in 0 .. l /\ a <= b + 1
  BY <1>1, Slices, SliceNames
<1>3. w \in Nat \ {0}
  BY <1>1, Params DEF F!VectorWidth
<1>4. PICK n, k : n = b - a + 1 /\ k = n \div w /\ n \in Nat
  BY <1>2
<1>5. k \in Nat /\ n = w * k + (n % w) /\ n % w \in 0 .. w - 1
  BY <1>3, <1>4, DivMod
<1>6. PICK r : r = a + k * w
  OBVIOUS
<1>7. r \in Int /\ a <= r /\ r <= b + 1
  BY <1>2, <1>3, <1>4, <1>5, <1>6
<1>8. PICK S : S = {i \in a .. r - 1 : F!VectorPredicate(filter, table[i])}
                   \cup {i \in r .. b : F!RestPredicate(filter, table[i])}
  OBVIOUS
<1>9. F!FilterFunction(F!From(t), F!Upto(t)) = F!InOrder(S)
  BY <1>1, <1>4, <1>6, <1>8 DEF F!FilterFunction
<1>10. S \subseteq a .. b /\ S \subseteq 1 .. l
  BY <1>2, <1>7, <1>8
<1>11. F!InOrder(S) \in Seq(S) /\ Len(F!InOrder(S)) = Cardinality(S)
  BY <1>2, <1>10, InOrderType
<1>12. Cardinality(S) <= n
  <2>0. a \in Int /\ b \in Int
    BY <1>2
  <2>1. IsFiniteSet(a .. b) /\ Cardinality(a .. b) = IF a > b THEN 0 ELSE b - a + 1
    BY ONLY <2>0, FS_Interval
  <2>2. Cardinality(a .. b) = n
    BY <1>2, <1>4, <2>1
  <2> QED  BY <1>10, <2>1, <2>2, FS_Subset
<1>13. F!InOrder(S) \in Seq(1 .. l)
  BY <1>10, <1>11, SeqMonotonic
<1> QED  BY <1>1, <1>4, <1>9, <1>11, <1>12, <1>13

-----------------------------------------------------------------------------
(* The parallel filter.                                                    *)

(* What the parts of the invariant say of one thread. *)
LEMMA FilterFacts ==
  ASSUME FilterInv
  PROVE  /\ Len(table) \in Nat /\ DOMAIN table = 1 .. Len(table)
         /\ Len(result_table) \in Nat /\ DOMAIN result_table = 1 .. Len(result_table)
         /\ \A t \in F!Threads :
              /\ t \in Nat /\ t < NThreads
              /\ results[t] \in Seq(1 .. Len(table)) /\ Len(results[t]) \in Nat
              /\ DOMAIN results[t] = 1 .. Len(results[t])
              /\ thread_start_positions[t] \in Nat /\ copied[t] \in Nat
              /\ filter_pc[t] \in {"filter", "barrier", "copy", "done"}
              /\ passed[t] \in 0 .. 1
              /\ F!From(t) \in Nat \ {0} /\ F!Upto(t) \in 0 .. Len(table)
              /\ F!From(t) <= F!Upto(t) + 1
<1>1. Len(table) \in Nat /\ DOMAIN table = 1 .. Len(table)
  BY DEF FilterInv, FilterTypes
<1>2. Len(result_table) \in Nat /\ DOMAIN result_table = 1 .. Len(result_table)
  BY DEF FilterInv, FilterTypes
<1>3. ASSUME NEW t \in F!Threads
      PROVE  /\ t \in Nat /\ t < NThreads
             /\ results[t] \in Seq(1 .. Len(table)) /\ Len(results[t]) \in Nat
             /\ DOMAIN results[t] = 1 .. Len(results[t])
             /\ thread_start_positions[t] \in Nat /\ copied[t] \in Nat
             /\ filter_pc[t] \in {"filter", "barrier", "copy", "done"}
             /\ passed[t] \in 0 .. 1
             /\ F!From(t) \in Nat \ {0} /\ F!Upto(t) \in 0 .. Len(table)
             /\ F!From(t) <= F!Upto(t) + 1
  <2>1. t \in Nat /\ t < NThreads
    BY Params DEF F!Threads
  <2>2. results[t] \in Seq(1 .. Len(table))
    BY DEF FilterInv, FilterTypes
  <2>3. Len(results[t]) \in Nat /\ DOMAIN results[t] = 1 .. Len(results[t])
    BY <2>2
  <2>4. /\ thread_start_positions[t] \in Nat /\ copied[t] \in Nat
        /\ filter_pc[t] \in {"filter", "barrier", "copy", "done"}
        /\ passed[t] \in 0 .. 1
    BY DEF FilterInv, FilterTypes
  <2>5. /\ F!From(t) \in Nat \ {0} /\ F!Upto(t) \in 0 .. Len(table)
        /\ F!From(t) <= F!Upto(t) + 1
    BY <1>1, Slices, SliceNames
  <2> QED  BY <2>1, <2>2, <2>3, <2>4, <2>5
<1> QED  BY <1>1, <1>2, <1>3

(* The invariant makes the rows that threads touch their own. *)
LEMMA FilterSafe == FilterInv => RowsExclusive
<1> SUFFICES ASSUME FilterInv PROVE F!TypeOK /\ F!SlicesSound /\ F!CopiesDisjoint
  BY DEF RowsExclusive, F!RowsExclusive
<1>1. F!TypeOK
  <2>1. ASSUME NEW t \in F!Threads
        PROVE  /\ F!Range(results[t]) \subseteq DOMAIN table
               /\ thread_start_positions[t] \in 0 .. Len(table)
               /\ copied[t] \in 0 .. Len(results[t])
    <3>1. F!Range(results[t]) \subseteq DOMAIN table
      <4>1. \A i \in DOMAIN results[t] : results[t][i] \in 1 .. Len(table)
        BY FilterFacts
      <4> QED  BY <4>1, FilterFacts DEF F!Range
    <3>2. thread_start_positions[t] < F!From(t) /\ copied[t] <= Len(results[t])
      BY DEF FilterInv, FilterPhases, FilterLayout
    <3> QED  BY <3>1, <3>2, FilterFacts
  <2>2. /\ result_table \in [1 .. Len(result_table) -> 0 .. Len(table)]
        /\ filter_pc \in [F!Threads -> {"filter", "barrier", "copy", "done"}]
        /\ filtered \in BOOLEAN
    BY DEF FilterInv, FilterTypes
  <2> QED  BY <2>1, <2>2 DEF F!TypeOK
<1>2. F!SlicesSound
  <2>1. Len(table) \in Nat /\ DOMAIN table = 1 .. Len(table)
    BY FilterFacts
  <2>2. \A t \in F!Threads : (F!From(t) - 1) % Align = 0
    BY <2>1, Slices, SliceNames
  <2>3. ASSUME NEW i \in DOMAIN table
        PROVE  F!Cardinality({t \in F!Threads : i \in F!From(t) .. F!Upto(t)}) = 1
    <3>1. PICK t \in F!Threads :
            \A u \in F!Threads : i \in F!From(u) .. F!Upto(u) <=> u = t
      BY <2>1, OneSlice, SliceNames
    <3>2. {u \in F!Threads : i \in F!From(u) .. F!Upto(u)} = {t}
      BY <3>1
    <3>3. Cardinality({t}) = 1
      BY FS_Singleton
    <3> QED  BY <3>2, <3>3, SameCardinality
  <2> QED  BY <2>2, <2>3 DEF F!SlicesSound
<1>3. F!CopiesDisjoint
  <2> SUFFICES ASSUME NEW t \in F!Threads, filter_pc[t] = "copy",
                      NEW k \in copied[t] + 1 .. Len(results[t])
               PROVE  /\ thread_start_positions[t] + k \in DOMAIN result_table
                      /\ result_table[thread_start_positions[t] + k] = 0
    BY DEF F!CopiesDisjoint
  <2>1. opened = 1
    BY DEF FilterInv, FilterPhases
  <2>2. /\ thread_start_positions[t] + Len(results[t]) <= Len(result_table)
        /\ result_table[thread_start_positions[t] + k] = 0
    BY <2>1 DEF FilterInv, FilterLayout
  <2>3. thread_start_positions[t] + k \in 1 .. Len(result_table)
    <3>1. /\ thread_start_positions[t] \in Nat /\ copied[t] \in Nat
          /\ Len(results[t]) \in Nat /\ Len(result_table) \in Nat
      BY FilterFacts
    <3> QED  BY <2>2, <3>1
  <2> QED  BY <2>2, <2>3, FilterFacts
<1> QED  BY <1>1, <1>2, <1>3

(* Between two calls nothing is in use. *)
LEMMA FilterIdle == F!Idle => FilterInv
<1> SUFFICES ASSUME F!Idle PROVE FilterInv
  OBVIOUS
<1>1. table = << >> /\ Len(table) = 0
  BY DEF F!Idle
<1>2. FilterTypes
  <2>1. /\ << >> \in Seq(1 .. Len(table)) /\ << >> \in Seq(0 .. Len(table))
        /\ << >> \in Seq(Range(<<>>))
    OBVIOUS
  <2> QED  BY <1>1, <2>1 DEF F!Idle, F!B!Init, FilterTypes
<1>3. ASSUME NEW t \in F!Threads
      PROVE  F!From(t) \in Nat \ {0} /\ 0 <= F!Upto(t) - F!From(t) + 1
  BY <1>1, Slices, SliceNames
<1>4. FilterPhases
  BY <1>3 DEF F!Idle, F!B!Init, FilterPhases
<1>5. FilterLayout
  BY <1>3 DEF F!Idle, F!B!Init, FilterLayout
<1> QED  BY <1>2, <1>4, <1>5 DEF FilterInv

(* A call starts with empty tables, whatever the rows are. *)
LEMMA FilterCall ==
  ASSUME FilterInv, NEW f, NEW rows, rows \in Seq(Range(rows)), F!Call(f, rows)
  PROVE  FilterInv'
<1>1. \A t \in F!Threads : results[t] = << >> /\ copied[t] = 0
  BY DEF FilterInv, FilterPhases, F!Call
<1>2. table' = rows /\ results' = results /\ copied' = copied /\ Len(rows) \in Nat
  BY DEF F!Call
<1>3. FilterTypes'
  <2>1. << >> \in Seq(1 .. Len(rows)) /\ << >> \in Seq(0 .. Len(rows))
    OBVIOUS
  <2>2. results' \in [F!Threads -> Seq(1 .. Len(rows))]
    BY <1>1, <1>2, <2>1 DEF FilterInv, FilterTypes
  <2>3. copied' \in [F!Threads -> Nat]
    BY <1>2 DEF FilterInv, FilterTypes
  <2>4. table' \in Seq(Range(table'))
    BY <1>2
  <2>5. /\ thread_start_positions' \in [F!Threads -> Nat]
        /\ result_table' \in Seq(0 .. Len(table'))
    BY <1>2, <2>1 DEF F!Call
  <2>6. /\ filter_pc' \in [F!Threads -> {"filter", "barrier", "copy", "done"}]
        /\ filtered' \in BOOLEAN
    BY DEF F!Call
  <2>7. inside' \in SUBSET F!Threads /\ passed' \in [F!Threads -> 0 .. 1] /\ opened' \in 0 .. 1
    BY DEF F!Call
  <2> QED  BY <1>2, <2>2, <2>3, <2>4, <2>5, <2>6, <2>7 DEF FilterTypes
<1>4. ASSUME NEW t \in F!Threads
      PROVE  F!From(t)' \in Nat \ {0} /\ 0 <= F!Upto(t)' - F!From(t)' + 1
  BY <1>2, Slices, SliceNames
<1>5. FilterPhases'
  BY <1>1, <1>2, <1>4 DEF F!Call, FilterPhases
<1>6. FilterLayout'
  BY <1>4 DEF F!Call, FilterLayout
<1> QED  BY <1>3, <1>5, <1>6 DEF FilterInv

(* While the table stays, so do the slices. *)
LEMMA SameSlices ==
  ASSUME table' = table
  PROVE  \A t : F!From(t)' = F!From(t) /\ F!Upto(t)' = F!Upto(t)
BY SliceNames

(* A thread scans its slice, and keeps no more rows than the slice has. *)
LEMMA FilterFilter ==
  ASSUME FilterInv, NEW t \in F!Threads, F!Filter(t)
  PROVE  FilterInv'
<1>1. /\ filter_pc[t] = "filter" /\ opened = 0 /\ results[t] = << >> /\ passed[t] = 0
      /\ copied[t] = 0
  BY DEF F!Filter, FilterInv, FilterPhases
<1>2. PICK q : q = F!FilterFunction(F!From(t), F!Upto(t))
  OBVIOUS
<1>3. q \in Seq(1 .. Len(table)) /\ Len(q) \in Nat /\ Len(q) <= F!Upto(t) - F!From(t) + 1
  <2>1. q \in Seq(1 .. Len(table)) /\ Len(q) <= F!Upto(t) - F!From(t) + 1
    BY <1>2, SelectedIn, FilterFacts
  <2> QED  BY <2>1
<1>4. /\ table' = table /\ results' = [results EXCEPT ![t] = q]
      /\ filter_pc' = [filter_pc EXCEPT ![t] = "barrier"] /\ inside' = inside \cup {t}
      /\ passed' = passed /\ opened' = opened /\ copied' = copied /\ filtered' = filtered
      /\ thread_start_positions' = thread_start_positions /\ result_table' = result_table
  BY <1>2 DEF F!Filter, F!B!Enter
<1>5. FilterTypes'
  BY <1>3, <1>4 DEF FilterInv, FilterTypes
<1>6. /\ results \in [F!Threads -> Seq(1 .. Len(table))]
      /\ filter_pc \in [F!Threads -> {"filter", "barrier", "copy", "done"}]
  BY DEF FilterInv, FilterTypes
<1>7. FilterPhases'
  <2>1. ~ filtered
    BY <1>1 DEF FilterInv, FilterPhases
  <2>2. ASSUME NEW u \in F!Threads
        PROVE  /\ u \in inside' <=> filter_pc'[u] = "barrier"
               /\ filter_pc'[u] = "filter" => opened' = 0
               /\ filter_pc'[u] \in {"filter", "barrier"} => passed'[u] = 0
               /\ filter_pc'[u] = "copy" => opened' = 1
               /\ filter_pc'[u] = "done" => filtered' \/ opened' = 1
               /\ filter_pc'[u] \in {"filter", "done"} => results'[u] = << >>
               /\ filter_pc'[u] # "copy" => copied'[u] = 0
               /\ copied'[u] <= Len(results'[u])
               /\ Len(results'[u]) <= F!Upto(u)' - F!From(u)' + 1
    <3>1. F!Upto(u)' = F!Upto(u) /\ F!From(u)' = F!From(u)
      BY <1>4, SameSlices
    <3>2. CASE u = t
      BY <1>1, <1>3, <1>4, <1>6, <3>1, <3>2
    <3>3. CASE u # t
      <4>1. /\ results'[u] = results[u] /\ filter_pc'[u] = filter_pc[u]
            /\ u \in inside' <=> u \in inside
        BY <1>4, <1>6, <3>3
      <4> QED  BY <1>4, <3>1, <4>1 DEF FilterInv, FilterPhases
    <3> QED  BY <3>2, <3>3
  <2> QED  BY <1>4, <2>1, <2>2 DEF FilterPhases
<1>8. FilterLayout'
  <2>1. \A u \in F!Threads : F!From(u)' = F!From(u)
    BY <1>4, SameSlices
  <2> QED  BY <1>1, <1>4, <2>1 DEF FilterInv, FilterLayout
<1> QED  BY <1>5, <1>7, <1>8 DEF FilterInv

(* Prefix sums of sizes that fit into the slices. *)
LEMMA SlicePrefixes ==
  ASSUME NEW l \in Nat, NEW f \in [F!Threads -> Nat],
         \A t \in F!Threads : f[t] <= Final(l, t) - First(l, t) + 1
  PROVE  \A t \in F!Threads :
           /\ SumFunctionOnSet(f, 0 .. t - 1) \in Nat
           /\ SumFunctionOnSet(f, 0 .. t - 1) < First(l, t)
           /\ SumFunctionOnSet(f, 0 .. t - 1) + f[t] <= SumFunctionOnSet(f, F!Threads)
           /\ \A u \in F!Threads :
                u < t => SumFunctionOnSet(f, 0 .. u - 1) + f[u] <= SumFunctionOnSet(f, 0 .. t - 1)
<1> DEFINE S(n) == SumFunctionOnSet(f, 0 .. n - 1)
<1>1. \A n \in 0 .. NThreads : S(n) \in Nat
  <2> SUFFICES ASSUME NEW n \in 0 .. NThreads PROVE S(n) \in Nat
    OBVIOUS
  <2>1. IsFiniteSet(0 .. n - 1)
    BY FS_Interval
  <2>2. \A x \in 0 .. n - 1 : f[x] \in Nat
    BY Params DEF F!Threads
  <2> QED  BY <2>1, <2>2, SumType
<1>2. \A n \in F!Threads : S(n + 1) = S(n) + f[n]
  <2> SUFFICES ASSUME NEW n \in F!Threads PROVE S(n + 1) = S(n) + f[n]
    OBVIOUS
  <2>0. n \in Nat /\ n < NThreads
    BY Params DEF F!Threads
  <2>1. /\ IsFiniteSet(0 .. n - 1) /\ n \notin 0 .. n - 1
        /\ 0 .. (n + 1) - 1 = (0 .. n - 1) \cup {n}
    <3>1. IsFiniteSet(0 .. n - 1)
      BY <2>0, FS_Interval
    <3>2. n \notin 0 .. n - 1 /\ 0 .. (n + 1) - 1 = (0 .. n - 1) \cup {n}
      BY ONLY <2>0
    <3> QED  BY <3>1, <3>2
  <2>2. \A x \in (0 .. n - 1) \cup {n} : f[x] \in Nat
    BY <2>0, Params DEF F!Threads
  <2>3. SumFunctionOnSet(f, (0 .. n - 1) \cup {n}) = f[n] + SumFunctionOnSet(f, 0 .. n - 1)
    BY ONLY <2>1, <2>2, SumAdd
  <2>4. f[n] \in Nat /\ S(n) \in Nat
    BY <1>1, <2>0, Params
  <2>5. /\ S(n + 1) = SumFunctionOnSet(f, (0 .. n - 1) \cup {n})
        /\ S(n) = SumFunctionOnSet(f, 0 .. n - 1)
    BY <2>1
  <2> HIDE DEF S
  <2> QED  BY <2>3, <2>4, <2>5
<1>3. S(0) = 0
  <2>1. 0 .. 0 - 1 = {}
    OBVIOUS
  <2> QED  BY <2>1, SumEmpty
<1>4. S(NThreads) = SumFunctionOnSet(f, F!Threads)
  BY DEF F!Threads
<1>8. \A n : SumFunctionOnSet(f, 0 .. n - 1) = S(n)
  OBVIOUS
<1> HIDE DEF S
<1>5. \A n \in 0 .. NThreads : \A m \in 0 .. n : S(m) <= S(n)
  <2> DEFINE P(n) == n \in 0 .. NThreads => \A m \in 0 .. n : S(m) <= S(n)
             N == {n \in Nat : P(n)}
  <2>1. P(0)
    BY <1>1
  <2>2. ASSUME NEW n \in Nat, P(n) PROVE P(n + 1)
    <3> SUFFICES ASSUME n + 1 \in 0 .. NThreads, NEW m \in 0 .. n + 1 PROVE S(m) <= S(n + 1)
      OBVIOUS
    <3>1. n \in F!Threads /\ n \in 0 .. NThreads
      BY Params DEF F!Threads
    <3>2. S(n + 1) = S(n) + f[n] /\ S(n) \in Nat /\ f[n] \in Nat
      BY <1>1, <1>2, <3>1
    <3>3. CASE m = n + 1
      BY <3>2, <3>3
    <3>4. CASE m # n + 1
      <4>1. m \in 0 .. n
        BY <3>4
      <4>2. S(m) <= S(n) /\ S(m) \in Nat
        BY <1>1, <2>2, <3>1, <4>1, Params
      <4> QED  BY <3>2, <4>2
    <3> QED  BY <3>3, <3>4
  <2> HIDE DEF P
  <2>3. \A n \in Nat : n \in N <=> P(n)
    OBVIOUS
  <2> HIDE DEF N
  <2>4. Nat \subseteq N
    <3>1. 0 \in N
      BY <2>1, <2>3
    <3>2. ASSUME NEW n \in Nat, n \in N PROVE n + 1 \in N
      <4>1. n + 1 \in Nat /\ P(n + 1)
        BY <2>2, <2>3, <3>2
      <4> QED  BY <2>3, <4>1
    <3> QED  BY <3>1, <3>2, Induction
  <2>5. \A n \in Nat : P(n)
    BY <2>3, <2>4
  <2> QED  BY <2>5, Params DEF P
<1>6. \A n \in F!Threads : S(n) < First(l, n)
  <2> DEFINE P(n) == n \in F!Threads => S(n) < First(l, n)
             N == {n \in Nat : P(n)}
  <2>1. P(0)
    BY <1>3, Slices
  <2>2. ASSUME NEW n \in Nat, P(n) PROVE P(n + 1)
    <3> SUFFICES ASSUME n + 1 \in F!Threads PROVE S(n + 1) < First(l, n + 1)
      OBVIOUS
    <3>1. n \in F!Threads /\ n # NThreads - 1 /\ n \in 0 .. NThreads
      BY Params DEF F!Threads
    <3>2. S(n + 1) = S(n) + f[n] /\ S(n) \in Nat /\ f[n] \in Nat /\ S(n) < First(l, n)
      BY <1>1, <1>2, <2>2, <3>1
    <3>3. First(l, n + 1) = Final(l, n) + 1 /\ First(l, n) \in Nat /\ Final(l, n) \in Nat
      BY <3>1, Slices
    <3>4. f[n] <= Final(l, n) - First(l, n) + 1
      BY <3>1
    <3> QED  BY <3>2, <3>3, <3>4
  <2> HIDE DEF P
  <2>3. \A n \in Nat : n \in N <=> P(n)
    OBVIOUS
  <2> HIDE DEF N
  <2>4. Nat \subseteq N
    <3>1. 0 \in N
      BY <2>1, <2>3
    <3>2. ASSUME NEW n \in Nat, n \in N PROVE n + 1 \in N
      <4>1. n + 1 \in Nat /\ P(n + 1)
        BY <2>2, <2>3, <3>2
      <4> QED  BY <2>3, <4>1
    <3> QED  BY <3>1, <3>2, Induction
  <2>5. \A n \in Nat : P(n)
    BY <2>3, <2>4
  <2> QED  BY <2>5, Params DEF P, F!Threads
<1>7. ASSUME NEW t \in F!Threads
      PROVE  /\ S(t) \in Nat /\ S(t) < First(l, t)
             /\ S(t) + f[t] <= S(NThreads)
             /\ \A u \in F!Threads : u < t => S(u) + f[u] <= S(t)
  <2>1. t \in 0 .. NThreads /\ t + 1 \in 0 .. NThreads /\ NThreads \in 0 .. NThreads
    BY Params DEF F!Threads
  <2>2. S(t) + f[t] <= S(NThreads)
    BY <1>2, <1>5, <2>1
  <2>3. ASSUME NEW u \in F!Threads, u < t PROVE S(u) + f[u] <= S(t)
    <3>1. u + 1 \in 0 .. t
      BY <2>1, <2>3, Params DEF F!Threads
    <3> QED  BY <1>2, <1>5, <2>1, <3>1
  <2> QED  BY <1>1, <1>6, <2>1, <2>2, <2>3
<1> QED  BY <1>4, <1>7, <1>8

(* The barrier opens on a layout in which the copies follow one another. *)
LEMMA FilterFinalize ==
  ASSUME FilterInv, F!Finalize
  PROVE  FilterInv'
<1>1. /\ inside = F!Threads /\ \A t \in F!Threads : passed[t] = opened
      /\ opened' = opened + 1 /\ inside' = inside /\ passed' = passed
      /\ thread_start_positions' = [t \in F!Threads |-> F!SumFunctionOnSet(F!Sizes, 0 .. t - 1)]
      /\ result_table' = [i \in 1 .. F!SumFunction(F!Sizes) |-> 0]
      /\ table' = table /\ results' = results /\ copied' = copied /\ filter_pc' = filter_pc
      /\ filtered' = filtered
  BY DEF F!Finalize, F!B!Open
<1>2. /\ 0 \in F!Threads
      /\ \A t \in F!Threads : filter_pc[t] = "barrier" /\ copied[t] = 0 /\ passed[t] = 0
  BY <1>1, Params DEF F!Threads, FilterInv, FilterPhases
<1>3. opened = 0 /\ opened' = 1
  BY <1>1, <1>2
<1>4. PICK f : f = F!Sizes
  OBVIOUS
<1>5. /\ f \in [F!Threads -> Nat] /\ DOMAIN f = F!Threads
      /\ \A t \in F!Threads : f[t] = Len(results[t])
  BY <1>4, FilterFacts DEF F!Sizes
<1>6. PICK l : l = Len(table) /\ l \in Nat
  BY FilterFacts
<1>7. \A t \in F!Threads : f[t] <= Final(l, t) - First(l, t) + 1
  <2>1. \A t \in F!Threads : Len(results[t]) <= F!Upto(t) - F!From(t) + 1
    BY DEF FilterInv, FilterPhases
  <2> QED  BY <1>5, <1>6, <2>1, SliceNames
<1>8. /\ thread_start_positions' = [t \in F!Threads |-> SumFunctionOnSet(f, 0 .. t - 1)]
      /\ result_table' = [i \in 1 .. SumFunctionOnSet(f, F!Threads) |-> 0]
  BY <1>1, <1>4, <1>5, SameSum, SameTotal
<1>9. \A t \in F!Threads :
        /\ SumFunctionOnSet(f, 0 .. t - 1) \in Nat
        /\ SumFunctionOnSet(f, 0 .. t - 1) < First(l, t)
        /\ SumFunctionOnSet(f, 0 .. t - 1) + f[t] <= SumFunctionOnSet(f, F!Threads)
        /\ \A u \in F!Threads :
             u < t => SumFunctionOnSet(f, 0 .. u - 1) + f[u] <= SumFunctionOnSet(f, 0 .. t - 1)
  BY <1>5, <1>6, <1>7, SlicePrefixes
<1>10. PICK n : n = SumFunctionOnSet(f, F!Threads) /\ n \in Nat
  <2>1. IsFiniteSet(F!Threads)
    BY FS_Interval, Params DEF F!Threads
  <2> QED  BY <1>5, <2>1, SumType
<1>11. /\ Len(result_table') = n /\ result_table' \in Seq(0 .. l)
       /\ \A i \in 1 .. n : result_table'[i] = 0
  <2>1. result_table' = [i \in 1 .. n |-> 0]
    BY <1>8, <1>10
  <2> QED  BY <1>6, <1>10, <2>1
<1>12. PICK s : s = thread_start_positions'
  OBVIOUS
<1>13. \A t \in F!Threads :
        /\ s[t] \in Nat /\ s[t] < First(l, t) /\ s[t] + f[t] <= n
        /\ \A u \in F!Threads : u < t => s[u] + f[u] <= s[t]
  BY <1>8, <1>9, <1>10, <1>12
<1>14. s \in [F!Threads -> Nat]
  BY <1>8, <1>12, <1>13
<1>15. FilterTypes'
  BY <1>1, <1>3, <1>6, <1>11, <1>12, <1>14 DEF FilterInv, FilterTypes
<1>16. FilterPhases'
  <2>1. \A t : F!From(t)' = F!From(t) /\ F!Upto(t)' = F!Upto(t)
    BY <1>1, SameSlices
  <2> QED  BY <1>1, <1>2, <1>3, <2>1 DEF FilterInv, FilterPhases
<1>17. FilterLayout'
  <2>1. \A t \in F!Threads : F!From(t)' = First(l, t)
    BY <1>1, <1>6, SliceNames
  <2>2. ASSUME NEW t \in F!Threads, NEW k \in 1 .. f[t] PROVE result_table'[s[t] + k] = 0
    <3>1. s[t] \in Nat /\ f[t] \in Nat /\ s[t] + f[t] <= n
      BY <1>5, <1>13
    <3>2. s[t] + k \in 1 .. n
      BY <1>10, <3>1
    <3> QED  BY <1>11, <3>2
  <2>3. \A t \in F!Threads : copied'[t] = 0 /\ Len(results'[t]) = f[t]
    BY <1>1, <1>2, <1>5
  <2>4. \A t \in F!Threads : \A k \in copied'[t] + 1 .. Len(results'[t]) :
          result_table'[s[t] + k] = 0
    BY <2>2, <2>3
  <2>5. \A t \in F!Threads :
          /\ s[t] + Len(results'[t]) <= Len(result_table')
          /\ \A u \in F!Threads : u < t => s[u] + Len(results'[u]) <= s[t]
          /\ s[t] < F!From(t)'
    BY <1>11, <1>13, <2>1, <2>3
  <2> QED  BY <1>3, <1>12, <2>4, <2>5 DEF FilterLayout
<1> QED  BY <1>15, <1>16, <1>17 DEF FilterInv

(* A thread leaves the barrier, and has all of its copy to do. *)
LEMMA FilterLeave ==
  ASSUME FilterInv, NEW t \in F!Threads, F!LeaveBarrier(t)
  PROVE  FilterInv'
<1>1. /\ filter_pc[t] = "barrier" /\ t \in inside /\ passed[t] < opened
      /\ inside' = inside \ {t} /\ passed' = [passed EXCEPT ![t] = @ + 1] /\ opened' = opened
      /\ filter_pc' = [filter_pc EXCEPT ![t] = "copy"]
      /\ table' = table /\ results' = results /\ copied' = copied
      /\ thread_start_positions' = thread_start_positions /\ result_table' = result_table
      /\ filtered' = filtered
  BY DEF F!LeaveBarrier, F!B!Leave, F!data
<1>2. passed[t] = 0 /\ opened = 1 /\ ~ filtered
  BY <1>1, FilterFacts DEF FilterInv, FilterPhases, FilterTypes
<1>3. /\ passed \in [F!Threads -> 0 .. 1]
      /\ filter_pc \in [F!Threads -> {"filter", "barrier", "copy", "done"}]
  BY DEF FilterInv, FilterTypes
<1>4. FilterTypes'
  <2>1. passed' \in [F!Threads -> 0 .. 1]
    BY <1>1, <1>2, <1>3
  <2> QED  BY <1>1, <1>3, <2>1 DEF FilterInv, FilterTypes
<1>5. \A u : F!From(u)' = F!From(u) /\ F!Upto(u)' = F!Upto(u)
  BY <1>1, SameSlices
<1>6. FilterPhases'
  <2>1. ASSUME NEW u \in F!Threads
        PROVE  /\ u \in inside' <=> filter_pc'[u] = "barrier"
               /\ filter_pc'[u] = "filter" => opened' = 0
               /\ filter_pc'[u] \in {"filter", "barrier"} => passed'[u] = 0
               /\ filter_pc'[u] = "copy" => opened' = 1
               /\ filter_pc'[u] = "done" => filtered' \/ opened' = 1
               /\ filter_pc'[u] \in {"filter", "done"} => results'[u] = << >>
               /\ filter_pc'[u] # "copy" => copied'[u] = 0
    <3>1. CASE u = t
      BY <1>1, <1>2, <1>3, <3>1
    <3>2. CASE u # t
      <4>1. /\ filter_pc'[u] = filter_pc[u] /\ passed'[u] = passed[u]
            /\ (u \in inside' <=> u \in inside)
        BY <1>1, <1>3, <3>2
      <4> QED  BY <1>1, <4>1 DEF FilterInv, FilterPhases
    <3> QED  BY <3>1, <3>2
  <2>2. \A u \in F!Threads : /\ copied'[u] <= Len(results'[u])
                             /\ Len(results'[u]) <= F!Upto(u)' - F!From(u)' + 1
    BY <1>1, <1>5 DEF FilterInv, FilterPhases
  <2> QED  BY <1>1, <1>2, <2>1, <2>2 DEF FilterPhases
<1>7. FilterLayout'
  BY <1>1, <1>5 DEF FilterInv, FilterLayout
<1> QED  BY <1>4, <1>6, <1>7 DEF FilterInv

(* A thread copies one row to a place that no other thread writes. *)
LEMMA FilterCopyRow ==
  ASSUME FilterInv, NEW t \in F!Threads, F!CopyRow(t)
  PROVE  FilterInv'
<1>1. /\ filter_pc[t] = "copy" /\ copied[t] < Len(results[t])
      /\ result_table' = [result_table EXCEPT
           ![thread_start_positions[t] + copied[t] + 1] = results[t][copied[t] + 1]]
      /\ copied' = [copied EXCEPT ![t] = @ + 1]
      /\ table' = table /\ results' = results /\ filter_pc' = filter_pc
      /\ thread_start_positions' = thread_start_positions
      /\ filtered' = filtered /\ inside' = inside /\ passed' = passed /\ opened' = opened
  BY DEF F!CopyRow
<1>2. opened = 1
  BY <1>1 DEF FilterInv, FilterPhases
<1>3. PICK s, c, v, i : /\ s = thread_start_positions /\ c = copied[t] /\ v = results[t][c + 1]
                        /\ i = s[t] + c + 1
  OBVIOUS
<1>4. /\ c \in Nat /\ c < Len(results[t]) /\ s[t] \in Nat
      /\ result_table' = [result_table EXCEPT ![i] = v]
      /\ copied \in [F!Threads -> Nat] /\ copied' = [copied EXCEPT ![t] = c + 1]
  BY <1>1, <1>3, FilterFacts DEF FilterInv, FilterTypes
<1>5. v \in 1 .. Len(table)
  <2>1. results[t] \in Seq(1 .. Len(table)) /\ Len(results[t]) \in Nat
    BY FilterFacts
  <2>2. c + 1 \in 1 .. Len(results[t])
    BY <1>4, <2>1
  <2> QED  BY <1>3, <2>1, <2>2
<1>6. PICK n : n = Len(result_table) /\ n \in Nat /\ s[t] + Len(results[t]) <= n
  BY <1>2, <1>3, FilterFacts DEF FilterInv, FilterLayout
<1>7. i \in 1 .. n
  <2>1. Len(results[t]) \in Nat
    BY FilterFacts
  <2> QED  BY ONLY <1>3, <1>4, <1>6, <2>1
<1>8. result_table \in Seq(0 .. Len(table))
  BY DEF FilterInv, FilterTypes
<1>9. /\ result_table' \in Seq(0 .. Len(table)) /\ Len(result_table') = n
      /\ \A j \in 1 .. n : result_table'[j] = IF j = i THEN v ELSE result_table[j]
  <2>1. v \in 0 .. Len(table)
    BY <1>5, FilterFacts
  <2>2. result_table \in [1 .. n -> 0 .. Len(table)]
    BY <1>6, <1>8
  <2>3. result_table' \in [1 .. n -> 0 .. Len(table)]
    BY <1>4, <2>1, <2>2
  <2> QED  BY <1>4, <1>6, <2>2, <2>3
<1>10. \A u \in F!Threads : copied'[u] = IF u = t THEN c + 1 ELSE copied[u]
  BY <1>4
<1>11. FilterTypes'
  <2>1. copied' \in [F!Threads -> Nat]
    BY <1>4
  <2> QED  BY <1>1, <1>9, <2>1 DEF FilterInv, FilterTypes
<1>12. \A u : F!From(u)' = F!From(u) /\ F!Upto(u)' = F!Upto(u)
  BY <1>1, SameSlices
<1>13. FilterPhases'
  <2>1. ASSUME NEW u \in F!Threads
        PROVE  /\ filter_pc'[u] # "copy" => copied'[u] = 0
               /\ copied'[u] <= Len(results'[u])
    <3>1. CASE u = t
      <4>1. Len(results[t]) \in Nat /\ results' = results /\ filter_pc'[t] = "copy"
        BY <1>1, FilterFacts
      <4>2. copied'[t] = c + 1
        BY ONLY <1>10, <3>1
      <4>3. c + 1 <= Len(results[t])
        BY ONLY <1>4, <4>1
      <4> QED  BY ONLY <3>1, <4>1, <4>2, <4>3
    <3>2. CASE u # t
      BY <1>1, <1>10, <3>2 DEF FilterInv, FilterPhases
    <3> QED  BY <3>1, <3>2
  <2> QED  BY <1>1, <1>12, <2>1 DEF FilterInv, FilterPhases
<1>14. FilterLayout'
  <2>1. ASSUME NEW u \in F!Threads, NEW k \in copied'[u] + 1 .. Len(results'[u])
        PROVE  result_table'[s[u] + k] = 0
    <3>1. /\ copied[u] \in Nat /\ Len(results[u]) \in Nat /\ s[u] \in Nat /\ Len(results[t]) \in Nat
          /\ u \in Nat /\ t \in Nat
      BY <1>3, FilterFacts
    <3>2. k \in copied[u] + 1 .. Len(results[u])
      BY <1>1, <1>3, <1>10, <3>1
    <3>3. result_table[s[u] + k] = 0 /\ s[u] + Len(results[u]) <= n
      BY <1>2, <1>3, <1>6, <3>2 DEF FilterInv, FilterLayout
    <3>4. s[u] + k \in 1 .. n
      BY <1>6, <3>1, <3>2, <3>3
    <3>5. s[u] + k # i
      <4>1. CASE u = t
        <5>1. copied'[u] = c + 1
          BY <1>10, <4>1
        <5> QED  BY <1>3, <1>4, <3>1, <4>1, <5>1
      <4>2. CASE u < t
        <5>1. s[u] + Len(results[u]) <= s[t]
          BY <1>2, <1>3, <4>2 DEF FilterInv, FilterLayout
        <5>2. s[u] + k <= s[t] /\ s[u] + k \in Int
          <6>1. s[t] \in Int
            BY <1>4
          <6> QED  BY ONLY <3>1, <3>2, <5>1, <6>1
        <5>3. s[t] < i /\ i \in Int
          BY <1>3, <1>4
        <5> QED  BY <1>4, <5>2, <5>3
      <4>3. CASE t < u
        <5>1. s[t] + Len(results[t]) <= s[u]
          BY <1>2, <1>3, <4>3 DEF FilterInv, FilterLayout
        <5>2. s[u] < s[u] + k /\ s[u] + k \in Int
          BY <3>1, <3>2
        <5>3. i <= s[u] /\ i \in Int
          <6>1. c + 1 \in Nat /\ c + 1 <= Len(results[t])
            BY <1>4, <3>1
          <6>2. s[t] \in Nat /\ c \in Nat /\ i = s[t] + c + 1
            BY <1>3, <1>4
          <6>3. s[u] \in Nat /\ Len(results[t]) \in Nat
            BY <3>1
          <6> QED  BY ONLY <5>1, <6>1, <6>2, <6>3
        <5> QED  BY <3>1, <5>2, <5>3
      <4> QED  BY <3>1, <4>1, <4>2, <4>3
    <3> QED  BY <1>9, <3>3, <3>4, <3>5
  <2>2. /\ \A u \in F!Threads : s[u] < F!From(u)'
        /\ \A u \in F!Threads : s[u] + Len(results[u]) <= n
        /\ \A u, w \in F!Threads : w < u => s[w] + Len(results[w]) <= s[u]
    BY <1>2, <1>3, <1>6, <1>12 DEF FilterInv, FilterLayout
  <2> QED  BY <1>1, <1>2, <1>3, <1>9, <2>1, <2>2 DEF FilterLayout
<1> QED  BY <1>11, <1>13, <1>14 DEF FilterInv

(* A thread that has copied all rows frees its selection. *)
LEMMA FilterFree ==
  ASSUME FilterInv, NEW t \in F!Threads, F!Free(t)
  PROVE  FilterInv'
<1>1. /\ filter_pc[t] = "copy" /\ copied[t] = Len(results[t])
      /\ results' = [results EXCEPT ![t] = << >>] /\ copied' = [copied EXCEPT ![t] = 0]
      /\ filter_pc' = [filter_pc EXCEPT ![t] = "done"]
      /\ table' = table /\ thread_start_positions' = thread_start_positions
      /\ result_table' = result_table
      /\ filtered' = filtered /\ inside' = inside /\ passed' = passed /\ opened' = opened
  BY DEF F!Free
<1>2. opened = 1 /\ ~ filtered /\ t \notin inside
  BY <1>1 DEF FilterInv, FilterPhases
<1>3. /\ results \in [F!Threads -> Seq(1 .. Len(table))] /\ copied \in [F!Threads -> Nat]
      /\ filter_pc \in [F!Threads -> {"filter", "barrier", "copy", "done"}]
  BY DEF FilterInv, FilterTypes
<1>4. FilterTypes'
  <2>1. << >> \in Seq(1 .. Len(table))
    OBVIOUS
  <2> QED  BY <1>1, <1>3, <2>1 DEF FilterInv, FilterTypes
<1>5. \A u : F!From(u)' = F!From(u) /\ F!Upto(u)' = F!Upto(u)
  BY <1>1, SameSlices
<1>6. /\ results'[t] = << >> /\ copied'[t] = 0 /\ filter_pc'[t] = "done"
      /\ \A u \in F!Threads \ {t} :
           results'[u] = results[u] /\ copied'[u] = copied[u] /\ filter_pc'[u] = filter_pc[u]
  BY <1>1, <1>3
<1>7. FilterPhases'
  <2>1. ASSUME NEW u \in F!Threads
        PROVE  /\ u \in inside' <=> filter_pc'[u] = "barrier"
               /\ filter_pc'[u] = "filter" => opened' = 0
               /\ filter_pc'[u] \in {"filter", "barrier"} => passed'[u] = 0
               /\ filter_pc'[u] = "copy" => opened' = 1
               /\ filter_pc'[u] = "done" => filtered' \/ opened' = 1
               /\ filter_pc'[u] \in {"filter", "done"} => results'[u] = << >>
               /\ filter_pc'[u] # "copy" => copied'[u] = 0
               /\ copied'[u] <= Len(results'[u])
               /\ Len(results'[u]) <= F!Upto(u)' - F!From(u)' + 1
    <3>1. CASE u = t
      <4>1. Len(results'[u]) = 0 /\ 0 <= F!Upto(u) - F!From(u) + 1
        BY <1>6, <3>1, FilterFacts
      <4> QED  BY <1>1, <1>2, <1>5, <1>6, <3>1, <4>1
    <3>2. CASE u # t
      BY <1>1, <1>5, <1>6, <3>2 DEF FilterInv, FilterPhases
    <3> QED  BY <3>1, <3>2
  <2> QED  BY <1>1, <1>2, <2>1 DEF FilterPhases
<1>8. FilterLayout'
  <2>0. PICK s, z : s = thread_start_positions /\ z = [u \in F!Threads |-> Len(results'[u])]
    OBVIOUS
  <2>1. \A u \in F!Threads : z[u] \in Nat /\ z[u] <= Len(results[u])
    <3> SUFFICES ASSUME NEW u \in F!Threads PROVE z[u] \in Nat /\ z[u] <= Len(results[u])
      OBVIOUS
    <3>1. Len(results[u]) \in Nat /\ z[u] = Len(results'[u])
      BY <2>0, FilterFacts
    <3>2. CASE u = t
      BY <1>6, <3>1, <3>2
    <3>3. CASE u # t
      BY <1>6, <3>1, <3>3
    <3> QED  BY <3>2, <3>3
  <2>2. \A u \in F!Threads : s[u] < F!From(u)' /\ s[u] + z[u] <= Len(result_table)
    <3> SUFFICES ASSUME NEW u \in F!Threads
                 PROVE  s[u] < F!From(u)' /\ s[u] + z[u] <= Len(result_table)
      OBVIOUS
    <3>1. s[u] < F!From(u) /\ s[u] + Len(results[u]) <= Len(result_table)
      BY <1>2, <2>0 DEF FilterInv, FilterLayout
    <3>2. s[u] \in Nat /\ Len(results[u]) \in Nat /\ Len(result_table) \in Nat
      BY <2>0, FilterFacts
    <3> QED  BY <1>5, <2>1, <3>1, <3>2
  <2>3. \A u, w \in F!Threads : w < u => s[w] + z[w] <= s[u]
    <3> SUFFICES ASSUME NEW u \in F!Threads, NEW w \in F!Threads, w < u
                 PROVE  s[w] + z[w] <= s[u]
      OBVIOUS
    <3>1. s[w] + Len(results[w]) <= s[u]
      BY <1>2, <2>0 DEF FilterInv, FilterLayout
    <3>2. s[w] \in Nat /\ Len(results[w]) \in Nat /\ s[u] \in Nat
      BY <2>0, FilterFacts
    <3> QED  BY <2>1, <3>1, <3>2
  <2>4. ASSUME NEW u \in F!Threads, NEW k \in copied'[u] + 1 .. Len(results'[u])
        PROVE  result_table[thread_start_positions[u] + k] = 0
    <3>1. u # t
      BY <1>6
    <3> QED  BY <1>2, <1>6, <3>1 DEF FilterInv, FilterLayout
  <2>5. \A u \in F!Threads : z[u] = Len(results'[u])
    BY <2>0
  <2> QED  BY <1>1, <1>2, <2>0, <2>2, <2>3, <2>4, <2>5 DEF FilterLayout
<1> QED  BY <1>4, <1>7, <1>8 DEF FilterInv

(* The filter returns after the last thread. *)
LEMMA FilterReturn == FilterInv /\ F!Return => FilterInv'
<1> SUFFICES ASSUME FilterInv, F!Return PROVE FilterInv'
  OBVIOUS
<1>1. /\ \A t \in F!Threads : filter_pc[t] = "done"
      /\ filtered' = TRUE /\ table' = table /\ results' = results /\ copied' = copied
      /\ thread_start_positions' = thread_start_positions /\ result_table' = result_table
      /\ filter_pc' = filter_pc /\ inside' = inside /\ passed' = passed /\ opened' = opened
  BY DEF F!Return, F!data
<1>2. \A u : F!From(u)' = F!From(u) /\ F!Upto(u)' = F!Upto(u)
  BY <1>1, SameSlices
<1>3. FilterTypes'
  BY <1>1 DEF FilterInv, FilterTypes
<1>4. FilterPhases'
  BY <1>1, <1>2 DEF FilterInv, FilterPhases
<1>5. FilterLayout'
  BY <1>1, <1>2 DEF FilterInv, FilterLayout
<1> QED  BY <1>3, <1>4, <1>5 DEF FilterInv

(* The invariant of the filter depends on the variables of the filter alone. *)
LEMMA FilterStutter == FilterInv /\ UNCHANGED filterVars => FilterInv'
<1> SUFFICES ASSUME FilterInv, UNCHANGED filterVars PROVE FilterInv'
  OBVIOUS
<1>1. /\ filtered' = filtered /\ table' = table /\ results' = results /\ copied' = copied
      /\ thread_start_positions' = thread_start_positions /\ result_table' = result_table
      /\ filter_pc' = filter_pc /\ inside' = inside /\ passed' = passed /\ opened' = opened
  BY DEF filterVars
<1>2. \A u : F!From(u)' = F!From(u) /\ F!Upto(u)' = F!Upto(u)
  BY <1>1, SameSlices
<1>3. FilterTypes'
  BY <1>1 DEF FilterInv, FilterTypes
<1>4. FilterPhases'
  BY <1>1, <1>2 DEF FilterInv, FilterPhases
<1>5. FilterLayout'
  BY <1>1, <1>2 DEF FilterInv, FilterLayout
<1> QED  BY <1>3, <1>4, <1>5 DEF FilterInv

(* Every step of the filter keeps its invariant. *)
LEMMA FilterStepKeeps == FilterInv /\ F!Step => FilterInv'
BY FilterFilter, FilterLeave, FilterCopyRow, FilterFree, FilterFinalize DEF F!Step

-----------------------------------------------------------------------------
(* The chunked result tables of the joins.                                 *)

(* Concatenations and counts, in the chunked tables and in the library. *)
LEMMA SameFlat ==
  /\ \A s : C!FlattenSeq(s) = FlattenSeq(s)
  /\ C!TotalTuples = FoldLeft(LAMBDA n, k : n + k, 0, num_tuples)
  /\ \A s : C!TuplesIn(s) = FoldLeft(LAMBDA n, c : n + Len(c), 0, s)
<1>1. ASSUME NEW s PROVE C!FlattenSeq(s) = FlattenSeq(s)
  BY DEF C!FlattenSeq, FlattenSeq
<1>2. C!TotalTuples = FoldLeft(LAMBDA n, k : n + k, 0, num_tuples)
  BY DEF C!TotalTuples, C!FoldLeft, FoldLeft, C!MapThenFoldSet, MapThenFoldSet, C!Max, Max
<1>3. ASSUME NEW s PROVE C!TuplesIn(s) = FoldLeft(LAMBDA n, c : n + Len(c), 0, s)
  BY DEF C!TuplesIn, C!FoldLeft, FoldLeft, C!MapThenFoldSet, MapThenFoldSet, C!Max, Max
<1> QED  BY <1>1, <1>2, <1>3

(* Nothing concatenated is nothing. *)
LEMMA FlatNothing == FlattenSeq(<< >>) = << >>
<1>1. << >> \in Seq(Seq({})) /\ Len(<< >>) = 0
  OBVIOUS
<1>2. PICK s : s = << >>
  OBVIOUS
<1>3. s \in Seq(Seq({})) /\ \A n \in 1 .. Len(s) : s[n] = << >>
  BY <1>1, <1>2
<1>4. FlattenSeq(s) = << >>
  BY <1>3, FlatEmpty
<1> QED  BY <1>2, <1>4

(* Before the first join there are no tables. *)
LEMMA ChunkInit == C!Init => ChunkInv
<1>1. FlattenSeq(<< >>) = << >>
  BY FlatNothing
<1> QED  BY <1>1 DEF C!Init, ChunkInv, ChunkTypes, ChunkResult

(* Tables that a step leaves alone keep what holds of them. *)
LEMMA TableFrame ==
  ASSUME NEW t, TableInv(t),
         capacity'[t] = capacity[t], chunks'[t] = chunks[t], current'[t] = current[t],
         num_tuples'[t] = num_tuples[t], inserted'[t] = inserted[t],
         t \in closed' <=> t \in closed
  PROVE  TableInv(t)'
BY DEF TableInv, C!num_chunks

(* A call gives every thread an empty table. *)
LEMMA ChunkCall ==
  ASSUME ChunkInv, NEW p \in Nat, C!Call(p)
  PROVE  ChunkInv'
<1>1. FlattenSeq(<< >>) = << >>
  BY FlatNothing
<1>2. ChunkTypes'
  <2>1. \A V : << >> \in Seq(V)
    OBVIOUS
  <2> QED  BY <2>1 DEF C!Call, ChunkTypes
<1>3. \A t \in C!Threads : TableInv(t)'
  BY <1>1 DEF C!Call, TableInv
<1>4. ChunkResult'
  BY <1>1 DEF C!Call, ChunkResult
<1> QED  BY <1>2, <1>3, <1>4 DEF ChunkInv

(* A thread initialises its table: one empty chunk, or many.                *)
LEMMA ChunkInitTable ==
  ASSUME ChunkInv, NEW t \in C!Threads, C!InitTable(t)
  PROVE  ChunkInv'
<1>1. PICK n, s : /\ n = (IF prealloc = 0 THEN FirstCapacity ELSE prealloc)
                  /\ s = (IF prealloc = 0 THEN << << >> >> ELSE [c \in 1 .. prealloc |-> << >>])
  OBVIOUS
<1>2. /\ join_pc = "join" /\ capacity[t] = 0
      /\ capacity' = [capacity EXCEPT ![t] = n] /\ chunks' = [chunks EXCEPT ![t] = s]
      /\ current' = [current EXCEPT ![t] = 1] /\ num_tuples' = [num_tuples EXCEPT ![t] = 0]
      /\ prealloc' = prealloc /\ closed' = closed /\ result' = result /\ solid' = solid
      /\ inserted' = inserted /\ join_pc' = join_pc
  BY <1>1 DEF C!InitTable
<1>3. /\ capacity \in [C!Threads -> Nat] /\ current \in [C!Threads -> Nat]
      /\ num_tuples \in [C!Threads -> Nat] /\ closed \in SUBSET C!Threads
      /\ inserted \in [C!Threads -> Seq(Values)]
      /\ chunks \in [C!Threads -> Seq(Seq(Values))]
      /\ prealloc \in Nat
  BY <1>2 DEF ChunkInv, ChunkTypes
<1>4. /\ n \in Nat \ {0} /\ s \in Seq(Seq(Values)) /\ Len(s) \in 1 .. n
      /\ \A c \in 1 .. Len(s) : s[c] = << >>
  <2>1. << >> \in Seq(Values)
    OBVIOUS
  <2>2. CASE prealloc = 0
    BY <1>1, <2>1, <2>2, Params
  <2>3. CASE prealloc # 0
    <3>1. s = [c \in 1 .. prealloc |-> << >>] /\ n = prealloc
      BY <1>1, <2>3
    <3> QED  BY <1>3, <2>1, <2>3, <3>1
  <2> QED  BY <2>2, <2>3
<1>5. FlattenSeq(s) = << >>
  BY <1>4, FlatEmpty
<1>6. inserted[t] = << >> /\ t \notin closed
  <2>1. TableInv(t)
    BY <1>2 DEF ChunkInv
  <2> QED  BY ONLY <1>2, <2>1 DEF TableInv
<1>7. ChunkTypes'
  <2>1. Values' = Values
    BY <1>2 DEF Values
  <2>2. chunks' \in [C!Threads -> Seq(Seq(Values))]
    BY ONLY <1>2, <1>3, <1>4
  <2>3. /\ capacity' \in [C!Threads -> Nat] /\ current' \in [C!Threads -> Nat]
        /\ num_tuples' \in [C!Threads -> Nat]
    BY ONLY <1>2, <1>3, <1>4
  <2> QED  BY ONLY <1>2, <1>3, <2>1, <2>2, <2>3 DEF ChunkTypes
<1>8. \A u \in C!Threads : TableInv(u)'
  <2>1. \A u \in C!Threads : TableInv(u)
    BY <1>2 DEF ChunkInv
  <2>2. ASSUME NEW u \in C!Threads, u # t PROVE TableInv(u)'
    <3>1. /\ capacity'[u] = capacity[u] /\ chunks'[u] = chunks[u] /\ current'[u] = current[u]
          /\ num_tuples'[u] = num_tuples[u]
      BY <1>2, <1>3, <2>2
    <3> QED  BY <1>2, <2>1, <3>1, TableFrame
  <2>3. TableInv(t)'
    <3>1. /\ capacity'[t] = n /\ chunks'[t] = s /\ current'[t] = 1 /\ num_tuples'[t] = 0
      BY <1>2, <1>3
    <3>2. \A c \in 1 .. Len(s) : Len(s[c]) = 0
      BY <1>4
    <3> QED  BY <1>2, <1>4, <1>5, <1>6, <3>1, <3>2, Params DEF TableInv, C!num_chunks
  <2> QED  BY <2>2, <2>3
<1>9. ChunkResult'
  BY <1>2 DEF ChunkInv, ChunkResult
<1> QED  BY <1>2, <1>7, <1>8, <1>9 DEF ChunkInv

(* A tuple more, in the table of a thread and in its history. *)
LEMMA ValuesGrow ==
  ASSUME NEW t \in C!Threads, NEW v, inserted \in [C!Threads -> Seq(Values)],
         inserted' = [inserted EXCEPT ![t] = Append(inserted[t], v)]
  PROVE  /\ Values \cup {v} \subseteq Values'
         /\ inserted' \in [C!Threads -> Seq(Values')]
<1>1. \A u \in C!Threads : inserted[u] \in Seq(Values)
  OBVIOUS
<1>2. \A u \in C!Threads : inserted'[u] = IF u = t THEN Append(inserted[t], v) ELSE inserted[u]
  OBVIOUS
<1>3. Append(inserted[t], v) \in Seq(Values \cup {v})
  BY <1>1
<1>4. Values' = UNION {Range(inserted'[u]) : u \in C!Threads}
  BY DEF Values
<1>5. v \in Range(inserted'[t])
  <2>1. Len(inserted[t]) + 1 \in DOMAIN inserted'[t] /\ inserted'[t][Len(inserted[t]) + 1] = v
    BY <1>1, <1>2
  <2> QED  BY <2>1 DEF Range
<1>6. ASSUME NEW u \in C!Threads PROVE Range(inserted[u]) \subseteq Range(inserted'[u])
  <2>1. CASE u = t
    <3>1. \A i \in DOMAIN inserted[t] :
            i \in DOMAIN inserted'[t] /\ inserted'[t][i] = inserted[t][i]
      BY <1>1, <1>2
    <3> QED  BY <2>1, <3>1 DEF Range
  <2>2. CASE u # t
    BY <1>2, <2>2
  <2> QED  BY <2>1, <2>2
<1>7. Values \cup {v} \subseteq Values'
  BY <1>4, <1>5, <1>6 DEF Values
<1>8. \A u \in C!Threads : inserted'[u] \in Seq(Values')
  <2>1. \A u \in C!Threads : inserted'[u] \in Seq(Values \cup {v})
    <3>1. Seq(Values) \subseteq Seq(Values \cup {v})
      BY SeqMonotonic
    <3> QED  BY <1>1, <1>2, <1>3, <3>1
  <2>2. Seq(Values \cup {v}) \subseteq Seq(Values')
    BY <1>7, SeqMonotonic
  <2> QED  BY <2>1, <2>2
<1> QED  BY <1>7, <1>8

(* An insertion into the chunks r, which are those of the table or those    *)
(* and an empty one, at c: the current chunk, with room.                    *)
LEMMA ChunkInserted ==
  ASSUME ChunkInv, NEW t \in C!Threads,
         NEW v, join_pc = "join", capacity[t] > 0, t \notin closed,
         NEW r \in Seq(Seq(Values)), NEW c, NEW n \in Nat, n > 0,
         c \in 1 .. Len(r), Len(r) <= n,
         Len(r[c]) < ChunkTuples,
         \A d \in 1 .. c - 1 : Len(r[d]) = ChunkTuples,
         \A d \in c + 1 .. Len(r) : r[d] = << >>,
         FlattenSeq(r) = inserted[t],
         capacity' = [capacity EXCEPT ![t] = n],
         chunks' = [chunks EXCEPT ![t] = [r EXCEPT ![c] = Append(@, v)]],
         current' = [current EXCEPT ![t] = c],
         inserted' = [inserted EXCEPT ![t] = Append(@, v)],
         prealloc' = prealloc, num_tuples' = num_tuples, closed' = closed,
         result' = result, solid' = solid, join_pc' = join_pc
  PROVE  ChunkInv'
<1>1. /\ capacity \in [C!Threads -> Nat] /\ current \in [C!Threads -> Nat]
      /\ num_tuples \in [C!Threads -> Nat] /\ closed \in SUBSET C!Threads
      /\ inserted \in [C!Threads -> Seq(Values)]
      /\ chunks \in [C!Threads -> Seq(Seq(Values))]
      /\ prealloc \in Nat
  BY DEF ChunkInv, ChunkTypes
<1>2. PICK W : W = Values \cup {v}
  OBVIOUS
<1>3. /\ W \subseteq Values' /\ inserted' \in [C!Threads -> Seq(Values')]
  <2>1. inserted' = [inserted EXCEPT ![t] = Append(inserted[t], v)]
    OBVIOUS
  <2> QED  BY <1>1, <1>2, <2>1, ValuesGrow
<1>4. /\ r \in Seq(Seq(W)) /\ v \in W /\ Seq(Seq(W)) \subseteq Seq(Seq(Values'))
      /\ Seq(Seq(Values)) \subseteq Seq(Seq(Values'))
  <2>1. Seq(Values) \subseteq Seq(W) /\ Seq(W) \subseteq Seq(Values')
    BY <1>2, <1>3, SeqMonotonic
  <2>2. Seq(Seq(Values)) \subseteq Seq(Seq(W)) /\ Seq(Seq(W)) \subseteq Seq(Seq(Values'))
    BY <2>1, SeqMonotonic
  <2> QED  BY <1>2, <2>2
<1>5. PICK s : s = [r EXCEPT ![c] = Append(r[c], v)]
  OBVIOUS
<1>6. /\ r[c] \in Seq(W) /\ Append(r[c], v) \in Seq(W) /\ Len(Append(r[c], v)) = Len(r[c]) + 1
      /\ Len(r[c]) \in Nat
  BY <1>4
<1>7. /\ s \in Seq(Seq(W)) /\ Len(s) = Len(r) /\ s[c] = Append(r[c], v)
      /\ \A d \in 1 .. Len(r) : d # c => s[d] = r[d]
  <2>0. Len(r) \in Nat /\ r \in [1 .. Len(r) -> Seq(W)] /\ DOMAIN r = 1 .. Len(r)
    BY <1>4, LenProperties
  <2>1. PICK l : l = Len(r) /\ l \in Nat /\ r \in [1 .. l -> Seq(W)] /\ DOMAIN r = 1 .. l
    BY <2>0
  <2>2. s \in [1 .. l -> Seq(W)]
    BY <1>5, <1>6, <2>1
  <2>3. s \in Seq(Seq(W)) /\ Len(s) = l
    BY <1>4, <1>5, <1>6, <2>1, ExceptSeq
  <2> QED  BY <1>5, <2>1, <2>3
<1>8. FlattenSeq(s) = Append(inserted[t], v)
  <2>1. FlattenSeq(s) = Append(FlattenSeq(r), v)
    <3>1. Extended(r, s, c, v)
      BY <1>7 DEF Extended
    <3>2. r \in Seq(Seq(W)) /\ v \in W /\ s \in Seq(Seq(W))
      BY <1>4, <1>7
    <3> QED  BY ONLY <3>1, <3>2, FlatInsert
  <2> QED  BY <2>1
<1>9. /\ capacity'[t] = n /\ chunks'[t] = s /\ current'[t] = c
      /\ inserted'[t] = Append(inserted[t], v)
      /\ \A u \in C!Threads \ {t} :
           /\ capacity'[u] = capacity[u] /\ chunks'[u] = chunks[u] /\ current'[u] = current[u]
           /\ inserted'[u] = inserted[u]
  BY <1>1, <1>5
<1>10. ChunkTypes'
  <2>1. c \in Nat
    BY <1>4
  <2>2. capacity' \in [C!Threads -> Nat] /\ current' \in [C!Threads -> Nat]
    BY <1>1, <2>1
  <2>3. chunks' \in [C!Threads -> Seq(Seq(Values'))]
    <3>1. \A u \in C!Threads : chunks'[u] \in Seq(Seq(Values'))
      BY <1>1, <1>4, <1>7, <1>9
    <3>2. chunks' = [chunks EXCEPT ![t] = s]
      BY <1>5
    <3>3. chunks' = [u \in C!Threads |-> chunks'[u]]
      BY <1>1, <3>2
    <3> QED  BY <3>1, <3>3
  <2> QED  BY <1>1, <1>3, <2>2, <2>3 DEF ChunkTypes
<1>11. \A u \in C!Threads : TableInv(u)'
  <2>1. \A u \in C!Threads : TableInv(u)
    BY DEF ChunkInv
  <2>2. ASSUME NEW u \in C!Threads, u # t PROVE TableInv(u)'
    BY <1>9, <2>1, <2>2, TableFrame
  <2>3. TableInv(t)'
    <3>1. c \in Int /\ Len(r) \in Nat
      BY <1>4
    <3>2. \A d \in 1 .. Len(s) : Len(s[d]) <= ChunkTuples
      <4> SUFFICES ASSUME NEW d \in 1 .. Len(s) PROVE Len(s[d]) <= ChunkTuples
        OBVIOUS
      <4>1. CASE d = c
        BY <1>6, <1>7, <4>1, Params
      <4>2. CASE d < c
        <5>1. d \in 1 .. c - 1 /\ d # c /\ d \in 1 .. Len(r)
          BY <1>7, <3>1, <4>2
        <5> QED  BY <1>7, <5>1, Params
      <4>3. CASE d > c
        <5>1. d \in c + 1 .. Len(r) /\ d # c /\ d \in 1 .. Len(r)
          BY <1>7, <3>1, <4>3
        <5>2. s[d] = << >>
          BY <1>7, <5>1
        <5> QED  BY <5>2, Params
      <4> QED  BY <3>1, <4>1, <4>2, <4>3
    <3>3. \A d \in 1 .. c - 1 : Len(s[d]) = ChunkTuples
      <4>1. \A d \in 1 .. c - 1 : d \in 1 .. Len(r) /\ d # c
        BY <3>1
      <4> QED  BY <1>7, <4>1
    <3>4. \A d \in c + 1 .. Len(s) : s[d] = << >>
      <4>1. \A d \in c + 1 .. Len(s) : d \in 1 .. Len(r) /\ d # c
        BY <1>7, <3>1
      <4> QED  BY <1>7, <4>1
    <3>5. num_tuples[t] = 0
      BY <2>1 DEF TableInv
    <3>6. n # 0
      OBVIOUS
    <3> QED  BY <1>7, <1>8, <1>9, <3>2, <3>3, <3>4, <3>5, <3>6 DEF TableInv, C!num_chunks
  <2> QED  BY <2>2, <2>3
<1>12. ChunkResult'
  BY DEF ChunkInv, ChunkResult
<1> QED  BY <1>10, <1>11, <1>12 DEF ChunkInv

(* A tuple goes to the current chunk, which has room for it. *)
LEMMA ChunkInsert ==
  ASSUME ChunkInv, NEW t \in C!Threads, NEW v, C!Insert(t, v)
  PROVE  ChunkInv'
<1>1. PICK r, c, n : r = chunks[t] /\ c = current[t] /\ n = capacity[t]
  OBVIOUS
<1>2. /\ join_pc = "join" /\ n > 0 /\ t \notin closed /\ Len(r[c]) < ChunkTuples
      /\ chunks' = [chunks EXCEPT ![t][current[t]] = Append(@, v)]
      /\ inserted' = [inserted EXCEPT ![t] = Append(@, v)]
      /\ prealloc' = prealloc /\ capacity' = capacity /\ current' = current
      /\ num_tuples' = num_tuples /\ closed' = closed
      /\ result' = result /\ solid' = solid /\ join_pc' = join_pc
  BY <1>1 DEF C!Insert, C!Ready
<1>3. /\ capacity \in [C!Threads -> Nat] /\ current \in [C!Threads -> Nat]
      /\ chunks \in [C!Threads -> Seq(Seq(Values))]
  BY <1>2 DEF ChunkInv, ChunkTypes
<1>4. r \in Seq(Seq(Values)) /\ n \in Nat
  BY <1>1, <1>3
<1>5. /\ Len(r) <= n /\ c \in 1 .. Len(r)
      /\ \A d \in 1 .. c - 1 : Len(r[d]) = ChunkTuples
      /\ \A d \in c + 1 .. Len(r) : r[d] = << >>
      /\ FlattenSeq(r) = inserted[t]
  BY <1>1, <1>2 DEF ChunkInv, TableInv, C!num_chunks
<1>6. /\ capacity' = [capacity EXCEPT ![t] = n] /\ current' = [current EXCEPT ![t] = c]
      /\ chunks' = [chunks EXCEPT ![t] = [r EXCEPT ![c] = Append(@, v)]]
  BY <1>1, <1>2, <1>3
<1>7. capacity[t] > 0
  BY <1>1, <1>2
<1> QED  BY <1>2, <1>4, <1>5, <1>6, <1>7, ChunkInserted

(* A tuple goes to the next chunk, allocated before or now, as the current one is full. *)
LEMMA ChunkInsertNext ==
  ASSUME ChunkInv, NEW t \in C!Threads, NEW v, C!InsertNext(t, v)
  PROVE  ChunkInv'
<1>1. PICK s, b, m, r, n :
        /\ s = chunks[t] /\ b = current[t] /\ m = capacity[t]
        /\ r = (IF b = Len(s) THEN Append(s, << >>) ELSE s)
        /\ n = IF b = Len(s) THEN C!Grown(Len(s), m) ELSE m
  OBVIOUS
<1>2. /\ join_pc = "join" /\ m > 0 /\ t \notin closed /\ Len(s[b]) >= ChunkTuples
      /\ capacity' = [capacity EXCEPT ![t] = n]
      /\ chunks' = [chunks EXCEPT ![t] = [r EXCEPT ![b + 1] = Append(@, v)]]
      /\ current' = [current EXCEPT ![t] = @ + 1]
      /\ inserted' = [inserted EXCEPT ![t] = Append(@, v)]
      /\ prealloc' = prealloc
      /\ num_tuples' = num_tuples /\ closed' = closed
      /\ result' = result /\ solid' = solid /\ join_pc' = join_pc
  BY <1>1 DEF C!InsertNext, C!Ready, C!num_chunks
<1>3. /\ capacity \in [C!Threads -> Nat] /\ current \in [C!Threads -> Nat]
      /\ chunks \in [C!Threads -> Seq(Seq(Values))]
  BY <1>2 DEF ChunkInv, ChunkTypes
<1>4. s \in Seq(Seq(Values)) /\ m \in Nat /\ b \in Nat /\ Len(s) \in Nat
  BY <1>1, <1>3
<1>5. /\ Len(s) <= m /\ b \in 1 .. Len(s)
      /\ \A d \in 1 .. Len(s) : Len(s[d]) <= ChunkTuples
      /\ \A d \in 1 .. b - 1 : Len(s[d]) = ChunkTuples
      /\ \A d \in b + 1 .. Len(s) : s[d] = << >>
      /\ FlattenSeq(s) = inserted[t]
  BY <1>1, <1>2 DEF ChunkInv, TableInv, C!num_chunks
<1>6. PICK c : c = b + 1 /\ c \in Nat
  BY <1>4
<1>7. Len(s[b]) = ChunkTuples
  <2>1. s[b] \in Seq(Values)
    BY <1>4, <1>5
  <2> QED  BY <1>2, <1>5, <2>1, Params
<1>8. /\ r \in Seq(Seq(Values)) /\ c \in 1 .. Len(r) /\ Len(r) <= n /\ n \in Nat /\ n > 0
      /\ r[c] = << >> /\ \A d \in 1 .. b : r[d] = s[d]
      /\ \A d \in c + 1 .. Len(r) : r[d] = << >>
      /\ FlattenSeq(r) = inserted[t]
  <2>1. CASE b = Len(s)
    <3>1. r = Append(s, << >>) /\ << >> \in Seq(Values) /\ b = Len(s)
      BY <1>1, <2>1
    <3>2. /\ r \in Seq(Seq(Values)) /\ Len(r) = Len(s) + 1 /\ r[c] = << >>
          /\ \A d \in 1 .. b : r[d] = s[d]
      BY <1>4, <1>6, <3>1
    <3>3. n \in Nat /\ n > 0 /\ Len(s) + 1 <= n
      <4>1. n = IF Len(s) = m THEN m * 2 ELSE m
        BY <1>1, <2>1 DEF C!Grown
      <4> QED  BY <1>2, <1>4, <1>5, <4>1
    <3>4. FlattenSeq(r) = inserted[t]
      <4>1. FlattenSeq(r) = FlattenSeq(s) \o << >>
        BY <1>4, <3>1, FlatAppend
      <4>2. FlattenSeq(s) \in Seq(Values)
        BY <1>4, FlatType
      <4> QED  BY <1>5, <4>1, <4>2
    <3> QED  BY <1>4, <1>6, <3>1, <3>2, <3>3, <3>4
  <2>2. CASE b # Len(s)
    <3>1. r = s /\ n = m /\ b # Len(s)
      BY <1>1, <2>2
    <3> QED  BY <1>2, <1>4, <1>5, <1>6, <3>1
  <2> QED  BY <2>1, <2>2
<1>9. \A d \in 1 .. c - 1 : Len(r[d]) = ChunkTuples
  <2> SUFFICES ASSUME NEW d \in 1 .. c - 1 PROVE Len(r[d]) = ChunkTuples
    OBVIOUS
  <2>0. d \in 1 .. b
    BY ONLY <1>4, <1>6
  <2>1. d \in 1 .. b /\ r[d] = s[d]
    BY ONLY <1>8, <2>0
  <2>2. CASE d = b
    BY <1>7, <2>1, <2>2
  <2>3. CASE d # b
    <3>1. d \in 1 .. b - 1
      BY <1>4, <2>1, <2>3
    <3> QED  BY <1>5, <2>1, <3>1
  <2> QED  BY <2>2, <2>3
<1>10. Len(r[c]) < ChunkTuples
  BY <1>8, Params
<1>11. /\ current' = [current EXCEPT ![t] = c]
       /\ chunks' = [chunks EXCEPT ![t] = [r EXCEPT ![c] = Append(@, v)]]
       /\ capacity[t] > 0
  BY <1>1, <1>2, <1>6
<1> QED  BY <1>2, <1>5, <1>8, <1>9, <1>10, <1>11, ChunkInserted

(* A thread finishes its table: its number of tuples is that of its chunks. *)
LEMMA ChunkFinish ==
  ASSUME ChunkInv, NEW t \in C!Threads, C!Finish(t)
  PROVE  ChunkInv'
<1>1. /\ join_pc = "join" /\ capacity[t] > 0 /\ t \notin closed
      /\ num_tuples' = [num_tuples EXCEPT ![t] = @ + C!TuplesIn(chunks[t])]
      /\ closed' = closed \cup {t}
      /\ prealloc' = prealloc /\ capacity' = capacity /\ chunks' = chunks /\ current' = current
      /\ result' = result /\ solid' = solid /\ inserted' = inserted /\ join_pc' = join_pc
  BY DEF C!Finish, C!Ready
<1>2. /\ capacity \in [C!Threads -> Nat] /\ current \in [C!Threads -> Nat]
      /\ num_tuples \in [C!Threads -> Nat] /\ closed \in SUBSET C!Threads
      /\ inserted \in [C!Threads -> Seq(Values)]
      /\ chunks \in [C!Threads -> Seq(Seq(Values))]
  BY <1>1 DEF ChunkInv, ChunkTypes
<1>3. \A u \in C!Threads : TableInv(u)
  BY <1>1 DEF ChunkInv
<1>4. PICK s : s = chunks[t] /\ s \in Seq(Seq(Values)) /\ FlattenSeq(s) = inserted[t]
  BY <1>2, <1>3 DEF TableInv
<1>5. C!TuplesIn(chunks[t]) = Len(inserted[t])
  <2>1. PICK f : f = [n \in 1 .. Len(s) |-> Len(s[n])]
    OBVIOUS
  <2>2. \A n \in 1 .. Len(s) : f[n] = Len(s[n])
    BY <2>1
  <2>3. FoldLeft(LAMBDA n, c : n + Len(c), 0, s) = SumFunctionOnSet(f, 1 .. Len(s))
    BY <1>4, <2>2, FoldLens
  <2>4. Len(FlattenSeq(s)) = SumFunctionOnSet(f, 1 .. Len(s))
    BY <1>4, <2>2, FlatLen
  <2>5. C!TuplesIn(s) = FoldLeft(LAMBDA n, c : n + Len(c), 0, s)
    BY SameFlat
  <2> QED  BY <1>4, <2>3, <2>4, <2>5
<1>6. Len(inserted[t]) \in Nat /\ num_tuples[t] = 0
  BY <1>1, <1>2, <1>3 DEF TableInv
<1>7. num_tuples' = [num_tuples EXCEPT ![t] = Len(inserted[t])]
  BY <1>1, <1>5, <1>6
<1>8. ChunkTypes'
  <2>1. num_tuples' \in [C!Threads -> Nat] /\ closed' \in SUBSET C!Threads
    BY <1>1, <1>2, <1>6, <1>7
  <2> QED  BY <1>1, <1>2, <2>1 DEF ChunkInv, ChunkTypes, Values
<1>9. \A u \in C!Threads : TableInv(u)'
  <2>1. ASSUME NEW u \in C!Threads, u # t PROVE TableInv(u)'
    <3>1. num_tuples'[u] = num_tuples[u] /\ (u \in closed' <=> u \in closed)
      BY <1>1, <1>2, <1>7, <2>1
    <3> QED  BY <1>1, <1>3, <3>1, TableFrame
  <2>2. TableInv(t)'
    <3>1. num_tuples'[t] = Len(inserted[t]) /\ t \in closed'
      BY <1>1, <1>2, <1>7
    <3>2. capacity[t] # 0
      BY <1>1
    <3> QED  BY <1>1, <1>3, <3>1, <3>2 DEF TableInv, C!num_chunks
  <2> QED  BY <2>1, <2>2
<1>10. ChunkResult'
  BY <1>1 DEF ChunkInv, ChunkResult
<1> QED  BY <1>1, <1>8, <1>9, <1>10 DEF ChunkInv

(* Steps of the main thread leave the tables alone. *)
LEMMA MainSteps ==
  ASSUME ChunkInv, join_pc # "idle", ChunkResult', join_pc' \in {"concatenated", "done"},
         prealloc' = prealloc, capacity' = capacity, chunks' = chunks, current' = current,
         num_tuples' = num_tuples, closed' = closed, inserted' = inserted
  PROVE  ChunkInv'
<1>1. ChunkTypes'
  BY DEF ChunkInv, ChunkTypes, Values
<1>2. \A u \in C!Threads : TableInv(u)'
  BY TableFrame DEF ChunkInv
<1> QED  BY <1>1, <1>2 DEF ChunkInv

(* Main concatenates the tables once all are finished. *)
LEMMA ChunkConcatenate == ChunkInv /\ C!Concatenate => ChunkInv'
<1> SUFFICES ASSUME ChunkInv, C!Concatenate PROVE ChunkInv'
  OBVIOUS
<1>1. ChunkResult'
  BY SameFlat DEF C!Concatenate, ChunkInv, ChunkResult
<1> QED  BY <1>1, MainSteps DEF C!Concatenate

(* Main copies the list of chunks to an array. *)
LEMMA ChunkToSolid == ChunkInv /\ C!ToSolid => ChunkInv'
<1> SUFFICES ASSUME ChunkInv, C!ToSolid PROVE ChunkInv'
  OBVIOUS
<1>1. ChunkResult'
  BY SameFlat DEF C!ToSolid, ChunkInv, ChunkResult
<1> QED  BY <1>1, MainSteps DEF C!ToSolid

(* The result of the join has been used. *)
LEMMA ChunkConsumed == ChunkInv /\ C!Consumed => ChunkInv'
<1> SUFFICES ASSUME ChunkInv, C!Consumed PROVE ChunkInv'
  OBVIOUS
<1>1. ChunkResult'
  BY DEF C!Consumed, ChunkInv, ChunkResult
<1> QED  BY <1>1, MainSteps DEF C!Consumed

(* The invariant of the tables depends on their variables alone. *)
LEMMA ChunkStutter == ChunkInv /\ UNCHANGED chunkVars => ChunkInv'
<1> SUFFICES ASSUME ChunkInv, UNCHANGED chunkVars PROVE ChunkInv'
  OBVIOUS
<1>1. /\ prealloc' = prealloc /\ capacity' = capacity /\ chunks' = chunks /\ current' = current
      /\ num_tuples' = num_tuples /\ closed' = closed /\ inserted' = inserted
      /\ result' = result /\ solid' = solid /\ join_pc' = join_pc
  BY DEF chunkVars
<1>2. ChunkTypes'
  BY <1>1 DEF ChunkInv, ChunkTypes, Values
<1>3. join_pc # "idle" => \A u \in C!Threads : TableInv(u)'
  BY <1>1, TableFrame DEF ChunkInv
<1>4. ChunkResult'
  BY <1>1 DEF ChunkInv, ChunkResult
<1> QED  BY <1>1, <1>2, <1>3, <1>4 DEF ChunkInv

(* What the invariant says of the tables, and of what is made of them. *)
LEMMA ChunkSafe == ChunkInv => C!InBounds /\ C!FilledInOrder
<1> SUFFICES ASSUME ChunkInv PROVE C!InBounds /\ C!FilledInOrder
  OBVIOUS
<1>1. CASE join_pc = "idle"
  <2>1. DOMAIN capacity = {}
    BY <1>1 DEF ChunkInv, ChunkTypes
  <2> QED  BY <2>1 DEF C!InBounds, C!FilledInOrder
<1>2. CASE join_pc # "idle"
  <2>1. DOMAIN capacity = C!Threads /\ \A t \in C!Threads : TableInv(t)
    BY <1>2 DEF ChunkInv, ChunkTypes
  <2>2. C!InBounds
    BY <2>1 DEF C!InBounds, TableInv
  <2>3. C!FilledInOrder
    BY <2>1, SameFlat DEF C!FilledInOrder, TableInv
  <2> QED  BY <2>2, <2>3
<1> QED  BY <1>1, <1>2

(* The list and the array are what the threads inserted, and no more. *)
LEMMA ChunkComplete == ChunkInv => ResultComplete
<1> SUFFICES ASSUME ChunkInv, join_pc \in {"concatenated", "done"}
             PROVE  /\ FlattenSeq(result) = FlattenSeq(inserted)
                    /\ Len(FlattenSeq(result)) = C!TotalTuples
                    /\ solid \in {<< >>, FlattenSeq(result)}
  BY SameFlat DEF ResultComplete, C!ResultComplete
<1>1. /\ num_tuples \in [C!Threads -> Nat] /\ closed = C!Threads
      /\ inserted \in [C!Threads -> Seq(Values)]
      /\ chunks \in [C!Threads -> Seq(Seq(Values))]
      /\ result = FlattenSeq(chunks)
      /\ solid \in {<< >>, FlattenSeq(result)}
      /\ \A t \in C!Threads : TableInv(t)
  BY DEF ChunkInv, ChunkTypes, ChunkResult
<1>2. C!Threads = 1 .. NThreads /\ NThreads \in Nat
  BY Params DEF C!Threads
<1>3. chunks \in Seq(Seq(Seq(Values))) /\ inserted \in Seq(Seq(Values))
      /\ Len(chunks) = NThreads /\ Len(inserted) = NThreads
  BY <1>1, <1>2
<1>4. \A t \in 1 .. NThreads :
        inserted[t] = FlattenSeq(chunks[t]) /\ num_tuples[t] = Len(inserted[t])
  BY <1>1, <1>2 DEF TableInv
<1>5. FlattenSeq(result) = FlattenSeq(inserted)
  <2>1. PICK V, s, r : V = Values /\ s = chunks /\ r = inserted
    OBVIOUS
  <2>2. /\ s \in Seq(Seq(Seq(V))) /\ r \in Seq(Seq(V)) /\ Len(r) = Len(s)
        /\ \A n \in 1 .. Len(s) : r[n] = FlattenSeq(s[n])
    BY <1>3, <1>4, <2>1
  <2>3. FlattenSeq(FlattenSeq(s)) = FlattenSeq(r)
    BY ONLY <2>2, FlatFlat
  <2> QED  BY <1>1, <2>1, <2>3
<1>6. Len(FlattenSeq(inserted)) = C!TotalTuples
  <2>1. PICK f : f = num_tuples
    OBVIOUS
  <2>2. DOMAIN f = 1 .. NThreads /\ \A n \in 1 .. NThreads : f[n] \in Nat /\ f[n] = Len(inserted[n])
    BY <1>1, <1>2, <1>4, <2>1
  <2>3. FoldLeft(LAMBDA n, k : n + k, 0, f) = SumFunctionOnSet(f, 1 .. NThreads)
    BY <1>2, <2>2, FoldNumbers
  <2>4. Len(FlattenSeq(inserted)) = SumFunctionOnSet(f, 1 .. Len(inserted))
    BY <1>3, <2>2, FlatLen
  <2> QED  BY <1>3, <2>1, <2>3, <2>4, SameFlat
<1> QED  BY <1>1, <1>5, <1>6

(* A concatenated table has a chunk for each thread. *)
LEMMA ChunkEnough ==
  ASSUME ChunkInv, join_pc = "concatenated", C!Threads # {}
  PROVE  /\ result \in Seq(Seq(Values)) /\ Len(result) \in Nat /\ Len(result) >= NThreads
<1>1. /\ chunks \in [C!Threads -> Seq(Seq(Values))] /\ closed = C!Threads
      /\ result = FlattenSeq(chunks)
      /\ capacity \in [C!Threads -> Nat]
      /\ \A t \in C!Threads : TableInv(t)
  BY DEF ChunkInv, ChunkTypes, ChunkResult
<1>2. C!Threads = 1 .. NThreads /\ NThreads \in Nat
  BY Params DEF C!Threads
<1>3. chunks \in Seq(Seq(Seq(Values))) /\ Len(chunks) = NThreads
  BY <1>1, <1>2
<1>4. result \in Seq(Seq(Values)) /\ Len(result) \in Nat
  <2>1. result \in Seq(Seq(Values))
    BY <1>1, <1>3, FlatType
  <2> QED  BY <2>1
<1>5. PICK f : f = [t \in 1 .. NThreads |-> Len(chunks[t])]
  OBVIOUS
<1>6. \A t \in 1 .. NThreads : f[t] = Len(chunks[t]) /\ f[t] \in Nat /\ f[t] >= 1
  <2> SUFFICES ASSUME NEW t \in 1 .. NThreads
               PROVE  f[t] = Len(chunks[t]) /\ f[t] \in Nat /\ f[t] >= 1
    OBVIOUS
  <2>1. f[t] = Len(chunks[t]) /\ f[t] \in Nat
    BY <1>1, <1>2, <1>5
  <2>2. TableInv(t) /\ capacity[t] \in Nat /\ t \in closed
    BY <1>1, <1>2
  <2>3. current[t] \in 1 .. Len(chunks[t])
    BY <2>2 DEF TableInv, C!num_chunks
  <2> QED  BY <2>1, <2>3
<1>7. Len(result) = SumFunctionOnSet(f, 1 .. NThreads)
  BY <1>1, <1>3, <1>6, FlatLen
<1>8. \A n \in Nat : n <= NThreads =>
        SumFunctionOnSet(f, 1 .. n) \in Nat /\ SumFunctionOnSet(f, 1 .. n) >= n
  <2> DEFINE P(n) == n <= NThreads =>
                       SumFunctionOnSet(f, 1 .. n) \in Nat /\ SumFunctionOnSet(f, 1 .. n) >= n
             N == {n \in Nat : P(n)}
  <2>1. P(0)
    <3>1. 1 .. 0 = {}
      OBVIOUS
    <3> QED  BY <3>1, SumEmpty
  <2>2. ASSUME NEW n \in Nat, P(n) PROVE P(n + 1)
    <3> SUFFICES ASSUME n + 1 <= NThreads
                 PROVE  /\ SumFunctionOnSet(f, 1 .. n + 1) \in Nat
                        /\ SumFunctionOnSet(f, 1 .. n + 1) >= n + 1
      OBVIOUS
    <3>1. IsFiniteSet(1 .. n) /\ n + 1 \notin 1 .. n /\ 1 .. n + 1 = (1 .. n) \cup {n + 1}
      <4>1. IsFiniteSet(1 .. n)
        BY FS_Interval
      <4>2. n + 1 \notin 1 .. n /\ 1 .. n + 1 = (1 .. n) \cup {n + 1}
        OBVIOUS
      <4> QED  BY <4>1, <4>2
    <3>2. \A x \in (1 .. n) \cup {n + 1} : x \in 1 .. NThreads
      BY <1>2
    <3>3. \A x \in (1 .. n) \cup {n + 1} : f[x] \in Nat
      BY <1>6, <3>2
    <3>4. SumFunctionOnSet(f, (1 .. n) \cup {n + 1}) = f[n + 1] + SumFunctionOnSet(f, 1 .. n)
      BY ONLY <3>1, <3>3, SumAdd
    <3>5. SumFunctionOnSet(f, 1 .. n) \in Nat /\ SumFunctionOnSet(f, 1 .. n) >= n
      BY <1>2, <2>2
    <3>6. f[n + 1] \in Nat /\ f[n + 1] >= 1
      BY <1>6, <3>2
    <3>7. PICK p, q, k : /\ p = SumFunctionOnSet(f, 1 .. n) /\ q = SumFunctionOnSet(f, 1 .. n + 1)
                         /\ k = f[n + 1]
      OBVIOUS
    <3>8. q = k + p
      BY <3>1, <3>4, <3>7
    <3> QED  BY <3>5, <3>6, <3>7, <3>8
  <2> HIDE DEF P
  <2>3. \A n \in Nat : n \in N <=> P(n)
    OBVIOUS
  <2> HIDE DEF N
  <2>4. Nat \subseteq N
    <3>1. 0 \in N
      BY <2>1, <2>3
    <3>2. ASSUME NEW n \in Nat, n \in N PROVE n + 1 \in N
      <4>1. n + 1 \in Nat /\ P(n + 1)
        BY <2>2, <2>3, <3>2
      <4> QED  BY <2>3, <4>1
    <3> QED  BY <3>1, <3>2, Induction
  <2>5. \A n \in Nat : P(n)
    BY <2>3, <2>4
  <2> QED  BY <2>5 DEF P
<1> QED  BY <1>2, <1>4, <1>7, <1>8

-----------------------------------------------------------------------------
(* The chunked filter of query 19.                                         *)

(* The chunked filter starts with a chunk for each thread. *)
LEMMA CountInit == K!Init => CountInv
<1>1. K!Threads = 0 .. NThreads - 1 /\ NThreads \in Nat
  BY Params DEF K!Threads
<1> QED  BY <1>1 DEF K!Init, K!FirstChunk, CountInv, CountTypes

(* The invariant gives the properties the chunked filter is checked for. *)
LEMMA CountSafe == CountInv => K!TypeOK /\ K!ChunksOnce
<1> SUFFICES ASSUME CountInv PROVE K!TypeOK /\ K!ChunksOnce
  OBVIOUS
<1>1. K!TypeOK
  <2>1. scanned \in [DOMAIN counts -> Nat]
    BY DEF CountInv, CountTypes
  <2>2. \A t \in K!Threads : matches[t] \in Nat
    BY DEF CountInv, CountTypes
  <2> QED  BY <2>1, <2>2 DEF CountInv, CountTypes, K!TypeOK
<1>2. K!ChunksOnce
  BY DEF CountInv, CountTypes, K!ChunksOnce
<1> QED  BY <1>1, <1>2

(* Main calls the filter with a chunk for each thread at least. *)
LEMMA CountCall ==
  ASSUME CountInv, NEW n \in Nat, n >= NThreads, NEW f \in [0 .. n - 1 -> Nat], K!Call(f)
  PROVE  CountInv'
<1>1. K!Threads = 0 .. NThreads - 1 /\ NThreads \in Nat /\ NThreads > 0
  BY Params DEF K!Threads
<1>2. /\ \A t \in K!Threads : count_pc[t] = "idle"
      /\ counts' = f /\ scanned' = [c \in 0 .. n - 1 |-> 0]
      /\ count_pc' = [t \in K!Threads |-> "scan"]
      /\ next_chunk' = next_chunk /\ chunk_id' = chunk_id /\ matches' = matches
  BY DEF K!Call
<1>3. DOMAIN counts' = 0 .. n - 1
  BY <1>2
<1>4. CountTypes'
  BY <1>2, <1>3 DEF CountInv, CountTypes
<1>5. \A t \in K!Threads : chunk_id'[t] \in 0 .. n - 1
  <2>1. 0 \in K!Threads /\ ~ (\A t \in K!Threads : count_pc[t] # "idle")
    <3>1. 0 \in K!Threads
      BY <1>1
    <3> QED  BY <1>2, <3>1
  <2>2. \A t \in K!Threads : chunk_id[t] = t
    BY <2>1 DEF CountInv
  <2> QED  BY <1>1, <1>2, <2>2
<1>6. \A t \in K!Threads : count_pc'[t] # "idle"
  BY <1>2
<1> QED  BY <1>2, <1>3, <1>4, <1>5, <1>6 DEF CountInv

(* A thread scans the chunk it has, which nobody else has. *)
LEMMA CountScan ==
  ASSUME CountInv, NEW t \in K!Threads, K!ScanChunk(t)
  PROVE  CountInv'
<1>1. PICK c : c = chunk_id[t] /\ c \in DOMAIN counts /\ scanned[c] = 0 /\ c < next_chunk
  BY DEF K!ScanChunk, CountInv
<1>2. /\ CountTypes
      /\ \A u \in K!Threads : chunk_id[u] < next_chunk
      /\ \A u, w \in K!Threads : u # w => chunk_id[u] # chunk_id[w]
      /\ \A d \in DOMAIN counts : d >= next_chunk => scanned[d] = 0
      /\ \A u \in K!Threads : count_pc[u] = "scan" =>
           chunk_id[u] \in DOMAIN counts /\ scanned[chunk_id[u]] = 0
  BY DEF CountInv
<1>3. /\ count_pc[t] = "scan"
      /\ matches' = [matches EXCEPT ![t] = @ + counts[c]]
      /\ scanned' = [scanned EXCEPT ![c] = @ + 1]
      /\ count_pc' = [count_pc EXCEPT ![t] = "take"]
      /\ counts' = counts /\ next_chunk' = next_chunk /\ chunk_id' = chunk_id
  BY <1>1 DEF K!ScanChunk
<1>4. /\ matches[t] \in Nat /\ counts[c] \in Nat
  BY <1>1, <1>2 DEF CountTypes
<1>5. scanned' = [scanned EXCEPT ![c] = 1]
  BY <1>1, <1>3
<1>6. CountTypes'
  <2>1. matches' \in [K!Threads -> Nat]
    BY <1>2, <1>3, <1>4 DEF CountTypes
  <2>2. scanned' \in [DOMAIN counts -> 0 .. 1]
    <3>1. scanned \in [DOMAIN counts -> 0 .. 1] /\ 1 \in 0 .. 1
      BY <1>2 DEF CountTypes
    <3> QED  BY <1>5, <3>1
  <2> QED  BY <1>2, <1>3, <2>1, <2>2 DEF CountTypes
<1>7. /\ \A d \in DOMAIN counts : d # c => scanned'[d] = scanned[d]
      /\ count_pc'[t] = "take"
      /\ \A u \in K!Threads : u # t => count_pc'[u] = count_pc[u]
  BY <1>2, <1>3, <1>5 DEF CountTypes
<1>8. \A d \in DOMAIN counts : d >= next_chunk => scanned'[d] = 0
  <2> SUFFICES ASSUME NEW d \in DOMAIN counts, d >= next_chunk PROVE scanned'[d] = 0
    OBVIOUS
  <2>1. d # c
    <3>1. next_chunk \in Nat /\ c \in Nat
      BY <1>1, <1>2 DEF CountTypes
    <3> SUFFICES ASSUME d = c PROVE FALSE
      OBVIOUS
    <3> QED  BY <1>1, <3>1
  <2> QED  BY <1>2, <1>7, <2>1
<1>9. \A u \in K!Threads : count_pc'[u] = "scan" =>
        chunk_id[u] \in DOMAIN counts /\ scanned'[chunk_id[u]] = 0
  <2> SUFFICES ASSUME NEW u \in K!Threads, count_pc'[u] = "scan"
               PROVE  chunk_id[u] \in DOMAIN counts /\ scanned'[chunk_id[u]] = 0
    OBVIOUS
  <2>1. u # t /\ count_pc[u] = "scan"
    BY <1>7
  <2>2. chunk_id[u] # c
    BY <1>1, <1>2, <2>1
  <2> QED  BY <1>2, <1>7, <2>1, <2>2
<1>10. \/ /\ \A u \in K!Threads : count_pc'[u] = "idle" /\ chunk_id'[u] = u
          /\ DOMAIN counts' = {}
       \/ /\ \A u \in K!Threads : count_pc'[u] # "idle"
          /\ \E n \in Nat : n >= NThreads /\ DOMAIN counts' = 0 .. n - 1
  <2>1. DOMAIN counts # {}
    BY <1>1
  <2>2. /\ \A u \in K!Threads : count_pc[u] # "idle"
        /\ \E n \in Nat : n >= NThreads /\ DOMAIN counts = 0 .. n - 1
    BY <2>1 DEF CountInv
  <2>3. \A u \in K!Threads : count_pc'[u] # "idle"
    BY <1>7, <2>2
  <2> QED  BY <1>3, <2>2, <2>3
<1> QED  BY <1>2, <1>3, <1>6, <1>8, <1>9, <1>10 DEF CountInv

(* Cardinalities, in the chunked filter and in the library. *)
LEMMA SameCount == \A S : K!Cardinality(S) = Cardinality(S)
BY DEF K!Cardinality, Cardinality

(* A thread takes the chunk at the shared counter, and no other thread has it. *)
LEMMA CountTake ==
  ASSUME CountInv, NEW t \in K!Threads, K!TakeChunk(t)
  PROVE  CountInv'
<1>1. /\ count_pc[t] = "take"
      /\ chunk_id' = [chunk_id EXCEPT ![t] = next_chunk]
      /\ next_chunk' = next_chunk + 1
      /\ count_pc' = [count_pc EXCEPT ![t] = IF next_chunk < K!num_chunks THEN "scan" ELSE "done"]
      /\ counts' = counts /\ matches' = matches /\ scanned' = scanned
  BY DEF K!TakeChunk
<1>2. /\ CountTypes
      /\ \A u \in K!Threads : chunk_id[u] < next_chunk
      /\ \A u, w \in K!Threads : u # w => chunk_id[u] # chunk_id[w]
      /\ \A d \in DOMAIN counts : d >= next_chunk => scanned[d] = 0
      /\ \A u \in K!Threads : count_pc[u] = "scan" =>
           chunk_id[u] \in DOMAIN counts /\ scanned[chunk_id[u]] = 0
  BY DEF CountInv
<1>3. /\ \A u \in K!Threads : count_pc[u] # "idle"
      /\ \E n \in Nat : n >= NThreads /\ DOMAIN counts = 0 .. n - 1
  BY <1>1 DEF CountInv
<1>4. PICK n \in Nat : n >= NThreads /\ DOMAIN counts = 0 .. n - 1
  BY <1>3
<1>5. K!num_chunks = n
  <2>1. Cardinality(0 .. n - 1) = n
    <3>1. 0 \in Int /\ n - 1 \in Int
      OBVIOUS
    <3>2. Cardinality(0 .. n - 1) = IF 0 > n - 1 THEN 0 ELSE (n - 1) - 0 + 1
      BY ONLY <3>1, FS_Interval
    <3> QED  BY <3>2
  <2> QED  BY <1>4, <2>1, SameCount DEF K!num_chunks
<1>6. /\ next_chunk \in Nat /\ next_chunk >= NThreads /\ NThreads \in Nat
      /\ chunk_id \in [K!Threads -> Nat]
      /\ count_pc \in [K!Threads -> {"idle", "scan", "take", "done"}]
  BY <1>2, Params DEF CountTypes
<1>7. /\ chunk_id'[t] = next_chunk
      /\ \A u \in K!Threads : u # t => chunk_id'[u] = chunk_id[u] /\ count_pc'[u] = count_pc[u]
      /\ count_pc'[t] \in {"scan", "done"} /\ (count_pc'[t] = "scan" => next_chunk < n)
  BY <1>1, <1>5, <1>6
<1>8. CountTypes'
  <2>1. next_chunk' \in Nat /\ next_chunk' >= NThreads /\ chunk_id' \in [K!Threads -> Nat]
    BY <1>1, <1>6
  <2>2. count_pc' \in [K!Threads -> {"idle", "scan", "take", "done"}]
    BY <1>1, <1>6
  <2> QED  BY <1>1, <1>2, <2>1, <2>2 DEF CountTypes
<1>9. \A u \in K!Threads : chunk_id'[u] < next_chunk'
  <2> SUFFICES ASSUME NEW u \in K!Threads PROVE chunk_id'[u] < next_chunk'
    OBVIOUS
  <2>1. CASE u = t
    BY <1>1, <1>6, <1>7, <2>1
  <2>2. CASE u # t
    BY <1>1, <1>2, <1>6, <1>7, <2>2
  <2> QED  BY <2>1, <2>2
<1>10. \A u, w \in K!Threads : u # w => chunk_id'[u] # chunk_id'[w]
  <2>1. \A u \in K!Threads : chunk_id[u] # next_chunk
    BY <1>2, <1>6
  <2> QED  BY <1>2, <1>7, <2>1
<1>11. \A d \in DOMAIN counts : d >= next_chunk' => scanned[d] = 0
  BY <1>1, <1>2, <1>4, <1>6
<1>12. \A u \in K!Threads : count_pc'[u] = "scan" =>
         chunk_id'[u] \in DOMAIN counts /\ scanned[chunk_id'[u]] = 0
  <2> SUFFICES ASSUME NEW u \in K!Threads, count_pc'[u] = "scan"
               PROVE  chunk_id'[u] \in DOMAIN counts /\ scanned[chunk_id'[u]] = 0
    OBVIOUS
  <2>1. CASE u = t
    <3>1. next_chunk \in DOMAIN counts
      BY <1>4, <1>6, <1>7, <2>1
    <3> QED  BY <1>2, <1>6, <1>7, <2>1, <3>1
  <2>2. CASE u # t
    BY <1>2, <1>7, <2>2
  <2> QED  BY <2>1, <2>2
<1>13. \A u \in K!Threads : count_pc'[u] # "idle"
  BY <1>3, <1>7
<1> QED  BY <1>1, <1>3, <1>8, <1>9, <1>10, <1>11, <1>12, <1>13 DEF CountInv

(* Main adds the matches, after the threads. *)
LEMMA CountCollect == CountInv /\ K!Collect => CountInv'
BY DEF K!Collect, CountInv, CountTypes

(* The invariant of the chunked filter depends on its variables alone. *)
LEMMA CountStutter == CountInv /\ UNCHANGED countVars => CountInv'
BY DEF countVars, CountInv, CountTypes

(* Every step of the chunked filter keeps its invariant. *)
LEMMA CountStepKeeps == CountInv /\ K!Step => CountInv'
BY CountScan, CountTake, CountCollect DEF K!Step

-----------------------------------------------------------------------------
(* The queries.                                                            *)

(* The plans of the queries. *)
LEMMA Plans ==
  /\ DOMAIN Plan = {"q3", "q10", "q12", "q19"}
  /\ Plan["q3"] = tpch_q3 /\ Plan["q10"] = tpch_q10 /\ Plan["q12"] = tpch_q12
  /\ Plan["q19"] = tpch_q19
BY DEF Plan

(* No plan ends with a filter, a join that is read later, or a copy. *)
LEMMA PlanNext ==
  ASSUME NEW q \in DOMAIN Plan, NEW s \in DOMAIN Plan[q]
  PROVE  /\ s \in Nat \ {0} /\ 1 \in DOMAIN Plan[q]
         /\ Plan[q][s].op \in {"filter", "join", "copy"} => s + 1 \in DOMAIN Plan[q]
<1>1. CASE q = "q3"
  BY <1>1, Plans DEF tpch_q3, Filter, Join, Copy, FinalJoin
<1>2. CASE q = "q10"
  BY <1>2, Plans DEF tpch_q10, Filter, Join, Copy, FinalJoin
<1>3. CASE q = "q12"
  BY <1>3, Plans DEF tpch_q12, Filter, FinalJoin
<1>4. CASE q = "q19"
  BY <1>4, Plans DEF tpch_q19, Filter, Join, Count
<1> QED  BY <1>1, <1>2, <1>3, <1>4, Plans

(* The right operand of a materialised join has been made before. *)
LEMMA JoinReady ==
  ASSUME NEW q \in DOMAIN Plan, NEW s \in DOMAIN Plan[q], Plan[q][s].op = "join"
  PROVE  \E i \in 1 .. s - 1 : Kept(q, i, s) /\ Plan[q][i].into = Plan[q][s].S
<1>1. CASE q = "q3"
  <2>1. s = 3
    BY <1>1, Plans DEF tpch_q3, Filter, Join, Copy, FinalJoin
  <2>2. Plan[q][2] = Filter("q3_orders", "o") /\ Plan[q][3] = Join("c", "o")
    BY <1>1, Plans DEF tpch_q3
  <2>3. Kept(q, 2, 3) /\ Plan[q][2].into = Plan[q][3].S
    BY <2>2 DEF Kept, Filter, Join
  <2> QED  BY <2>1, <2>3
<1>2. CASE q = "q10"
  <2>1. s = 2 \/ s = 4
    BY <1>2, Plans DEF tpch_q10, Filter, Join, Copy, FinalJoin
  <2>2. /\ Plan[q][1] = Filter("q10_orders", "o") /\ Plan[q][2] = Join("customer", "o")
        /\ Plan[q][3] = Copy("copy_RpToKeySp", "u") /\ Plan[q][4] = Join("nation", "u")
    BY <1>2, Plans DEF tpch_q10
  <2>3. /\ Kept(q, 1, 2) /\ Plan[q][1].into = Plan[q][2].S
        /\ Kept(q, 3, 4) /\ Plan[q][3].into = Plan[q][4].S
    BY <2>2 DEF Kept, Filter, Join, Copy
  <2> QED  BY <2>1, <2>3
<1>3. CASE q = "q12"
  BY <1>3, Plans DEF tpch_q12, Filter, FinalJoin
<1>4. CASE q = "q19"
  <2>1. s = 3
    BY <1>4, Plans DEF tpch_q19, Filter, Join, Count
  <2>2. Plan[q][2] = Filter("q19_lineitem", "l") /\ Plan[q][3] = Join("p", "l")
    BY <1>4, Plans DEF tpch_q19
  <2>3. Kept(q, 2, 3) /\ Plan[q][2].into = Plan[q][3].S
    BY <2>2 DEF Kept, Filter, Join
  <2> QED  BY <2>1, <2>3
<1> QED  BY <1>1, <1>2, <1>3, <1>4, Plans

(* A function on the first numbers is a sequence. *)
LEMMA AnySeq ==
  ASSUME NEW n \in Nat, NEW f, DOMAIN f = 1 .. n, f = [k \in 1 .. n |-> f[k]]
  PROVE  f \in Seq(Range(f)) /\ Len(f) = n
<1>1. f \in [1 .. n -> Range(f)]
  BY DEF Range
<1> QED  BY <1>1

(* While the query runs, it is at a step of its plan. *)
LEMMA Running ==
  ASSUME PlanInv, outcome = "running"
  PROVE  /\ query \in DOMAIN Plan /\ step \in DOMAIN Plan[query] /\ step \in Nat \ {0}
         /\ Now = Plan[query][step]
         /\ Now.op \in {"filter", "join", "copy"} => step + 1 \in DOMAIN Plan[query]
<1>1. query \in DOMAIN Plan /\ step \in DOMAIN Plan[query]
  BY DatabasesAssumption DEF PlanInv
<1> QED  BY <1>1, PlanNext DEF Now

(* A step that stays at its place in the plan keeps the place. *)
LEMMA PlanFixed ==
  ASSUME PlanInv, query' = query, db' = db, step' = step,
         outcome' = outcome \/ outcome' # "running"
  PROVE  PlanInv'
BY DEF PlanInv

(* After a filter, a materialised join or a copy there is a next step. *)
LEMMA PlanProceeds ==
  ASSUME PlanInv, outcome = "running", Now.op \in {"filter", "join", "copy"}, Proceed
  PROVE  PlanInv'
BY Running DEF PlanInv, Proceed

(* A step that makes and frees no table keeps the tables. *)
LEMMA TablesFixed ==
  ASSUME TablesInv, query' = query, kind' = kind, step' = step, tables' = tables,
         outcome' = outcome
  PROVE  TablesInv'
BY DEF TablesInv, Kept

(* A filter or a copy adds its result. *)
LEMMA TablesMade ==
  ASSUME PlanInv, TablesInv, outcome = "running", Now.op \in {"filter", "copy"}, Proceed,
         NEW rows, rows \in Seq(Range(rows)), tables' = With(Now.into, rows)
  PROVE  TablesInv'
<1> SUFFICES ASSUME kind \in {"chunked", "empty"}
             PROVE  /\ \A n \in DOMAIN tables' : tables'[n] \in Seq(Range(tables'[n]))
                    /\ \A i \in 1 .. step' - 1 : Kept(query, i, step') =>
                         Plan[query][i].into \in DOMAIN tables'
  BY DEF TablesInv, Proceed, Kept
<1>1. /\ step \in Nat \ {0} /\ Now = Plan[query][step] /\ step' = step + 1
  BY Running DEF Proceed
<1>2. /\ DOMAIN tables' = DOMAIN tables \cup {Now.into}
      /\ \A n \in DOMAIN tables' : tables'[n] = IF n = Now.into THEN rows ELSE tables[n]
  BY DEF With
<1>3. ASSUME NEW n \in DOMAIN tables' PROVE tables'[n] \in Seq(Range(tables'[n]))
  <2>1. CASE n = Now.into
    BY <1>2, <2>1
  <2>2. CASE n # Now.into
    <3>1. n \in DOMAIN tables /\ tables'[n] = tables[n]
      BY <1>2, <2>2
    <3> QED  BY <3>1 DEF TablesInv
  <2> QED  BY <2>1, <2>2
<1>4. ASSUME NEW i \in 1 .. step' - 1, Kept(query, i, step')
      PROVE  Plan[query][i].into \in DOMAIN tables'
  <2>1. CASE i = step
    BY <1>1, <1>2, <2>1
  <2>2. CASE i # step
    <3>1. i \in 1 .. step - 1
      BY <1>1, <2>2
    <3>2. Kept(query, i, step)
      <4>1. i + 1 .. step - 1 \subseteq i + 1 .. step' - 1
        BY <1>1, <3>1
      <4> QED  BY <1>4, <4>1 DEF Kept
    <3>3. Plan[query][i].into \in DOMAIN tables
      BY <3>1, <3>2 DEF TablesInv
    <3> QED  BY <1>2, <3>3
  <2> QED  BY <2>1, <2>2
<1> QED  BY <1>3, <1>4

(* A join frees its operands. *)
LEMMA TablesFreed ==
  ASSUME PlanInv, TablesInv, outcome = "running", Now.op = "join", Proceed,
         tables' = Freed(Now.R, Now.S)
  PROVE  TablesInv'
<1> SUFFICES ASSUME kind \in {"chunked", "empty"}
             PROVE  /\ \A n \in DOMAIN tables' : tables'[n] \in Seq(Range(tables'[n]))
                    /\ \A i \in 1 .. step' - 1 : Kept(query, i, step') =>
                         Plan[query][i].into \in DOMAIN tables'
  BY DEF TablesInv, Proceed, Kept
<1>1. /\ step \in Nat \ {0} /\ Now = Plan[query][step] /\ step' = step + 1
  BY Running DEF Proceed
<1>2. /\ DOMAIN tables' = DOMAIN tables \ {Now.R, Now.S}
      /\ \A n \in DOMAIN tables' : tables'[n] = tables[n]
  BY DEF Freed
<1>3. \A n \in DOMAIN tables' : tables'[n] \in Seq(Range(tables'[n]))
  BY <1>2 DEF TablesInv
<1>4. ASSUME NEW i \in 1 .. step' - 1, Kept(query, i, step')
      PROVE  Plan[query][i].into \in DOMAIN tables'
  <2>1. i # step
    <3> SUFFICES ASSUME i = step PROVE FALSE
      OBVIOUS
    <3>1. Plan[query][i].op = "join"
      BY <1>1
    <3> QED  BY <1>4, <3>1 DEF Kept
  <2>2. i \in 1 .. step - 1
    BY <1>1, <2>1
  <2>3. Kept(query, i, step)
    <3>1. i + 1 .. step - 1 \subseteq i + 1 .. step' - 1
      BY <1>1, <2>2
    <3> QED  BY <1>4, <3>1 DEF Kept
  <2>4. Plan[query][i].into \in DOMAIN tables
    BY <2>2, <2>3 DEF TablesInv
  <2>5. Plan[query][i].into \notin {Now.R, Now.S}
    <3>1. step \in i + 1 .. step' - 1
      BY <1>1, <2>2
    <3> QED  BY <1>1, <1>4, <3>1 DEF Kept
  <2> QED  BY <1>2, <2>4, <2>5
<1> QED  BY <1>3, <1>4

(* The chunks that are allocated in advance are a number. *)
LEMMA ChunkNumber ==
  ASSUME NEW n \in Nat
  PROVE  num_chunks_prealloc_per_thread(n) \in Nat
<1>1. PICK a : a = n \div ChunkTuples
  OBVIOUS
<1>2. a \in Nat
  BY <1>1, Params, DivMod
<1>3. PICK b : b = ((a + 1) * 6) \div 5
  OBVIOUS
<1>4. b \in Nat
  BY <1>2, <1>3
<1>5. PICK c : c = b \div NThreads
  OBVIOUS
<1>6. c \in Nat
  BY <1>4, <1>5, Params, DivMod
<1>7. num_chunks_prealloc_per_thread(n) = c + 1
  BY <1>1, <1>3, <1>5 DEF num_chunks_prealloc_per_thread
<1> QED  BY <1>6, <1>7

(* The number of rows that a conjunct accepts is a number. *)
LEMMA AcceptedType ==
  ASSUME NEW V, NEW s \in Seq(V)
  PROVE  Accepted(s) \in Nat
<1>1. IsFiniteSet(DOMAIN s)
  <2>1. Len(s) \in Nat /\ DOMAIN s = 1 .. Len(s)
    OBVIOUS
  <2> QED  BY <2>1, FS_Interval
<1>2. PICK S : S = {k \in DOMAIN s : Q19Final(db.part[s[k].Rp], db.lineitem[s[k].Sp])}
  OBVIOUS
<1>3. IsFiniteSet(S)
  BY <1>1, <1>2, FS_Subset
<1> QED  BY <1>2, <1>3, FS_CardinalityType DEF Accepted

(* A query begins with the invariant. *)
LEMMA InitInv == Init => IInv
<1> SUFFICES ASSUME Init PROVE IInv
  OBVIOUS
<1>1. PlanInv
  <2>1. query \in DOMAIN Plan
    BY DatabasesAssumption DEF Init
  <2>2. 1 \in DOMAIN Plan[query]
    BY <2>1, Plans DEF tpch_q3, tpch_q10, tpch_q12, tpch_q19
  <2> QED  BY <2>2 DEF Init, PlanInv
<1>2. TablesInv
  BY DEF Init, TablesInv
<1>3. FilterInv
  BY FilterIdle DEF Init
<1>4. ChunkInv
  BY ChunkInit DEF Init
<1>5. CountInv
  BY CountInit DEF Init
<1> QED  BY <1>1, <1>2, <1>3, <1>4, <1>5 DEF IInv

(* Steps that do not change the query's own state. *)
LEMMA QueryStutter ==
  ASSUME PlanInv, TablesInv, UNCHANGED queryVars
  PROVE  PlanInv' /\ TablesInv'
BY PlanFixed, TablesFixed DEF queryVars

(* Steps that end the query or the program. *)
LEMMA QueryEnds ==
  ASSUME PlanInv, query' = query, db' = db, step' = step, outcome' # "running"
  PROVE  PlanInv' /\ TablesInv'
BY PlanFixed DEF TablesInv

(* A query calls the filter with one of its tables. *)
LEMMA StartFilterKeeps == IInv /\ StartFilter => IInv'
<1> SUFFICES ASSUME IInv, StartFilter PROVE IInv'
  OBVIOUS
<1>1. PICK rows : rows = db[TableOf(Now.filter)]
  OBVIOUS
<1>2. outcome = "running" /\ Now.op = "filter"
  BY DEF StartFilter, At
<1>3. rows \in Seq(Range(rows))
  <2>1. query \in DOMAIN Databases /\ db \in Databases[query]
    BY DEF IInv, PlanInv
  <2>2. step \in DOMAIN Plan[query] /\ Now = Plan[query][step]
    BY <1>2, Running DEF IInv
  <2> QED  BY <1>1, <1>2, <2>1, <2>2, DatabasesAssumption
<1>4. F!Call(Now.filter, rows)
  BY <1>1 DEF StartFilter
<1>5. FilterInv'
  BY <1>3, <1>4, FilterCall DEF IInv
<1>6. PlanInv' /\ TablesInv'
  BY QueryStutter DEF IInv, StartFilter
<1>7. ChunkInv' /\ CountInv'
  BY ChunkStutter, CountStutter DEF IInv, StartFilter
<1> QED  BY <1>5, <1>6, <1>7 DEF IInv

(* The threads of the filter take a step. *)
LEMMA FilterStepOfQuery == IInv /\ FilterStep => IInv'
<1> SUFFICES ASSUME IInv, FilterStep PROVE IInv'
  OBVIOUS
<1>1. FilterInv'
  BY FilterStepKeeps DEF IInv, FilterStep
<1>2. PlanInv' /\ TablesInv'
  BY QueryStutter DEF IInv, FilterStep
<1>3. ChunkInv' /\ CountInv'
  BY ChunkStutter, CountStutter DEF IInv, FilterStep
<1> QED  BY <1>1, <1>2, <1>3 DEF IInv

(* The filter returns its rows to the query as a table. *)
LEMMA EndFilterKeeps == IInv /\ EndFilter => IInv'
<1> SUFFICES ASSUME IInv, EndFilter PROVE IInv'
  OBVIOUS
<1>1. PICK rows : rows = [k \in DOMAIN result_table |-> FilteredRow(filter, result_table[k])]
  OBVIOUS
<1>2. outcome = "running" /\ Now.op = "filter" /\ tables' = With(Now.into, rows) /\ Proceed
  BY <1>1 DEF EndFilter, At
<1>3. rows \in Seq(Range(rows))
  <2>1. Len(result_table) \in Nat /\ DOMAIN result_table = 1 .. Len(result_table)
    BY FilterFacts DEF IInv
  <2>2. /\ DOMAIN rows = 1 .. Len(result_table)
        /\ rows = [k \in 1 .. Len(result_table) |-> rows[k]]
    BY <1>1, <2>1
  <2> QED  BY <2>1, <2>2, AnySeq
<1>4. PlanInv' /\ TablesInv'
  BY <1>2, <1>3, PlanProceeds, TablesMade DEF IInv
<1>5. FilterInv'
  BY FilterReturn DEF IInv, EndFilter
<1>6. ChunkInv' /\ CountInv'
  BY ChunkStutter, CountStutter DEF IInv, EndFilter
<1> QED  BY <1>4, <1>5, <1>6 DEF IInv

(* A query calls a join whose result is a chunked table. *)
LEMMA StartJoinKeeps == IInv /\ StartChunkedJoin => IInv'
<1> SUFFICES ASSUME IInv, StartChunkedJoin PROVE IInv'
  OBVIOUS
<1>1. /\ outcome = "running" /\ Now.op = "join" /\ kind \in {"chunked", "empty"}
      /\ Fixed /\ UNCHANGED << lists, filterVars, countVars >>
  BY DEF StartChunkedJoin, At
<1>2. PICK n : n = Len(Operand(Now.S))
  OBVIOUS
<1>3. n \in Nat
  <2>1. query \in DOMAIN Plan /\ step \in DOMAIN Plan[query] /\ Now = Plan[query][step]
    BY <1>1, Running DEF IInv
  <2>2. PICK i \in 1 .. step - 1 : Kept(query, i, step) /\ Plan[query][i].into = Now.S
    BY <1>1, <2>1, JoinReady
  <2>3. Now.S \in DOMAIN tables /\ tables[Now.S] \in Seq(Range(tables[Now.S]))
    BY <1>1, <2>2 DEF IInv, TablesInv
  <2>4. Len(tables[Now.S]) \in Nat
    BY <2>3, LenProperties
  <2> QED  BY <1>2, <2>3, <2>4 DEF Operand
<1>4. PICK p : p = IF prealloc_build THEN num_chunks_prealloc_per_thread(n) ELSE 0
  OBVIOUS
<1>5. p \in Nat
  BY <1>3, <1>4, ChunkNumber
<1>6. C!Call(p)
  BY <1>2, <1>4 DEF StartChunkedJoin
<1>7. ChunkInv'
  BY <1>5, <1>6, ChunkCall DEF IInv
<1>8. PlanInv' /\ TablesInv'
  BY <1>1, PlanFixed, TablesFixed DEF IInv, Fixed
<1>9. FilterInv' /\ CountInv'
  BY <1>1, FilterStutter, CountStutter DEF IInv
<1> QED  BY <1>7, <1>8, <1>9 DEF IInv

(* The threads of the join take a step. *)
LEMMA JoinStepKeeps == IInv /\ JoinStep => IInv'
<1> SUFFICES ASSUME IInv, JoinStep PROVE IInv'
  OBVIOUS
<1>1. FilterInv' /\ CountInv'
  BY FilterStutter, CountStutter DEF IInv, JoinStep
<1>2. CASE ThreadStarts
  <2>1. ChunkInv'
    BY <1>2, ChunkInitTable DEF IInv, ThreadStarts
  <2>2. PlanInv' /\ TablesInv'
    BY <1>2, QueryStutter DEF IInv, ThreadStarts
  <2> QED  BY <1>1, <2>1, <2>2 DEF IInv
<1>3. CASE ThreadReports
  <2>1. ChunkInv'
    BY <1>3, ChunkInsert, ChunkInsertNext DEF IInv, ThreadReports
  <2>2. PlanInv' /\ TablesInv'
    BY <1>3, PlanFixed, TablesFixed DEF IInv, ThreadReports, Fixed
  <2> QED  BY <1>1, <2>1, <2>2 DEF IInv
<1>4. CASE ThreadEnds
  <2>1. ChunkInv'
    BY <1>4, ChunkFinish DEF IInv, ThreadEnds
  <2>2. PlanInv' /\ TablesInv'
    BY <1>4, QueryStutter DEF IInv, ThreadEnds
  <2> QED  BY <1>1, <2>1, <2>2 DEF IInv
<1>5. CASE EndChunkedJoin
  <2>1. ChunkInv'
    BY <1>5, ChunkConcatenate DEF IInv, EndChunkedJoin
  <2>2. PlanInv' /\ TablesInv'
    BY <1>5, PlanProceeds, TablesFreed DEF IInv, EndChunkedJoin, At
  <2> QED  BY <1>1, <2>1, <2>2 DEF IInv
<1> QED  BY <1>2, <1>3, <1>4, <1>5 DEF JoinStep

(* Joins that leave lists, or nothing. *)
LEMMA OtherJoins == IInv /\ (ListJoin \/ UnsetJoin) => IInv'
<1> SUFFICES ASSUME IInv, ListJoin \/ UnsetJoin PROVE IInv'
  OBVIOUS
<1>1. /\ outcome = "running" /\ Now.op = "join" /\ Proceed /\ tables' = Freed(Now.R, Now.S)
      /\ UNCHANGED << filterVars, chunkVars, countVars >>
  BY DEF ListJoin, UnsetJoin, At
<1>2. PlanInv' /\ TablesInv'
  BY <1>1, PlanProceeds, TablesFreed DEF IInv
<1>3. FilterInv' /\ ChunkInv' /\ CountInv'
  BY <1>1, FilterStutter, ChunkStutter, CountStutter DEF IInv
<1> QED  BY <1>2, <1>3 DEF IInv

(* A query copies the array of a join to a table. *)
LEMMA CopyChunksKeeps == IInv /\ CopyChunks => IInv'
<1> SUFFICES ASSUME IInv, CopyChunks PROVE IInv'
  OBVIOUS
<1>1. PICK rows : rows = [k \in DOMAIN solid' |-> Copied(Now.copy, solid'[k])]
  OBVIOUS
<1>2. /\ outcome = "running" /\ Now.op = "copy" /\ Proceed /\ C!ToSolid
      /\ tables' = With(Now.into, rows) /\ UNCHANGED << filterVars, countVars >>
  BY <1>1 DEF CopyChunks, At
<1>3. rows \in Seq(Range(rows))
  <2>1. join_pc = "concatenated" /\ solid' = FlattenSeq(result)
    BY <1>2, SameFlat DEF C!ToSolid
  <2>2. result \in Seq(Seq(Values))
    <3>1. C!Threads # {}
      BY Params DEF C!Threads
    <3> QED  BY <2>1, <3>1, ChunkEnough DEF IInv
  <2>3. solid' \in Seq(Values)
    BY <2>1, <2>2, FlatType
  <2>4. PICK n : n = Len(solid') /\ n \in Nat /\ DOMAIN solid' = 1 .. n
    BY <2>3
  <2>5. DOMAIN rows = 1 .. n /\ rows = [k \in 1 .. n |-> rows[k]]
    BY <1>1, <2>4
  <2> QED  BY <2>4, <2>5, AnySeq
<1>4. PlanInv' /\ TablesInv'
  BY <1>2, <1>3, PlanProceeds, TablesMade DEF IInv
<1>5. ChunkInv'
  BY <1>2, ChunkToSolid DEF IInv
<1>6. FilterInv' /\ CountInv'
  BY <1>2, FilterStutter, CountStutter DEF IInv
<1> QED  BY <1>4, <1>5, <1>6 DEF IInv

(* A query copies the lists of a join to a table. *)
LEMMA CopyListsKeeps == IInv /\ CopyLists => IInv'
<1> SUFFICES ASSUME IInv, CopyLists PROVE IInv'
  OBVIOUS
<1>1. /\ outcome = "running" /\ Now.op = "copy" /\ Proceed /\ kind = "list"
      /\ UNCHANGED << filterVars, chunkVars, countVars >>
  BY DEF CopyLists, At
<1>2. PlanInv'
  BY <1>1, PlanProceeds DEF IInv
<1>3. TablesInv'
  BY <1>1 DEF Proceed, TablesInv
<1>4. FilterInv' /\ ChunkInv' /\ CountInv'
  BY <1>1, FilterStutter, ChunkStutter, CountStutter DEF IInv
<1> QED  BY <1>2, <1>3, <1>4 DEF IInv

(* A query reads a result that no join has written, and ends. *)
LEMMA ReadUnsetKeeps == IInv /\ ReadUnset => IInv'
<1> SUFFICES ASSUME IInv, ReadUnset PROVE IInv'
  OBVIOUS
<1>1. /\ query' = query /\ db' = db /\ step' = step /\ outcome' # "running"
      /\ UNCHANGED << filterVars, chunkVars, countVars >>
  BY DEF ReadUnset, Fail
<1>2. PlanInv' /\ TablesInv'
  BY <1>1, QueryEnds DEF IInv
<1>3. FilterInv' /\ ChunkInv' /\ CountInv'
  BY <1>1, FilterStutter, ChunkStutter, CountStutter DEF IInv
<1> QED  BY <1>2, <1>3 DEF IInv

(* A query calls the chunked filter on the chunks of the join. *)
LEMMA StartCountKeeps == IInv /\ StartCount => IInv'
<1> SUFFICES ASSUME IInv, StartCount PROVE IInv'
  OBVIOUS
<1>1. PICK f : f = [c \in 0 .. Len(result) - 1 |-> Accepted(result[c + 1])]
  OBVIOUS
<1>2. C!Consumed /\ K!Call(f) /\ UNCHANGED << queryVars, filterVars >>
  BY <1>1 DEF StartCount
<1>3. result \in Seq(Seq(Values)) /\ Len(result) \in Nat /\ Len(result) >= NThreads
  <2>1. C!Threads # {} /\ join_pc = "concatenated"
    BY <1>2, Params DEF C!Threads, C!Consumed
  <2> QED  BY <2>1, ChunkEnough DEF IInv
<1>4. f \in [0 .. Len(result) - 1 -> Nat]
  <2>1. ASSUME NEW c \in 0 .. Len(result) - 1 PROVE Accepted(result[c + 1]) \in Nat
    <3>1. c + 1 \in 1 .. Len(result)
      BY <1>3
    <3>2. result[c + 1] \in Seq(Values)
      BY <1>3, <3>1, ElementOfSeq
    <3> QED  BY <3>2, AcceptedType
  <2> QED  BY <1>1, <2>1
<1>5. CountInv'
  BY <1>2, <1>3, <1>4, CountCall DEF IInv
<1>6. ChunkInv'
  BY <1>2, ChunkConsumed DEF IInv
<1>7. PlanInv' /\ TablesInv' /\ FilterInv'
  BY <1>2, QueryStutter, FilterStutter DEF IInv
<1> QED  BY <1>5, <1>6, <1>7 DEF IInv

(* The threads of the chunked filter take a step. *)
LEMMA CountStepOfQuery == IInv /\ CountStep => IInv'
<1> SUFFICES ASSUME IInv, CountStep PROVE IInv'
  OBVIOUS
<1>1. CountInv'
  BY CountStepKeeps DEF IInv, CountStep
<1>2. PlanInv' /\ TablesInv' /\ FilterInv' /\ ChunkInv'
  BY QueryStutter, FilterStutter, ChunkStutter DEF IInv, CountStep
<1> QED  BY <1>1, <1>2 DEF IInv

(* The ends of a query. *)
LEMMA EndsKeep == IInv /\ (EndCount \/ CountLists \/ Return) => IInv'
<1> SUFFICES ASSUME IInv, EndCount \/ CountLists \/ Return PROVE IInv'
  OBVIOUS
<1>1. /\ query' = query /\ db' = db /\ step' = step /\ outcome' # "running"
      /\ UNCHANGED << filterVars, chunkVars, countVars >>
  BY DEF EndCount, CountLists, Return, Finish
<1>2. PlanInv' /\ TablesInv'
  BY <1>1, QueryEnds DEF IInv
<1>3. FilterInv' /\ ChunkInv' /\ CountInv'
  BY <1>1, FilterStutter, ChunkStutter, CountStutter DEF IInv
<1> QED  BY <1>2, <1>3 DEF IInv

(* A step that changes nothing keeps the invariant. *)
LEMMA Stutter == IInv /\ UNCHANGED vars => IInv'
<1> SUFFICES ASSUME IInv, UNCHANGED vars PROVE IInv'
  OBVIOUS
<1>1. UNCHANGED queryVars /\ UNCHANGED << filterVars, chunkVars, countVars >>
  BY DEF vars
<1> QED  BY <1>1, QueryStutter, FilterStutter, ChunkStutter, CountStutter DEF IInv

(* Every step keeps the invariant. *)
LEMMA NextInv == IInv /\ [Next]_vars => IInv'
<1> SUFFICES ASSUME IInv, [Next]_vars PROVE IInv'
  OBVIOUS
<1>1. CASE Terminated
  BY <1>1, Stutter DEF Terminated
<1>2. CASE UNCHANGED vars
  BY <1>2, Stutter
<1> QED
  BY <1>1, <1>2, StartFilterKeeps, FilterStepOfQuery, EndFilterKeeps, StartJoinKeeps,
     JoinStepKeeps, OtherJoins, CopyChunksKeeps, CopyListsKeeps, ReadUnsetKeeps,
     StartCountKeeps, CountStepOfQuery, EndsKeep DEF Next

(* The invariant holds in every reachable state, for every number of threads and
   every database. *)
THEOREM Invariance == Spec => []IInv
<1>1. Init => IInv
  BY InitInv
<1>2. IInv /\ [Next]_vars => IInv'
  BY NextInv
<1> QED  BY <1>1, <1>2, PTL DEF Spec

(* The slices of parallel_filter cover every row once, from a cache-line boundary
   on, and no two of its threads copy to the same row of the result. *)
THEOREM OwnRows == Spec => []RowsExclusive
<1>1. IInv => RowsExclusive
  BY FilterSafe DEF IInv
<1> QED  BY <1>1, Invariance, PTL

(* The chunks a thread allocates are within its array and filled in order, and no
   chunk is scanned twice by filterQ19SecondChunked, nor by two threads. *)
THEOREM OwnChunks == Spec => []ChunksSound
<1>1. IInv => ChunksSound
  BY ChunkSafe, CountSafe DEF IInv, ChunksSound
<1> QED  BY <1>1, Invariance, PTL

(* What concatenate and to_solid return holds every tuple the threads of the join
   inserted, in the order of the threads, and the number of tuples says so. *)
THEOREM ResultsKept == Spec => []ResultComplete
<1>1. IInv => ResultComplete
  BY ChunkComplete DEF IInv
<1> QED  BY <1>1, Invariance, PTL
=============================================================================
