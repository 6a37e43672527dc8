----------------------------- MODULE ScanWrapper -----------------------------
(***************************************************************************)
(* The SimdScanMulti benchmark: main creates the scan threads, all meet at *)
(* creation_barrier, then each runs scan_wrapper: per rerun it scans its   *)
(* slice of the column, itself or by an ECALL, with --join copies its      *)
(* results into one vector behind a first barrier, and has the cycle       *)
(* counters averaged at a second.  Both rendezvous of scan_barrier hand    *)
(* data from one thread to another without a lock.  A scan is one step,    *)
(* computed as ScanKernels does.  The vectors are those of the host or,    *)
(* with --preload, those of the enclave.                                   *)
(***************************************************************************)
EXTENDS ScanKernels

CONSTANTS
  NThreads,     (* config.num_threads                                        *)
  NReruns,      (* config.num_reruns                                         *)
  Configs,      (* configurations: enclave, mode, pre_alloc, include_join    *)
                (* (the flag --join) and NUMA (main does not scan)           *)
  Entries,      (* num_entries_per_thread, to choose from: a power of two,   *)
                (* like the number of threads                                *)
  Highs         (* predicate_high, to choose from; predicate_low is 0        *)

ASSUME ScanAssumption ==
  /\ KernelAssumption
  /\ {NThreads, NReruns} \cup Entries \subseteq Nat \ {0}
  /\ Configs \subseteq [enclave : BOOLEAN, mode : {"bitvector", "noIndex", "dict", "scalar"},
                         pre_alloc : BOOLEAN, include_join : BOOLEAN, NUMA : BOOLEAN]
  /\ Highs \subseteq 0 .. Period - 1
  /\ Period % Block = 0 /\ \A n \in Entries : n % Block = 0

Threads == 0 .. NThreads - 1
Reruns == 0 .. NReruns - 1
Main == 0

VARIABLES
  config,                 (* the command line                                *)
  predicate_high,
  data,                   (* data[r][t]: the entries thread t scans in rerun *)
                          (* r                                               *)
  created, listed,        (* threads that run; those in vector `threads`     *)
  arrived,                (* who has come to creation_barrier                *)
  pinned,                 (* threads wait_function had when it ran, or {-1}  *)
  vec,                    (* result vector per thread: row numbers, or       *)
                          (* values of the dictionary                        *)
  bits,                   (* bitvector_results: block of the column -> mask  *)
  merged,                 (* index_results or dict_results                   *)
  resized, overflow,      (* a scan has resized its vector / left it         *)
  cntr, cycle_cntr,       (* cpu_cntr_per_thread, cycle_cntr                 *)
  rerun, pc,
  inside, passed, opened  (* scan_barrier                                    *)

setup == << config, predicate_high, data >>
creation == << created, listed, arrived, pinned >>
store == << vec, bits, merged, resized, overflow >>
counters == << cntr, cycle_cntr >>
barrier == << inside, passed, opened >>
vars == << setup, created, listed, arrived, pinned, vec, bits, merged, resized,
           overflow, cntr, cycle_cntr, rerun, pc, inside, passed, opened >>

mode == config.mode
pre_alloc == config.pre_alloc

(* Outside the enclave, every mode but the bitvector scan meets twice per   *)
(* rerun with --join; the others end after NReruns rounds.                  *)
Merging == config.include_join /\ ~config.enclave /\ mode # "bitvector"
B == INSTANCE AbstractBarrier WITH Rounds <- 2 * NReruns

-----------------------------------------------------------------------------
predicate_low == 0
dict == [v \in 0 .. Period - 1 |-> v]

(* Mutant: the vector has room for the matches only. *)
MutSlack == 0
Slack == Block

(* allocate_data_array_aligned repeats the values 0 to 255.                 *)
Column(n) ==
  [r \in Reruns |-> [t \in Threads |->
     [i \in 1 .. n |-> ((r * NThreads + t) * n + i - 1) % Period]]]

(* Mutant: the offset of the thread is forgotten. *)
MutSlice(t) == data[rerun[t]][0]

(* data + num_entries * rerun_index + thread_offset *)
Slice(t) == data[rerun[t]][t]

(* pre_alloc_per_thread counts the matches of the first rerun.              *)
Allocated(t) ==
  IF pre_alloc
    THEN [k \in 1 .. count(data[0][t], predicate_low, predicate_high) + Slack |-> 0]
    ELSE << >>

(* The vector when the scan starts: emptied unless it was allocated before. *)
Buffer(t) == IF pre_alloc THEN vec[t] ELSE << >>

(* The index scan and the dictionary scan, into a vector of that size.      *)
Scan(slice, size) ==
  IF mode = "noIndex"
    THEN implicit_index_scan_self_alloc(slice, predicate_low, predicate_high, size)
  ELSE IF config.enclave
    THEN dict_scan_8bit_64bit_scalar_gather_scatter(slice, dict, predicate_low, predicate_high, size)
    ELSE dict_scan_8bit_64bit_scalar_unroll(slice, dict, predicate_low, predicate_high, size)

(* buf extended to n entries and overwritten with the results from the front *)
Overwrite(buf, res, n) ==
  [k \in 1 .. n |-> IF k <= Len(res) THEN res[k] ELSE IF k <= Len(buf) THEN buf[k] ELSE 0]

Init ==
  /\ config \in Configs
  /\ predicate_high \in Highs
  /\ \E n \in Entries : data = Column(n)
  /\ created = IF config.NUMA THEN {} ELSE {Main}
  /\ listed = created
  /\ arrived = {}
  /\ pinned = {-1}
  /\ vec = [t \in Threads |-> Allocated(t)]
  /\ bits = [t \in Threads |-> << >>]
  /\ merged = << >>
  /\ resized = FALSE /\ overflow = FALSE
  /\ cntr = [t \in Threads |-> 0] /\ cycle_cntr = 0
  /\ rerun = [t \in Threads |-> 0]
  /\ pc = [t \in Threads |-> "create"]
  /\ B!Init

(* emplace_back: the next thread runs before it is a member of `threads`.   *)
CreateThread(t) ==
  /\ listed = created
  /\ t \notin created /\ \A u \in Threads : u < t => u \in created
  /\ created' = created \cup {t}
  /\ UNCHANGED << setup, listed, arrived, pinned, store, counters, rerun, pc, barrier >>

ListThread ==
  /\ listed # created
  /\ listed' = created
  /\ UNCHANGED << setup, created, arrived, pinned, store, counters, rerun, pc, barrier >>

(* Who takes part in creation_barrier; with NUMA, main needs a slot of its own. *)
CreationSlots == NThreads + IF config.NUMA THEN 1 ELSE 0
MainSlot == IF config.NUMA THEN NThreads ELSE Main

(* The last one to arrive runs wait_function, which pins `threads`.         *)
ArriveAtCreation(p) ==
  /\ p \notin arrived
  /\ IF p = MainSlot THEN listed = Threads ELSE p \in created
  /\ arrived' = arrived \cup {p}
  /\ pinned' = IF Cardinality(arrived') = CreationSlots THEN listed ELSE pinned
  /\ UNCHANGED << setup, created, listed, store, counters, rerun, pc, barrier >>

LeaveCreation(t) ==
  /\ pc[t] = "create"
  /\ t \in arrived /\ pinned # {-1}
  /\ pc' = [pc EXCEPT ![t] = "scan"]
  /\ UNCHANGED << setup, creation, store, counters, rerun, barrier >>

AfterScan == IF Merging THEN "reserve" ELSE "count"

(* Index and dictionary scan: the vector grows on demand and is cut to the  *)
(* results unless it was allocated before.                                  *)
ScanIndex(t) ==
  /\ pc[t] = "scan" /\ mode \in {"noIndex", "dict"}
  /\ LET scan == Scan(Slice(t), Len(Buffer(t)))
         n == IF pre_alloc THEN scan.size ELSE Len(scan.results) IN
       /\ vec' = [vec EXCEPT ![t] = Overwrite(Buffer(t), scan.results, n)]
       /\ resized' = (resized \/ scan.size # Len(Buffer(t)))
  /\ pc' = [pc EXCEPT ![t] = AfterScan]
  /\ IF Merging THEN B!Enter(t) ELSE UNCHANGED barrier
  /\ UNCHANGED << setup, creation, bits, merged, overflow, counters, rerun >>

(* The scalar scan neither checks the size nor cuts the vector.             *)
ScanScalar(t) ==
  /\ pc[t] = "scan" /\ mode = "scalar"
  /\ LET res == scalar_implicit_index_scan(Slice(t), predicate_low, predicate_high) IN
       /\ vec' = [vec EXCEPT ![t] = Overwrite(Buffer(t), res, Len(Buffer(t)))]
       /\ overflow' = (overflow \/ Len(res) > Len(Buffer(t)))
  /\ pc' = [pc EXCEPT ![t] = AfterScan]
  /\ IF Merging THEN B!Enter(t) ELSE UNCHANGED barrier
  /\ UNCHANGED << setup, creation, bits, merged, resized, counters, rerun >>

(* One mask per block, at the thread's place in the shared vector.          *)
ScanBitvector(t) ==
  /\ pc[t] = "scan" /\ mode = "bitvector"
  /\ bits' = [bits EXCEPT ![t] = bitvector_scan(Slice(t), predicate_low, predicate_high)]
  /\ pc' = [pc EXCEPT ![t] = "count"]
  /\ UNCHANGED << setup, creation, vec, merged, resized, overflow, counters, rerun, barrier >>

Sizes == [t \in Threads |-> Len(vec[t])]

(* Mutant: the copy starts behind the thread's own results. *)
MutCumSum(t) == SumFunctionOnSet(Sizes, 0 .. t)

(* cum_sum_vector_size *)
CumSum(t) == SumFunctionOnSet(Sizes, 0 .. t - 1)

(* reserve_unified_result_vector, run by the last thread; it knows nothing  *)
(* of the scalar mode.                                                      *)
Reserve ==
  /\ \E t \in Threads : pc[t] = "reserve"
  /\ B!Open
  /\ merged' = IF mode \in {"noIndex", "dict"}
                 THEN Overwrite(merged, << >>, SumFunction(Sizes)) ELSE merged
  /\ UNCHANGED << setup, creation, vec, bits, resized, overflow, counters, rerun, pc >>

LeaveReserve(t) ==
  /\ pc[t] = "reserve"
  /\ B!Leave(t)
  /\ pc' = [pc EXCEPT ![t] = "join"]
  /\ UNCHANGED << setup, creation, store, counters, rerun >>

(* join_results *)
JoinResults(t) ==
  /\ pc[t] = "join"
  /\ merged' = IF mode \in {"noIndex", "dict"}
       THEN [k \in DOMAIN merged |->
               IF k - CumSum(t) \in DOMAIN vec[t] THEN vec[t][k - CumSum(t)] ELSE merged[k]]
       ELSE merged
  /\ pc' = [pc EXCEPT ![t] = "count"]
  /\ UNCHANGED << setup, creation, vec, bits, resized, overflow, counters, rerun, barrier >>

(* rdtscpWrapper adds the cycles of the run when it goes out of scope; here *)
(* thread t takes 2t + 1.  Then scan_barrier for the second time.           *)
Elapsed(t) == 2 * t + 1
Count(t) ==
  /\ pc[t] = "count"
  /\ cntr' = [cntr EXCEPT ![t] = @ + Elapsed(t)]
  /\ B!Enter(t)
  /\ pc' = [pc EXCEPT ![t] = "counted"]
  /\ UNCHANGED << setup, creation, store, cycle_cntr, rerun >>

(* join_counter_values, run by the last thread. *)
JoinCounters ==
  /\ \A t \in Threads : pc[t] = "counted"
  /\ B!Open
  /\ cycle_cntr' = cycle_cntr + SumFunction(cntr) \div NThreads
  /\ cntr' = [t \in Threads |-> 0]
  /\ UNCHANGED << setup, creation, store, rerun, pc >>

LeaveCount(t) ==
  /\ pc[t] = "counted"
  /\ B!Leave(t)
  /\ rerun' = [rerun EXCEPT ![t] = @ + 1]
  /\ pc' = [pc EXCEPT ![t] = IF rerun[t] + 1 < NReruns THEN "scan" ELSE "done"]
  /\ UNCHANGED << setup, creation, store, counters >>

AllDone == \A t \in Threads : pc[t] = "done"
Terminated == AllDone /\ UNCHANGED vars

Step(t) ==
  \/ LeaveCreation(t) \/ ScanIndex(t) \/ ScanScalar(t) \/ ScanBitvector(t)
  \/ LeaveReserve(t) \/ JoinResults(t) \/ Count(t) \/ LeaveCount(t)

Next ==
  \/ \E t \in Threads : CreateThread(t) \/ Step(t)
  \/ \E p \in 0 .. NThreads : ArriveAtCreation(p)
  \/ ListThread \/ Reserve \/ JoinCounters
  \/ Terminated

Spec == Init /\ [][Next]_vars

-----------------------------------------------------------------------------
(* Type invariant; no thread starts a rerun beyond the last.                *)
TypeOK ==
  /\ listed \subseteq created /\ created \subseteq Threads
  /\ arrived \subseteq 0 .. NThreads
  /\ vec \in [Threads -> Seq(Nat)] /\ merged \in Seq(Nat)
  /\ {resized, overflow} \subseteq BOOLEAN
  /\ cntr \in [Threads -> Nat] /\ cycle_cntr \in Nat
  /\ rerun \in [Threads -> 0 .. NReruns]
  /\ \A t \in Threads : pc[t] = "scan" => rerun[t] \in Reruns
  /\ pc \in [Threads -> {"create", "scan", "reserve", "join", "count", "counted", "done"}]

(* The affinity of every thread is set, and by somebody who does not look   *)
(* at `threads` while main still adds to it: wait_function finds all        *)
(* threads.  The extra slot of main is what makes it so with NUMA.          *)
AllPinned == pinned \in {{-1}, Threads}

(* Every thread has finished the current rerun. *)
RerunDone == \A t \in Threads : pc[t] = "counted" /\ rerun[t] = rerun[Main]

(* The rows that a scan should find, in order, and what it should leave.    *)
Rows(slice) == {i \in DOMAIN slice : predicate_low <= slice[i] /\ slice[i] <= predicate_high}
Expected(slice) ==
  LET rows == SelectSeq([i \in DOMAIN slice |-> i], LAMBDA i : i \in Rows(slice))
  IN [k \in DOMAIN rows |-> IF mode = "dict" THEN slice[rows[k]] ELSE rows[k] - 1]

(* The results that each thread leaves in its vector, or its part of the    *)
(* bit vector, are those of its slice of this rerun and no other.           *)
ResultsComplete ==
  RerunDone => \A t \in Threads :
    LET slice == data[rerun[t]][t] IN
    CASE mode = "bitvector" ->
           {i \in DOMAIN slice : (i - 1) % Block \in bits[t][(i - 1) \div Block + 1]} = Rows(slice)
      [] mode # "bitvector" /\ pre_alloc -> IsPrefix(Expected(slice), vec[t])
      [] mode # "bitvector" /\ ~pre_alloc -> vec[t] = Expected(slice)

(* --join: "Sets whether results of scan threads must be merged"            *)
(* (flags.hpp:36).  After each rerun the unified vector holds the results   *)
(* of all threads, one after the other, whatever the order of the copies.   *)
MergedComplete ==
  RerunDone /\ Merging =>
    merged = FlattenSeq([k \in 1 .. NThreads |-> Expected(data[rerun[Main]][k - 1])])

(* Every rerun adds the average of what the threads took in it, no more.    *)
CountersExact ==
  LET runs == IF Merging THEN opened \div 2 ELSE opened
      sum == SumFunction([t \in Threads |-> Elapsed(t)]) IN
  cycle_cntr = runs * (sum \div NThreads)

(* A rerun scans what it should, on threads that are all pinned, and its    *)
(* results and cycles are those of all threads and of no other rerun.       *)
RerunsExact == TypeOK /\ AllPinned /\ ResultsComplete /\ CountersExact

(* --pre_alloc: "Preventing them from dynamic allocation" (flags.hpp:39).   *)
(* No scan grows its vector, and the scalar scan, which checks no bound,    *)
(* stays inside it.                                                         *)
VectorsSuffice == pre_alloc => ~resized /\ ~overflow
=============================================================================
