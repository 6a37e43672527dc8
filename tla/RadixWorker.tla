---------------------------- MODULE RadixWorker ----------------------------
(***************************************************************************)
(* What becomes of one pair of pass-1 clusters of RHT and RSM in           *)
(* prj_thread: it is split by serial_radix_partition (SerialPartition),    *)
(* and each join task that this queues is joined by histogram_join         *)
(* (HistogramJoin) or by sortmerge_join (SortMergeJoin), the latter in the *)
(* very buffers of the partitioning.  Tasks are taken in any order: the    *)
(* lock-free queue and the mutex queue differ in theirs.                   *)
(***************************************************************************)
EXTENDS RadixLayout, Sequences

CONSTANTS
  Clusters1,      (* pairs of pass-1 clusters, by join function         *)
  R, D,           (* bits used up by pass 1, and bits of this pass      *)
  StaleKeys,      (* keys in slots that the partitioning did not write: *)
                  (* 0 in fresh memory; the native build fills them     *)
  Unroll

ASSUME WorkerAssumption ==
  /\ {R, D} \subseteq Nat
  /\ DOMAIN Clusters1 = {"histogram_join", "sortmerge_join"}
  /\ \A f \in DOMAIN Clusters1 :
       Clusters1[f] \subseteq [R : Seq(Nat) \ {<< >>}, S : Seq(Nat) \ {<< >>}]
  /\ StaleKeys # {}
  /\ Unroll \in BOOLEAN

VARIABLES
  join_function,
  rel, tmp, output, cluster, offset, queue, part_pc,                (* SerialPartition *)
  rkeys, skeys, hist, tmpR, i, j,                                   (* HistogramJoin   *)
  merging, tr, gs, ts, tr_s, gs_s,                                  (* SortMergeJoin   *)
  stale, matches, out, join_pc,                                     (* either          *)
  task,      (* the join task in hand, 0 if none                   *)
  taken,     (* the tasks taken from the queue                     *)
  results,   (* results of prj_thread                              *)
  reported,  (* pairs of positions in the pass-1 clusters          *)
  finished

partVars == << join_function, rel, tmp, output, cluster, offset, queue, part_pc >>
histogramVars == << rkeys, skeys, hist, tmpR, i, j >>
mergeVars == << merging, tr, gs, ts, tr_s, gs_s >>
joinVars == << histogramVars, mergeVars, stale, matches, out, join_pc >>
workVars == << task, taken, results, reported, finished >>
vars == << partVars, joinVars, workVars >>

P == INSTANCE SerialPartition WITH
  Clusters1 <- UNION {Clusters1[f] : f \in DOMAIN Clusters1}, i <- cluster, pc <- part_pc
H == INSTANCE HistogramJoin WITH num_radix_bits <- R + D, pc <- join_pc
M == INSTANCE SortMergeJoin WITH task <- merging, pc <- join_pc

Init ==
  /\ join_function \in DOMAIN Clusters1
  /\ P!Init /\ H!Init /\ M!Init
  /\ rel \in Clusters1[join_function]
  /\ task = 0 /\ taken = {}
  /\ results = 0 /\ reported = {} /\ finished = FALSE

Partition == P!Step /\ UNCHANGED << join_function, joinVars, workVars >>

(* What the partitioning leaves to the join of its tasks: in RSM, also the  *)
(* buffers.                                                                 *)
Partitioned == UNCHANGED << join_function, rel, output, cluster, offset, queue, part_pc >>

(* The tuples that a task points at, through its pointer and its length.    *)
Tuples(n, x) ==
  [k \in 1 .. queue[n][x].len |-> tmp[x][queue[n][x].start + k - 1]]
Keys(n, x) == [k \in 1 .. queue[n][x].len |-> rel[x][Tuples(n, x)[k]]]

Waiting == DOMAIN queue \ taken

TakeTask ==
  /\ part_pc = "done" /\ task = 0
  /\ \E n \in Waiting :
       /\ task' = n /\ taken' = taken \cup {n}
       /\ \/ /\ join_function = "histogram_join"
             /\ H!Call(Keys(n, "R"), Keys(n, "S"))
             /\ UNCHANGED << tmp, mergeVars >>
          \/ /\ join_function = "sortmerge_join"
             /\ M!Call(queue[n], StaleKeys)
             /\ UNCHANGED histogramVars
  /\ Partitioned /\ UNCHANGED << results, reported, finished >>

JoinTask ==
  /\ task # 0
  /\ \/ join_function = "histogram_join" /\ H!Step /\ UNCHANGED << tmp, mergeVars >>
     \/ join_function = "sortmerge_join" /\ M!Step /\ UNCHANGED histogramVars
  /\ Partitioned /\ UNCHANGED workVars

(* results += join_function(...); the pairs that sortmerge_join counts are  *)
(* positions in the cluster already.                                        *)
EndTask ==
  /\ task # 0
  /\ \/ /\ join_function = "histogram_join" /\ H!Return
        /\ reported' = reported \cup
             {<< Tuples(task, "R")[m[1]], Tuples(task, "S")[m[2]] >> : m \in out}
        /\ UNCHANGED << tmp, mergeVars >>
     \/ /\ join_function = "sortmerge_join" /\ M!Return
        /\ reported' = reported \cup out
        /\ UNCHANGED histogramVars
  /\ results' = results + matches
  /\ task' = 0
  /\ Partitioned /\ UNCHANGED << taken, finished >>

(* The queue is empty. *)
Return ==
  /\ part_pc = "done" /\ task = 0 /\ Waiting = {} /\ ~finished
  /\ finished' = TRUE
  /\ UNCHANGED << partVars, joinVars, task, taken, results, reported >>

Terminated == (finished \/ join_pc = "wild") /\ UNCHANGED vars

Next == Partition \/ TakeTask \/ JoinTask \/ EndTask \/ Return \/ Terminated

Spec == Init /\ [][Next]_vars

-----------------------------------------------------------------------------
(* radix_cluster loses no tuple, because no write leaves the region or hits *)
(* another one.  A queued task points at exactly the two sub-clusters of    *)
(* one radix value, and the tasks together cover every pair of tuples that  *)
(* can match, once, within the room the join queue has for this cluster.    *)
PartitionSound ==
  /\ P!TypeOK /\ taken \subseteq DOMAIN queue
  /\ P!ClustersDisjoint
  /\ P!TasksMatchClusters
  /\ P!TasksCoverMatches

(* Every key of either cluster has a partner in the other one. *)
RangeOf(x) == {rel[x][k] : k \in DOMAIN rel[x]}
AllMatched == RangeOf("R") = RangeOf("S")

(* sortmerge_join compares keys behind its partitions if the largest key of *)
(* one of them has no partner.                                              *)
Promises == join_function = "histogram_join" \/ AllMatched

(* What the join functions read is theirs: the bins of histogram_join fill  *)
(* from the left and never run into the next one, and the pointers of       *)
(* sortmerge_join, if all keys have partners, stay inside the buffers.      *)
ReadsSound ==
  /\ H!BinsSorted
  /\ Promises => join_pc # "wild"

(* histogram_join counts and reports each match of a task exactly once.     *)
TaskComplete == H!TaskComplete

Abstract == INSTANCE AbstractJoin WITH
  rkeys <- rel["R"], skeys <- rel["S"], out <- reported, matches <- results

(* Partitioning and joining the tasks, in any order, is a join of the two   *)
(* pass-1 clusters: the pass-2 bits that histogram_join no longer looks at  *)
(* are those the partitioning has made equal, and sortmerge_join, which     *)
(* runs over the padding, finds the same key there on one side at most.     *)
ImplementsJoin ==
  /\ Abstract!Init
  /\ [][Promises => Abstract!Report \/ Abstract!Finish \/ UNCHANGED Abstract!jvars]_vars

(* RSM counts the matches of a foreign-key join, also if a key of R has no  *)
(* partner: it is in the list "Tested working" of README.md:126.            *)
SortMergeExact ==
  /\ join_function = "sortmerge_join" /\ finished
  /\ Cardinality(RangeOf("R")) = Len(rel["R"]) /\ RangeOf("S") \subseteq RangeOf("R")
  => results = Cardinality(Abstract!Matches)
=============================================================================
