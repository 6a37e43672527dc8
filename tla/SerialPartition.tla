--------------------------- MODULE SerialPartition ---------------------------
(***************************************************************************)
(* serial_radix_partition of radix_join.cpp: one thread splits one pair of *)
(* pass-1 clusters by the next D bits and queues a join task for each pair *)
(* of sub-clusters.  Where a sub-cluster lies is computed twice, once by   *)
(* radix_cluster for writing and once by the loop that makes the tasks.    *)
(***************************************************************************)
EXTENDS RadixLayout, Sequences, SequencesExt

CONSTANTS
  Clusters1,  (* pairs of pass-1 clusters, [R |-> keys, S |-> keys] *)
  R, D        (* bits used up by pass 1, and bits of this pass      *)

fanOut == 2 ^ D
Sides == {"R", "S"}

VARIABLES
  rel,      (* rel[x]: the keys of task->relR and task->relS             *)
  tmp,      (* tmp[x]: task->tmpR and tmpS, slot -> index in rel, or 0   *)
  output,   (* output[x][c]: tuples in sub-cluster c                     *)
  i,        (* the sub-cluster the task loop looks at                    *)
  offset,   (* offsetR and offsetS                                       *)
  queue,    (* join tasks pushed: start and length on both sides         *)
  pc

vars == << rel, tmp, output, i, offset, queue, pc >>

(* The cluster and the padding that prj_thread leaves behind it for the     *)
(* gaps between the sub-clusters.                                           *)
Region(x) == 0 .. Len(rel[x]) + SmallPadding * (fanOut + 1) - 1

Count(x, c) == Cardinality({k \in DOMAIN rel[x] : HashBits(rel[x][k], R, D) = c})

Init ==
  /\ rel \in Clusters1
  /\ tmp = [x \in Sides |-> [s \in Region(x) |-> 0]]
  /\ output = [x \in Sides |-> [c \in 0 .. fanOut - 1 |-> 0]]
  /\ i = 0
  /\ offset = [x \in Sides |-> 0]
  /\ queue = << >>
  /\ pc = "R"

MutSlot(x, k) ==
  LET c == HashBits(rel[x][k], R, D) IN
    Cardinality({m \in DOMAIN rel[x] : HashBits(rel[x][m], R, D) < c})
    + Cardinality({m \in 1 .. k - 1 : HashBits(rel[x][m], R, D) = c})

(* The slot that partition_copy gives tuple k: dst[c] starts at             *)
(* offset + c * SMALL_PADDING_TUPLES and grows with every tuple of c.       *)
Slot(x, k) ==
  LET c == HashBits(rel[x][k], R, D) IN
    Cardinality({m \in DOMAIN rel[x] : HashBits(rel[x][m], R, D) < c})
    + c * SmallPadding
    + Cardinality({m \in 1 .. k - 1 : HashBits(rel[x][m], R, D) = c})

(* radix_cluster: histogram, prefix sum with padding, copy. *)
radix_cluster(x) ==
  /\ pc = x
  /\ output' = [output EXCEPT ![x] = [c \in 0 .. fanOut - 1 |-> Count(x, c)]]
  /\ tmp' = [tmp EXCEPT ![x] = [s \in DOMAIN @ |->
       LET here == {k \in DOMAIN rel[x] : Slot(x, k) = s}
       IN IF here = {} THEN @[s] ELSE CHOOSE k \in here : \A m \in here : m <= k]]
  /\ pc' = IF x = "R" THEN "S" ELSE "push"
  /\ UNCHANGED << rel, i, offset, queue >>

Start(x) == offset[x] + i * SmallPadding

Advance == offset' = [x \in Sides |-> offset[x] + output[x][i]]

(* A pair of non-empty sub-clusters becomes a join task ... *)
Push ==
  /\ pc = "push" /\ i < fanOut
  /\ \A x \in Sides : output[x][i] > 0
  /\ queue' = Append(queue, [x \in Sides |-> [start |-> Start(x), len |-> output[x][i]]])
  /\ Advance
  /\ i' = i + 1
  /\ UNCHANGED << rel, tmp, output, pc >>

(* ... a pair that cannot match is passed over. *)
Skip ==
  /\ pc = "push" /\ i < fanOut
  /\ \E x \in Sides : output[x][i] = 0
  /\ Advance
  /\ i' = i + 1
  /\ UNCHANGED << rel, tmp, output, queue, pc >>

Return ==
  /\ pc = "push" /\ i = fanOut
  /\ pc' = "done"
  /\ UNCHANGED << rel, tmp, output, i, offset, queue >>

Step == (\E x \in Sides : radix_cluster(x)) \/ Push \/ Skip \/ Return

-----------------------------------------------------------------------------
(* Type invariant; offsets stay inside the cluster.                         *)
TypeOK ==
  /\ rel \in Clusters1
  /\ \A x \in Sides : tmp[x] \in [Region(x) -> 0 .. Len(rel[x])]
  /\ \A x \in Sides : output[x] \in [0 .. fanOut - 1 -> 0 .. Len(rel[x])]
  /\ i \in 0 .. fanOut
  /\ \A x \in Sides : offset[x] \in 0 .. Len(rel[x])
  /\ pc \in {"R", "S", "push", "done"}

(* The copy loses no tuple: none is written outside the region or over      *)
(* another one.                                                             *)
ClustersDisjoint ==
  \A x \in Sides : pc \notin (IF x = "R" THEN {"R"} ELSE Sides) =>
    \A k \in DOMAIN rel[x] : \E s \in Region(x) : tmp[x][s] = k

TaskTuples(task, x) ==
  {tmp[x][s] : s \in task[x].start .. task[x].start + task[x].len - 1}
ClusterTuples(x, c) == {k \in DOMAIN rel[x] : HashBits(rel[x][k], R, D) = c}

(* A queued task points at exactly the two sub-clusters of one radix value  *)
(* that radix_cluster wrote ...                                             *)
TasksMatchClusters ==
  \A n \in DOMAIN queue : \E c \in 0 .. fanOut - 1 :
    \A x \in Sides : TaskTuples(queue[n], x) = ClusterTuples(x, c)

(* ... and together the tasks cover every pair of tuples that can match,    *)
(* once, within the room the join queue has for this cluster.               *)
TasksCoverMatches ==
  pc = "done" =>
    /\ \A k \in DOMAIN rel["R"], m \in DOMAIN rel["S"] : rel["R"][k] = rel["S"][m] =>
         Cardinality({n \in DOMAIN queue : k \in TaskTuples(queue[n], "R")
                                        /\ m \in TaskTuples(queue[n], "S")}) = 1
    /\ Len(queue) <= fanOut
=============================================================================
