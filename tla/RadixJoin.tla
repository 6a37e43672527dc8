------------------------------ MODULE RadixJoin ------------------------------
(***************************************************************************)
(* join_init_run and prj_thread of radix_join.cpp, the driver of RHO and   *)
(* RHT: nthreads threads partition R, then S, in one or two passes, turn   *)
(* the partition pairs into tasks and join these, in phases that seven     *)
(* barriers separate.  In pass 1 (parallel_radix_partition) they scatter   *)
(* their chunks tuple by tuple into a shared, padded buffer without any    *)
(* lock: what keeps their writes apart is arithmetic on the histograms     *)
(* that each reads after a barrier.  What they do with a task is atomic    *)
(* here; it is taken apart in SerialPartition, TaskQueue, BucketChaining   *)
(* and HistogramJoin, the barrier in Barrier.                              *)
(***************************************************************************)
EXTENDS Integers, Sequences, FiniteSets, SequencesExt, RadixLayout

CONSTANTS
  NThreads,    (* config->NTHREADS                     *)
  RelationsR,  (* key sequences to choose relR from    *)
  RelationsS   (* and relS                             *)

ASSUME JoinAssumption ==
  /\ NThreads \in Nat \ {0}
  /\ RelationsR \cup RelationsS \subseteq Seq(Nat)

Threads == 0 .. NThreads - 1

VARIABLES
  rkeys, skeys,           (* relR and relS                                  *)
  hist,                   (* hist[x][t]: thread t's histogram of relation x *)
  tmp,                    (* tmp[x]: pass-1 buffer, slot -> position or 0   *)
  dst,                    (* dst[t]: next slot of thread t in each cluster  *)
  next,                   (* next[t]: position of the tuple t copies next   *)
  output,                 (* output[x]: cluster starts known to thread 0    *)
  part_queue, join_queue, (* the tasks, pairs of sets of positions          *)
  results,                (* results[t]: matches counted by thread t        *)
  out,                    (* the matches themselves                         *)
  result, finished,       (* what join_init_run returns                     *)
  pc,                     (* the phase of each thread                       *)
  inside, passed, opened  (* the barrier                                    *)

data == << rkeys, skeys, hist, tmp, dst, next, output, part_queue, join_queue, results, out, result, finished >>
vars == << data, pc, inside, passed, opened >>

B == INSTANCE AbstractBarrier WITH Rounds <- 7

Relations == {"R", "S"}
Rel(x) == IF x = "R" THEN rkeys ELSE skeys

num_radix_bits == calc_num_radix_bits(Len(rkeys), NThreads)
num_passes == calc_num_passes(num_radix_bits)
R == bits_pass_1(num_radix_bits, num_passes)
D == bits_pass_2(num_radix_bits, num_passes)
fanOut == 2 ^ R
Clusters == 0 .. fanOut - 1
Padding == padding_tuples(num_radix_bits, num_passes)

(* Capacities of the two lock-free queues; a push to a full one fails, and  *)
(* the callers ignore that.                                                 *)
PartCapacity == fanOut * 2
JoinCapacity == 2 ^ (num_radix_bits + 1)

-----------------------------------------------------------------------------
(* The chunk of relation x that thread t partitions. *)
Share(x) == Len(Rel(x)) \div NThreads
From(x, t) == t * Share(x) + 1
(* Mutant: the last thread stops like the others. *)
MutUpto(x, t) == (t + 1) * Share(x)
Upto(x, t) == IF t = NThreads - 1 THEN Len(Rel(x)) ELSE (t + 1) * Share(x)
Chunk(x, t) == From(x, t) .. Upto(x, t)

Radix(x, n) == HashBits(Rel(x)[n], 0, R)
InCluster(x, t, j) == {n \in Chunk(x, t) : Radix(x, n) = j}

Init ==
  /\ rkeys \in RelationsR /\ skeys \in RelationsS
  /\ hist = [x \in Relations |-> [t \in Threads |-> [j \in Clusters |-> 0]]]
  /\ tmp = [x \in Relations |-> [s \in 0 .. Len(Rel(x)) + fanOut * Padding - 1 |-> 0]]
  /\ dst = [t \in Threads |-> [j \in Clusters |-> 0]]
  /\ next = [t \in Threads |-> 0]
  /\ output = [x \in Relations |-> [j \in 0 .. fanOut |-> 0]]
  /\ part_queue = {} /\ join_queue = {}
  /\ results = [t \in Threads |-> 0]
  /\ out = {} /\ result = 0 /\ finished = FALSE
  /\ pc = [t \in Threads |-> "start"]
  /\ B!Init

(* A thread ends a phase: it enters the barrier; after it comes phase ph.   *)
Arrive(t, ph) ==
  /\ B!Enter(t)
  /\ pc' = [pc EXCEPT ![t] = ph]

In(t, ph) == pc[t] = ph /\ t \notin inside

Start(t) ==
  /\ In(t, "start")
  /\ Arrive(t, "histR")
  /\ UNCHANGED data

(* parallel_radix_partition up to its barrier: the prefix-summed histogram. *)
Histogram(t, x, ph, to) ==
  /\ In(t, ph)
  /\ hist' = [hist EXCEPT ![x][t] =
       [j \in Clusters |-> Cardinality(UNION {InCluster(x, t, k) : k \in 0 .. j})]]
  /\ Arrive(t, to)
  /\ UNCHANGED << rkeys, skeys, tmp, dst, next, output, part_queue, join_queue, results, out, result, finished >>

HistR(t) == Histogram(t, "R", "histR", "offsetsR")
HistS(t) == Histogram(t, "S", "histS", "offsetsS")

Column(x, j) == [t \in Threads |-> hist[x][t][j]]

(* Mutant: the second loop begins behind the own thread. *)
MutBefore(x, t, j) ==
  SumFunctionOnSet(Column(x, j), 0 .. t - 1)
  + IF j = 0 THEN 0 ELSE SumFunctionOnSet(Column(x, j - 1), t + 1 .. NThreads - 1)

(* Tuples that go before those of thread t in cluster j: what the threads   *)
(* below t have up to j, and what t and the others have up to j - 1.        *)
Before(x, t, j) ==
  SumFunctionOnSet(Column(x, j), 0 .. t - 1)
  + IF j = 0 THEN 0 ELSE SumFunctionOnSet(Column(x, j - 1), t .. NThreads - 1)

(* Start and end of each cluster, padding included.  Every thread has an    *)
(* output array of its own; only that of thread 0 is read later.            *)
Offsets(t, x, ph, to) ==
  /\ In(t, ph)
  /\ LET start == [j \in Clusters |-> Before(x, t, j) + j * Padding]
     IN /\ dst' = [dst EXCEPT ![t] = start]
        /\ output' = IF t # 0 THEN output
             ELSE [output EXCEPT ![x] = [j \in 0 .. fanOut |->
                    IF j = fanOut THEN Len(Rel(x)) + fanOut * Padding ELSE start[j]]]
  /\ next' = [next EXCEPT ![t] = From(x, t)]
  /\ pc' = [pc EXCEPT ![t] = to]
  /\ UNCHANGED << rkeys, skeys, hist, tmp, part_queue, join_queue, results, out, result, finished >>
  /\ UNCHANGED << inside, passed, opened >>

OffsetsR(t) == Offsets(t, "R", "offsetsR", "copyR")
OffsetsS(t) == Offsets(t, "S", "offsetsS", "copyS")

(* One iteration of partition_copy; the unrolled variant issues the same    *)
(* writes in the same order.                                                *)
Copy(t, x, ph) ==
  /\ In(t, ph) /\ next[t] <= Upto(x, t)
  /\ LET j == Radix(x, next[t]) IN
       /\ tmp' = [tmp EXCEPT ![x][dst[t][j]] = next[t]]
       /\ dst' = [dst EXCEPT ![t][j] = @ + 1]
  /\ next' = [next EXCEPT ![t] = @ + 1]
  /\ UNCHANGED << rkeys, skeys, hist, output, part_queue, join_queue, results, out, result, finished, pc >>
  /\ UNCHANGED << inside, passed, opened >>

CopyDone(t, x, ph, to) ==
  /\ In(t, ph) /\ next[t] > Upto(x, t)
  /\ Arrive(t, to)
  /\ UNCHANGED data

CopyR(t) == Copy(t, "R", "copyR") \/ CopyDone(t, "R", "copyR", "histS")
CopyS(t) == Copy(t, "S", "copyS") \/ CopyDone(t, "S", "copyS", "tasks")

(* Cluster j of relation x, as thread 0 finds it in the buffer. *)
ClusterSlots(x, j) == output[x][j] .. output[x][j + 1] - Padding - 1
Cluster(x, j) == {tmp[x][s] : s \in ClusterSlots(x, j)}

Pair(r, s) == [r |-> r, s |-> s]
NonEmpty(task) == task.r # {} /\ task.s # {}

(* Tasks that a series of pushes adds to a queue with a fixed capacity. *)
Pushed(queue, tasks, capacity, queue2) ==
  \E lost \in SUBSET tasks :
    /\ Cardinality(lost) = IF Cardinality(queue) + Cardinality(tasks) > capacity
                             THEN Cardinality(queue) + Cardinality(tasks) - capacity ELSE 0
    /\ queue2 = queue \cup (tasks \ lost)

(* Thread 0 makes a task of every pair of clusters that are not empty.      *)
CreateTasks(t) ==
  /\ In(t, "tasks")
  /\ IF t = 0
       THEN LET tasks == {Pair(Cluster("R", j), Cluster("S", j)) : j \in Clusters}
            IN Pushed(part_queue, {k \in tasks : NonEmpty(k)}, PartCapacity, part_queue')
       ELSE part_queue' = part_queue
  /\ Arrive(t, "pass2")
  /\ UNCHANGED << rkeys, skeys, hist, tmp, dst, next, output, join_queue, results, out, result, finished >>

(* Mutant: the second pass looks at the bits of the first again. *)
MutSubTasks(task) ==
  {Pair({n \in task.r : HashBits(rkeys[n], 0, D) = j},
        {n \in task.s : HashBits(skeys[n], 0, D) = j}) : j \in 0 .. 2 ^ D - 1}

(* serial_radix_partition of one task by the next D bits. *)
SubTasks(task) ==
  {Pair({n \in task.r : HashBits(rkeys[n], R, D) = j},
        {n \in task.s : HashBits(skeys[n], R, D) = j}) : j \in 0 .. 2 ^ D - 1}

(* Mutant: the task stays in the queue. *)
MutRepartition(t) ==
  /\ In(t, "pass2") /\ num_passes = 2
  /\ \E task \in part_queue :
       Pushed(join_queue, {k \in SubTasks(task) : NonEmpty(k)}, JoinCapacity, join_queue')
  /\ UNCHANGED << rkeys, skeys, hist, tmp, dst, next, output, part_queue, results, out, result, finished, pc >>
  /\ UNCHANGED << inside, passed, opened >>

Repartition(t) ==
  /\ In(t, "pass2") /\ num_passes = 2
  /\ \E task \in part_queue :
       /\ part_queue' = part_queue \ {task}
       /\ Pushed(join_queue, {k \in SubTasks(task) : NonEmpty(k)}, JoinCapacity, join_queue')
  /\ UNCHANGED << rkeys, skeys, hist, tmp, dst, next, output, results, out, result, finished, pc >>
  /\ UNCHANGED << inside, passed, opened >>

(* Nothing (more) to do in pass 2. *)
Pass2Done(t) ==
  /\ In(t, "pass2")
  /\ num_passes = 1 \/ part_queue = {}
  /\ Arrive(t, "join")
  /\ UNCHANGED data

(* After a single pass the threads swap their pointers to the two queues.   *)
Joinable == IF num_passes = 1 THEN part_queue ELSE join_queue

JoinTask(t) ==
  /\ In(t, "join")
  /\ \E task \in Joinable :
       LET found == {m \in task.r \X task.s : rkeys[m[1]] = skeys[m[2]]} IN
         /\ part_queue' = IF num_passes = 1 THEN part_queue \ {task} ELSE part_queue
         /\ join_queue' = IF num_passes = 1 THEN join_queue ELSE join_queue \ {task}
         /\ out' = out \cup found
         /\ results' = [results EXCEPT ![t] = @ + Cardinality(found)]
  /\ UNCHANGED << rkeys, skeys, hist, tmp, dst, next, output, result, finished, pc >>
  /\ UNCHANGED << inside, passed, opened >>

JoinDone(t) ==
  /\ In(t, "join") /\ Joinable = {}
  /\ pc' = [pc EXCEPT ![t] = "done"]
  /\ UNCHANGED data
  /\ UNCHANGED << inside, passed, opened >>

Leave(t) == B!Leave(t) /\ UNCHANGED pc /\ UNCHANGED data

Step(t) ==
  \/ Start(t) \/ HistR(t) \/ OffsetsR(t) \/ CopyR(t) \/ HistS(t) \/ OffsetsS(t) \/ CopyS(t)
  \/ CreateTasks(t)
  \/ Repartition(t) \/ Pass2Done(t) \/ JoinTask(t) \/ JoinDone(t)
  \/ Leave(t)

Open == B!Open /\ UNCHANGED pc /\ UNCHANGED data

Total == SumFunction(results)

(* args->result, which prj_thread sets at its end. *)
Published(t) == IF pc[t] = "done" THEN results[t] ELSE 0

(* The main thread, which has run prj_thread for tid 0, waits for the       *)
(* others, sums up and returns.                                             *)
MutReturn == (* the main thread does not wait *)
  /\ ~finished /\ pc[0] = "done"
  /\ result' = SumFunction([t \in Threads |-> Published(t)]) /\ finished' = TRUE
  /\ UNCHANGED << rkeys, skeys, hist, tmp, dst, next, output, part_queue, join_queue, results, out, pc >>
  /\ UNCHANGED << inside, passed, opened >>

Return ==
  /\ ~finished /\ \A t \in Threads : pc[t] = "done"
  /\ result' = SumFunction([t \in Threads |-> Published(t)]) /\ finished' = TRUE
  /\ UNCHANGED << rkeys, skeys, hist, tmp, dst, next, output, part_queue, join_queue, results, out, pc >>
  /\ UNCHANGED << inside, passed, opened >>

Terminated == finished /\ UNCHANGED vars

Next ==
  \/ \E t \in Threads : Step(t)
  \/ Open
  \/ Return
  \/ Terminated

Spec == Init /\ [][Next]_vars

(* Every thread is scheduled; what it waits for is only the barrier (whose  *)
(* finalizer is run by the last thread to arrive) and, in the main thread,  *)
(* the others.                                                              *)
FairSpec ==
  /\ Spec
  /\ \A t \in Threads : WF_vars(Step(t))
  /\ WF_vars(Open)
  /\ WF_vars(Return)

-----------------------------------------------------------------------------
Positions(x) == 1 .. Len(Rel(x))
IsTask(k) == k.r \subseteq Positions("R") /\ k.s \subseteq Positions("S")

(* Type invariant; tasks hold positions of R and S only, no padding.        *)
TypeOK ==
  /\ rkeys \in RelationsR /\ skeys \in RelationsS
  /\ hist \in [Relations -> [Threads -> [Clusters -> Nat]]]
  /\ \A x \in Relations : \A s \in DOMAIN tmp[x] : tmp[x][s] \in Positions(x) \cup {0}
  /\ output \in [Relations -> [0 .. fanOut -> Nat]]
  /\ \A k \in part_queue \cup join_queue : IsTask(k)
  /\ results \in [Threads -> Nat] /\ result \in Nat /\ finished \in BOOLEAN

(* The slots of relation x that thread t may still fill in cluster j. *)
Todo(t, x, j) ==
  IF pc[t] # (IF x = "R" THEN "copyR" ELSE "copyS") THEN {}
  ELSE dst[t][j] .. dst[t][j] + Cardinality({n \in next[t] .. Upto(x, t) : Radix(x, n) = j}) - 1

(* The unsynchronised writes of partition_copy never meet: what the threads *)
(* have left to write is disjoint, still empty, and inside the buffer       *)
(* (join_init_run sizes it by the same padding formula).                    *)
CollisionFree ==
  \A x \in Relations : \A t, u \in Threads : \A j, k \in Clusters :
    /\ Todo(t, x, j) \subseteq {s \in DOMAIN tmp[x] : tmp[x][s] = 0}
    /\ << t, j >> # << u, k >> => Todo(t, x, j) \cap Todo(u, x, k) = {}

(* When all threads are done with the first pass, the clusters that thread  *)
(* 0 sees, from its own output array alone, hold exactly the tuples with    *)
(* their radix, each once, and the padding stays unused.                    *)
ClustersComplete ==
  opened >= 5 =>
    \A x \in Relations :
      /\ \A j \in Clusters :
           /\ Cluster(x, j) = {n \in DOMAIN Rel(x) : Radix(x, n) = j}
           /\ Cardinality(ClusterSlots(x, j)) = Cardinality(Cluster(x, j))
      /\ \A s \in DOMAIN tmp[x] \ UNION {ClusterSlots(x, j) : j \in Clusters} : tmp[x][s] = 0

Pairs(k) == k.r \X k.s
Queued == part_queue \cup join_queue

(* Once thread 0 has made the tasks and until the join is over, every match *)
(* is either reported or in exactly one queued task: no hash, partitioning  *)
(* pass, skipped empty cluster or failed push loses or doubles it.          *)
NothingLost ==
  opened >= 6 =>
    /\ \A m \in (Positions("R") \X Positions("S")) :
         rkeys[m[1]] = skeys[m[2]] =>
           Cardinality({k \in Queued : m \in Pairs(k)}) = IF m \in out THEN 0 ELSE 1
    /\ \A k, l \in Queued : k # l => k.r \cap l.r = {} /\ k.s \cap l.s = {}

(* Radix pass by radix pass, the tuples of a joinable task come to share    *)
(* all num_radix_bits low bits: the join functions hash only what is above. *)
TasksAligned ==
  \A k \in (IF num_passes = 2 THEN join_queue ELSE part_queue) :
    Cardinality({HashBits(rkeys[n], 0, num_radix_bits) : n \in k.r}
                \cup {HashBits(skeys[n], 0, num_radix_bits) : n \in k.s}) = 1

(* At any time the queues hold tasks of the relations that the join         *)
(* functions can handle.                                                    *)
QueuesSound == TypeOK /\ TasksAligned

(* Mapped to the promise of a join. *)
Abstract == INSTANCE AbstractJoin WITH matches <- IF finished THEN result ELSE Total

(* RHO and RHT report each match once and return their number, however the  *)
(* threads interleave.                                                      *)
ImplementsJoin == Abstract!Spec

(* The join returns. *)
Termination == <>finished
=============================================================================
