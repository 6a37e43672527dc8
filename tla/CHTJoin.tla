------------------------------ MODULE CHTJoin ------------------------------
(***************************************************************************)
(* The concise hash table join (CHTJoin.hpp, CHT.hpp): R is partitioned by *)
(* the high bits of its hash into a shared buffer, one cache line at a     *)
(* time; the threads take whole partitions from a counter and build, for   *)
(* each, its words of the bitmap and its range of the tuple array without  *)
(* latches; then every thread probes its share of S, in batches.           *)
(***************************************************************************)
EXTENDS Integers, Sequences, FiniteSets, Functions

CONSTANTS
  NThreads, NParts,
  RelationsR, RelationsS,  (* key sequences to choose from                   *)
  W,                       (* bitsPerBucket: 32                              *)
  L,                       (* TUPLES_PER_CACHELINE: 8                        *)
  Batch,                   (* PROBE_BATCH_SIZE: 16                           *)
  Chunk,                   (* tuples in the unit of zeroing: 2048 bytes, 256 *)
  Garbage                  (* keys that fresh memory may hold                *)

CHTAssumption ==
  /\ {NThreads, NParts, W, L, Batch, Chunk} \subseteq Nat \ {0}
  /\ RelationsR \cup RelationsS \subseteq Seq(Nat)

Threads == 0 .. NThreads - 1
Parts == 0 .. NParts - 1

VARIABLES
  rkeys, skeys,
  hist,               (* hist[t]: prefix-summed histogram of t's chunk of R   *)
  dst,                (* dst[t]: where t's share of each partition starts     *)
  buffers,            (* buffers[t][p]: the open line of t for p, its target  *)
  partBuffer,         (* slot -> position in R, 0 if stale                    *)
  bits, count,        (* the bitmap: set positions; count[word]               *)
  tupleArray,         (* slot -> << key, position in R or 0 >>                *)
  counter, part,      (* CHTPartitionQueue; the partition t builds            *)
  i,                  (* i[t]: progress of t in its chunk or partition        *)
  pos, seen,          (* what t has read and decided to write to              *)
  dropped,            (* tuples that found no bit or no slot                  *)
  found,              (* matches[t]                                           *)
  out, failed, finished, pc,
  inside, passed, opened

bar == << inside, passed, opened >>
partitioning == << hist, dst, buffers, partBuffer >>
building == << bits, count, tupleArray, counter, part, pos, seen, dropped >>
vars == << rkeys, skeys, partitioning, building, i, found, out, failed, finished, pc, bar >>

(* The barrier in ht.init and the six of join, in program order. *)
After == << "zero", "histogram", "offsets", "repair", "take", "probe", "done" >>
Bar == INSTANCE AbstractBarrier WITH Rounds <- 7

-----------------------------------------------------------------------------
n == Len(rkeys)
bitMapSize == 2 ^ (CHOOSE b \in 0 .. n : 2 ^ b >= n /\ \A c \in 0 .. n : 2 ^ c >= n => b <= c)
partitionSize == bitMapSize \div NParts

(* Identity hashing; SHIFT and MASK select the high bits of the hash. *)
Hash(key) == key % bitMapSize
Partition(key) == Hash(key) \div partitionSize
nextInPartition(p) == ((p \div partitionSize) * partitionSize) + ((p + 1) % partitionSize)

Share(rel) == Len(rel) \div NThreads
From(rel, t) == t * Share(rel) + 1
Size(rel, t) == IF t = NThreads - 1 THEN Len(rel) - t * Share(rel) ELSE Share(rel)

Init ==
  /\ rkeys \in RelationsR /\ skeys \in RelationsS
  /\ hist = [t \in Threads |-> [p \in Parts |-> 0]]
  /\ dst = [t \in Threads |-> [p \in Parts |-> 0]]
  /\ buffers = [t \in Threads |-> [p \in Parts |-> [target |-> 0, line |-> [s \in 0 .. L - 1 |-> 0]]]]
  /\ partBuffer = [s \in 0 .. n - 1 |-> 0]
  /\ bits \in {{}, 0 .. bitMapSize - 1}
  /\ count = [w \in 0 .. (bitMapSize \div W) - 1 |-> 0]
  /\ \E g \in Garbage : tupleArray = [s \in 0 .. n + 1 |-> << g, 0 >>]
  /\ counter = 0
  /\ part = [t \in Threads |-> 0]
  /\ i = [t \in Threads |-> 0]
  /\ pos = [t \in Threads |-> 0] /\ seen = [t \in Threads |-> {}]
  /\ dropped = {}
  /\ found = [t \in Threads |-> 0]
  /\ out = {} /\ failed = FALSE /\ finished = FALSE
  /\ pc = [t \in Threads |-> "barrier"]
  /\ Bar!Init

Goto(t, l) == pc' = [pc EXCEPT ![t] = l]
Advance(t) == i' = [i EXCEPT ![t] = @ + 1]
Restart(t) == i' = [i EXCEPT ![t] = 0]

(* A thread calls wait, the last one in opens the barrier, and each goes on *)
(* to the next phase.                                                       *)
Arrive(t) ==
  /\ pc[t] = "barrier"
  /\ Bar!Enter(t)
  /\ UNCHANGED << rkeys, skeys, partitioning, building, i, found, out, failed, finished, pc >>

Open ==
  /\ Bar!Open
  /\ UNCHANGED << rkeys, skeys, partitioning, building, i, found, out, failed, finished, pc >>

Proceed(t) ==
  /\ pc[t] = "barrier"
  /\ Bar!Leave(t)
  /\ Goto(t, After[passed[t] + 1])
  /\ Restart(t)
  /\ UNCHANGED << rkeys, skeys, partitioning, building, found, out, failed, finished >>

(* Each thread zeroes every NThreads-th chunk of the tuple array and of the *)
(* bitmap (whose only chunk, at these sizes, is that of thread 0).          *)
NumChunks == (n + Chunk - 1) \div Chunk
Zero(t) ==
  /\ pc[t] = "zero"
  /\ tupleArray' = [s \in DOMAIN tupleArray |->
       IF s \div Chunk < NumChunks /\ (s \div Chunk) % NThreads = t THEN << 0, 0 >> ELSE tupleArray[s]]
  /\ bits' = IF t = 0 THEN {} ELSE bits
  /\ Goto(t, "barrier")
  /\ UNCHANGED << rkeys, skeys, partitioning, count, counter, part, pos, seen, dropped,
                  i, found, out, failed, finished, bar >>

-----------------------------------------------------------------------------
(* Partitioning. *)
ChunkR(t) == From(rkeys, t) .. From(rkeys, t) + Size(rkeys, t) - 1

Histogram(t) ==
  /\ pc[t] = "histogram"
  /\ hist' = [hist EXCEPT ![t] =
       [p \in Parts |-> Cardinality({r \in ChunkR(t) : Partition(rkeys[r]) <= p})]]
  /\ Goto(t, "barrier")
  /\ UNCHANGED << rkeys, skeys, dst, buffers, partBuffer, building, i, found, out,
                  failed, finished, bar >>

Column(p) == [t \in Threads |-> hist[t][p]]

Start(t, p) ==
  SumFunctionOnSet(Column(p), 0 .. t - 1)
  + IF p = 0 THEN 0 ELSE SumFunctionOnSet(Column(p - 1), t .. NThreads - 1)

Offsets(t) ==
  /\ pc[t] = "offsets"
  /\ dst' = [dst EXCEPT ![t] = [p \in Parts |-> Start(t, p)]]
  /\ buffers' = [buffers EXCEPT ![t] = [p \in Parts |-> [@[p] EXCEPT !.target = Start(t, p)]]]
  /\ Goto(t, "scatter")
  /\ UNCHANGED << rkeys, skeys, hist, partBuffer, building, i, found, out, failed, finished, bar >>

(* One tuple into its line; the last slot of a line flushes all of it, also *)
(* the slots in front that belong to other threads or partitions.           *)
Scatter(t) ==
  /\ pc[t] = "scatter" /\ i[t] < Size(rkeys, t)
  /\ LET r == From(rkeys, t) + i[t]
         p == Partition(rkeys[r])
         target == buffers[t][p].target
         slot == target % L
         line == [buffers[t][p].line EXCEPT ![slot] = r]
     IN /\ buffers' = [buffers EXCEPT ![t][p] = [target |-> target + 1, line |-> line]]
        /\ partBuffer' = [s \in DOMAIN partBuffer |->
             IF slot = L - 1 /\ s \in target - slot .. target THEN line[s % L] ELSE partBuffer[s]]
  /\ Advance(t)
  /\ UNCHANGED << rkeys, skeys, hist, dst, building, found, out, failed, finished, pc, bar >>

EndScatter(t) ==
  /\ pc[t] = "scatter" /\ i[t] = Size(rkeys, t)
  /\ Goto(t, "barrier")
  /\ UNCHANGED << rkeys, skeys, partitioning, building, i, found, out, failed, finished, bar >>

(* Mutant: the open lines are written from their first slot. *)
MutPending(t, p) == (buffers[t][p].target \div L) * L .. buffers[t][p].target - 1

(* After the barrier each thread writes what is left in its open lines: the *)
(* slots of the line at or after its own start.                             *)
Pending(t, p) ==
  LET line == (buffers[t][p].target \div L) * L
  IN (IF line < dst[t][p] THEN dst[t][p] ELSE line) .. buffers[t][p].target - 1

Repair(t) ==
  /\ pc[t] = "repair" /\ i[t] < NParts
  /\ LET p == NParts - 1 - i[t] IN
       partBuffer' = [s \in DOMAIN partBuffer |->
         IF s \in Pending(t, p) THEN buffers[t][p].line[s % L] ELSE partBuffer[s]]
  /\ Advance(t)
  /\ UNCHANGED << rkeys, skeys, hist, dst, buffers, building, found, out, failed, finished, pc, bar >>

EndRepair(t) ==
  /\ pc[t] = "repair" /\ i[t] = NParts
  /\ Goto(t, "barrier")
  /\ UNCHANGED << rkeys, skeys, partitioning, building, i, found, out, failed, finished, bar >>

-----------------------------------------------------------------------------
(* Building. *)

Take(t) ==
  /\ pc[t] = "take"
  /\ part' = [part EXCEPT ![t] = counter]
  /\ counter' = counter + 1
  /\ Goto(t, IF counter < NParts THEN "setBit" ELSE "barrier")
  /\ Restart(t)
  /\ UNCHANGED << rkeys, skeys, partitioning, bits, count, tupleArray, pos, seen, dropped,
                  found, out, failed, finished, bar >>

(* The slots of a partition, as thread 0 computed them. *)
PartSlots(p) == dst[0][p] .. (IF p = NParts - 1 THEN n ELSE dst[0][p + 1]) - 1
PartSize(p) == Cardinality(PartSlots(p))
Tuple(t) == partBuffer[dst[0][part[t]] + i[t]]
Key(t) == rkeys[Tuple(t)]

Word(p) == p \div W
WordBits(p) == Word(p) * W .. Word(p) * W + W - 1

(* setIfFree reads the word of a position ... *)
ReadWord(t) ==
  /\ pc[t] = "setBit" /\ i[t] < PartSize(part[t])
  /\ pos' = [pos EXCEPT ![t] = Hash(Key(t))]
  /\ seen' = [seen EXCEPT ![t] = bits \cap WordBits(Hash(Key(t)))]
  /\ Goto(t, "setIfFree")
  /\ UNCHANGED << rkeys, skeys, partitioning, bits, count, tupleArray, counter, part, dropped,
                  i, found, out, failed, finished, bar >>

(* ... and, if it is free, stores the word with the bit; ... *)
SetFree(t) ==
  /\ pc[t] = "setIfFree" /\ pos[t] \notin seen[t]
  /\ bits' = (bits \ WordBits(pos[t])) \cup seen[t] \cup {pos[t]}
  /\ Goto(t, "setBit") /\ Advance(t)
  /\ UNCHANGED << rkeys, skeys, partitioning, count, tupleArray, counter, part, pos, seen,
                  dropped, found, out, failed, finished, bar >>

(* ... else setBit tries the next position of the partition, once; ... *)
SecondPosition(t) == nextInPartition(Hash(Key(t)))
TryNext(t) ==
  /\ pc[t] = "setIfFree" /\ pos[t] \in seen[t] /\ pos[t] # SecondPosition(t)
  /\ pos' = [pos EXCEPT ![t] = SecondPosition(t)]
  /\ seen' = [seen EXCEPT ![t] = bits \cap WordBits(SecondPosition(t))]
  /\ UNCHANGED << rkeys, skeys, partitioning, bits, count, tupleArray, counter, part, dropped,
                  i, found, out, failed, finished, pc, bar >>

(* ... else the tuple would belong into an overflow table that is not there. *)
NoBit(t) ==
  /\ pc[t] = "setIfFree" /\ pos[t] \in seen[t] /\ pos[t] = SecondPosition(t)
  /\ dropped' = dropped \cup {Tuple(t)}
  /\ Goto(t, "setBit") /\ Advance(t)
  /\ UNCHANGED << rkeys, skeys, partitioning, bits, count, tupleArray, counter, part, pos, seen,
                  found, out, failed, finished, bar >>

(* computePartPopCount. *)
PartWords(p) == (partitionSize \div W) * p .. (partitionSize \div W) * (p + 1) - 1

PopCount(t) ==
  /\ pc[t] = "setBit" /\ i[t] = PartSize(part[t])
  /\ count' = [w \in DOMAIN count |->
       IF w \in PartWords(part[t])
         THEN dst[0][part[t]] + Cardinality(bits \cap partitionSize * part[t] .. w * W - 1)
         ELSE count[w]]
  /\ Goto(t, "setTuple") /\ Restart(t)
  /\ UNCHANGED << rkeys, skeys, partitioning, bits, tupleArray, counter, part, pos, seen, dropped,
                  found, out, failed, finished, bar >>

(* findTuplePlace. *)
Place(key) == count[Word(Hash(key))] + Cardinality(bits \cap Word(Hash(key)) * W .. Hash(key) - 1)

(* setTuple looks for a slot with key 0, at the place or after it; ... *)
Free(s) == tupleArray[s][1] = 0
FindSlot(t) ==
  /\ pc[t] = "setTuple" /\ i[t] < PartSize(part[t])
  /\ LET p == Place(Key(t)) IN
       \/ /\ Free(p)
          /\ pos' = [pos EXCEPT ![t] = p]
          /\ Goto(t, "store") /\ UNCHANGED << i, dropped >>
       \/ /\ ~Free(p) /\ Free(nextInPartition(p))
          /\ pos' = [pos EXCEPT ![t] = nextInPartition(p)]
          /\ Goto(t, "store") /\ UNCHANGED << i, dropped >>
       \/ /\ ~Free(p) /\ ~Free(nextInPartition(p))
          /\ dropped' = dropped \cup {Tuple(t)}
          /\ Advance(t) /\ UNCHANGED << pos, pc >>
  /\ UNCHANGED << rkeys, skeys, partitioning, bits, count, tupleArray, counter, part, seen,
                  found, out, failed, finished, bar >>

(* ... and stores the tuple there. *)
Store(t) ==
  /\ pc[t] = "store"
  /\ tupleArray' = [tupleArray EXCEPT ![pos[t]] = << Key(t), Tuple(t) >>]
  /\ Goto(t, "setTuple") /\ Advance(t)
  /\ UNCHANGED << rkeys, skeys, partitioning, bits, count, counter, part, pos, seen, dropped,
                  found, out, failed, finished, bar >>

EndBuild(t) ==
  /\ pc[t] = "setTuple" /\ i[t] = PartSize(part[t])
  /\ Goto(t, "take")
  /\ UNCHANGED << rkeys, skeys, partitioning, building, i, found, out, failed, finished, bar >>

-----------------------------------------------------------------------------
(* Probing. *)

(* Mutant: the key of the second candidate is not compared. *)
MutLookup(key) ==
  LET p == Place(key)
  IN IF tupleArray[p][1] = key THEN p ELSE IF ~Free(p + 1) THEN p + 1 ELSE -1

(* The slot where a probe for key ends, -1 if neither candidate has it. *)
Lookup(key) ==
  LET p == Place(key)
  IN IF tupleArray[p][1] = key THEN p ELSE IF tupleArray[p + 1][1] = key THEN p + 1 ELSE -1

(* numS - PROBE_BATCH_SIZE is unsigned: a smaller chunk has no last batch. *)
MoreBatches(t) == Size(skeys, t) < Batch \/ i[t] <= Size(skeys, t) - Batch

Hits(t, k) == {s \in From(skeys, t) + i[t] .. From(skeys, t) + i[t] + k - 1 : Lookup(skeys[s]) # -1}
Report(t, k) ==
  /\ found' = [found EXCEPT ![t] = @ + Cardinality(Hits(t, k))]
  /\ out' = out \cup {<< tupleArray[Lookup(skeys[s])][2], s >> : s \in Hits(t, k)}
  /\ i' = [i EXCEPT ![t] = @ + k]

BatchProbe(t) ==
  /\ pc[t] = "probe" /\ MoreBatches(t)
  /\ From(skeys, t) + i[t] + Batch - 1 <= Len(skeys)
  /\ Report(t, Batch)
  /\ UNCHANGED << rkeys, skeys, partitioning, building, failed, finished, pc, bar >>

ProbeRest(t) ==
  /\ pc[t] = "probe" /\ ~MoreBatches(t)
  /\ i[t] < Size(skeys, t) /\ Hits(t, 1) # {}
  /\ Report(t, 1)
  /\ UNCHANGED << rkeys, skeys, partitioning, building, failed, finished, pc, bar >>

(* ocall_throw ends the program: a leftover key without partner.  A batch   *)
(* that leaves the relation reads foreign memory and counts as failed too.  *)
Fail(t) ==
  /\ pc[t] = "probe"
  /\ IF MoreBatches(t) THEN From(skeys, t) + i[t] + Batch - 1 > Len(skeys)
                       ELSE i[t] < Size(skeys, t) /\ Hits(t, 1) = {}
  /\ failed' = TRUE
  /\ UNCHANGED << rkeys, skeys, partitioning, building, i, found, out, finished, pc, bar >>

EndProbe(t) ==
  /\ pc[t] = "probe" /\ ~MoreBatches(t) /\ i[t] >= Size(skeys, t)
  /\ Goto(t, "barrier")
  /\ UNCHANGED << rkeys, skeys, partitioning, building, i, found, out, failed, finished, bar >>

(* CHTJ joins the threads and adds up their matches. *)
Return ==
  /\ ~finished /\ \A t \in Threads : pc[t] = "done"
  /\ finished' = TRUE
  /\ UNCHANGED << rkeys, skeys, partitioning, building, i, found, out, failed, pc, bar >>

Partitioning(t) == Histogram(t) \/ Offsets(t) \/ Scatter(t) \/ EndScatter(t) \/ Repair(t) \/ EndRepair(t)
Building(t) ==
  \/ Take(t) \/ ReadWord(t) \/ SetFree(t) \/ TryNext(t) \/ NoBit(t) \/ PopCount(t)
  \/ FindSlot(t) \/ Store(t) \/ EndBuild(t)
Probing(t) == BatchProbe(t) \/ ProbeRest(t) \/ Fail(t) \/ EndProbe(t)
Step(t) == Arrive(t) \/ Proceed(t) \/ Zero(t) \/ Partitioning(t) \/ Building(t) \/ Probing(t)

Total == SumFunction(found)

-----------------------------------------------------------------------------
Dense(rel) == Range(rel) = 1 .. Len(rel)

(* Type invariant; a thread builds only partitions that exist.              *)
TypeOK ==
  /\ \A t \in Threads :
       /\ \A p \in Parts : dst[t][p] \in 0 .. n /\ buffers[t][p].target \in 0 .. n
       /\ part[t] \in Parts \/ pc[t] \notin {"setBit", "setIfFree", "setTuple", "store"}
  /\ DOMAIN partBuffer = 0 .. n - 1 /\ Range(partBuffer) \subseteq 0 .. n
  /\ bits \subseteq 0 .. bitMapSize - 1
  /\ DOMAIN tupleArray = 0 .. n + 1
  /\ \A t \in Threads : pc[t] \in Range(After) \cup
       {"barrier", "scatter", "setBit", "setIfFree", "setTuple", "store"}

(* Full lines are written with stale slots that belong to other threads and *)
(* to other partitions; once the open lines are repaired, the slots of each *)
(* partition hold exactly the tuples of R with its hash bits.               *)
ClustersComplete ==
  opened >= 5 =>
    \A p \in Parts :
      /\ {partBuffer[s] : s \in PartSlots(p)} = {r \in DOMAIN rkeys : Partition(rkeys[r]) = p}
      /\ PartSize(p) = Cardinality({r \in DOMAIN rkeys : Partition(rkeys[r]) = p})

(* With dense keys every tuple finds a bit and a slot, so that no overflow  *)
(* table is needed: what the comments at CHT.hpp:175 and 203 say.           *)
DenseKeysFit == Dense(rkeys) => dropped = {}

(* After the build, the position and the slot that the latch-free builders  *)
(* gave each tuple are those that a probe for its key computes.             *)
TableComplete ==
  opened >= 6 => \A r \in DOMAIN rkeys :
    Lookup(rkeys[r]) # -1 /\ tupleArray[Lookup(rkeys[r])] = << rkeys[r], r >>

(* Keys that are not dense may collide and lose their tuple, but what the   *)
(* join reports are matches, and it counts none of them twice.              *)
ReportsSound ==
  /\ out \subseteq {m \in (DOMAIN rkeys) \X (DOMAIN skeys) : rkeys[m[1]] = skeys[m[2]]}
  /\ Total = Cardinality(out)

(* The program gives up only for a tuple of S that really has no partner.   *)
FailsOnlyOnMiss == failed => Range(skeys) \ Range(rkeys) # {}
=============================================================================
