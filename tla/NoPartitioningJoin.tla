------------------------- MODULE NoPartitioningJoin -------------------------
(***************************************************************************)
(* PHT_int and npo_thread of no_partitioning_hash_join.cpp: all threads    *)
(* build one hash table, under a latch in each bucket, then probe it       *)
(* without latches.  A full bucket chains to overflow buckets that belong  *)
(* to the thread that needed them and die with it.                         *)
(***************************************************************************)
EXTENDS Integers, Sequences, FiniteSets, Functions

CONSTANTS
  NThreads,
  RelationsR, RelationsS,  (* key sequences to choose from                *)
  BucketCounts,            (* num_buckets of a table for |R| tuples: the  *)
                           (* hash of a key is key % BucketCounts[|R|]    *)
  BUCKET_SIZE

BuildAssumption ==
  /\ {NThreads, BUCKET_SIZE} \subseteq Nat \ {0}
  /\ RelationsR \cup RelationsS \subseteq Seq(Nat)
  /\ \A r \in RelationsR : BucketCounts[Len(r)] \in Nat \ {0}

Threads == 0 .. NThreads - 1

VARIABLES
  rkeys, skeys,
  latch,                  (* latch[b]: bucket b is locked                     *)
  tuples,                 (* tuples[b]: positions in R, 0 = never written     *)
  count,                  (* count[b]                                         *)
  next,                   (* next[b]: the next bucket of the chain, or NULL   *)
  used,                   (* used[t]: buckets taken from t's overflow buffer  *)
  freed,                  (* threads that have freed their buffer             *)
  i,                      (* i[t]: the tuple of R or S that t works on        *)
  dest,                   (* dest[t]: <<bucket, slot>> that t will write      *)
  b,                      (* b[t]: the bucket in which t probes               *)
  num_results,            (* num_results[t]                                   *)
  out, result, finished,  (* matches; what PHT_int returns                    *)
  pc, inside, passed, opened

vars == << rkeys, skeys, latch, tuples, count, next, used, freed, i, dest, b,
           num_results, out, result, finished, pc, inside, passed, opened >>
table == << latch, tuples, count, next, used >>
bar == << inside, passed, opened >>
answer == << rkeys, skeys, result, finished >>

Bar == INSTANCE AbstractBarrier WITH Rounds <- 3

-----------------------------------------------------------------------------
(* Buckets are numbers: first those of the table, then those that           *)
(* get_new_bucket takes from the buffer of thread t.                        *)
nb == BucketCounts[Len(rkeys)]
Main == 0 .. nb - 1
Overflow(t, n) == nb + t * Len(rkeys) + n
Owner(bucket) == (bucket - nb) \div Len(rkeys)
Buckets == 0 .. nb + NThreads * Len(rkeys) - 1
NULL == -1

Hash(key) == key % nb

Share(rel) == Len(rel) \div NThreads
From(rel, t) == t * Share(rel) + 1
Upto(rel, t) == IF t = NThreads - 1 THEN Len(rel) ELSE (t + 1) * Share(rel)

Empty == [n \in 0 .. BUCKET_SIZE - 1 |-> 0]

Init ==
  /\ rkeys \in RelationsR /\ skeys \in RelationsS
  /\ latch = [x \in Main |-> FALSE]
  /\ tuples = [x \in Buckets |-> Empty]
  /\ count = [x \in Buckets |-> 0]
  /\ next = [x \in Buckets |-> NULL]
  /\ used = [t \in Threads |-> 0]
  /\ freed = {}
  /\ i = [t \in Threads |-> From(rkeys, t)]
  /\ dest = [t \in Threads |-> << 0, 0 >>]
  /\ b = [t \in Threads |-> NULL]
  /\ num_results = [t \in Threads |-> 0]
  /\ out = {} /\ result = 0 /\ finished = FALSE
  /\ pc = [t \in Threads |-> "start"]
  /\ Bar!Init

In(t, ph) == pc[t] = ph /\ t \notin inside
Goto(t, ph) == pc' = [pc EXCEPT ![t] = ph]

(* npo_thread: the first barrier, before the build. *)
Start(t) ==
  /\ In(t, "start")
  /\ Bar!Enter(t) /\ Goto(t, "build")
  /\ UNCHANGED << answer, table, freed, i, dest, b, num_results, out >>

(* build_hashtable_mt: lock the tuple's bucket, ... *)
MutLock(t) ==
  /\ In(t, "build") /\ i[t] <= Upto(rkeys, t)
  /\ latch' = [latch EXCEPT ![Hash(rkeys[i[t]])] = TRUE]
  /\ Goto(t, "insert")
  /\ UNCHANGED << answer, tuples, count, next, used, freed, i, dest, b, num_results, out, bar >>

Lock(t) ==
  /\ In(t, "build") /\ i[t] <= Upto(rkeys, t)
  /\ ~latch[Hash(rkeys[i[t]])]
  /\ latch' = [latch EXCEPT ![Hash(rkeys[i[t]])] = TRUE]
  /\ Goto(t, "insert")
  /\ UNCHANGED << answer, tuples, count, next, used, freed, i, dest, b, num_results, out, bar >>

curr(t) == Hash(rkeys[i[t]])

(* ... find a place in it, ...  *)
InsertHere(t) ==
  /\ pc[t] = "insert" /\ count[curr(t)] < BUCKET_SIZE
  /\ dest' = [dest EXCEPT ![t] = << curr(t), count[curr(t)] >>]
  /\ Goto(t, "bump")
  /\ UNCHANGED << answer, table, freed, i, b, num_results, out, bar >>

(* ... or in the second bucket of the chain, ... *)
InsertNext(t) ==
  LET nxt == next[curr(t)] IN
    /\ pc[t] = "insert" /\ count[curr(t)] = BUCKET_SIZE
    /\ nxt # NULL /\ count[nxt] < BUCKET_SIZE
    /\ dest' = [dest EXCEPT ![t] = << nxt, count[nxt] >>]
    /\ Goto(t, "bump")
    /\ UNCHANGED << answer, table, freed, i, b, num_results, out, bar >>

(* ... or in a new bucket that becomes the second of the chain; ... *)
MutInsertNew(t) ==
  LET nxt == next[curr(t)]
      new == Overflow(t, used[t])
  IN
    /\ pc[t] = "insert" /\ count[curr(t)] = BUCKET_SIZE
    /\ nxt # NULL => count[nxt] = BUCKET_SIZE
    /\ used' = [used EXCEPT ![t] = @ + 1]
    /\ next' = [next EXCEPT ![curr(t)] = new]
    /\ dest' = [dest EXCEPT ![t] = << new, 0 >>]
    /\ Goto(t, "bump")
    /\ UNCHANGED << answer, latch, tuples, count, freed, i, b, num_results, out, bar >>

InsertNew(t) ==
  LET nxt == next[curr(t)]
      new == Overflow(t, used[t])
  IN
    /\ pc[t] = "insert" /\ count[curr(t)] = BUCKET_SIZE
    /\ nxt # NULL => count[nxt] = BUCKET_SIZE
    /\ used' = [used EXCEPT ![t] = @ + 1]
    /\ next' = [next EXCEPT ![curr(t)] = new, ![new] = nxt]
    /\ dest' = [dest EXCEPT ![t] = << new, 0 >>]
    /\ Goto(t, "bump")
    /\ UNCHANGED << answer, latch, tuples, count, freed, i, b, num_results, out, bar >>

(* ... count it, ... *)
Bump(t) ==
  /\ pc[t] = "bump"
  /\ count' = [count EXCEPT ![dest[t][1]] = dest[t][2] + 1]
  /\ Goto(t, "store")
  /\ UNCHANGED << answer, latch, tuples, next, used, freed, i, dest, b, num_results, out, bar >>

(* ... write the tuple and unlock. *)
Store(t) ==
  /\ pc[t] = "store"
  /\ tuples' = [tuples EXCEPT ![dest[t][1]][dest[t][2]] = i[t]]
  /\ latch' = [latch EXCEPT ![curr(t)] = FALSE]
  /\ i' = [i EXCEPT ![t] = @ + 1]
  /\ Goto(t, "build")
  /\ UNCHANGED << answer, count, next, used, freed, dest, b, num_results, out, bar >>

(* The barrier between build and probe. *)
Built(t) ==
  /\ In(t, "build") /\ i[t] > Upto(rkeys, t)
  /\ Bar!Enter(t) /\ Goto(t, "probe")
  /\ i' = [i EXCEPT ![t] = From(skeys, t)]
  /\ UNCHANGED << answer, table, freed, dest, b, num_results, out >>

(* probe_hashtable: the chain of each tuple of S, bucket by bucket. *)
MutProbe(t) == (* an endless loop for a tuple with an empty bucket *)
  /\ In(t, "probe") /\ b[t] = NULL /\ i[t] <= Upto(skeys, t)
  /\ b' = [b EXCEPT ![t] = IF count[Hash(skeys[i[t]])] = 0 THEN NULL ELSE Hash(skeys[i[t]])]
  /\ UNCHANGED << answer, table, freed, i, dest, num_results, out, pc, bar >>

Probe(t) ==
  /\ In(t, "probe") /\ b[t] = NULL /\ i[t] <= Upto(skeys, t)
  /\ b' = [b EXCEPT ![t] = Hash(skeys[i[t]])]
  /\ UNCHANGED << answer, table, freed, i, dest, num_results, out, pc, bar >>

(* Tuples of a bucket that match tuple n of S.  A slot that was counted but *)
(* never written holds a zeroed or an undefined tuple, never a position.    *)
MatchesIn(bucket, n) ==
  {k \in 0 .. count[bucket] - 1 :
     tuples[bucket][k] # 0 /\ rkeys[tuples[bucket][k]] = skeys[n]}

Follow(t) ==
  /\ In(t, "probe") /\ b[t] # NULL
  /\ out' = out \cup {<< tuples[b[t]][k], i[t] >> : k \in MatchesIn(b[t], i[t])}
  /\ num_results' = [num_results EXCEPT ![t] = @ + Cardinality(MatchesIn(b[t], i[t]))]
  /\ b' = [b EXCEPT ![t] = next[b[t]]]
  /\ i' = IF next[b[t]] = NULL THEN [i EXCEPT ![t] = @ + 1] ELSE i
  /\ UNCHANGED << answer, table, freed, dest, pc, bar >>

(* The barrier after the probe: nobody needs the overflow buckets any more. *)
MutProbed(t) ==
  /\ In(t, "probe") /\ b[t] = NULL /\ i[t] > Upto(skeys, t)
  /\ Goto(t, "free")
  /\ UNCHANGED << answer, table, freed, i, dest, b, num_results, out, bar >>

Probed(t) ==
  /\ In(t, "probe") /\ b[t] = NULL /\ i[t] > Upto(skeys, t)
  /\ Bar!Enter(t) /\ Goto(t, "free")
  /\ UNCHANGED << answer, table, freed, i, dest, b, num_results, out >>

Free(t) ==
  /\ In(t, "free")
  /\ freed' = freed \cup {t}
  /\ Goto(t, "done")
  /\ UNCHANGED << answer, table, i, dest, b, num_results, out, bar >>

Leave(t) ==
  /\ Bar!Leave(t)
  /\ UNCHANGED << answer, table, freed, i, dest, b, num_results, out, pc >>

Open ==
  /\ Bar!Open
  /\ UNCHANGED << answer, table, freed, i, dest, b, num_results, out, pc >>

Total == SumFunction(num_results)

(* PHT_int joins the threads, adds up their counts and frees the table. *)
Return ==
  /\ ~finished /\ \A t \in Threads : pc[t] = "done"
  /\ result' = Total /\ finished' = TRUE
  /\ UNCHANGED << rkeys, skeys, table, freed, i, dest, b, num_results, out, pc, bar >>

Step(t) ==
  \/ Start(t) \/ Lock(t) \/ InsertHere(t) \/ InsertNext(t) \/ InsertNew(t)
  \/ Bump(t) \/ Store(t) \/ Built(t)
  \/ Probe(t) \/ Follow(t) \/ Probed(t)
  \/ Free(t) \/ Leave(t)

-----------------------------------------------------------------------------
Inserting(t) == pc[t] \in {"insert", "bump", "store"}

(* Type invariant: no bucket counts more tuples than it has slots.          *)
TypeOK ==
  /\ latch \in [Main -> BOOLEAN]
  /\ count \in [Buckets -> 0 .. BUCKET_SIZE]
  /\ next \in [Buckets -> Buckets \cup {NULL}]
  /\ b \in [Threads -> Buckets \cup {NULL}]
  /\ freed \subseteq Threads

(* Two threads never work on chains of the same bucket at a time, and       *)
(* exactly the buckets that are worked on are locked.                       *)
LatchProtects ==
  /\ \A t, u \in Threads : Inserting(t) /\ Inserting(u) /\ t # u => curr(t) # curr(u)
  /\ \A x \in Main : latch[x] <=> \E t \in Threads : Inserting(t) /\ curr(t) = x

(* Buckets of the chain that starts at bucket x. *)
ChainOf(x) ==
  LET reach[n \in 0 .. Cardinality(Buckets)] ==
        IF n = 0 THEN {x} ELSE reach[n - 1] \cup ({next[y] : y \in reach[n - 1]} \ {NULL})
  IN reach[Cardinality(Buckets)]

Contents(x) ==
  {c \in ChainOf(x) \X (0 .. BUCKET_SIZE - 1) : c[2] < count[c[1]]}

(* After the build the chain of each bucket holds exactly the tuples of R   *)
(* that hash to it, each once.                                              *)
ChainsComplete ==
  opened >= 2 =>
    \A x \in Main :
      LET mine == {n \in DOMAIN rkeys : Hash(rkeys[n]) = x} IN
        /\ {tuples[c[1]][c[2]] : c \in Contents(x)} = mine
        /\ Cardinality(Contents(x)) = Cardinality(mine)

(* A thread that probes never stands on an overflow bucket whose buffer has *)
(* been freed.                                                              *)
NoUseAfterFree ==
  \A t \in Threads : b[t] # NULL /\ b[t] \notin Main => Owner(b[t]) \notin freed
=============================================================================
