--------------------------- MODULE NoOverflowJoin ---------------------------
(***************************************************************************)
(* PHT, PHT_no and PHT_un of no_partitioning_hash_join.cpp: the hash join  *)
(* without overflow buckets that the benchmarks run by default.  It is     *)
(* meant for the dense primary keys of the build relation, which the       *)
(* buckets, sized by |R|, can hold; RelationsR is restricted to those.     *)
(* With Unroll the build and the probe are the unrolled variants.          *)
(***************************************************************************)
EXTENDS Integers, Sequences, FiniteSets, Functions

CONSTANTS
  NThreads,
  RelationsR, RelationsS,
  BUCKET_SIZE,
  Unroll,               (* compiled with UNROLL, or run as PHT_un    *)
  PHT_UNROLL_FACTOR

NoOverflowAssumption ==
  /\ {NThreads, BUCKET_SIZE, PHT_UNROLL_FACTOR} \subseteq Nat \ {0}
  /\ RelationsR \cup RelationsS \subseteq Seq(Nat \ {0})
  /\ Unroll \in BOOLEAN
  /\ \A r \in RelationsR :
       /\ Len(r) > 0 /\ Len(r) % BUCKET_SIZE = 0
       /\ Range(r) = DOMAIN r

Threads == 0 .. NThreads - 1

VARIABLES
  rkeys, skeys,
  latch, count,          (* of each bucket                                  *)
  tuples,                (* tuples[b][k]: a position in R, 0 = zeroed       *)
  i,                     (* i[t]: the tuple of R that thread t inserts      *)
  num_results,
  result, finished,
  pc, inside, passed, opened

vars == << rkeys, skeys, latch, count, tuples, i, num_results, result, finished,
           pc, inside, passed, opened >>
bar == << inside, passed, opened >>

Bar == INSTANCE AbstractBarrier WITH Rounds <- 3

-----------------------------------------------------------------------------
(* allocate_hashtable: |R| / BUCKET_SIZE rounded up to a power of two. *)
NumBuckets(n) == CHOOSE x \in {2 ^ e : e \in 0 .. n} : x >= n \div BUCKET_SIZE /\ x < 2 * (n \div BUCKET_SIZE)

nb == NumBuckets(Len(rkeys))
Buckets == 0 .. nb - 1
Hash(key) == key % nb

Share(rel) == Len(rel) \div NThreads
From(rel, t) == t * Share(rel) + 1
Upto(rel, t) == IF t = NThreads - 1 THEN Len(rel) ELSE (t + 1) * Share(rel)

Init ==
  /\ rkeys \in RelationsR /\ skeys \in RelationsS
  /\ latch = [x \in Buckets |-> FALSE]
  /\ count = [x \in Buckets |-> 0]
  /\ tuples = [x \in Buckets |-> [k \in 0 .. BUCKET_SIZE - 1 |-> 0]]
  /\ i = [t \in Threads |-> From(rkeys, t)]
  /\ num_results = [t \in Threads |-> 0]
  /\ result = 0 /\ finished = FALSE
  /\ pc = [t \in Threads |-> "start"]
  /\ Bar!Init

In(t, ph) == pc[t] = ph /\ t \notin inside
Goto(t, ph) == pc' = [pc EXCEPT ![t] = ph]

Start(t) ==
  /\ In(t, "start")
  /\ Bar!Enter(t) /\ Goto(t, "build")
  /\ UNCHANGED << rkeys, skeys, latch, count, tuples, i, num_results, result, finished >>

(* Which tuple goes into the bucket of tuple n.  The unrolled loop hashes   *)
(* PHT_UNROLL_FACTOR tuples and then saves them, from the ninth on with the *)
(* index of the eighth; the rest of the chunk is not unrolled.              *)
InUnrolled(t, n) ==
  LET len == Upto(rkeys, t) - From(rkeys, t) + 1
  IN Unroll /\ n - From(rkeys, t) < (len \div PHT_UNROLL_FACTOR) * PHT_UNROLL_FACTOR

Saved(t, n) ==
  LET k == (n - From(rkeys, t)) % PHT_UNROLL_FACTOR
  IN IF InUnrolled(t, n) /\ k >= 8 THEN n - k + 7 ELSE n

bucket(t) == Hash(rkeys[i[t]])

(* save_in_bucket takes the latch, ... *)
Lock(t) ==
  /\ In(t, "build") /\ i[t] <= Upto(rkeys, t)
  /\ ~latch[bucket(t)]
  /\ latch' = [latch EXCEPT ![bucket(t)] = TRUE]
  /\ Goto(t, "save")
  /\ UNCHANGED << rkeys, skeys, count, tuples, i, num_results, result, finished, bar >>

(* ... writes the tuple behind the others, ... *)
Save(t) ==
  /\ pc[t] = "save"
  /\ tuples' = [tuples EXCEPT ![bucket(t)][count[bucket(t)]] = Saved(t, i[t])]
  /\ Goto(t, "bump")
  /\ UNCHANGED << rkeys, skeys, latch, count, i, num_results, result, finished, bar >>

(* ... counts it and unlocks. *)
Bump(t) ==
  /\ pc[t] = "bump"
  /\ count' = [count EXCEPT ![bucket(t)] = @ + 1]
  /\ latch' = [latch EXCEPT ![bucket(t)] = FALSE]
  /\ i' = [i EXCEPT ![t] = @ + 1]
  /\ Goto(t, "build")
  /\ UNCHANGED << rkeys, skeys, tuples, num_results, result, finished, bar >>

MutBuilt(t) ==
  /\ In(t, "build") /\ i[t] > Upto(rkeys, t)
  /\ Goto(t, "probe")
  /\ UNCHANGED << rkeys, skeys, latch, count, tuples, i, num_results, result, finished, bar >>

Built(t) ==
  /\ In(t, "build") /\ i[t] > Upto(rkeys, t)
  /\ Bar!Enter(t) /\ Goto(t, "probe")
  /\ UNCHANGED << rkeys, skeys, latch, count, tuples, i, num_results, result, finished >>

KeyAt(x, k) == IF tuples[x][k] = 0 THEN 0 ELSE rkeys[tuples[x][k]]

(* The plain probe looks at count tuples, the unrolled one at all slots of  *)
(* the bucket, and then takes the minimum with count.                       *)
Found(key) ==
  LET x == Hash(key)
      hits(n) == Cardinality({k \in 0 .. n - 1 : KeyAt(x, k) = key})
  IN IF Unroll THEN (IF hits(BUCKET_SIZE) < count[x] THEN hits(BUCKET_SIZE) ELSE count[x])
               ELSE hits(count[x])

(* The probe only reads a table that nobody changes: one step. *)
Probe(t) ==
  /\ In(t, "probe")
  /\ num_results' = [num_results EXCEPT ![t] =
       SumFunction([n \in From(skeys, t) .. Upto(skeys, t) |-> Found(skeys[n])])]
  /\ Bar!Enter(t) /\ Goto(t, "done")
  /\ UNCHANGED << rkeys, skeys, latch, count, tuples, i, result, finished >>

Leave(t) ==
  /\ Bar!Leave(t)
  /\ UNCHANGED << rkeys, skeys, latch, count, tuples, i, num_results, result, finished, pc >>

Open ==
  /\ Bar!Open
  /\ UNCHANGED << rkeys, skeys, latch, count, tuples, i, num_results, result, finished, pc >>

Return ==
  /\ ~finished /\ \A t \in Threads : In(t, "done")
  /\ result' = SumFunction(num_results) /\ finished' = TRUE
  /\ UNCHANGED << rkeys, skeys, latch, count, tuples, i, num_results, pc, bar >>

Step(t) ==
  \/ Start(t) \/ Lock(t) \/ Save(t) \/ Bump(t) \/ Built(t) \/ Probe(t) \/ Leave(t)

-----------------------------------------------------------------------------
(* No bucket is written past its last slot although no code checks that:    *)
(* the dense keys of R spread over the buckets evenly enough.               *)
SlotsFit ==
  \A t \in Threads : pc[t] = "save" => count[bucket(t)] < BUCKET_SIZE

(* After the build each bucket holds the tuples of R that hash to it.       *)
TableComplete ==
  opened >= 2 =>
    \A x \in Buckets :
      /\ {tuples[x][k] : k \in 0 .. count[x] - 1} = {n \in DOMAIN rkeys : Hash(rkeys[n]) = x}
      /\ count[x] = Cardinality({n \in DOMAIN rkeys : Hash(rkeys[n]) = x})

(* The number that PHT returns is the number of pairs with equal keys.      *)
ResultCorrect ==
  finished =>
    result = Cardinality({m \in (DOMAIN rkeys) \X (DOMAIN skeys) : rkeys[m[1]] = skeys[m[2]]})
=============================================================================
