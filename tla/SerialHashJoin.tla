--------------------------- MODULE SerialHashJoin ---------------------------
(***************************************************************************)
(* NPO_single_thread and NPO_no_overflow of                                *)
(* no_partitioning_hash_join_st.cpp: the hash joins of one thread, with    *)
(* overflow buckets and without.                                           *)
(***************************************************************************)
EXTENDS Integers, Sequences, FiniteSets, Functions

CONSTANTS
  RelationsR, RelationsS,
  BucketCounts, BUCKET_SIZE,   (* as in NoPartitioningJoin *)
  Overflows                    (* NPO_single_thread        *)

SerialAssumption ==
  /\ BUCKET_SIZE \in Nat \ {0} /\ Overflows \in BOOLEAN
  /\ RelationsR \cup RelationsS \subseteq Seq(Nat)
  /\ \A r \in RelationsR : BucketCounts[Len(r)] \in Nat \ {0}

VARIABLES
  rkeys, skeys,
  tuples,            (* tuples[x]: the positions in R that bucket x counts *)
  next, used,        (* the chains; overflow buckets taken                 *)
  i,                 (* the tuple of R or S in turn                        *)
  b,                 (* the bucket to probe                                *)
  out, result, finished, pc

vars == << rkeys, skeys, tuples, next, used, i, b, out, result, finished, pc >>

nb == BucketCounts[Len(rkeys)]
Buckets == 0 .. nb + Len(rkeys) - 1
NULL == -1
Hash(key) == key % nb

Init ==
  /\ rkeys \in RelationsR /\ skeys \in RelationsS
  /\ tuples = [x \in Buckets |-> << >>]
  /\ next = [x \in Buckets |-> NULL] /\ used = 0
  /\ i = 1 /\ b = NULL
  /\ out = {} /\ result = 0 /\ finished = FALSE
  /\ pc = "build"

curr == Hash(rkeys[i])
Full(x) == Overflows /\ Len(tuples[x]) = BUCKET_SIZE
new == nb + used

(* Tuple i goes into its bucket, into the second of the chain or, if both   *)
(* are full, into a new one between them.                                   *)
Insert ==
  /\ pc = "build" /\ i <= Len(rkeys)
  /\ LET chained == Full(curr) /\ (next[curr] = NULL \/ Full(next[curr]))
         dest == IF chained THEN new ELSE IF Full(curr) THEN next[curr] ELSE curr IN
       /\ tuples' = [tuples EXCEPT ![dest] = Append(@, i)]
       /\ next' = IF chained THEN [next EXCEPT ![curr] = new, ![new] = next[curr]] ELSE next
       /\ used' = IF chained THEN used + 1 ELSE used
  /\ i' = i + 1
  /\ UNCHANGED << rkeys, skeys, b, out, result, finished, pc >>

Built ==
  /\ pc = "build" /\ i > Len(rkeys)
  /\ i' = 1 /\ pc' = "probe"
  /\ UNCHANGED << rkeys, skeys, tuples, next, used, b, out, result, finished >>

Probe ==
  /\ pc = "probe" /\ b = NULL /\ i <= Len(skeys)
  /\ b' = Hash(skeys[i])
  /\ UNCHANGED << rkeys, skeys, tuples, next, used, i, out, result, finished, pc >>

Follow ==
  /\ pc = "probe" /\ b # NULL
  /\ LET hits == {n \in Range(tuples[b]) : rkeys[n] = skeys[i]} IN
       /\ out' = out \cup {<< n, i >> : n \in hits}
       /\ result' = result + Cardinality(hits)
  /\ b' = next[b]
  /\ i' = IF next[b] = NULL THEN i + 1 ELSE i
  /\ UNCHANGED << rkeys, skeys, tuples, next, used, finished, pc >>

(* The table and the overflow buckets are freed. *)
Return ==
  /\ pc = "probe" /\ b = NULL /\ i > Len(skeys)
  /\ finished' = TRUE /\ pc' = "done"
  /\ UNCHANGED << rkeys, skeys, tuples, next, used, i, b, out, result >>

Step == Insert \/ Built \/ Probe \/ Follow

-----------------------------------------------------------------------------
(* No bucket is written past its last slot, nor more overflow buckets used  *)
(* than there are; NPO_no_overflow does not check and needs dense keys.     *)
SlotsFit == \A x \in Buckets : Len(tuples[x]) <= BUCKET_SIZE
=============================================================================
