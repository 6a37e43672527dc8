--------------------------- MODULE BucketChaining ---------------------------
(***************************************************************************)
(* bucket_chaining_join of radix_join.cpp: the join of one pair of radix   *)
(* partitions.  The hash table is two arrays, bucket and next, that link   *)
(* the positions of R, counted from 1, into one chain for each hash value. *)
(***************************************************************************)
EXTENDS Integers, Sequences, FiniteSets

CONSTANTS
  RelationsR, RelationsS,  (* the key sequences to join                 *)
  Partitions,              (* 1 << num_radix_bits: the low bits that    *)
                           (* all keys of R and S share                 *)
  TableSize(_)             (* NEXT_POW_2: the chains for so many tuples *)

ASSUME ChainingAssumption ==
  /\ RelationsR \subseteq Seq(Nat) \ {<< >>}
  /\ RelationsS \subseteq Seq(Nat) \ {<< >>}
  /\ Partitions \in Nat \ {0}
  /\ \A r \in RelationsR : TableSize(Len(r)) \in Nat \ {0}

VARIABLES
  rkeys, skeys,  (* R and S                                          *)
  next, bucket,  (* the chains                                       *)
  i,             (* tuples built                                     *)
  j,             (* tuple of S that is probed                        *)
  hit,           (* position in its chain, -1 before the first       *)
  matches,       (* the result                                       *)
  out,           (* insert_output: pairs <<position in R, in S>>     *)
  pc

vars == << rkeys, skeys, next, bucket, i, j, hit, matches, out, pc >>

numR == Len(rkeys)
numS == Len(skeys)

(* HASH_BIT_MODULO(key, (n - 1) << num_radix_bits, num_radix_bits) *)
HashMod(key, n) == (key \div Partitions) % n
N == TableSize(numR)
Hash(key) == HashMod(key, N)

Init ==
  /\ rkeys \in RelationsR /\ skeys \in RelationsS
  /\ next = [p \in 1 .. numR |-> 0]
  /\ bucket = [h \in 0 .. N - 1 |-> 0]
  /\ i = 0 /\ j = 1 /\ hit = -1
  /\ matches = 0 /\ out = {}
  /\ pc = "build"

(* next[i] = bucket[idx]; bucket[idx] = ++i, with i counted from 0. *)
MutBuild ==
  /\ pc = "build" /\ i < numR
  /\ LET idx == Hash(rkeys[i + 1]) IN bucket' = [bucket EXCEPT ![idx] = i + 1]
  /\ i' = i + 1
  /\ UNCHANGED << rkeys, skeys, next, j, hit, matches, out, pc >>

Build ==
  /\ pc = "build" /\ i < numR
  /\ LET idx == Hash(rkeys[i + 1]) IN
       /\ next' = [next EXCEPT ![i + 1] = bucket[idx]]
       /\ bucket' = [bucket EXCEPT ![idx] = i + 1]
  /\ i' = i + 1
  /\ UNCHANGED << rkeys, skeys, j, hit, matches, out, pc >>

BuildDone ==
  /\ pc = "build" /\ i = numR
  /\ pc' = "probe"
  /\ UNCHANGED << rkeys, skeys, next, bucket, i, j, hit, matches, out >>

(* The outer probe loop picks the chain of tuple j ... *)
Probe ==
  /\ pc = "probe" /\ hit = -1 /\ j <= numS
  /\ hit' = bucket[Hash(skeys[j])]
  /\ UNCHANGED << rkeys, skeys, next, bucket, i, j, matches, out, pc >>

(* ... the inner one follows it to its end, marked by 0 ... *)
MutFollow ==
  /\ pc = "probe" /\ hit > 0
  /\ matches' = matches + 1
  /\ out' = out \cup {<< hit, j >>}
  /\ hit' = next[hit]
  /\ UNCHANGED << rkeys, skeys, next, bucket, i, j, pc >>

(* Mutant: only a match moves the walk on. *)
MutFollowStuck ==
  /\ pc = "probe" /\ hit > 0
  /\ skeys[j] = rkeys[hit] => matches' = matches + 1 /\ out' = out \cup {<< hit, j >>}
  /\ skeys[j] # rkeys[hit] => UNCHANGED << matches, out >>
  /\ hit' = IF skeys[j] = rkeys[hit] THEN next[hit] ELSE hit
  /\ UNCHANGED << rkeys, skeys, next, bucket, i, j, pc >>

Follow ==
  /\ pc = "probe" /\ hit > 0
  /\ IF skeys[j] = rkeys[hit]
       THEN matches' = matches + 1 /\ out' = out \cup {<< hit, j >>}
       ELSE UNCHANGED << matches, out >>
  /\ hit' = next[hit]
  /\ UNCHANGED << rkeys, skeys, next, bucket, i, j, pc >>

(* ... and goes on with the next tuple. *)
NextProbe ==
  /\ pc = "probe" /\ hit = 0
  /\ j' = j + 1 /\ hit' = -1
  /\ UNCHANGED << rkeys, skeys, next, bucket, i, matches, out, pc >>

Return ==
  /\ pc = "probe" /\ j = numS + 1
  /\ pc' = "done"
  /\ UNCHANGED << rkeys, skeys, next, bucket, i, j, hit, matches, out >>

Terminated == pc = "done" /\ UNCHANGED vars

Step == Build \/ BuildDone \/ Probe \/ Follow \/ NextProbe

Next == Step \/ Return \/ Terminated

Spec == Init /\ [][Next]_vars
FairSpec == Spec /\ WF_vars(Next)

-----------------------------------------------------------------------------
(* Type invariant: links and positions stay inside R and S.                 *)
TypeOK ==
  /\ rkeys \in RelationsR /\ skeys \in RelationsS
  /\ next \in [1 .. numR -> 0 .. numR]
  /\ bucket \in [0 .. N - 1 -> 0 .. numR]
  /\ i \in 0 .. numR /\ j \in 1 .. numS + 1 /\ hit \in -1 .. numR
  /\ matches \in Nat
  /\ out \subseteq (1 .. numR) \X (1 .. numS)
  /\ pc \in {"build", "probe", "done"}

(* p is the last of the first n positions of R with hash value h, or 0. *)
LastWithHash(p, h, n) ==
  /\ p = 0 \/ (p \in 1 .. n /\ Hash(rkeys[p]) = h)
  /\ \A q \in 1 .. n : Hash(rkeys[q]) = h => q <= p

(* Each chain links exactly the positions with its hash value, downwards:   *)
(* it cannot end early, enter another chain, or run in a circle.            *)
ChainsComplete ==
  /\ \A h \in 0 .. N - 1 : LastWithHash(bucket[h], h, i)
  /\ \A p \in 1 .. i : LastWithHash(next[p], Hash(rkeys[p]), p - 1)

(* What has been reported when the chain of tuple j is followed to hit: all *)
(* matches of the earlier tuples, and those of j at positions above hit.    *)
Reported ==
  {m \in (1 .. numR) \X (1 .. numS) :
     /\ rkeys[m[1]] = skeys[m[2]]
     /\ m[2] < j \/ (m[2] = j /\ hit # -1 /\ m[1] > hit)}

(* The inductive invariant: types, complete chains, and out is exactly      *)
(* what the walks done so far must have reported.                           *)
IInv ==
  /\ TypeOK
  /\ ChainsComplete
  /\ out = Reported
  /\ IsFiniteSet(out) /\ matches = Cardinality(out)
  /\ pc = "build" => j = 1 /\ hit = -1
  /\ pc # "build" => i = numR
  /\ hit > 0 => j <= numS /\ Hash(rkeys[hit]) = Hash(skeys[j])
  /\ hit # -1 => j <= numS
  /\ pc = "done" => j = numS + 1 /\ hit = -1

(* Mapped to the promise of a join. *)
Abstract == INSTANCE AbstractJoin WITH finished <- pc = "done"

(* bucket_chaining_join reports every match of the partition pair exactly   *)
(* once, and its return value counts them.                                  *)
ImplementsJoin == Abstract!Spec

(* The chain walk ends for every tuple of S. *)
Termination == <>(pc = "done")
=============================================================================
