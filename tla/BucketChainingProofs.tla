------------------------ MODULE BucketChainingProofs ------------------------
(***************************************************************************)
(* bucket_chaining_join is right for relations of every length, all keys,  *)
(* any number of radix bits and any non-empty hash table.                  *)
(***************************************************************************)
EXTENDS BucketChaining, FiniteSetTheorems, TLAPS

(* The relations are non-empty sequences of natural numbers.                *)
LEMMA RelationFacts ==
  ASSUME rkeys \in RelationsR, skeys \in RelationsS
  PROVE  /\ numR \in Nat /\ numR >= 1 /\ rkeys \in [1 .. numR -> Nat]
         /\ numS \in Nat /\ numS >= 1 /\ skeys \in [1 .. numS -> Nat]
         /\ N \in Nat \ {0}
BY ChainingAssumption DEF numR, numS, N

(* A hash value is an index of bucket.                                      *)
LEMMA HashRange ==
  ASSUME rkeys \in RelationsR, skeys \in RelationsS, NEW key \in Nat
  PROVE  Hash(key) \in 0 .. N - 1
<1>1. key \div Partitions \in Nat
  BY ChainingAssumption
<1>2. N \in Nat \ {0}
  BY RelationFacts
<1> QED  BY <1>1, <1>2 DEF Hash, HashMod

(* The relations, and with them the hash function, never change. *)
LEMMA SameHash ==
  ASSUME rkeys' = rkeys, skeys' = skeys
  PROVE  /\ numR' = numR /\ numS' = numS /\ N' = N
         /\ \A key : Hash(key)' = Hash(key)
BY DEF numR, numS, N, Hash

-----------------------------------------------------------------------------
(* The invariant holds initially.                                           *)
LEMMA InitInv == Init => IInv
<1> SUFFICES ASSUME Init PROVE IInv
  OBVIOUS
<1>1. /\ numR \in Nat /\ numR >= 1 /\ rkeys \in [1 .. numR -> Nat]
      /\ numS \in Nat /\ numS >= 1 /\ skeys \in [1 .. numS -> Nat]
      /\ N \in Nat \ {0}
  BY RelationFacts DEF Init
<1>2. TypeOK
  BY <1>1 DEF Init, TypeOK
<1>3. ChainsComplete
  BY <1>1 DEF Init, ChainsComplete, LastWithHash
<1>4. Reported = {}
  BY <1>1 DEF Init, Reported
<1>5. IsFiniteSet(out) /\ matches = Cardinality(out)
  BY FS_EmptySet DEF Init
<1> QED  BY <1>1, <1>2, <1>3, <1>4, <1>5 DEF IInv, Init

(* Linking one more tuple of R preserves the invariant.                     *)
LEMMA BuildInv ==
  ASSUME IInv, Build
  PROVE  IInv'
<1> DEFINE idx == Hash(rkeys[i + 1])
<1>1. /\ numR \in Nat /\ rkeys \in [1 .. numR -> Nat]
      /\ numS \in Nat /\ numS >= 1 /\ N \in Nat \ {0}
  BY RelationFacts DEF IInv, TypeOK
<1>2. numR' = numR /\ numS' = numS /\ N' = N
  BY SameHash DEF Build
<1>3. i \in Nat /\ i + 1 \in 1 .. numR
  BY <1>1 DEF IInv, TypeOK, Build
<1>4. idx \in 0 .. N - 1
  BY <1>1, <1>3, HashRange DEF IInv, TypeOK
<1>5. TypeOK'
  BY <1>1, <1>2, <1>3, <1>4 DEF IInv, TypeOK, Build
<1>6. /\ bucket' = [bucket EXCEPT ![idx] = i + 1]
      /\ next' = [next EXCEPT ![i + 1] = bucket[idx]]
      /\ i' = i + 1 /\ rkeys' = rkeys
  BY DEF Build
<1>7. ChainsComplete'
  <2>1. ASSUME NEW h \in 0 .. N - 1
        PROVE  LastWithHash(bucket[h], h, i)'
    <3>1. LastWithHash(bucket[h], h, i)
      BY DEF IInv, ChainsComplete
    <3>2. CASE h = idx
      BY <1>1, <1>2, <1>3, <1>4, <1>6, <3>2 DEF LastWithHash, Hash, IInv, TypeOK
    <3>3. CASE h # idx
      BY <1>1, <1>2, <1>3, <1>4, <1>6, <3>1, <3>3 DEF LastWithHash, Hash, IInv, TypeOK
    <3> QED  BY <3>2, <3>3
  <2>2. ASSUME NEW p \in 1 .. i + 1
        PROVE  LastWithHash(next[p], Hash(rkeys[p]), p - 1)'
    <3>1. CASE p = i + 1
      <4>1. LastWithHash(bucket[idx], idx, i)
        BY <1>4 DEF IInv, ChainsComplete
      <4>2. next'[p] = bucket[idx] /\ p - 1 = i
        BY <1>3, <1>6, <3>1 DEF IInv, TypeOK
      <4> QED  BY <4>1, <4>2, <1>2, <1>6, <3>1 DEF LastWithHash, Hash
    <3>2. CASE p # i + 1
      <4>1. p \in 1 .. i /\ p \in 1 .. numR
        BY <1>1, <1>3, <3>2
      <4>2. LastWithHash(next[p], Hash(rkeys[p]), p - 1)
        BY <4>1 DEF IInv, ChainsComplete
      <4>3. next'[p] = next[p]
        BY <1>6, <3>2, <4>1 DEF IInv, TypeOK
      <4> QED  BY <4>2, <4>3, <1>2, <1>6 DEF LastWithHash, Hash
    <3> QED  BY <3>1, <3>2
  <2> QED  BY <2>1, <2>2, <1>2, <1>6 DEF ChainsComplete
<1>8. Reported' = Reported
  BY <1>2 DEF Reported, Build
<1> QED  BY <1>1, <1>2, <1>3, <1>5, <1>7, <1>8 DEF IInv, Build

(* The steps other than Build leave the chains alone. *)
LEMMA ChainsKept ==
  ASSUME IInv, UNCHANGED << rkeys, skeys, next, bucket, i >>
  PROVE  ChainsComplete'
BY SameHash DEF IInv, ChainsComplete, LastWithHash, Hash

(* The end of the build loop preserves the invariant.                       *)
LEMMA BuildDoneInv ==
  ASSUME IInv, BuildDone
  PROVE  IInv'
<1>1. TypeOK'
  BY SameHash DEF IInv, TypeOK, BuildDone
<1>2. ChainsComplete'
  BY ChainsKept DEF BuildDone
<1>3. Reported' = Reported
  BY SameHash DEF Reported, BuildDone
<1> QED  BY <1>1, <1>2, <1>3, SameHash DEF IInv, BuildDone, Hash

(* Entering the chain of a tuple of S preserves the invariant.              *)
LEMMA ProbeInv ==
  ASSUME IInv, Probe
  PROVE  IInv'
<1> DEFINE h == Hash(skeys[j])
<1>1. /\ numR \in Nat /\ rkeys \in [1 .. numR -> Nat]
      /\ numS \in Nat /\ skeys \in [1 .. numS -> Nat] /\ N \in Nat \ {0}
  BY RelationFacts DEF IInv, TypeOK
<1>2. /\ numR' = numR /\ numS' = numS /\ N' = N
      /\ rkeys' = rkeys /\ skeys' = skeys /\ j' = j /\ i' = i /\ pc' = pc
      /\ i = numR /\ hit = -1 /\ hit' = bucket[h]
  BY SameHash DEF Probe, IInv
<1>3. j \in 1 .. numS
  BY <1>1 DEF Probe, IInv, TypeOK
<1>4. h \in 0 .. N - 1
  BY <1>1, <1>3, HashRange DEF IInv, TypeOK
<1>5. LastWithHash(bucket[h], h, numR)
  BY <1>2, <1>4 DEF IInv, ChainsComplete
<1>6. hit' \in 0 .. numR
  BY <1>2, <1>4 DEF IInv, TypeOK
<1>7. TypeOK'
  BY <1>2, <1>6 DEF IInv, TypeOK, Probe
<1>8. ChainsComplete'
  BY ChainsKept DEF Probe
<1>9. \A p \in 1 .. numR : p > bucket[h] => rkeys[p] # skeys[j]
  <2> TAKE p \in 1 .. numR
  <2>1. rkeys[p] = skeys[j] => p <= bucket[h]
    BY <1>5 DEF LastWithHash
  <2>2. bucket[h] \in Int
    BY <1>2, <1>6
  <2> QED  BY <2>1, <2>2
<1>10. Reported' = Reported
  BY <1>1, <1>2, <1>9 DEF Reported
<1>11. hit' > 0 => Hash(rkeys[hit])' = Hash(skeys[j])'
  BY <1>2, <1>5 DEF LastWithHash, Hash
<1> QED  BY <1>2, <1>3, <1>6, <1>7, <1>8, <1>10, <1>11 DEF IInv, Probe

(* Comparing one position of the chain preserves the invariant.             *)
LEMMA FollowInv ==
  ASSUME IInv, Follow
  PROVE  IInv'
<1>1. /\ numR \in Nat /\ rkeys \in [1 .. numR -> Nat]
      /\ numS \in Nat /\ skeys \in [1 .. numS -> Nat] /\ N \in Nat \ {0}
  BY RelationFacts DEF IInv, TypeOK
<1>2. /\ numR' = numR /\ numS' = numS /\ N' = N
      /\ rkeys' = rkeys /\ skeys' = skeys /\ j' = j /\ i' = i /\ pc' = pc
      /\ i = numR /\ hit' = next[hit] /\ pc = "probe"
  BY SameHash DEF Follow, IInv
<1>3. hit \in 1 .. numR /\ j \in 1 .. numS /\ Hash(rkeys[hit]) = Hash(skeys[j])
  BY <1>1 DEF Follow, IInv, TypeOK
<1>4. LastWithHash(next[hit], Hash(rkeys[hit]), hit - 1)
  BY <1>2, <1>3 DEF IInv, ChainsComplete
<1>5. hit' \in 0 .. numR
  BY <1>2, <1>3 DEF IInv, TypeOK
<1>6. hit' < hit
  BY <1>2, <1>3, <1>4 DEF LastWithHash
<1>7. \A p \in 1 .. numR : p > hit' /\ rkeys[p] = skeys[j] => p >= hit
  <2> SUFFICES ASSUME NEW p \in 1 .. numR, p > hit', rkeys[p] = skeys[j], p < hit
               PROVE  FALSE
    BY <1>3
  <2>1. p \in 1 .. hit - 1 /\ Hash(rkeys[p]) = Hash(rkeys[hit])
    BY <1>3
  <2>2. p <= next[hit]
    BY <2>1, <1>4 DEF LastWithHash
  <2> QED  BY <2>2, <1>2, <1>5
<1>8. /\ rkeys' \in RelationsR /\ skeys' \in RelationsS
      /\ numR' = numR /\ numS' = numS
      /\ next' \in [1 .. numR' -> 0 .. numR'] /\ bucket' \in [0 .. N' - 1 -> 0 .. numR']
      /\ i' \in 0 .. numR' /\ j' \in 1 .. numS' + 1 /\ hit' \in -1 .. numR'
      /\ pc' \in {"build", "probe", "done"}
  <2>1. next' = next /\ bucket' = bucket
    BY DEF Follow
  <2>2. hit' \in -1 .. numR
    BY <1>1, <1>5
  <2>3. TypeOK
    BY DEF IInv
  <2> QED  BY ONLY <1>2, <2>1, <2>2, <2>3 DEF TypeOK
<1>9. CASE skeys[j] = rkeys[hit]
  <2>1. matches' = matches + 1 /\ out' = out \cup {<< hit, j >>}
    BY <1>9 DEF Follow
  <2>2. << hit, j >> \notin out
    BY <1>3 DEF IInv, Reported
  <2>3. IsFiniteSet(out') /\ Cardinality(out') = Cardinality(out) + 1
    BY <2>1, <2>2, FS_AddElement DEF IInv
  <2>4. TypeOK'
    <3>1. matches' \in Nat
      BY <2>1 DEF IInv, TypeOK
    <3>2. out' \subseteq (1 .. numR) \X (1 .. numS)
      BY <1>3, <2>1 DEF IInv, TypeOK
    <3> QED  BY <1>8, <3>1, <3>2 DEF TypeOK
  <2>5. Reported' = Reported \cup {<< hit, j >>}
    <3>1. \A p \in 1 .. numR : rkeys[p] = skeys[j] => (p > hit' <=> p > hit \/ p = hit)
      BY <1>3, <1>5, <1>6, <1>7
    <3>2. hit # -1 /\ hit' # -1
      BY <1>3, <1>5
    <3>3. hit \in 1 .. numR /\ j \in 1 .. numS
      BY <1>3
    <3>4. Reported' = {m \in (1 .. numR) \X (1 .. numS) :
                         /\ rkeys[m[1]] = skeys[m[2]]
                         /\ m[2] < j \/ (m[2] = j /\ m[1] > hit')}
      BY <1>2, <3>2 DEF Reported
    <3>5. ASSUME NEW m \in (1 .. numR) \X (1 .. numS)
          PROVE  m \in Reported' <=> m \in Reported \/ m = << hit, j >>
      <4>1. m[1] \in 1 .. numR /\ m[2] \in 1 .. numS /\ m = << m[1], m[2] >>
        OBVIOUS
      <4>2. m = << hit, j >> <=> m[1] = hit /\ m[2] = j
        BY ONLY <4>1
      <4>3. rkeys[m[1]] = skeys[m[2]] /\ m[2] = j =>
              (m[1] > hit' <=> m[1] > hit \/ m[1] = hit)
        BY <3>1, <4>1
      <4>4. m \in Reported' <=>
              /\ rkeys[m[1]] = skeys[m[2]]
              /\ m[2] < j \/ (m[2] = j /\ m[1] > hit')
        BY ONLY <3>4
      <4>5. m \in Reported <=>
              /\ rkeys[m[1]] = skeys[m[2]]
              /\ m[2] < j \/ (m[2] = j /\ m[1] > hit)
        BY <3>2 DEF Reported
      <4> QED  BY ONLY <1>9, <4>2, <4>3, <4>4, <4>5
    <3>6. << hit, j >> \in (1 .. numR) \X (1 .. numS)
      BY ONLY <3>3
    <3>7. Reported \subseteq (1 .. numR) \X (1 .. numS)
      BY DEF Reported
    <3>8. Reported' \subseteq (1 .. numR) \X (1 .. numS)
      BY ONLY <3>4
    <3> QED  BY ONLY <3>5, <3>6, <3>7, <3>8
  <2>6. ChainsComplete'
    BY ChainsKept DEF Follow
  <2>7. hit' > 0 => Hash(rkeys[hit])' = Hash(skeys[j])'
    BY <1>2, <1>3, <1>4 DEF LastWithHash, Hash
  <2> QED  BY <1>2, <1>3, <1>5, <2>1, <2>3, <2>4, <2>5, <2>6, <2>7 DEF IInv
<1>10. CASE skeys[j] # rkeys[hit]
  <2>1. matches' = matches /\ out' = out
    BY <1>10 DEF Follow
  <2>4. TypeOK'
    <3>1. matches' \in Nat
      BY <2>1 DEF IInv, TypeOK
    <3>2. out' \subseteq (1 .. numR) \X (1 .. numS)
      BY <1>3, <2>1 DEF IInv, TypeOK
    <3> QED  BY <1>8, <3>1, <3>2 DEF TypeOK
  <2>5. Reported' = Reported
    <3>1. \A p \in 1 .. numR : rkeys[p] = skeys[j] => (p > hit' <=> p > hit)
      BY <1>3, <1>5, <1>6, <1>7, <1>10
    <3>2. hit # -1 /\ hit' # -1
      BY <1>3, <1>5
    <3>3. Reported' = {m \in (1 .. numR) \X (1 .. numS) :
                         /\ rkeys[m[1]] = skeys[m[2]]
                         /\ m[2] < j \/ (m[2] = j /\ m[1] > hit')}
      BY <1>2, <3>2 DEF Reported
    <3> QED  BY <3>1, <3>2, <3>3 DEF Reported
  <2>6. ChainsComplete'
    BY ChainsKept DEF Follow
  <2>7. hit' > 0 => Hash(rkeys[hit])' = Hash(skeys[j])'
    BY <1>2, <1>3, <1>4 DEF LastWithHash, Hash
  <2> QED  BY <1>2, <1>3, <1>5, <2>1, <2>4, <2>5, <2>6, <2>7 DEF IInv
<1> QED  BY <1>9, <1>10

(* Going on to the next tuple of S preserves the invariant.                 *)
LEMMA NextProbeInv ==
  ASSUME IInv, NextProbe
  PROVE  IInv'
<1>1. /\ numR \in Nat /\ numS \in Nat
  BY RelationFacts DEF IInv, TypeOK
<1>2. /\ numR' = numR /\ numS' = numS /\ N' = N
      /\ rkeys' = rkeys /\ skeys' = skeys /\ j' = j + 1 /\ i' = i /\ pc' = pc
      /\ hit = 0 /\ hit' = -1 /\ pc = "probe" /\ j \in 1 .. numS
  BY <1>1, SameHash DEF NextProbe, IInv, TypeOK
<1>3. TypeOK'
  BY <1>1, <1>2 DEF IInv, TypeOK, NextProbe
<1>4. ChainsComplete'
  BY ChainsKept DEF NextProbe
<1>5. Reported' = Reported
  BY <1>1, <1>2 DEF Reported
<1> QED  BY <1>2, <1>3, <1>4, <1>5 DEF IInv, NextProbe

(* The return preserves the invariant.                                      *)
LEMMA ReturnInv ==
  ASSUME IInv, Return
  PROVE  IInv'
<1>1. hit \in {0, -1} \cup 1 .. numR /\ numS \in Nat
  BY RelationFacts DEF IInv, TypeOK
<1>2. hit = -1 /\ j = numS + 1
  BY <1>1 DEF IInv, Return
<1>3. TypeOK'
  BY SameHash DEF IInv, TypeOK, Return
<1>4. ChainsComplete'
  BY ChainsKept DEF Return
<1>5. Reported' = Reported
  BY SameHash DEF Reported, Return
<1> QED  BY <1>2, <1>3, <1>4, <1>5, SameHash DEF IInv, Return

(* A stuttering step preserves the invariant.                               *)
LEMMA StutterInv ==
  ASSUME IInv, UNCHANGED vars
  PROVE  IInv'
BY DEF vars, IInv, TypeOK, ChainsComplete, LastWithHash, Reported, Hash, N, numR, numS

(* Every step preserves the invariant.                                      *)
LEMMA StepInv == IInv /\ [Next]_vars => IInv'
<1> SUFFICES ASSUME IInv, [Next]_vars PROVE IInv'
  OBVIOUS
<1>1. CASE Build      BY <1>1, BuildInv
<1>2. CASE BuildDone  BY <1>2, BuildDoneInv
<1>3. CASE Probe      BY <1>3, ProbeInv
<1>4. CASE Follow     BY <1>4, FollowInv
<1>5. CASE NextProbe  BY <1>5, NextProbeInv
<1>6. CASE Return     BY <1>6, ReturnInv
<1>7. CASE Terminated \/ UNCHANGED vars
  BY <1>7, StutterInv DEF Terminated
<1> QED  BY <1>1, <1>2, <1>3, <1>4, <1>5, <1>6, <1>7 DEF Next, Step

(* At every point of the build and probe loops the chains are complete and  *)
(* the output is what the positions of the two loops say.                   *)
THEOREM ChainingInvariant == Spec => []IInv
BY InitInv, StepInv, PTL DEF Spec

(* A chain never loses a tuple of its hash value, whatever order the keys   *)
(* come in and however many collide.                                        *)
THEOREM ChainsAreComplete == Spec => []ChainsComplete
BY ChainingInvariant, PTL DEF IInv

-----------------------------------------------------------------------------
(* After the last tuple of S, everything that matches has been reported.    *)
LEMMA ReportedAtEnd ==
  ASSUME IInv, j = numS + 1, hit = -1
  PROVE  out = Abstract!Matches
<1>1. /\ numR \in Nat /\ DOMAIN rkeys = 1 .. numR
      /\ numS \in Nat /\ DOMAIN skeys = 1 .. numS
  BY RelationFacts DEF IInv, TypeOK
<1> QED  BY <1>1 DEF IInv, Reported, Abstract!Matches

(* Comparing one position reports at most one new match.                    *)
LEMMA FollowRefines ==
  ASSUME IInv, Follow
  PROVE  Abstract!Report \/ UNCHANGED Abstract!jvars
<1>1. pc = "probe" /\ pc' = pc /\ rkeys' = rkeys /\ skeys' = skeys
  BY DEF Follow
<1>2. CASE skeys[j] # rkeys[hit]
  BY <1>1, <1>2 DEF Follow, Abstract!jvars
<1>3. CASE skeys[j] = rkeys[hit]
  <2>1. /\ numR \in Nat /\ DOMAIN rkeys = 1 .. numR
        /\ numS \in Nat /\ DOMAIN skeys = 1 .. numS
    BY RelationFacts DEF IInv, TypeOK
  <2>2. hit \in 1 .. numR /\ j \in 1 .. numS
    BY <2>1 DEF Follow, IInv, TypeOK
  <2>3. << hit, j >> \notin out
    BY <2>2 DEF IInv, Reported
  <2>4. out' = out \cup {<< hit, j >>} /\ matches' = matches + 1
    BY <1>3 DEF Follow
  <2>5. out' \ out = {<< hit, j >>}
    BY <2>3, <2>4
  <2>6. Abstract!Cardinality(out' \ out) = 1
    <3>1. Cardinality(out' \ out) = 1
      BY <2>5, FS_Singleton
    <3>2. Abstract!Cardinality(out' \ out) = Cardinality(out' \ out)
      BY DEF Abstract!Cardinality, Abstract!IsFiniteSet, Cardinality, IsFiniteSet
    <3> QED  BY <3>1, <3>2
  <2>7. out' \subseteq Abstract!Matches
    BY <1>3, <2>1, <2>2, <2>4 DEF IInv, Reported, Abstract!Matches
  <2> QED  BY <1>1, <2>4, <2>6, <2>7 DEF Abstract!Report
<1> QED  BY <1>2, <1>3

(* Every step is a step of the abstract join or a stutter.                  *)
LEMMA StepRefines == IInv /\ [Next]_vars => [Abstract!Report \/ Abstract!Finish]_(Abstract!jvars)
<1> SUFFICES ASSUME IInv, [Next]_vars
             PROVE  [Abstract!Report \/ Abstract!Finish]_(Abstract!jvars)
  OBVIOUS
<1>1. CASE Build \/ BuildDone \/ Probe \/ NextProbe \/ Terminated \/ UNCHANGED vars
  BY <1>1 DEF Build, BuildDone, Probe, NextProbe, Terminated, vars, Abstract!jvars
<1>2. CASE Follow
  BY <1>2, FollowRefines
<1>3. CASE Return
  <2>1. hit = -1 /\ j = numS + 1
    BY <1>3, RelationFacts DEF Return, IInv, TypeOK
  <2>2. out = Abstract!Matches
    BY <2>1, ReportedAtEnd
  <2> QED  BY <1>3, <2>2 DEF Return, Abstract!Finish
<1> QED  BY <1>1, <1>2, <1>3 DEF Next, Step

(* bucket_chaining_join reports each match exactly once and counts it.      *)
THEOREM ChainingRefinement == Spec => ImplementsJoin
<1>1. Init => Abstract!Init
  BY DEF Init, Abstract!Init
<1> QED
  BY <1>1, ChainingInvariant, StepRefines, PTL DEF Spec, ImplementsJoin, Abstract!Spec
=============================================================================
