---------------------------- MODULE HistogramJoin ----------------------------
(***************************************************************************)
(* histogram_join of radix_join.cpp, the partition-pair join of RHT: R is  *)
(* counting-sorted by hash value into tmpR, and each tuple of S is         *)
(* compared with the one bin it hashes to.  Build steps come in an         *)
(* unrolled and a plain variant.                                           *)
(***************************************************************************)
EXTENDS RadixLayout, Sequences

CONSTANTS
  num_radix_bits,          (* low bits that all keys of R and S share     *)
  StaleKeys,               (* keys that an unwritten slot of tmpR may     *)
                           (* hold: the buffer is reused, never cleared   *)
  Unroll                   (* compiled with UNROLL: blocks of 4           *)

VARIABLES
  rkeys, skeys,  (* R and S                                             *)
  stale,         (* the key in the unwritten slots                      *)
  hist,          (* the array of Nhist + 2 counters                     *)
  tmpR,          (* slot -> position in R, 0 where nothing was written  *)
  i, j,          (* next tuple of R to reorder, of S to probe           *)
  matches, out, pc

vars == << rkeys, skeys, stale, hist, tmpR, i, j, matches, out, pc >>

numR == Len(rkeys)
numS == Len(skeys)

get_hist_size(n) == LET q == NextPow2(n) \div 4 IN IF q < 4 THEN 4 ELSE q
Nhist == get_hist_size(numR)
Hash(key) == (key \div 2 ^ num_radix_bits) % Nhist

(* Between two calls. *)
Init ==
  /\ rkeys = << >> /\ skeys = << >>
  /\ stale = 0
  /\ hist = << >> /\ tmpR = << >>
  /\ i = 1 /\ j = 1
  /\ matches = 0 /\ out = {}
  /\ pc = "idle"

(* histogram_join is called for one join task. *)
Call(r, s) ==
  /\ pc = "idle"
  /\ rkeys' = r /\ skeys' = s
  /\ stale' \in StaleKeys
  /\ hist' = [h \in 0 .. get_hist_size(Len(r)) + 1 |-> 0]
  /\ tmpR' = [slot \in 0 .. Len(r) - 1 |-> 0]
  /\ pc' = "count"
  /\ UNCHANGED << i, j, matches, out >>

(* The histogram, two places up, and its prefix sum: hist[h + 1] is where   *)
(* bin h begins.                                                            *)
MutCount ==
  /\ pc = "count"
  /\ hist' = [h \in DOMAIN hist |->
       Cardinality({p \in 1 .. numR : Hash(rkeys[p]) + 1 <= h})]
  /\ pc' = "reorder"
  /\ UNCHANGED << rkeys, skeys, stale, tmpR, i, j, matches, out >>

Count ==
  /\ pc = "count"
  /\ hist' = [h \in DOMAIN hist |->
       Cardinality({p \in 1 .. numR : Hash(rkeys[p]) + 2 <= h})]
  /\ pc' = "reorder"
  /\ UNCHANGED << rkeys, skeys, stale, tmpR, i, j, matches, out >>

(* Tuple i goes to the cursor of its bin and advances it.  The loop over    *)
(* the tuples that the blocks of 4 leave over takes hist[idx], not          *)
(* hist[idx + 1].                                                           *)
Cursor ==
  LET leftOver == Unroll /\ i > numR - (numR % 4)
  IN IF leftOver THEN Hash(rkeys[i]) ELSE Hash(rkeys[i]) + 1

Reorder ==
  /\ pc = "reorder" /\ i <= numR
  /\ tmpR' = [tmpR EXCEPT ![hist[Cursor]] = i]
  /\ hist' = [hist EXCEPT ![Cursor] = @ + 1]
  /\ i' = i + 1
  /\ UNCHANGED << rkeys, skeys, stale, j, matches, out, pc >>

ReorderDone ==
  /\ pc = "reorder" /\ i = numR + 1
  /\ pc' = "probe"
  /\ UNCHANGED << rkeys, skeys, stale, hist, tmpR, i, j, matches, out >>

KeyAt(s) == IF tmpR[s] = 0 THEN stale ELSE rkeys[tmpR[s]]

(* Tuple j of S against the bin hist[idx] .. hist[idx + 1] - 1. *)
MutProbe ==
  /\ pc = "probe" /\ j <= numS
  /\ LET h == Hash(skeys[j])
         hits == {s \in hist[h] .. hist[h + 1] - 2 : KeyAt(s) = skeys[j]}
     IN
       /\ matches' = matches + Cardinality(hits)
       /\ out' = out \cup {<< tmpR[s], j >> : s \in hits}
  /\ j' = j + 1
  /\ UNCHANGED << rkeys, skeys, stale, hist, tmpR, i, pc >>

Probe ==
  /\ pc = "probe" /\ j <= numS
  /\ LET h == Hash(skeys[j])
         hits == {s \in hist[h] .. hist[h + 1] - 1 : KeyAt(s) = skeys[j]}
     IN
       /\ matches' = matches + Cardinality(hits)
       /\ out' = out \cup {<< tmpR[s], j >> : s \in hits}
  /\ j' = j + 1
  /\ UNCHANGED << rkeys, skeys, stale, hist, tmpR, i, pc >>

(* The caller has read matches and the output when the frame is gone.      *)
Returned == pc = "probe" /\ j = numS + 1

Return ==
  /\ Returned
  /\ rkeys' = << >> /\ skeys' = << >>
  /\ stale' = 0
  /\ hist' = << >> /\ tmpR' = << >>
  /\ i' = 1 /\ j' = 1
  /\ matches' = 0 /\ out' = {}
  /\ pc' = "idle"

Step == Count \/ Reorder \/ ReorderDone \/ Probe

-----------------------------------------------------------------------------
(* During the reordering the bins fill from the left and never run into the *)
(* next one: bin h holds exactly the tuples of hash h seen so far.          *)
BinsSorted ==
  pc \in {"reorder", "probe"} =>
    \A h \in 0 .. Nhist - 1 :
      LET begin == Cardinality({p \in 1 .. numR : Hash(rkeys[p]) < h})
      IN {tmpR[s] : s \in begin .. hist[h + 1] - 1}
           = {p \in 1 .. i - 1 : Hash(rkeys[p]) = h}

(* A call counts and reports each match of its pair of partitions once.    *)
TaskComplete ==
  Returned =>
    /\ out = {m \in (DOMAIN rkeys) \X (DOMAIN skeys) : rkeys[m[1]] = skeys[m[2]]}
    /\ matches = Cardinality(out)
=============================================================================
