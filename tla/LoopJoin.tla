------------------------------ MODULE LoopJoin ------------------------------
(***************************************************************************)
(* NL and INL of nested_loop_join.cpp: each thread joins its share of R    *)
(* with all of S, by a scan of S or by look-ups in an index on S that main *)
(* builds before it starts the threads.                                    *)
(***************************************************************************)
EXTENDS Integers, Sequences, FiniteSets, Functions

CONSTANTS
  NThreads,
  RelationsR, RelationsS,
  Indexed                  (* INL *)

LoopAssumption ==
  /\ NThreads \in Nat \ {0} /\ Indexed \in BOOLEAN
  /\ RelationsR \cup RelationsS \subseteq Seq(Nat)

Threads == 0 .. NThreads - 1

VARIABLES
  rkeys, skeys,
  i, j,                  (* the loops of each thread over R and S *)
  num_results, out,
  result, finished

vars == << rkeys, skeys, i, j, num_results, out, result, finished >>

numperthr == Len(rkeys) \div NThreads
From(t) == t * numperthr + 1
Upto(t) == IF t = NThreads - 1 THEN Len(rkeys) ELSE (t + 1) * numperthr

Init ==
  /\ rkeys \in RelationsR /\ skeys \in RelationsS
  /\ i = [t \in Threads |-> From(t)]
  /\ j = [t \in Threads |-> 1]
  /\ num_results = [t \in Threads |-> 0]
  /\ out = {} /\ result = 0 /\ finished = FALSE

Found(t, rows) ==
  /\ out' = out \cup {<< i[t], n >> : n \in rows}
  /\ num_results' = [num_results EXCEPT ![t] = @ + Cardinality(rows)]

(* The inner loop of nlj_thread ... *)
Compare(t) ==
  /\ ~Indexed /\ i[t] <= Upto(t) /\ j[t] <= Len(skeys)
  /\ Found(t, IF rkeys[i[t]] = skeys[j[t]] THEN {j[t]} ELSE {})
  /\ j' = [j EXCEPT ![t] = @ + 1]
  /\ UNCHANGED << rkeys, skeys, i, result, finished >>

(* ... and the outer one. *)
NextRow(t) ==
  /\ ~Indexed /\ i[t] <= Upto(t) /\ j[t] > Len(skeys)
  /\ i' = [i EXCEPT ![t] = @ + 1] /\ j' = [j EXCEPT ![t] = 1]
  /\ UNCHANGED << rkeys, skeys, num_results, out, result, finished >>

(* The index, a B+ tree that keeps duplicates: where to find the key. *)
index(key) == {n \in DOMAIN skeys : skeys[n] = key}

(* inl_thread *)
Lookup(t) ==
  /\ Indexed /\ i[t] <= Upto(t)
  /\ Found(t, index(rkeys[i[t]]))
  /\ i' = [i EXCEPT ![t] = @ + 1]
  /\ UNCHANGED << rkeys, skeys, j, result, finished >>

Step(t) == Compare(t) \/ NextRow(t) \/ Lookup(t)

Total == SumFunction(num_results)

(* pthread_join with all threads. *)
Return ==
  /\ ~finished /\ \A t \in Threads : i[t] > Upto(t)
  /\ result' = Total /\ finished' = TRUE
  /\ UNCHANGED << rkeys, skeys, i, j, num_results, out >>
=============================================================================
