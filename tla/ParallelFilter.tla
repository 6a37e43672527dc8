--------------------------- MODULE ParallelFilter ---------------------------
(***************************************************************************)
(* parallel_filter of filters.hpp: every thread filters its slice of a     *)
(* column-wise table into a table of its own; the last one to reach the    *)
(* barrier adds up the sizes and allocates the result; then all threads    *)
(* copy, each to its own position.  The result must be the rows the        *)
(* scalar filter_table selects, in table order, whatever the slices.       *)
(***************************************************************************)
EXTENDS Integers, Sequences, FiniteSets, SequencesExt, TpcHPredicates

CONSTANTS
  NThreads,  (* num_threads                                             *)
  Inputs,    (* pairs of a filter and a table (a sequence of its rows)  *)
  Align,     (* rows a slice is a multiple of: 64 in the code           *)
  WideLanes, (* rows per vector of an 8-bit column: 64                  *)
  Lanes      (* rows per vector of a 64-bit column: 8                   *)

FilterAssumption ==
  /\ {NThreads, Align, Lanes, WideLanes} \subseteq Nat \ {0}
  /\ \A in \in Inputs : in[1] \in Filters

Threads == 0 .. NThreads - 1

VARIABLES
  filter, table,           (* the arguments of parallel_filter             *)
  results,                 (* results[t]: rows selected by t, by position  *)
  thread_start_positions,
  result_table,            (* result position -> row position, 0 if unset  *)
  copied,                  (* rows thread t has copied                     *)
  pc, finished,
  inside, passed, opened   (* the barrier                                  *)

data == << filter, table, results, thread_start_positions, result_table, copied >>
vars == << filter, table, results, thread_start_positions, result_table, copied,
           pc, finished, inside, passed, opened >>

B == INSTANCE AbstractBarrier WITH Rounds <- 1

-----------------------------------------------------------------------------
tuples_per_thread == ((Len(table) \div NThreads) \div Align) * Align

(* The last thread takes the rest; main is thread 0. *)
From(t) == t * tuples_per_thread + 1
Upto(t) == IF t = NThreads - 1 THEN Len(table) ELSE (t + 1) * tuples_per_thread

(* Positions in ascending order. *)
InOrder(positions) ==
  [k \in 1 .. Cardinality(positions) |->
     CHOOSE i \in positions : Cardinality({j \in positions : j < i}) = k - 1]

(* A filter function on the rows from a to b: vectors first, then the rest. *)
VectorWidth == IF filter \in {"q3_orders", "q3_lineitem", "q10_orders"} THEN Lanes ELSE WideLanes
FilterFunction(a, b) ==
  LET rest_start == a + ((b - a + 1) \div VectorWidth) * VectorWidth IN
  InOrder({i \in a .. rest_start - 1 : VectorPredicate(filter, table[i])}
          \cup {i \in rest_start .. b : RestPredicate(filter, table[i])})

Init ==
  /\ \E in \in Inputs : filter = in[1] /\ table = in[2]
  /\ results = [t \in Threads |-> << >>]
  /\ thread_start_positions = [t \in Threads |-> 0]
  /\ result_table = << >>
  /\ copied = [t \in Threads |-> 0]
  /\ pc = [t \in Threads |-> "filter"]
  /\ finished = FALSE
  /\ B!Init

(* Between two calls. *)
Idle ==
  /\ filter = "none" /\ table = << >> /\ result_table = << >>
  /\ results = [t \in Threads |-> << >>]
  /\ thread_start_positions = [t \in Threads |-> 0]
  /\ copied = [t \in Threads |-> 0]
  /\ pc = [t \in Threads |-> "done"]
  /\ finished = TRUE
  /\ B!Init

Call(f, rows) ==
  /\ finished
  /\ filter' = f /\ table' = rows
  /\ thread_start_positions' = [t \in Threads |-> 0]
  /\ result_table' = << >>
  /\ pc' = [t \in Threads |-> "filter"]
  /\ finished' = FALSE
  /\ inside' = {} /\ passed' = [t \in Threads |-> 0] /\ opened' = 0
  /\ UNCHANGED << results, copied >>

Filter(t) ==
  /\ pc[t] = "filter"
  /\ results' = [results EXCEPT ![t] = FilterFunction(From(t), Upto(t))]
  /\ pc' = [pc EXCEPT ![t] = "barrier"]
  /\ B!Enter(t)
  /\ UNCHANGED << filter, table, thread_start_positions, result_table, copied, finished >>

Sizes == [t \in Threads |-> Len(results[t])]

(* Mutant: the last size is not added before the allocation. *)
MutFinalize ==
  /\ B!Open
  /\ thread_start_positions' = [t \in Threads |-> SumFunctionOnSet(Sizes, 1 .. t)]
  /\ result_table' = [i \in 1 .. SumFunction(Sizes) |-> 0]
  /\ UNCHANGED << filter, table, results, copied, pc, finished >>

(* The finalizer: prefix sums and the allocation of the result. *)
Finalize ==
  /\ B!Open
  /\ thread_start_positions' = [t \in Threads |-> SumFunctionOnSet(Sizes, 0 .. t - 1)]
  /\ result_table' = [i \in 1 .. SumFunction(Sizes) |-> 0]
  /\ UNCHANGED << filter, table, results, copied, pc, finished >>

LeaveBarrier(t) ==
  /\ pc[t] = "barrier"
  /\ B!Leave(t)
  /\ pc' = [pc EXCEPT ![t] = "copy"]
  /\ UNCHANGED << data, finished >>

CopyRow(t) ==
  /\ pc[t] = "copy"
  /\ copied[t] < Len(results[t])
  /\ result_table' = [result_table EXCEPT
       ![thread_start_positions[t] + copied[t] + 1] = results[t][copied[t] + 1]]
  /\ copied' = [copied EXCEPT ![t] = @ + 1]
  /\ UNCHANGED << filter, table, results, thread_start_positions, pc, finished,
                  inside, passed, opened >>

(* The thread frees its own table and ends. *)
Free(t) ==
  /\ pc[t] = "copy"
  /\ copied[t] = Len(results[t])
  /\ results' = [results EXCEPT ![t] = << >>]
  /\ copied' = [copied EXCEPT ![t] = 0]
  /\ pc' = [pc EXCEPT ![t] = "done"]
  /\ UNCHANGED << filter, table, thread_start_positions, result_table, finished,
                  inside, passed, opened >>

(* pthread_join on all workers, then return result_table. *)
Return ==
  /\ ~finished
  /\ \A t \in Threads : pc[t] = "done"
  /\ finished' = TRUE
  /\ UNCHANGED << data, pc, inside, passed, opened >>

Terminated == finished /\ UNCHANGED vars

Step ==
  \/ \E t \in Threads : Filter(t) \/ LeaveBarrier(t) \/ CopyRow(t) \/ Free(t)
  \/ Finalize

Next == Step \/ Return \/ Terminated

Spec == Init /\ [][Next]_vars

-----------------------------------------------------------------------------
(* Type invariant; positions stay inside the table.                         *)
TypeOK ==
  /\ \A t \in Threads :
       /\ Range(results[t]) \subseteq DOMAIN table
       /\ thread_start_positions[t] \in 0 .. Len(table)
       /\ copied[t] \in 0 .. Len(results[t])
  /\ result_table \in [1 .. Len(result_table) -> 0 .. Len(table)]
  /\ pc \in [Threads -> {"filter", "barrier", "copy", "done"}]
  /\ finished \in BOOLEAN

(* Every thread starts on a full vector, as the aligned and streaming loads *)
(* of the filters need (filters.hpp:35), and the slices cover each row of   *)
(* the table once, also when there are fewer rows than threads.             *)
SlicesSound ==
  /\ \A t \in Threads : (From(t) - 1) % Align = 0
  /\ \A i \in DOMAIN table : Cardinality({t \in Threads : i \in From(t) .. Upto(t)}) = 1

(* The positions a thread has still to fill are inside the allocation, and  *)
(* no other thread has filled them: the unsynchronised copies never meet.   *)
CopiesDisjoint ==
  \A t \in Threads : pc[t] = "copy" =>
    \A k \in copied[t] + 1 .. Len(results[t]) :
      /\ thread_start_positions[t] + k \in DOMAIN result_table
      /\ result_table[thread_start_positions[t] + k] = 0

(* No two threads touch the same row, when they filter or when they copy.   *)
RowsExclusive == TypeOK /\ SlicesSound /\ CopiesDisjoint

(* The result is what the scalar filter_table with the query's predicate    *)
(* returns: the same rows in the same order, none missing.                  *)
ResultIsFilter ==
  finished =>
    result_table = SelectSeq([i \in 1 .. Len(table) |-> i],
                             LAMBDA i : FilterPredicate(filter, table[i]))
=============================================================================
