---------------------------- MODULE TpcHQueries ----------------------------
(***************************************************************************)
(* The TPC-H queries 3, 10, 12 and 19 of tpch.cpp: parallel filters        *)
(* (ParallelFilter), joins, and the copies or the final filter that read   *)
(* what a join has left behind: chunks that its threads have filled        *)
(* (ChunkedTable, ChunkedFilter) or one list per thread.  A join is what   *)
(* AbstractJoin promises; which thread reports which pair is open.  Rows   *)
(* are found again through payloads, which are row numbers or keys.        *)
(***************************************************************************)
EXTENDS Integers, Sequences, FiniteSets, SequencesExt, TpcHPredicates

CONSTANTS
  NThreads, Align, WideLanes, Lanes,  (* of ParallelFilter                  *)
  ChunkTuples, FirstCapacity,         (* of ChunkedTable                    *)
  Prealloc,    (* is CHUNKED_TABLE_PREALLOC defined: the builds to check    *)
  Databases,   (* query -> databases, from table names to rows              *)
  ResultKinds  (* the kinds of materialised results to check, see kind      *)

VARIABLES
  query, db, prealloc_build,
  kind,     (* what the join algorithm leaves: "chunked" (RHO, RHT),        *)
            (* "list" (PHT, CRKJ), "empty" (RSM), "unset" (CHT, MWAY, ...)  *)
  step,     (* of the query                                                 *)
  tables,   (* intermediate tables: sequences of [key, payload]             *)
  todo,     (* triples of the running join that no thread has reported yet  *)
  lists,    (* output lists of the threads                                  *)
  answer,   (* the number of result rows                                    *)
  outcome

VARIABLES filter, table, results, thread_start_positions, result_table, copied,
          filter_pc, filtered, inside, passed, opened
VARIABLES prealloc, capacity, chunks, current, num_tuples, closed, result, solid,
          inserted, join_pc
VARIABLES counts, next_chunk, chunk_id, matches, scanned, count_pc, total

queryVars == << query, db, prealloc_build, kind, step, tables, todo, lists, answer, outcome >>
filterVars == << filter, table, results, thread_start_positions, result_table, copied,
                 filter_pc, filtered, inside, passed, opened >>
chunkVars == << prealloc, capacity, chunks, current, num_tuples, closed, result, solid,
                inserted, join_pc >>
countVars == << counts, next_chunk, chunk_id, matches, scanned, count_pc, total >>
vars == << queryVars, filterVars, chunkVars, countVars >>

F == INSTANCE ParallelFilter WITH Inputs <- {}, pc <- filter_pc, finished <- filtered
C == INSTANCE ChunkedTable WITH finished <- closed, pc <- join_pc
K == INSTANCE ChunkedFilter WITH chunks <- counts, pc <- count_pc

ASSUME QueriesAssumption ==
  /\ F!FilterAssumption /\ C!TableAssumption
  /\ Prealloc \subseteq BOOLEAN
  /\ ResultKinds \subseteq {"chunked", "list", "empty", "unset"}

-----------------------------------------------------------------------------
(* The queries.  A materialised join is always followed by its consumer; a  *)
(* join frees the filtered or copied tables that it has read.               *)
Filter(f, into) == [op |-> "filter", filter |-> f, into |-> into]
Join(r, s) == [op |-> "join", R |-> r, S |-> s]
FinalJoin(r, s) == [op |-> "final_join", R |-> r, S |-> s]
Copy(f, into) == [op |-> "copy", copy |-> f, into |-> into]
Count == [op |-> "count"]

tpch_q3 == <<
  Filter("q3_customer", "c"), Filter("q3_orders", "o"), Join("c", "o"),
  Copy("copy_Sp_Sp", "u"), Filter("q3_lineitem", "l"), FinalJoin("u", "l") >>

tpch_q10 == <<
  Filter("q10_orders", "o"), Join("customer", "o"),
  Copy("copy_RpToKeySp", "u"), Join("nation", "u"),
  Copy("copy_SpToTupleST", "v"), Filter("q10_lineitem", "l"), FinalJoin("v", "l") >>

tpch_q12 == << Filter("q12_lineitem", "l"), FinalJoin("orders", "l") >>

tpch_q19 == <<
  Filter("q19_part", "p"), Filter("q19_lineitem", "l"), Join("p", "l"), Count >>

Plan == [q3 |-> tpch_q3, q10 |-> tpch_q10, q12 |-> tpch_q12, q19 |-> tpch_q19]

Now == Plan[query][step]

Row(k, p) == [key |-> k, payload |-> p]

(* Base tables that are joined as they are. *)
Stored(name) ==
  [i \in DOMAIN db[name] |->
     Row(CASE name = "customer" -> db[name][i].custkey
           [] name = "orders"   -> db[name][i].orderkey
           [] name = "nation"   -> db[name][i].nationkey, i)]

Operand(name) == IF name \in DOMAIN tables THEN tables[name] ELSE Stored(name)

(* The table a filter reads. *)
TableOf(f) ==
  CASE f = "q3_customer" -> "customer"
    [] f \in {"q3_orders", "q10_orders"} -> "orders"
    [] f = "q19_part" -> "part"
    [] OTHER -> "lineitem"

(* There are databases for known queries, and the tables they filter are    *)
(* sequences of rows.                                                       *)
ASSUME DatabasesAssumption ==
  /\ DOMAIN Databases \subseteq DOMAIN Plan
  /\ \A q \in DOMAIN Databases : \A d \in Databases[q] : \A s \in DOMAIN Plan[q] :
       Plan[q][s].op = "filter" =>
         LET rows == d[TableOf(Plan[q][s].filter)] IN rows \in Seq(Range(rows))

(* The row that a filter makes of row i. *)
FilteredRow(f, i) ==
  LET r == db[TableOf(f)][i] IN
    CASE f = "q3_customer" -> Row(r.custkey, i)
      [] f = "q3_orders"   -> Row(r.custkey, r.orderkey)
      [] f = "q10_orders"  -> Row(r.custkey, i)
      [] f \in {"q19_part", "q19_lineitem"} -> Row(r.partkey, i)
      [] OTHER -> Row(r.orderkey, i)


(* What a transformer makes of a triple, in result_transformers.hpp for     *)
(* chunks and in result_transformers.cpp for lists.                         *)
Copied(f, v) ==
  CASE f = "copy_Sp_Sp" -> Row(v.Sp, v.Sp)
    [] f = "copy_RpToKeySp" -> Row(db.customer[v.Rp].nationkey, v.Sp)
    [] f = "copy_SpToTupleST" -> Row(db.orders[v.Sp].orderkey, 0)

(* The triples that a join of two tables reports. *)
Triples(r, s) ==
  LET pairs == {m \in (DOMAIN r) \X (DOMAIN s) : r[m[1]].key = s[m[2]].key}
  IN [n \in 1 .. Cardinality(pairs) |->
        LET m == SetToSortSeq(pairs, LAMBDA a, b : a[2] < b[2] \/ (a[2] = b[2] /\ a[1] < b[1]))[n]
        IN [Rp |-> r[m[1]].payload, Sp |-> s[m[2]].payload]]

(* Chunks per table: room for all of S, a fifth more, shared by the threads.*)
num_chunks_prealloc_per_thread(numS) ==
  (((numS \div ChunkTuples + 1) * 6) \div 5) \div NThreads + 1

Freed(r, s) == [n \in DOMAIN tables \ {r, s} |-> tables[n]]
With(name, rows) == [n \in DOMAIN tables \cup {name} |-> IF n = name THEN rows ELSE tables[n]]

-----------------------------------------------------------------------------
Init ==
  /\ query \in DOMAIN Databases
  /\ db \in Databases[query]
  /\ prealloc_build \in Prealloc
  /\ kind \in ResultKinds
  /\ step = 1
  /\ tables = << >> /\ todo = << >> /\ lists = << >>
  /\ answer = 0 /\ outcome = "running"
  /\ F!Idle /\ C!Init /\ K!Init

At(op) == outcome = "running" /\ Now.op = op
Proceed == step' = step + 1 /\ UNCHANGED << query, db, prealloc_build, kind, answer, outcome >>
Fixed == UNCHANGED << query, db, prealloc_build, kind, step, tables, answer, outcome >>
Finish(n) ==
  /\ answer' = n /\ outcome' = "returned"
  /\ UNCHANGED << query, db, prealloc_build, kind, step, todo, lists >>
Fail(o) ==
  /\ outcome' = o
  /\ UNCHANGED << query, db, prealloc_build, kind, step, tables, todo, lists, answer >>

StartFilter ==
  /\ At("filter")
  /\ F!Call(Now.filter, db[TableOf(Now.filter)])
  /\ UNCHANGED << queryVars, chunkVars, countVars >>

FilterStep == F!Step /\ UNCHANGED << queryVars, chunkVars, countVars >>

EndFilter ==
  /\ At("filter") /\ F!Return
  /\ tables' = With(Now.into, [k \in DOMAIN result_table |-> FilteredRow(filter, result_table[k])])
  /\ Proceed
  /\ UNCHANGED << todo, lists, chunkVars, countVars >>

Pairs == Triples(Operand(Now.R), Operand(Now.S))

(* Each thread of the join has a table of its own for its triples; RSM      *)
(* never writes into it.                                                    *)
StartChunkedJoin ==
  /\ At("join") /\ kind \in {"chunked", "empty"}
  /\ C!Call(IF prealloc_build THEN num_chunks_prealloc_per_thread(Len(Operand(Now.S))) ELSE 0)
  /\ todo' = IF kind = "empty" THEN << >> ELSE Pairs
  /\ Fixed /\ UNCHANGED << lists, filterVars, countVars >>

ThreadStarts == \E t \in C!Threads : C!InitTable(t) /\ UNCHANGED queryVars

(* The next triple is one of any thread that has not finished. *)
ThreadReports ==
  /\ todo # << >>
  /\ \E t \in C!Threads : C!Insert(t, Head(todo)) \/ C!InsertNext(t, Head(todo))
  /\ todo' = Tail(todo)
  /\ Fixed /\ UNCHANGED lists

ThreadEnds ==
  /\ \E t \in C!Threads :
       /\ todo = << >> \/ C!Threads \ closed # {t}
       /\ C!Finish(t)
  /\ UNCHANGED queryVars

EndChunkedJoin ==
  /\ At("join") /\ C!Concatenate
  /\ tables' = Freed(Now.R, Now.S)
  /\ Proceed /\ UNCHANGED << todo, lists >>

(* With output lists: each thread puts its triples in front of its list.    *)
ListJoin ==
  /\ At("join") /\ kind = "list"
  /\ LET pairs == Pairs IN
       \E thread \in [DOMAIN pairs -> C!Threads] :
         lists' = [t \in C!Threads |->
           LET own == SelectSeq([k \in DOMAIN pairs |-> k], LAMBDA k : thread[k] = t)
           IN Reverse([k \in DOMAIN own |-> pairs[own[k]]])]
  /\ tables' = Freed(Now.R, Now.S)
  /\ Proceed /\ UNCHANGED << todo, filterVars, chunkVars, countVars >>

(* Neither the result nor its result_type is assigned, materialized is not  *)
(* or is set to 0.                                                          *)
UnsetJoin ==
  /\ At("join") /\ kind = "unset"
  /\ tables' = Freed(Now.R, Now.S)
  /\ Proceed /\ UNCHANGED << todo, lists, filterVars, chunkVars, countVars >>

CopyChunks ==
  /\ At("copy") /\ C!ToSolid
  /\ tables' = With(Now.into, [k \in DOMAIN solid' |-> Copied(Now.copy, solid'[k])])
  /\ Proceed /\ UNCHANGED << todo, lists, filterVars, countVars >>

(* joinResultToTableST. *)
CopyLists ==
  /\ At("copy") /\ kind = "list"
  /\ LET triples == FlattenSeq(lists)
     IN tables' = With(Now.into, [k \in DOMAIN triples |-> Copied(Now.copy, triples[k])])
  /\ Proceed /\ UNCHANGED << todo, lists, filterVars, chunkVars, countVars >>

(* A result_type that happens to be 0 leads to the check of materialized,   *)
(* any other one to an address that nobody has stored; query 19 checks      *)
(* nothing.                                                                 *)
ReadUnset ==
  /\ kind = "unset"
  /\ \/ At("copy") /\ Fail("exited")
     \/ (At("copy") \/ At("count")) /\ Fail("wild")
  /\ UNCHANGED << filterVars, chunkVars, countVars >>

Return ==
  /\ At("final_join")
  /\ Finish(Len(Pairs))
  /\ tables' = Freed(Now.R, Now.S)
  /\ UNCHANGED << filterVars, chunkVars, countVars >>

-----------------------------------------------------------------------------
(* The final filter of query 19. *)
Accepted(triples) ==
  Cardinality({k \in DOMAIN triples :
                 Q19Final(db.part[triples[k].Rp], db.lineitem[triples[k].Sp])})

StartCount ==
  /\ At("count") /\ C!Consumed
  /\ K!Call([c \in 0 .. Len(result) - 1 |-> Accepted(result[c + 1])])
  /\ UNCHANGED << queryVars, filterVars >>

CountStep == K!Step /\ UNCHANGED << queryVars, filterVars, chunkVars >>

EndCount ==
  /\ At("count") /\ total # -1
  /\ Finish(total)
  /\ UNCHANGED << tables, filterVars, chunkVars, countVars >>

(* q19FilterJoinResults: a thread for each list. *)
CountLists ==
  /\ At("count") /\ kind = "list"
  /\ Finish(Accepted(FlattenSeq(lists)))
  /\ UNCHANGED << tables, filterVars, chunkVars, countVars >>

JoinStep ==
  /\ ThreadStarts \/ ThreadReports \/ ThreadEnds \/ EndChunkedJoin
  /\ UNCHANGED << filterVars, countVars >>

Terminated == outcome # "running" /\ UNCHANGED vars

Next ==
  \/ StartFilter \/ FilterStep \/ EndFilter
  \/ StartChunkedJoin \/ JoinStep \/ ListJoin \/ UnsetJoin
  \/ CopyChunks \/ CopyLists \/ ReadUnset
  \/ StartCount \/ CountStep \/ EndCount \/ CountLists
  \/ Return
  \/ Terminated

Spec == Init /\ [][Next]_vars

-----------------------------------------------------------------------------
(* No two threads touch the same row, when they filter or when they copy.   *)
RowsExclusive == F!RowsExclusive

(* Each parallel filter returns what the scalar filter_table would.         *)
ResultIsFilter == F!ResultIsFilter

(* No thread leaves the bounds of its table, its chunks fill one after the  *)
(* other, and the filter of query 19 scans only chunks that exist, although *)
(* it begins without a look at their number, and none of them twice.        *)
ChunksSound == C!InBounds /\ C!FilledInOrder /\ K!TypeOK /\ K!ChunksOnce

(* The consumer of a join result sees every triple that a thread has        *)
(* inserted, once, and the array it allocates by num_tuples fits exactly.   *)
ResultComplete == C!ResultComplete

Rows(name) == DOMAIN db[name]

(* The rows of a query's result, as the query is written in SQL. *)
Answer ==
  CASE query = "q3" ->
         {m \in Rows("customer") \X Rows("orders") \X Rows("lineitem") :
            LET c == db.customer[m[1]]  o == db.orders[m[2]]  l == db.lineitem[m[3]] IN
            /\ c.custkey = o.custkey /\ o.orderkey = l.orderkey
            /\ FilterPredicate("q3_customer", c)
            /\ FilterPredicate("q3_orders", o)
            /\ FilterPredicate("q3_lineitem", l)}
    [] query = "q10" ->
         {m \in Rows("customer") \X Rows("orders") \X Rows("nation") \X Rows("lineitem") :
            LET c == db.customer[m[1]]  o == db.orders[m[2]]
                n == db.nation[m[3]]  l == db.lineitem[m[4]] IN
            /\ c.custkey = o.custkey /\ c.nationkey = n.nationkey /\ o.orderkey = l.orderkey
            /\ FilterPredicate("q10_orders", o)
            /\ FilterPredicate("q10_lineitem", l)}
    [] query = "q12" ->
         {m \in Rows("orders") \X Rows("lineitem") :
            /\ db.orders[m[1]].orderkey = db.lineitem[m[2]].orderkey
            /\ FilterPredicate("q12_lineitem", db.lineitem[m[2]])}
    [] query = "q19" ->
         {m \in Rows("part") \X Rows("lineitem") :
            LET p == db.part[m[1]]  l == db.lineitem[m[2]] IN
            /\ p.partkey = l.partkey
            /\ l.shipmode \in {"AIR", "AIR_REG"} /\ l.shipinstruct = "DELIVER_IN_PERSON"
            /\ Q19Final(p, l)}

(* An algorithm that leaves its results where run_join's caller looks for   *)
(* them, or a query that materialises nothing.                              *)
Promised == kind \in {"chunked", "list"} \/ query = "q12"

=============================================================================
