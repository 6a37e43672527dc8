---------------------------- MODULE ChunkedTable ----------------------------
(***************************************************************************)
(* ChunkedTable.cpp: the growing result table that each join thread fills  *)
(* on its own, and what the main thread and result_transformers.hpp make   *)
(* of the tables.  The elements are output triples.                        *)
(***************************************************************************)
EXTENDS Integers, Sequences, SequencesExt

CONSTANTS
  NThreads,      (* tables                                                 *)
  ChunkTuples,   (* TUPLES_PER_CHUNK                                       *)
  FirstCapacity  (* chunk pointers in the cache line that init allocates   *)

TableAssumption == {NThreads, ChunkTuples, FirstCapacity} \subseteq Nat \ {0}

Threads == 1 .. NThreads

VARIABLES
  prealloc,    (* chunks that each table begins with, 0 if it starts with   *)
               (* one and CHUNKED_TABLE_PREALLOC is not defined             *)
  capacity,    (* capacity[t]: table->chunk_capacity                        *)
  chunks,      (* chunks[t][c]: the tuples of a chunk, newest last          *)
  current,     (* current[t]: table->current_chunk, counted from 1          *)
  num_tuples,  (* num_tuples[t]                                             *)
  finished,    (* the threads that have called finish_chunked_table         *)
  result,      (* the concatenated table, << >> before it exists            *)
  solid,       (* the copy made by chunked_to_solid_table                   *)
  inserted,    (* history: the tuples inserted into each table              *)
  pc           (* of the main thread                                        *)

vars == << prealloc, capacity, chunks, current, num_tuples, finished, result, solid, inserted, pc >>

num_chunks(t) == Len(chunks[t])

-----------------------------------------------------------------------------
(* Before a join. *)
Init ==
  /\ prealloc = 0
  /\ capacity = << >> /\ chunks = << >> /\ current = << >> /\ num_tuples = << >>
  /\ finished = {} /\ result = << >> /\ solid = << >> /\ inserted = << >>
  /\ pc = "idle"

(* A join gets a vector of tables, value-initialised: no capacity, no       *)
(* chunks.                                                                  *)
Call(preallocated) ==
  /\ pc \in {"idle", "done"}
  /\ prealloc' = preallocated
  /\ capacity' = [t \in Threads |-> 0]
  /\ chunks' = [t \in Threads |-> << >>]
  /\ current' = [t \in Threads |-> 1]
  /\ num_tuples' = [t \in Threads |-> 0]
  /\ finished' = {}
  /\ result' = << >>
  /\ solid' = << >>
  /\ inserted' = [t \in Threads |-> << >>]
  /\ pc' = "join"

(* add_chunk: double the pointer array when it is full, append a chunk. *)
Grown(n, cap) == IF n = cap THEN cap * 2 ELSE cap

(* init_chunked_table, or init_chunked_table_prealloc.  A table that has a  *)
(* capacity is left alone.                                                  *)
InitTable(t) ==
  /\ pc = "join" /\ capacity[t] = 0
  /\ capacity' = [capacity EXCEPT ![t] = IF prealloc = 0 THEN FirstCapacity ELSE prealloc]
  /\ chunks' = [chunks EXCEPT ![t] = IF prealloc = 0 THEN << << >> >>
                                                     ELSE [c \in 1 .. prealloc |-> << >>]]
  /\ current' = [current EXCEPT ![t] = 1]
  /\ num_tuples' = [num_tuples EXCEPT ![t] = 0]
  /\ UNCHANGED << prealloc, finished, result, solid, inserted, pc >>

Ready(t) == pc = "join" /\ capacity[t] > 0 /\ t \notin finished

(* insert_output: into the current chunk ... *)
Insert(t, v) ==
  /\ Ready(t)
  /\ Len(chunks[t][current[t]]) < ChunkTuples
  /\ chunks' = [chunks EXCEPT ![t][current[t]] = Append(@, v)]
  /\ inserted' = [inserted EXCEPT ![t] = Append(@, v)]
  /\ UNCHANGED << prealloc, capacity, current, num_tuples, finished, result, solid, pc >>

(* ... or, when that is full, into the next one, which may be a new one.    *)
InsertNext(t, v) ==
  /\ Ready(t)
  /\ Len(chunks[t][current[t]]) >= ChunkTuples
  /\ LET last == current[t] = num_chunks(t)
         grown == IF last THEN Append(chunks[t], << >>) ELSE chunks[t]
     IN /\ capacity' = [capacity EXCEPT ![t] =
             IF last THEN Grown(num_chunks(t), capacity[t]) ELSE @]
        /\ chunks' = [chunks EXCEPT ![t] =
             [grown EXCEPT ![current[t] + 1] = Append(@, v)]]
  /\ current' = [current EXCEPT ![t] = @ + 1]
  /\ inserted' = [inserted EXCEPT ![t] = Append(@, v)]
  /\ UNCHANGED << prealloc, num_tuples, finished, result, solid, pc >>

(* Mutant: only the chunk filled last is counted. *)
MutTuplesIn(table) == Len(Last(table))
TuplesIn(table) == FoldLeft(LAMBDA n, c : n + Len(c), 0, table)

(* finish_chunked_table, once, at the end of the thread. *)
Finish(t) ==
  /\ Ready(t)
  /\ num_tuples' = [num_tuples EXCEPT ![t] = @ + TuplesIn(chunks[t])]
  /\ finished' = finished \cup {t}
  /\ UNCHANGED << prealloc, capacity, chunks, current, result, solid, inserted, pc >>

(* concatenate, when all threads have been joined. *)
Concatenate ==
  /\ pc = "join" /\ finished = Threads
  /\ result' = FlattenSeq(chunks)
  /\ pc' = "concatenated"
  /\ UNCHANGED << prealloc, capacity, chunks, current, num_tuples, finished, solid, inserted >>

(* The num_tuples of the concatenated table: the rows that                  *)
(* chunked_to_solid_table allocates.                                        *)
TotalTuples == FoldLeft(LAMBDA n, k : n + k, 0, num_tuples)

(* chunked_to_solid_table: copy chunk by chunk; the caller destroys the     *)
(* chunks.                                                                  *)
ToSolid ==
  /\ pc = "concatenated"
  /\ solid' = FlattenSeq(result)
  /\ pc' = "done"
  /\ UNCHANGED << prealloc, capacity, chunks, current, num_tuples, finished, result, inserted >>

(* Another consumer has read the chunks where they are. *)
Consumed ==
  /\ pc = "concatenated"
  /\ pc' = "done"
  /\ UNCHANGED << prealloc, capacity, chunks, current, num_tuples, finished, result, solid, inserted >>

-----------------------------------------------------------------------------
(* No index leaves its array: there is a pointer slot for each chunk, the   *)
(* current chunk exists, and no chunk holds more than its array.            *)
InBounds ==
  \A t \in DOMAIN capacity : capacity[t] > 0 =>
    /\ num_chunks(t) <= capacity[t]
    /\ current[t] \in 1 .. num_chunks(t)
    /\ \A c \in 1 .. num_chunks(t) : Len(chunks[t][c]) <= ChunkTuples

(* The chunks before the current one are full and those after it empty, so  *)
(* no room is wasted and readers that walk all chunks see insertion order.  *)
FilledInOrder ==
  \A t \in DOMAIN capacity : capacity[t] > 0 =>
    /\ \A c \in 1 .. current[t] - 1 : Len(chunks[t][c]) = ChunkTuples
    /\ \A c \in current[t] + 1 .. num_chunks(t) : chunks[t][c] = << >>
    /\ FlattenSeq(chunks[t]) = inserted[t]

(* The consumer of the join result sees every inserted tuple, once, thread  *)
(* by thread, and the array it has allocated by num_tuples fits exactly.    *)
ResultComplete ==
  pc \in {"concatenated", "done"} =>
    /\ FlattenSeq(result) = FlattenSeq(inserted)
    /\ Len(FlattenSeq(result)) = TotalTuples
    /\ solid \in {<< >>, FlattenSeq(result)}
=============================================================================
