--------------------------- MODULE ChunkedFilter ---------------------------
(***************************************************************************)
(* q19FilterJoinResultsChunked and q19FilterChunkedThread of Q19-          *)
(* Predicates.hpp: the threads count the join results that satisfy query   *)
(* 19's final predicate.  Each begins with the chunk of its own number and *)
(* then draws chunks from a shared counter.                                *)
(***************************************************************************)
EXTENDS Integers, FiniteSets, Functions

CONSTANT NThreads   (* join_result->nthreads *)

Threads == 0 .. NThreads - 1

VARIABLES
  chunks,      (* chunk -> number of its tuples q19FinalPredicate accepts  *)
  next_chunk,  (* the shared counter                                       *)
  chunk_id,    (* the chunk each thread is at                              *)
  matches,     (* counted by each thread                                   *)
  scanned,     (* chunk -> how often it has been scanned                   *)
  pc,
  total        (* what main returns, -1 before that                        *)

vars == << chunks, next_chunk, chunk_id, matches, scanned, pc, total >>

(* Mutant: the counter does not skip the chunks the threads start with. *)
MutFirstChunk == 0
FirstChunk == NThreads

Init ==
  /\ chunks = << >> /\ scanned = << >>
  /\ next_chunk = FirstChunk
  /\ chunk_id = [t \in Threads |-> t]
  /\ matches = [t \in Threads |-> 0]
  /\ pc = [t \in Threads |-> "idle"]
  /\ total = -1

(* q19FilterJoinResultsChunked is called and creates its threads.           *)
Call(table) ==
  /\ \A t \in Threads : pc[t] = "idle"
  /\ chunks' = table
  /\ scanned' = [c \in DOMAIN table |-> 0]
  /\ pc' = [t \in Threads |-> "scan"]
  /\ UNCHANGED << next_chunk, chunk_id, matches, total >>

num_chunks == Cardinality(DOMAIN chunks)

ScanChunk(t) ==
  /\ pc[t] = "scan"
  /\ matches' = [matches EXCEPT ![t] = @ + chunks[chunk_id[t]]]
  /\ scanned' = [scanned EXCEPT ![chunk_id[t]] = @ + 1]
  /\ pc' = [pc EXCEPT ![t] = "take"]
  /\ UNCHANGED << chunks, next_chunk, chunk_id, total >>

(* while ((chunk_id = next_chunk->fetch_add(1)) < num_chunks) *)
TakeChunk(t) ==
  /\ pc[t] = "take"
  /\ chunk_id' = [chunk_id EXCEPT ![t] = next_chunk]
  /\ next_chunk' = next_chunk + 1
  /\ pc' = [pc EXCEPT ![t] = IF next_chunk < num_chunks THEN "scan" ELSE "done"]
  /\ UNCHANGED << chunks, matches, scanned, total >>

(* Main joins all threads and adds up their counts. *)
Collect ==
  /\ total = -1
  /\ \A t \in Threads : pc[t] = "done"
  /\ total' = FoldFunction(+, 0, matches)
  /\ UNCHANGED << chunks, next_chunk, chunk_id, matches, scanned, pc >>

Step ==
  \/ \E t \in Threads : ScanChunk(t) \/ TakeChunk(t)
  \/ Collect

-----------------------------------------------------------------------------
(* Type invariant; a thread scans only chunks that exist.                   *)
TypeOK ==
  /\ \A t \in Threads : pc[t] = "scan" => chunk_id[t] \in DOMAIN chunks
  /\ \A t \in Threads : matches[t] \in Nat
  /\ scanned \in [DOMAIN chunks -> Nat]
  /\ pc \in [Threads -> {"idle", "scan", "take", "done"}]

(* No chunk is counted twice, neither by two threads that draw at the same  *)
(* time nor because the counter hands out a thread's first chunk again.     *)
ChunksOnce ==
  /\ \A c \in DOMAIN chunks : scanned[c] <= 1
  /\ \A t, u \in Threads :
       t # u /\ pc[t] = "scan" /\ pc[u] = "scan" => chunk_id[t] # chunk_id[u]
  /\ \A t \in Threads : pc[t] = "scan" => scanned[chunk_id[t]] = 0
=============================================================================
