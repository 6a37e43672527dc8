---------------------------- MODULE SortMergeJoin ----------------------------
(***************************************************************************)
(* sortmerge_join of radix_sortmerge_join.cpp, the partition-pair join of  *)
(* RSM: both partitions are sorted where they lie in the buffers of the    *)
(* pass before, and merged.  The loops of merge compare keys only, so that *)
(* the pointers also run over what lies behind the partitions: padding and *)
(* the next partition, sorted already or not.                              *)
(***************************************************************************)
EXTENDS Integers, Sequences, FiniteSets, SequencesExt

VARIABLES
  rel, tmp,      (* keys by position; the buffers, slot -> position or 0  *)
  stale,         (* the key in the slots of padding                       *)
  task,          (* where the two partitions start, and their lengths     *)
  tr, gs, ts,    (* the pointers into R and S; the end of a run in S      *)
  tr_s,          (* tuples of R passed                                    *)
  gs_s,          (* tuples of S passed by the loop that counts them       *)
  matches, out, pc

state == << tr, gs, ts, tr_s, gs_s >>

Sides == {"R", "S"}
Inside(x, s) == s \in DOMAIN tmp[x]
KeyAt(x, s) == IF tmp[x][s] = 0 THEN stale ELSE rel[x][tmp[x][s]]

(* Between two calls. *)
Init ==
  /\ task = << >>
  /\ tr = 0 /\ gs = 0 /\ ts = 0 /\ tr_s = 0 /\ gs_s = 0

(* The call sorts both partitions. *)
SortedPart(x, t) ==
  LET part == [k \in 1 .. t[x].len |-> tmp[x][t[x].start + k - 1]]
      sorted == SortSeq(part, LAMBDA a, b : rel[x][a] < rel[x][b] \/ (rel[x][a] = rel[x][b] /\ a < b))
  IN [s \in DOMAIN tmp[x] |->
        IF s - t[x].start \in 0 .. t[x].len - 1 THEN sorted[s - t[x].start + 1] ELSE tmp[x][s]]

Call(t, Stale) ==
  /\ pc = "idle"
  /\ task' = t /\ stale' \in Stale
  /\ tmp' = [x \in Sides |-> SortedPart(x, t)]
  /\ tr' = t["R"].start /\ gs' = t["S"].start
  /\ pc' = "merge"
  /\ UNCHANGED << rel, ts, tr_s, gs_s, matches, out >>

(* The loop over both relations; gs_s lags behind gs. *)
More == tr_s < task["R"].len /\ gs_s < task["S"].len
Readable == Inside("R", tr) /\ Inside("S", gs)

Enter ==
  /\ pc = "merge" /\ More
  /\ pc' = "skipR"
  /\ UNCHANGED << rel, tmp, stale, task, state, matches, out >>

SkipR ==
  /\ pc = "skipR" /\ Readable
  /\ IF KeyAt("R", tr) < KeyAt("S", gs)
       THEN tr' = tr + 1 /\ tr_s' = tr_s + 1 /\ UNCHANGED pc
       ELSE pc' = "skipS" /\ UNCHANGED << tr, tr_s >>
  /\ UNCHANGED << rel, tmp, stale, task, gs, ts, gs_s, matches, out >>

SkipS ==
  /\ pc = "skipS" /\ Readable
  /\ IF KeyAt("R", tr) > KeyAt("S", gs)
       THEN gs' = gs + 1 /\ gs_s' = gs_s + 1 /\ UNCHANGED << ts, pc >>
       ELSE ts' = gs /\ pc' = "rows" /\ UNCHANGED << gs, gs_s >>
  /\ UNCHANGED << rel, tmp, stale, task, tr, tr_s, matches, out >>

(* The slots of S from gs on that have its key, as far as the buffer goes.  *)
Run == {s \in DOMAIN tmp["S"] : s >= gs /\ \A u \in gs .. s : KeyAt("S", u) = KeyAt("S", gs)}
RunEnds == Inside("S", gs + Cardinality(Run))

(* A row of R with the key at gs matches the whole run. *)
Row ==
  /\ pc = "rows" /\ Readable /\ RunEnds
  /\ KeyAt("R", tr) = KeyAt("S", gs)
  /\ matches' = matches + Cardinality(Run)
  /\ out' = out \cup {<< tmp["R"][tr], tmp["S"][s] >> : s \in Run}
  /\ tr' = tr + 1 /\ tr_s' = tr_s + 1 /\ ts' = gs + Cardinality(Run)
  /\ UNCHANGED << rel, tmp, stale, task, gs, gs_s, pc >>

EndRows ==
  /\ pc = "rows" /\ Readable
  /\ KeyAt("R", tr) # KeyAt("S", gs)
  /\ gs' = ts /\ pc' = "merge"
  /\ UNCHANGED << rel, tmp, stale, task, tr, ts, tr_s, gs_s, matches, out >>

(* A pointer leaves the buffers of the cluster. *)
LeaveBuffers ==
  /\ \/ pc \in {"skipR", "skipS", "rows"} /\ ~Readable
     \/ pc = "rows" /\ Readable /\ KeyAt("R", tr) = KeyAt("S", gs) /\ ~RunEnds
  /\ pc' = "wild"
  /\ UNCHANGED << rel, tmp, stale, task, state, matches, out >>

Returned == pc = "merge" /\ ~More

Return ==
  /\ Returned
  /\ task' = << >>
  /\ tr' = 0 /\ gs' = 0 /\ ts' = 0 /\ tr_s' = 0 /\ gs_s' = 0
  /\ stale' = 0 /\ matches' = 0 /\ out' = {} /\ pc' = "idle"
  /\ UNCHANGED << rel, tmp >>

Step == Enter \/ SkipR \/ SkipS \/ Row \/ EndRows \/ LeaveBuffers
=============================================================================
