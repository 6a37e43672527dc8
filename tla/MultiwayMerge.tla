---------------------------- MODULE MultiwayMerge ----------------------------
(***************************************************************************)
(* scalar_multiway_merge (scalar_multiwaymerge.cpp), which merges the      *)
(* sorted runs of a partition range for the multi-way sort-merge join: a   *)
(* binary tree of ring buffers.  Each round reads the runs into the leaves *)
(* that are less than half full, merges children into the inner nodes that *)
(* are less than half full, and stores what the two topmost nodes allow.   *)
(* A merge must stop when one of its inputs is empty but not exhausted,    *)
(* and the loop ends when all nodes it looked at are done.                 *)
(***************************************************************************)
EXTENDS Integers, Sequences, SequencesExt, FiniteSets

CONSTANTS
  Runs,          (* the sequences of nparts sorted runs to choose from,
                    each a sequence of << key, payload >>              *)
  FifoSizes      (* the ring sizes to choose from                      *)

Sorted(run) == IsSorted([k \in DOMAIN run |-> run[k][1]], <=)

(* Without inner nodes the loop could end too early, and a ring of one slot *)
(* has a threshold of zero; the code has 128 runs and large rings.          *)
ASSUME MergeAssumption ==
  /\ Runs \subseteq Seq(Seq(Nat \X Nat))
  /\ \A runs \in Runs :
       Len(runs) \in {8, 16, 32, 64, 128} /\ \A c \in DOMAIN runs : Sorted(runs[c])
  /\ FifoSizes \subseteq Nat \ {0, 1}

(* The payload, which merging never looks at, tells a tuple from all others.*)
ASSUME Identified ==
  \A runs \in Runs :
    \A c, d \in DOMAIN runs : \A x \in DOMAIN runs[c], y \in DOMAIN runs[d] :
      runs[c][x] = runs[d][y] => c = d /\ x = y

VARIABLES
  parts,                (* what is left of the runs                     *)
  fifosize,
  buffer,               (* buffer[n]: the slots of node n               *)
  head, tail, count,    (* of each ring                                 *)
  done,                 (* node n will receive nothing more             *)
  m,                    (* the node to visit next, -1 for the root      *)
  ending,               (* `finished` of this round                     *)
  output, returned

rings == << buffer, head, tail, count >>
vars == << parts, fifosize, rings, done, m, ending, output, returned >>

nparts == Len(parts)
nfifos == nparts - 2
Nodes == 0 .. nfifos - 1
readthreshold == fifosize \div 2
FirstLeaf == (nparts \div 2) - 2
right(n) == 2 * n + 2
left(n) == 2 * n + 3
minimum(x, y) == IF x < y THEN x ELSE y

(* The slots of a ring from one index up to another, in two blocks if they  *)
(* wrap; equal indices mean the whole ring, the counts must tell it from    *)
(* the empty one.                                                           *)
Span(from, to) ==
  [k \in 1 .. IF from < to THEN to - from ELSE fifosize - from + to |->
     (from + k - 1) % fifosize]
Content(n) ==
  LET slots == Span(head[n], tail[n])
  IN IF count[n] = 0 THEN << >> ELSE [k \in DOMAIN slots |-> buffer[n][slots[k]]]

Tuples(picks) == [k \in DOMAIN picks |-> picks[k][1]]
From(list, picks) == Cardinality({k \in DOMAIN picks : picks[k][2] = list})

(* serialmergekernel: merges A and B until either is empty or the slots are *)
(* used up; each element with the list it is from.                          *)
Kernel(A, B, slots) ==
  LET pick[at \in (0 .. Len(A)) \X (0 .. Len(B))] ==
        LET ri == at[1]
            li == at[2]
        IN IF ri = Len(A) \/ li = Len(B) \/ ri + li >= slots THEN << >>
           ELSE IF A[ri + 1][1] < B[li + 1][1]
           THEN << << A[ri + 1], "A" >> >> \o pick[<< ri + 1, li >>]
           ELSE << << B[li + 1], "B" >> >> \o pick[<< ri, li + 1 >>]
  IN pick[<< 0, 0 >>]

Drop(s, k) == SubSeq(s, k + 1, Len(s))
Tagged(s, list, k) == [x \in 1 .. minimum(k, Len(s)) |-> << s[x], list >>]

-----------------------------------------------------------------------------
Init ==
  /\ parts \in Runs /\ fifosize \in FifoSizes
  /\ buffer = [n \in Nodes |-> [slot \in 0 .. fifosize - 1 |-> << 0, 0 >>]]
  /\ head = [n \in Nodes |-> 0] /\ tail = [n \in Nodes |-> 0]
  /\ count = [n \in Nodes |-> 0]
  /\ done = [n \in Nodes |-> FALSE]
  /\ m = nfifos - 1
  /\ ending = TRUE
  /\ output = << >> /\ returned = FALSE

(* The tuples go to the free slots of node n, behind its tail. *)
Written(n, tuples) ==
  LET free == Span(tail[n], head[n])
  IN [slot \in DOMAIN buffer[n] |->
        IF \E k \in DOMAIN tuples : free[k] = slot
        THEN tuples[CHOOSE k \in DOMAIN tuples : free[k] = slot]
        ELSE buffer[n][slot]]
Advanced(index, k) == (index + k) % fifosize

(* readmerge_scalar_decomposed: merge the two runs of the leaf into it until*)
(* one is exhausted, then copy the other, until the ring is full.           *)
ReadPicks(n, A, B) ==
  LET merged == Kernel(A, B, Len(Span(tail[n], head[n])))
      room == fifosize - count[n] - Len(merged)
      restA == Drop(A, From("A", merged))
      restB == Drop(B, From("B", merged))
  IN merged \o IF restA # << >> THEN Tagged(restA, "A", room) ELSE Tagged(restB, "B", room)

ReadLeaf ==
  /\ ~returned /\ m >= FirstLeaf
  /\ LET c == 2 * (nfifos - m) - 1
         picks == ReadPicks(m, parts[c], parts[c + 1])
         A == Drop(parts[c], From("A", picks))
         B == Drop(parts[c + 1], From("B", picks))
     IN IF ~done[m] /\ count[m] < readthreshold
        THEN /\ parts' = [parts EXCEPT ![c] = A, ![c + 1] = B]
             /\ buffer' = [buffer EXCEPT ![m] = Written(m, Tuples(picks))]
             /\ tail' = [tail EXCEPT ![m] = Advanced(@, Len(picks))]
             /\ count' = [count EXCEPT ![m] = @ + Len(picks)]
             /\ done' = [done EXCEPT ![m] = picks = << >> \/ (A = << >> /\ B = << >>)]
             /\ ending' = (ending /\ done'[m])
        ELSE UNCHANGED << parts, buffer, tail, count, done, ending >>
  /\ m' = m - 1
  /\ UNCHANGED << fifosize, head, output, returned >>

(* One child is done and empty, the other is neither. *)
OnlyLeft(r, l) == done[r] /\ count[r] = 0 /\ ~done[l] /\ count[l] > 0
OnlyRight(r, l) == done[l] /\ count[l] = 0 /\ ~done[r] /\ count[r] > 0

(* Mutant: one child is enough. *)
MutBothDone(r, l) == done[r] \/ done[l]
BothDone(r, l) == done[r] /\ done[l]

(* merge_scalar_decomposed: copy the only child that has keys; or merge     *)
(* until the node is full or a child empty and, once both children are      *)
(* done, fill what remains of the current block from the one that is not.   *)
MergePicks(n, r, l) ==
  LET room == fifosize - count[n]
      merged == Kernel(Content(r), Content(l), room)
      block == minimum(room - Len(merged), fifosize - Advanced(tail[n], Len(merged)))
      restR == Drop(Content(r), From("A", merged))
      restL == Drop(Content(l), From("B", merged))
  IN IF OnlyLeft(r, l) THEN Tagged(Content(l), "B", room)
     ELSE IF OnlyRight(r, l) THEN Tagged(Content(r), "A", room)
     ELSE merged \o (IF ~BothDone(r, l) THEN << >>
                     ELSE IF restR # << >> THEN Tagged(restR, "A", block)
                     ELSE Tagged(restL, "B", block))

Full(n) == count[n] = fifosize
HalfFull(n) == count[n] >= readthreshold

(* Mutant: a child that is done and nearly empty is waited for. *)
MutReady(r, l) == HalfFull(r) /\ HalfFull(l)
Ready(r, l) == done[r] \/ done[l] \/ (HalfFull(r) /\ HalfFull(l))

(* Mutant: tuples left in the children's rings are forgotten. *)
MutDrained(r, l) == BothDone(r, l)
Drained(r, l) == BothDone(r, l) /\ count'[r] = 0 /\ count'[l] = 0

MergeInner ==
  /\ ~returned /\ m \in 0 .. FirstLeaf - 1
  /\ LET r == right(m)
         l == left(m)
         wanted == ~done[m] /\ (done[r] \/ done[l] \/ ~HalfFull(m)) /\ ~Full(m)
         picks == IF wanted /\ Ready(r, l) THEN MergePicks(m, r, l) ELSE << >>
     IN /\ buffer' = [buffer EXCEPT ![m] = Written(m, Tuples(picks))]
        /\ tail' = [tail EXCEPT ![m] = Advanced(@, Len(picks))]
        /\ head' = [head EXCEPT ![r] = Advanced(@, From("A", picks)),
                                ![l] = Advanced(@, From("B", picks))]
        /\ count' = [count EXCEPT ![m] = @ + Len(picks), ![r] = @ - From("A", picks),
                                  ![l] = @ - From("B", picks)]
        /\ done' = [done EXCEPT ![m] =
             IF wanted THEN Drained(r, l) ELSE @]
        /\ ending' = (ending /\ done'[m])
  /\ m' = m - 1
  /\ UNCHANGED << parts, fifosize, output, returned >>

(* mergestore_scalar_decomposed: as above, but to the output, which has     *)
(* room for all.                                                            *)
StorePicks ==
  LET merged == Kernel(Content(0), Content(1), count[0] + count[1])
      restR == Drop(Content(0), From("A", merged))
      restL == Drop(Content(1), From("B", merged))
  IN IF OnlyLeft(0, 1) THEN Tagged(Content(1), "B", count[1])
     ELSE IF OnlyRight(0, 1) THEN Tagged(Content(0), "A", count[0])
     ELSE merged \o (IF ~BothDone(0, 1) THEN << >>
                     ELSE Tagged(restR, "A", count[0]) \o Tagged(restL, "B", count[1]))

(* Ends the round, and the loop if every node visited is done. *)
StoreRoot ==
  /\ ~returned /\ m = -1
  /\ LET picks == StorePicks
         takenOf == [n \in Nodes |-> IF n = 0 THEN From("A", picks)
                                     ELSE IF n = 1 THEN From("B", picks) ELSE 0]
     IN /\ output' = output \o Tuples(picks)
        /\ head' = [n \in Nodes |-> Advanced(head[n], takenOf[n])]
        /\ count' = [n \in Nodes |-> count[n] - takenOf[n]]
  /\ m' = IF ending THEN -2 ELSE nfifos - 1
  /\ ending' = TRUE
  /\ UNCHANGED << parts, fifosize, buffer, tail, done, returned >>

Return ==
  /\ m = -2 /\ ~returned
  /\ returned' = TRUE
  /\ UNCHANGED << parts, fifosize, rings, done, m, ending, output >>

Terminated == returned /\ UNCHANGED vars

Next == ReadLeaf \/ MergeInner \/ StoreRoot \/ Return \/ Terminated
Spec == Init /\ [][Next]_vars
(* One thread runs the loop alone. *)
FairSpec == Spec /\ WF_vars(Next)

-----------------------------------------------------------------------------
(* A ring holds as many tuples as it says between head and tail, in         *)
(* ascending order of their keys, and none has a larger key than what its   *)
(* children or runs still hold: that is what lets a node take from one      *)
(* child while the other waits, and what a wrong wrap, an overrun ring or a *)
(* merge past an empty but unfinished child would break.                    *)
Below(n) ==
  IF n < FirstLeaf THEN ToSet(Content(right(n))) \cup ToSet(Content(left(n)))
  ELSE LET c == 2 * (nfifos - n) - 1 IN ToSet(parts[c]) \cup ToSet(parts[c + 1])

RingsSound ==
  \A n \in Nodes :
    /\ count[n] \in 0 .. fifosize
    /\ tail[n] = Advanced(head[n], count[n])
    /\ Sorted(Content(n))
    /\ \A x \in ToSet(Content(n)), later \in Below(n) : x[1] <= later[1]

(* What has not left the tree yet. *)
Remaining ==
  UNION ({ToSet(parts[c]) : c \in DOMAIN parts} \cup {ToSet(Content(n)) : n \in Nodes})

Abstract == INSTANCE AbstractMerge WITH rest <- Remaining

(* The tuples of all runs leave in ascending order, none is lost or doubled *)
(* on its way through the rings, and the merge ends when all have left.     *)
ImplementsMerge == Abstract!Spec

(* The loop ends: it never waits for a node that waits for another.         *)
Termination == <>returned
=============================================================================
