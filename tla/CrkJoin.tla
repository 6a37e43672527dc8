------------------------------- MODULE CrkJoin -------------------------------
(***************************************************************************)
(* CrkJoin (Join.hpp, PTreeNode.hpp, JoinWrapper.cpp): the join that       *)
(* partitions both relations in place, by cracking, and only as far as the *)
(* next partition needs.  A tree over each relation remembers the cracks.  *)
(* Threads first crack log2(nthreads) levels of R, then of S; then each    *)
(* thread joins its own range of partitions and cracks on its way.  CRKJS  *)
(* cracks everything first, and its join need not crack.                   *)
(***************************************************************************)
EXTENDS Integers, Sequences, FiniteSets, Functions

CONSTANTS
  Levels,                  (* log2(nthreads)                                *)
  NUM_BITS,                (* radix bits                                    *)
  RelationsR, RelationsS,  (* key sequences to choose from                  *)
  Fused,                   (* CRKJF: crack while building and probing       *)
  Simple,                  (* CRKJS                                         *)
  Threshold                (* CRACKING_THRESHOLD: levels that CRKJS leaves  *)
                           (* to the join                                   *)

CrkAssumption ==
  /\ {Levels, NUM_BITS, Threshold} \subseteq Nat
  /\ Levels <= NUM_BITS
  /\ RelationsR \cup RelationsS \subseteq Seq(Nat)
  /\ \A r \in RelationsR : 2 ^ NUM_BITS < 2 * Len(r)   (* SHIFT >= 0 *)
  /\ {Fused, Simple} \subseteq BOOLEAN /\ ~(Fused /\ Simple)
  (* With more than two threads partition_thread_simple starts threads of  *)
  (* its own, whose crackingThreshold nobody sets; a threshold that leaves *)
  (* fewer levels cracked than these would have two of them crack a slice. *)
  /\ Simple => Levels <= 1 /\ Levels + Threshold <= NUM_BITS

nthreads == 2 ^ Levels
Threads == 0 .. nthreads - 1
npart == 2 ^ NUM_BITS
Relations == {"R", "S"}

VARIABLES
  rkeys, skeys,           (* the relations as they are passed in             *)
  at,                     (* at[x][s]: original position of the tuple that   *)
                          (* is now in slot s of relation x                  *)
  tree,                   (* tree[x]: path of bits -> [start, num]           *)
  crew,                   (* crew[x]: nodes a partition_thread is to crack   *)
  localHistR, histR,
  p,                      (* p[t]: the partition thread t joins              *)
  part,                   (* part[t]: positions of R in the hash table       *)
  matches, out, finished,
  pc, inside, passed, opened

vars == << rkeys, skeys, at, tree, crew, localHistR, histR, p, part, matches, out, finished,
           pc, inside, passed, opened >>
bar == << inside, passed, opened >>
rels == << rkeys, skeys >>

Bar == INSTANCE AbstractBarrier WITH Rounds <- 3

-----------------------------------------------------------------------------
Rel(x) == IF x = "R" THEN rkeys ELSE skeys
KeyIn(x, s) == Rel(x)[at[x][s]]

(* nextPowerOfTwo(numR) = 2 ^ (SHIFT + NUM_BITS) *)
SHIFT == CHOOSE e \in 0 .. Len(rkeys) :
  2 ^ (e + NUM_BITS) >= Len(rkeys) /\ 2 ^ (e + NUM_BITS) < 2 * Len(rkeys)

HASH(key) == (key \div 2 ^ SHIFT) % npart
(* current_bit of a node at depth d. *)
BitAt(key, d) == (key \div 2 ^ (SHIFT + NUM_BITS - d - 1)) % 2

PathOf(partition) == [d \in 1 .. NUM_BITS |-> (partition \div 2 ^ (NUM_BITS - d)) % 2]

(* getSlice: down the path of a partition as long as there are nodes. *)
Slice(x, partition) ==
  LET node(d) == SubSeq(PathOf(partition), 1, d)
  IN node(CHOOSE d \in 0 .. NUM_BITS :
       node(d) \in DOMAIN tree[x] /\ (d = NUM_BITS \/ node(d + 1) \notin DOMAIN tree[x]))

SlotsOf(node) == node.start .. node.start + node.num - 1
Positions(x, path) == {at[x][s] : s \in SlotsOf(tree[x][path])}

(* What the two pointers of partition_both_ends do with the bits of slots   *)
(* 0 .. n - 1: the left ones change places with the right zeros, from the   *)
(* outside in, and the left pointer i0 ends behind the zeros.  The fused    *)
(* variants hand the tuples that a pointer passes to check_add_to_ht and    *)
(* probe_ht: all, but the right pointer stops at slot 0 without passing it. *)
PartitionBothEnds(bits, n) ==
  LET zeros == {s \in 0 .. n - 1 : bits[s] = 0}
      i0 == Cardinality(zeros)
      left == (0 .. i0 - 1) \ zeros
      right == zeros \ (0 .. i0 - 1)
      Swapped(s, q) ==
        /\ s \in left /\ q \in right
        /\ Cardinality(left \cap 0 .. s) = Cardinality(right \cap q .. n - 1)
      partners(s) == {q \in left \cup right : Swapped(s, q) \/ Swapped(q, s)}
  IN [i0 |-> i0,
      from |-> [s \in 0 .. n - 1 |-> IF partners(s) = {} THEN s ELSE CHOOSE q \in partners(s) : TRUE],
      visited |-> IF i0 = 0 THEN 1 .. n - 1 ELSE 0 .. n - 1]

(* A node with one tuple or with all its bits is not cracked. *)
Leaf(x, path) == tree[x][path].num <= 1 \/ Len(path) >= NUM_BITS

SplitOf(x, path) ==
  LET node == tree[x][path]
  IN PartitionBothEnds([s \in 0 .. node.num - 1 |-> BitAt(KeyIn(x, node.start + s), Len(path))],
                       node.num)

(* The tuples of the child on the path of a partition, once the node is     *)
(* cracked, or of the leaf.                                                 *)
ChildFor(x, path, partition) ==
  LET node == tree[x][path]
      split == SplitOf(x, path)
  IN IF Leaf(x, path) THEN Positions(x, path)
     ELSE {at[x][node.start + split.from[s]] : s \in
             IF PathOf(partition)[Len(path) + 1] = 0 THEN 0 .. split.i0 - 1
                                                     ELSE split.i0 .. node.num - 1}

(* partition_both_ends of a node: move the tuples, insert two children.     *)
MoveTuples(x, path) ==
  LET node == tree[x][path]
      split == SplitOf(x, path)
  IN at' = [at EXCEPT ![x] = [s \in DOMAIN @ |->
       IF s \in SlotsOf(node) THEN @[node.start + split.from[s - node.start]] ELSE @[s]]]

Child(x, path, bit) ==
  LET node == tree[x][path]
      i0 == SplitOf(x, path).i0
  IN IF bit = 0 THEN [start |-> node.start, num |-> i0]
                ELSE [start |-> node.start + i0, num |-> node.num - i0]

InsertChildren(x, path) ==
  tree' = [tree EXCEPT ![x] = [q \in DOMAIN @ \cup {Append(path, 0), Append(path, 1)} |->
    IF q \in DOMAIN @ THEN @[q] ELSE Child(x, path, q[Len(q)])]]

Crack(x, path) ==
  IF Leaf(x, path) THEN UNCHANGED << at, tree >>
                   ELSE MoveTuples(x, path) /\ InsertChildren(x, path)

-----------------------------------------------------------------------------
CrackLevels == IF Simple THEN NUM_BITS - Threshold ELSE Levels

Init ==
  /\ rkeys \in RelationsR /\ skeys \in RelationsS
  /\ at = [x \in Relations |-> [s \in 0 .. Len(Rel(x)) - 1 |-> s + 1]]
  /\ tree = [x \in Relations |-> [q \in {<< >>} |-> [start |-> 0, num |-> Len(Rel(x))]]]
  /\ crew = [x \in Relations |-> IF CrackLevels <= 0 THEN {} ELSE {<< >>}]
  /\ localHistR = [t \in Threads |-> [q \in 0 .. npart - 1 |-> 0]]
  /\ histR = [q \in 0 .. npart - 1 |-> 0]
  /\ p = [t \in Threads |-> t * (npart \div nthreads)]
  /\ part = [t \in Threads |-> {}]
  /\ matches = [t \in Threads |-> 0] /\ out = {} /\ finished = FALSE
  /\ pc = [t \in Threads |-> "start"]
  /\ Bar!Init

(* Depth first, the subtree of bit 0 comes before the one of bit 1. *)
Before(q, path) ==
  \E d \in DOMAIN q \cap DOMAIN path :
    q[d] < path[d] /\ SubSeq(q, 1, d - 1) = SubSeq(path, 1, d - 1)

(* partition_thread: crack the node, then start a thread for each child.    *)
(* crack_dfs: one thread cracks the children too.  R is finished before S   *)
(* is begun.                                                                *)
CrewStep(x, path) ==
  /\ path \in crew[x]
  /\ Simple => \A q \in crew[x] : ~Before(q, path)
  /\ x = "S" => crew["R"] = {}
  /\ Crack(x, path)
  /\ crew' = [crew EXCEPT ![x] = (@ \ {path}) \cup
       (IF Len(path) + 1 < CrackLevels /\ ~Leaf(x, path)
          THEN {Append(path, 0), Append(path, 1)} ELSE {})]
  /\ UNCHANGED << rels, localHistR, histR, p, part, matches, out, finished, pc, bar >>

In(t, ph) == pc[t] = ph /\ t \notin inside
Goto(t, ph) == pc' = [pc EXCEPT ![t] = ph]

(* The join threads are created when both relations are cracked. *)
Start(t) ==
  /\ In(t, "start") /\ \A x \in Relations : crew[x] = {}
  /\ Bar!Enter(t) /\ Goto(t, "histogram")
  /\ UNCHANGED << rels, at, tree, crew, localHistR, histR, p, part, matches, out, finished >>

Share == Len(rkeys) \div nthreads

Histogram(t) ==
  /\ In(t, "histogram")
  /\ LET chunk == t * Share .. IF t = nthreads - 1 THEN Len(rkeys) - 1 ELSE (t + 1) * Share - 1
     IN localHistR' = [localHistR EXCEPT ![t] =
          [q \in DOMAIN @ |-> Cardinality({s \in chunk : HASH(KeyIn("R", s)) = q})]]
  /\ Bar!Enter(t) /\ Goto(t, "sum")
  /\ UNCHANGED << rels, at, tree, crew, histR, p, part, matches, out, finished >>

(* Thread 0 adds up the histograms while the others wait. *)
MutSum(t) == (* without the barrier behind it *)
  /\ In(t, "sum")
  /\ histR' = IF t # 0 THEN histR
       ELSE [q \in DOMAIN histR |-> SumFunction([u \in Threads |-> localHistR[u][q]])]
  /\ Goto(t, "next")
  /\ UNCHANGED << rels, at, tree, crew, localHistR, p, part, matches, out, finished, bar >>

Sum(t) ==
  /\ In(t, "sum")
  /\ histR' = IF t # 0 THEN histR
       ELSE [q \in DOMAIN histR |-> SumFunction([u \in Threads |-> localHistR[u][q]])]
  /\ Bar!Enter(t) /\ Goto(t, "next")
  /\ UNCHANGED << rels, at, tree, crew, localHistR, p, part, matches, out, finished >>

PartPerThread == npart \div nthreads
More(t) == p[t] < (t + 1) * PartPerThread

Skip(t) ==
  /\ In(t, "next") /\ More(t) /\ histR[p[t]] = 0
  /\ p' = [p EXCEPT ![t] = @ + 1]
  /\ UNCHANGED << rels, at, tree, crew, localHistR, histR, part, matches, out, finished, pc, bar >>

(* CRKJ_template: without a threshold, CRKJS runs join_simple_dfs_st, which *)
(* takes a slice for a partition; with one it runs join.                    *)
Whole == Simple /\ Threshold = 0

SimpleBuild(t) ==
  /\ Whole /\ In(t, "next") /\ More(t) /\ histR[p[t]] > 0
  /\ part' = [part EXCEPT ![t] = Positions("R", Slice("R", p[t]))]
  /\ Goto(t, "probe")
  /\ UNCHANGED << rels, at, tree, crew, localHistR, histR, p, matches, out, finished, bar >>

OfPartition(x, t, positions) == {n \in positions : HASH(Rel(x)[n]) = p[t]}

(* join cracks S first and goes on with the next partition if its slice is  *)
(* empty.                                                                   *)
CrackS(t) ==
  /\ ~Fused /\ ~Whole /\ In(t, "next") /\ More(t) /\ histR[p[t]] > 0
  /\ LET slice == Slice("S", p[t]) IN
       IF tree["S"][slice].num = 0
         THEN /\ p' = [p EXCEPT ![t] = @ + 1]
              /\ UNCHANGED << at, tree, pc >>
         ELSE /\ Crack("S", slice)
              /\ Goto(t, "build")
              /\ UNCHANGED p
  /\ UNCHANGED << rels, crew, localHistR, histR, part, matches, out, finished, bar >>

(* Then it cracks R and builds the hash table from the child node ...       *)
CrackR(t) ==
  /\ ~Fused /\ In(t, "build")
  /\ LET slice == Slice("R", p[t]) IN
       /\ Crack("R", slice)
       /\ part' = [part EXCEPT ![t] = OfPartition("R", t, ChildFor("R", slice, p[t]))]
  /\ Goto(t, "probe")
  /\ UNCHANGED << rels, crew, localHistR, histR, p, matches, out, finished, bar >>

(* check_add_to_ht and probe_ht see the tuples that the pointers pass.      *)
Seen(x, path) ==
  LET node == tree[x][path]
  IN IF Leaf(x, path) THEN Positions(x, path)
     ELSE {at[x][node.start + s] : s \in SplitOf(x, path).visited}

(* partition_and_build *)
FusedBuild(t) ==
  /\ Fused /\ In(t, "next") /\ More(t) /\ histR[p[t]] > 0
  /\ LET slice == Slice("R", p[t]) IN
       /\ Crack("R", slice)
       /\ part' = [part EXCEPT ![t] = OfPartition("R", t, Seen("R", slice))]
  /\ Goto(t, "probe")
  /\ UNCHANGED << rels, crew, localHistR, histR, p, matches, out, finished, bar >>

(* ... and probes it with the tuples of the partition (probe_node; fused:   *)
(* partition_and_probe).                                                    *)
Probe(t) ==
  /\ In(t, "probe")
  /\ LET slice == Slice("S", p[t])
         mine == IF Whole THEN Positions("S", slice)
                 ELSE OfPartition("S", t, IF Fused THEN Seen("S", slice) ELSE Positions("S", slice))
         found == {m \in part[t] \X mine : rkeys[m[1]] = skeys[m[2]]}
     IN /\ IF Fused THEN Crack("S", slice) ELSE UNCHANGED << at, tree >>
        /\ out' = out \cup found
        /\ matches' = [matches EXCEPT ![t] = @ + Cardinality(found)]
  /\ p' = [p EXCEPT ![t] = @ + 1]
  /\ Goto(t, "next")
  /\ UNCHANGED << rels, crew, localHistR, histR, part, finished, bar >>

Leave(t) ==
  /\ Bar!Leave(t)
  /\ UNCHANGED << rels, at, tree, crew, localHistR, histR, p, part, matches, out, finished, pc >>

Open ==
  /\ Bar!Open
  /\ UNCHANGED << rels, at, tree, crew, localHistR, histR, p, part, matches, out, finished, pc >>

(* CRKJ_template joins the threads; getJoinResult sums up. *)
Return ==
  /\ ~finished /\ \A t \in Threads : In(t, "next") /\ ~More(t)
  /\ finished' = TRUE
  /\ UNCHANGED << rels, at, tree, crew, localHistR, histR, p, part, matches, out, pc, bar >>

Step(t) ==
  \/ Start(t) \/ Histogram(t) \/ Sum(t) \/ Skip(t)
  \/ SimpleBuild(t) \/ CrackS(t) \/ CrackR(t) \/ FusedBuild(t) \/ Probe(t)
  \/ Leave(t)

AnyCrewStep == \E x \in Relations : \E path \in crew[x] : CrewStep(x, path)

Total == SumFunction(matches)

-----------------------------------------------------------------------------
(* Cracking only permutes the tuples; each node of the tree holds exactly   *)
(* the tuples whose leading radix bits are its path, and two siblings split *)
(* their parent's slots.                                                    *)
TreeSound ==
  \A x \in Relations :
    /\ {at[x][s] : s \in DOMAIN at[x]} = DOMAIN Rel(x)
    /\ \A path \in DOMAIN tree[x] :
         Positions(x, path) =
           {n \in DOMAIN Rel(x) : path = SubSeq(PathOf(HASH(Rel(x)[n])), 1, Len(path))}

(* Threads crack without synchronisation: a slice that thread t may still   *)
(* crack belongs to no partition of another thread.                         *)
SlicesPrivate ==
  \A x \in Relations : \A t, u \in Threads :
    (t # u /\ pc[t] = "next" /\ pc[u] = "next" /\ t \notin inside /\ u \notin inside) =>
      \A q \in t * PartPerThread .. (t + 1) * PartPerThread - 1 :
      \A r \in u * PartPerThread .. (u + 1) * PartPerThread - 1 :
        Slice(x, q) = Slice(x, r) => Leaf(x, Slice(x, q))

(* The table of a partition gets as many tuples as thread 0 has counted, so *)
(* partLocal.at(j) is in range and nothing is left out.                     *)
TableFits ==
  \A t \in Threads : In(t, "probe") => Cardinality(part[t]) = histR[p[t]]
=============================================================================
