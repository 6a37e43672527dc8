---------------------------- MODULE RunJoinProofs ----------------------------
(***************************************************************************)
(* Whatever join run_join is asked for, and with any number of threads:    *)
(* the threads of PHT_o work on different buckets and no probe stands on a *)
(* freed one, the buffer that the threads of MWAY share is not freed under *)
(* a merge, and the threads of the crack joins crack different slices.     *)
(* One inductive invariant has a part for each of these joins; a step of   *)
(* another join leaves it alone. PHT and PHT_un count the pairs with equal *)
(* keys; the invariant that shows it says what is in their buckets.        *)
(***************************************************************************)
EXTENDS RunJoin, CountingLemmas

(* A thread that has not yet left a round finds it open or is the only     *)
(* reason why it is not: opened lies between the rounds a thread has left  *)
(* and those it has entered.                                               *)
Entered(t) == passed[t] + (IF t \in inside THEN 1 ELSE 0)
BarrierInv ==
  /\ inside \subseteq Threads /\ passed \in [Threads -> Nat] /\ opened \in Nat
  /\ \A t \in Threads : passed[t] <= opened /\ opened <= Entered(t)

(* The positions of a thread of PHT_o, and how many barriers it has        *)
(* entered there.                                                          *)
PHTPhases == {"start", "build", "insert", "bump", "store", "probe", "free", "done"}
PHTRank(ph) ==
  CASE ph = "start" -> 0
    [] ph \in {"build", "insert", "bump", "store"} -> 1
    [] ph = "probe" -> 2
    [] OTHER -> 3

PHTPhaseInv ==
  /\ BarrierInv
  /\ pc \in [Threads -> PHTPhases]
  /\ \A t \in Threads :
       /\ Entered(t) = PHTRank(pc[t])
       /\ pc[t] \in {"insert", "bump", "store", "done"} => t \notin inside

(* The tuple a thread works on is one of R while it inserts, so its bucket *)
(* is one of the table; the buckets that are worked on are the latched     *)
(* ones.                                                                   *)
PHTLatchInv ==
  /\ "PHT_o" \in Algorithms /\ rkeys \in InputsR("PHT_o") /\ skeys \in InputsS("PHT_o")
  /\ latch \in [PHT_o!Main -> BOOLEAN]
  /\ i \in [Threads -> Nat \ {0}]
  /\ \A t \in Threads : PHT_o!Inserting(t) => i[t] <= Len(rkeys)
  /\ PHT_o!LatchProtects

(* A thread stands on a bucket only while it probes, and a buffer is freed *)
(* only after the barrier behind the probe.                                *)
PHTFreeInv ==
  /\ b = [t \in Threads |-> b[t]]
  /\ \A t \in Threads : b[t] # PHT_o!NULL => PHT_o!In(t, "probe")
  /\ freed # {} => opened >= 3

PHTInv == PHTPhaseInv /\ PHTLatchInv /\ PHTFreeInv

(* A thread of MWAY in a phase has left the barriers before it and waits   *)
(* in none.                                                                *)
MWAYPhases == {"barrier", "partition", "sort", "allocate", "merge", "release", "join", "done"}
MWAYPhaseInv ==
  /\ "MWAY" \in Algorithms /\ BarrierInv
  /\ pc \in [Threads -> MWAYPhases]
  /\ \A t \in Threads :
       /\ t \in inside => pc[t] = "barrier" /\ passed[t] < 5
       /\ pc[t] = "partition" => passed[t] = 1
       /\ pc[t] \in {"sort", "allocate"} => passed[t] = 2
       /\ pc[t] = "merge" => passed[t] = 3
       /\ pc[t] \in {"release", "join"} => passed[t] = 4
       /\ pc[t] = "done" => passed[t] = 5

(* t has stored a buffer; thread 0 has not yet freed the stored one.       *)
Allocated(t) == passed[t] >= 3 \/ (passed[t] = 2 /\ pc[t] = "barrier")
Unreleased == passed[0] <= 3 \/ (passed[0] = 4 /\ pc[0] = "release")
MWAYBufferInv == \A t \in Threads : Allocated(t) /\ Unreleased => buffer \in live

MWAYInv == MWAYPhaseInv /\ MWAYBufferInv

(* The levels that the crew cracks, and the phases of a crack join.        *)
CrewLevels ==
  CASE algorithm = "CRKJS" -> NUM_BITS
    [] algorithm = "CRKJS_cut" -> NUM_BITS - 1
    [] OTHER -> Levels
CrkPhases == {"start", "histogram", "sum", "next", "build", "probe"}
Relations == {"R", "S"}

(* No join thread begins before the crew is through.                       *)
CrkPhaseInv ==
  /\ pc \in [Threads -> CrkPhases] /\ p \in [Threads -> Nat]
  /\ \A t \in Threads : pc[t] # "start" => \A x \in Relations : crew[x] = {}

(* A node is a path of bits.  One of the crew's levels that is no leaf has *)
(* both children, once the crew is through with it; deeper levels belong   *)
(* to the join threads.                                                    *)
CrkTreeInv ==
  /\ DOMAIN tree = Relations /\ crew = [x \in Relations |-> crew[x]]
  /\ tree = [x \in Relations |-> tree[x]]
  /\ \A x \in Relations :
       /\ DOMAIN tree[x] \subseteq Seq({0, 1}) /\ << >> \in DOMAIN tree[x]
       /\ \A path \in crew[x] : path \in DOMAIN tree[x] /\ Len(path) < CrewLevels
       /\ \A path \in DOMAIN tree[x] :
            Len(path) < CrewLevels /\ path \notin crew[x] =>
              CRKJ!Leaf(x, path) \/ {Append(path, 0), Append(path, 1)} \subseteq DOMAIN tree[x]

CrkInv == CrkPhaseInv /\ CrkTreeInv

(* The inductive invariant. *)
IInv ==
  /\ algorithm \in Algorithms
  /\ algorithm = "PHT_o" => PHTInv
  /\ algorithm = "MWAY" => MWAYInv
  /\ algorithm \in Cracking => CrkInv

-----------------------------------------------------------------------------
(* The steps of the barrier, whichever join they belong to. *)
Enters(t) == t \notin inside /\ inside' = inside \cup {t} /\ UNCHANGED << passed, opened >>
Leaves(t) ==
  /\ t \in inside /\ passed[t] < opened
  /\ inside' = inside \ {t} /\ passed' = [passed EXCEPT ![t] = @ + 1]
  /\ UNCHANGED opened
Opens ==
  /\ inside = Threads /\ \A t \in Threads : passed[t] = opened
  /\ opened' = opened + 1 /\ UNCHANGED << inside, passed >>

(* A thread that enters has entered one round more, ... *)
LEMMA EnterStep ==
  ASSUME BarrierInv, NEW t \in Threads, Enters(t)
  PROVE  /\ BarrierInv'
         /\ Entered(t)' = Entered(t) + 1
         /\ \A u \in Threads : u # t => Entered(u)' = Entered(u)
BY DEF BarrierInv, Enters, Entered

(* ... leaving it changes nothing about that, ... *)
LEMMA LeaveStep ==
  ASSUME BarrierInv, NEW t \in Threads, Leaves(t)
  PROVE  BarrierInv' /\ \A u \in Threads : Entered(u)' = Entered(u)
BY DEF BarrierInv, Leaves, Entered

(* ... and it is opened when all have entered. *)
LEMMA OpenStep ==
  ASSUME BarrierInv, Opens
  PROVE  BarrierInv' /\ \A u \in Threads : Entered(u)' = Entered(u)
BY DEF BarrierInv, Opens, Entered

(* Other steps leave the barrier alone. *)
LEMMA NoBarrierStep ==
  ASSUME BarrierInv, UNCHANGED << inside, passed, opened >>
  PROVE  BarrierInv' /\ \A u \in Threads : Entered(u)' = Entered(u)
BY DEF BarrierInv, Entered

(* A step is one of the join that was asked for. *)
LEMMA OneJoin ==
  ASSUME Next
  PROVE  /\ algorithm' = algorithm
         /\ algorithm = "PHT_o" =>
              (\E t \in Threads : PHT_o!Step(t)) \/ PHT_o!Open \/ PHT_o!Return \/ UNCHANGED vars
         /\ algorithm = "PHT" =>
              (\E t \in Threads : PHT!Step(t)) \/ PHT!Open \/ PHT!Return \/ UNCHANGED vars
         /\ algorithm = "PHT_un" =>
              (\E t \in Threads : PHT_un!Step(t)) \/ PHT_un!Open \/ PHT_un!Return \/ UNCHANGED vars
         /\ algorithm = "MWAY" =>
              (\E t \in Threads : MWAY!Step(t)) \/ MWAY!Open \/ MWAY!Return \/ UNCHANGED vars
         /\ algorithm = "CRKJ" =>
              \/ \E t \in Threads : CRKJ!Step(t)
              \/ CRKJ!AnyCrewStep \/ CRKJ!Open \/ CRKJ!Return \/ UNCHANGED vars
         /\ algorithm = "CRKJF" =>
              \/ \E t \in Threads : CRKJF!Step(t)
              \/ CRKJF!AnyCrewStep \/ CRKJF!Open \/ CRKJF!Return \/ UNCHANGED vars
         /\ algorithm = "CRKJS" =>
              \/ \E t \in Threads : CRKJS!Step(t)
              \/ CRKJS!AnyCrewStep \/ CRKJS!Open \/ CRKJS!Return \/ UNCHANGED vars
         /\ algorithm = "CRKJS_cut" =>
              \/ \E t \in Threads : CRKJS_cut!Step(t)
              \/ CRKJS_cut!AnyCrewStep \/ CRKJS_cut!Open \/ CRKJS_cut!Return \/ UNCHANGED vars
<1>1. CASE \E t \in Threads : Step(t)
  BY <1>1 DEF Step, OnlyPHT_o, OnlyPHT, OnlyCHT, OnlyCRKJ, OnlyMWAY, OnlyNPO, OnlyNPBC, OnlyNL,
     NotParallel
<1>2. CASE CrewStep
  BY <1>2 DEF CrewStep, OnlyCRKJ
<1>3. CASE Open
  BY <1>3 DEF Open, OnlyPHT_o, OnlyPHT, OnlyCHT, OnlyCRKJ, OnlyMWAY
<1>4. CASE Return
  BY <1>4 DEF Return, OnlyPHT_o, OnlyPHT, OnlyCHT, OnlyCRKJ, OnlyMWAY, OnlyNPO, OnlyNPBC,
     OnlyNL, NotParallel
<1>5. CASE Terminated
  BY <1>5 DEF Terminated, vars
<1> QED  BY <1>1, <1>2, <1>3, <1>4, <1>5 DEF Next

-----------------------------------------------------------------------------
(* What the constants are, as far as PHT_o needs them. *)
LEMMA PHTConstants ==
  ASSUME "PHT_o" \in Algorithms, rkeys \in InputsR("PHT_o"), skeys \in InputsS("PHT_o")
  PROVE  /\ NThreads \in Nat \ {0} /\ PHT_o!nb \in Nat \ {0}
         /\ rkeys \in Seq(Nat) /\ skeys \in Seq(Nat)
         /\ PHT_o!Threads = Threads
BY RunAssumption DEF PHT_o!BuildAssumption, PHT_o!nb, PHT_o!Threads, Threads

(* A thread begins at a position, and ends within the relation. *)
LEMMA PHTShares ==
  ASSUME NEW rel, rel \in Seq(Nat), NThreads \in Nat \ {0}, NEW t \in Threads
  PROVE  PHT_o!From(rel, t) \in Nat \ {0} /\ PHT_o!Upto(rel, t) <= Len(rel)
<1>1. Len(rel) \in Nat
  OBVIOUS
<1>2. PICK s : s = Len(rel) \div NThreads
  OBVIOUS
<1>8. /\ Len(rel) \div NThreads \in Nat
      /\ Len(rel) % NThreads \in 0 .. NThreads - 1
      /\ Len(rel) = NThreads * (Len(rel) \div NThreads) + (Len(rel) % NThreads)
  BY ONLY <1>1, NThreads \in Nat \ {0}, DivMod
<1>3. /\ s \in Nat /\ Len(rel) = NThreads * s + (Len(rel) % NThreads)
      /\ Len(rel) % NThreads \in Nat
  BY ONLY <1>2, <1>8, NThreads \in Nat \ {0}
<1>4. t \in Nat /\ t + 1 \in Nat /\ t + 1 <= NThreads
  BY DEF Threads
<1>5. t * s \in Nat
  BY ONLY <1>3, <1>4, TimesMono
<1>6. (t + 1) * s <= NThreads * s /\ (t + 1) * s \in Nat /\ NThreads * s \in Nat
  BY ONLY <1>3, <1>4, NThreads \in Nat \ {0}, TimesMono
<1>7. (t + 1) * s <= Len(rel)
  BY ONLY <1>1, <1>3, <1>6
<1>9. PHT_o!From(rel, t) = t * s + 1 /\ PHT_o!Upto(rel, t) \in {Len(rel), (t + 1) * s}
  BY ONLY <1>2 DEF PHT_o!From, PHT_o!Upto, PHT_o!Share
<1> QED  BY ONLY <1>1, <1>5, <1>7, <1>9

(* The bucket of a tuple of R is one of the table. *)
LEMMA PHTBucket ==
  ASSUME PHTLatchInv, NEW t \in Threads, i[t] <= Len(rkeys)
  PROVE  PHT_o!curr(t) \in PHT_o!Main
<1>1. /\ PHT_o!nb \in Nat \ {0} /\ rkeys \in Seq(Nat) /\ i[t] \in Nat \ {0}
  BY PHTConstants DEF PHTLatchInv
<1>2. rkeys[i[t]] \in Nat
  BY <1>1
<1>3. rkeys[i[t]] % PHT_o!nb \in 0 .. PHT_o!nb - 1
  BY <1>1, <1>2, DivMod
<1> QED  BY <1>3 DEF PHT_o!curr, PHT_o!Hash, PHT_o!Main

(* How a step of a thread of PHT_o moves it: into the next barrier, within *)
(* a phase, not at all, or out of a barrier.                               *)
LEMMA PHTMoves ==
  ASSUME NEW t \in Threads, PHT_o!Step(t)
  PROVE  \/ \E ph, to \in PHTPhases :
              /\ pc[t] = ph /\ Enters(t) /\ pc' = [pc EXCEPT ![t] = to]
              /\ PHTRank(to) = PHTRank(ph) + 1
              /\ to \notin {"insert", "bump", "store", "done"}
         \/ \E ph, to \in PHTPhases :
              /\ pc[t] = ph /\ pc' = [pc EXCEPT ![t] = to] /\ PHTRank(to) = PHTRank(ph)
              /\ UNCHANGED << inside, passed, opened >>
              /\ t \notin inside \/ ph \in {"insert", "bump", "store"}
         \/ UNCHANGED << pc, inside, passed, opened >>
         \/ Leaves(t) /\ pc' = pc
<1>1. CASE PHT_o!Start(t) \/ PHT_o!Built(t) \/ PHT_o!Probed(t)
  BY <1>1 DEF PHT_o!Start, PHT_o!Built, PHT_o!Probed, PHT_o!In, PHT_o!Goto, PHT_o!Bar!Enter,
     Enters,
              PHTPhases, PHTRank
<1>2. CASE PHT_o!Lock(t) \/ PHT_o!Free(t)
  BY <1>2 DEF PHT_o!Lock, PHT_o!Free, PHT_o!In, PHT_o!Goto, PHT_o!bar, PHTPhases, PHTRank
<1>3. CASE PHT_o!InsertHere(t) \/ PHT_o!InsertNext(t) \/ PHT_o!InsertNew(t) \/ PHT_o!Bump(t) \/ PHT_o!Store(t)
  BY <1>3 DEF PHT_o!InsertHere, PHT_o!InsertNext, PHT_o!InsertNew, PHT_o!Bump, PHT_o!Store,
              PHT_o!Goto, PHT_o!bar, PHTPhases, PHTRank
<1>4. CASE PHT_o!Probe(t) \/ PHT_o!Follow(t)
  BY <1>4 DEF PHT_o!Probe, PHT_o!Follow, PHT_o!bar
<1>5. CASE PHT_o!Leave(t)
  BY <1>5 DEF PHT_o!Leave, PHT_o!Bar!Leave, Leaves
<1> QED  BY <1>1, <1>2, <1>3, <1>4, <1>5 DEF PHT_o!Step

(* So the phases stay tied to the barrier, ... *)
LEMMA PHTPhaseStep ==
  ASSUME PHTPhaseInv, NEW t \in Threads, PHT_o!Step(t)
  PROVE  PHTPhaseInv'
<1> USE DEF PHTPhaseInv
<1>1. ASSUME NEW ph \in PHTPhases, NEW to \in PHTPhases,
             pc[t] = ph, Enters(t), pc' = [pc EXCEPT ![t] = to],
             PHTRank(to) = PHTRank(ph) + 1, to \notin {"insert", "bump", "store", "done"}
      PROVE  PHTPhaseInv'
  <2>1. BarrierInv' /\ Entered(t)' = Entered(t) + 1 /\ \A u \in Threads : u # t => Entered(u)' = Entered(u)
    BY <1>1, EnterStep
  <2> QED  BY <1>1, <2>1 DEF Enters
<1>2. ASSUME NEW ph \in PHTPhases, NEW to \in PHTPhases,
             pc[t] = ph, pc' = [pc EXCEPT ![t] = to], PHTRank(to) = PHTRank(ph),
             UNCHANGED << inside, passed, opened >>,
             t \notin inside \/ ph \in {"insert", "bump", "store"}
      PROVE  PHTPhaseInv'
  <2>1. BarrierInv' /\ \A u \in Threads : Entered(u)' = Entered(u)
    BY <1>2, NoBarrierStep
  <2> QED  BY <1>2, <2>1
<1>3. CASE UNCHANGED << pc, inside, passed, opened >>
  BY <1>3, NoBarrierStep
<1>4. CASE Leaves(t) /\ pc' = pc
  <2>1. BarrierInv' /\ \A u \in Threads : Entered(u)' = Entered(u)
    BY <1>4, LeaveStep
  <2> QED  BY <1>4, <2>1 DEF Leaves
<1> QED  BY <1>1, <1>2, <1>3, <1>4, PHTMoves

(* ... the latches to the buckets: a step that takes or returns none, and  *)
(* lets nobody begin or end an insertion, changes nothing, ...             *)
LEMMA PHTLatchFrame ==
  ASSUME PHTLatchInv, UNCHANGED << rkeys, skeys, latch >>, i' \in [Threads -> Nat \ {0}],
         \A u \in Threads : /\ PHT_o!Inserting(u)' <=> PHT_o!Inserting(u)
                            /\ PHT_o!Inserting(u) => i'[u] = i[u]
  PROVE  PHTLatchInv'
<1>1. PHT_o!Main' = PHT_o!Main /\ \A u \in Threads : PHT_o!Inserting(u) => PHT_o!curr(u)' = PHT_o!curr(u)
  BY DEF PHT_o!Main, PHT_o!nb, PHT_o!curr, PHT_o!Hash
<1>2. PHT_o!Threads = Threads
  BY DEF PHT_o!Threads, Threads
<1>3. PHT_o!LatchProtects'
  BY <1>1, <1>2 DEF PHTLatchInv, PHT_o!LatchProtects
<1> QED  BY <1>1, <1>3 DEF PHTLatchInv

(* ... and a thread locks a bucket nobody works on and unlocks its own.    *)
LEMMA PHTLatchStep ==
  ASSUME PHTPhaseInv, PHTLatchInv, NEW t \in Threads, PHT_o!Step(t)
  PROVE  PHTLatchInv'
<1>0. /\ PHT_o!Threads = Threads /\ rkeys \in Seq(Nat) /\ skeys \in Seq(Nat) /\ NThreads \in Nat \ {0}
      /\ pc \in [Threads -> PHTPhases] /\ i \in [Threads -> Nat \ {0}]
      /\ latch \in [PHT_o!Main -> BOOLEAN]
  BY PHTConstants DEF PHTLatchInv, PHTPhaseInv
<1>1. CASE PHT_o!Lock(t)
  <2> USE DEF PHT_o!Lock, PHT_o!In, PHT_o!Goto
  <2>1. PHT_o!Upto(rkeys, t) <= Len(rkeys) /\ Len(rkeys) \in Nat
    BY <1>0, PHTShares
  <2>2. i[t] \in Nat /\ PHT_o!Upto(rkeys, t) \in Int
    BY <1>0 DEF PHT_o!Upto, PHT_o!Share, Threads
  <2>3. i[t] <= Len(rkeys)
    BY <1>1, <2>1, <2>2
  <2>4. PHT_o!curr(t) \in PHT_o!Main
    BY <2>3, PHTBucket
  <2>5. /\ UNCHANGED << rkeys, skeys, i >> /\ ~latch[PHT_o!curr(t)]
        /\ latch' = [latch EXCEPT ![PHT_o!curr(t)] = TRUE]
    BY <1>1 DEF PHT_o!answer, PHT_o!curr
  <2>6. /\ PHT_o!Main' = PHT_o!Main /\ \A u \in Threads : PHT_o!curr(u)' = PHT_o!curr(u)
    BY <2>5 DEF PHT_o!Main, PHT_o!nb, PHT_o!curr, PHT_o!Hash
  <2>7. /\ ~PHT_o!Inserting(t) /\ PHT_o!Inserting(t)'
        /\ \A u \in Threads : u # t => (PHT_o!Inserting(u)' <=> PHT_o!Inserting(u))
    BY <1>0, <1>1 DEF PHT_o!Inserting
  <2>8. PHT_o!LatchProtects'
    BY <1>0, <2>4, <2>5, <2>6, <2>7 DEF PHTLatchInv, PHT_o!LatchProtects
  <2>9. latch' \in [PHT_o!Main -> BOOLEAN]
    BY <1>0, <2>5
  <2> QED  BY <2>3, <2>5, <2>6, <2>7, <2>8, <2>9 DEF PHTLatchInv
<1>2. CASE PHT_o!Store(t)
  <2> USE DEF PHT_o!Store, PHT_o!Goto
  <2>1. PHT_o!Inserting(t)
    BY <1>2 DEF PHT_o!Inserting
  <2>2. PHT_o!curr(t) \in PHT_o!Main
    BY <2>1, PHTBucket DEF PHTLatchInv
  <2>3. /\ UNCHANGED << rkeys, skeys >> /\ i' = [i EXCEPT ![t] = @ + 1]
        /\ latch' = [latch EXCEPT ![PHT_o!curr(t)] = FALSE]
    BY <1>2 DEF PHT_o!answer
  <2>4. PHT_o!Main' = PHT_o!Main /\ \A u \in Threads : u # t => PHT_o!curr(u)' = PHT_o!curr(u)
    BY <1>0, <2>3 DEF PHT_o!Main, PHT_o!nb, PHT_o!curr, PHT_o!Hash
  <2>5. /\ ~PHT_o!Inserting(t)'
        /\ \A u \in Threads : u # t => (PHT_o!Inserting(u)' <=> PHT_o!Inserting(u))
    BY <1>0, <1>2 DEF PHT_o!Inserting
  <2>9. /\ \A u, v \in Threads :
             PHT_o!Inserting(u) /\ PHT_o!Inserting(v) /\ u # v => PHT_o!curr(u) # PHT_o!curr(v)
        /\ \A x \in PHT_o!Main :
             latch[x] <=> \E u \in Threads : PHT_o!Inserting(u) /\ PHT_o!curr(u) = x
    BY <1>0 DEF PHTLatchInv, PHT_o!LatchProtects
  <2>10. ASSUME NEW x \in PHT_o!Main
         PROVE  latch'[x] <=> \E u \in Threads : PHT_o!Inserting(u)' /\ PHT_o!curr(u)' = x
    <3>1. CASE x = PHT_o!curr(t)
      <4>1. ~latch'[x]
        BY <1>0, <2>2, <2>3, <3>1
      <4> QED  BY <2>1, <2>4, <2>5, <2>9, <3>1, <4>1
    <3>2. CASE x # PHT_o!curr(t)
      <4>1. latch'[x] = latch[x]
        BY <1>0, <2>2, <2>3, <3>2
      <4> QED  BY <2>1, <2>4, <2>5, <2>9, <3>2, <4>1
    <3> QED  BY <3>1, <3>2
  <2>11. ASSUME NEW u \in Threads, NEW v \in Threads, PHT_o!Inserting(u)', PHT_o!Inserting(v)', u # v
         PROVE  PHT_o!curr(u)' # PHT_o!curr(v)'
    BY <2>4, <2>5, <2>9, <2>11
  <2>6. PHT_o!LatchProtects'
    BY <1>0, <2>4, <2>10, <2>11 DEF PHT_o!LatchProtects
  <2>12. latch' \in [PHT_o!Main -> BOOLEAN]
    BY ONLY <1>0, <2>2, <2>3
  <2>7. latch' \in [PHT_o!Main -> BOOLEAN] /\ i' \in [Threads -> Nat \ {0}]
    BY ONLY <1>0, <2>3, <2>12
  <2>8. \A u \in Threads : PHT_o!Inserting(u)' => i'[u] <= Len(rkeys)
    BY <1>0, <2>3, <2>5 DEF PHTLatchInv
  <2> QED  BY <2>3, <2>4, <2>6, <2>7, <2>8 DEF PHTLatchInv
<1>3. CASE PHT_o!InsertHere(t) \/ PHT_o!InsertNext(t) \/ PHT_o!InsertNew(t) \/ PHT_o!Bump(t)
  <2>1. /\ UNCHANGED << rkeys, skeys, latch, i >>
        /\ PHT_o!Inserting(t) /\ PHT_o!Inserting(t)'
        /\ \A u \in Threads : u # t => pc'[u] = pc[u]
    BY <1>0, <1>3 DEF PHT_o!InsertHere, PHT_o!InsertNext, PHT_o!InsertNew, PHT_o!Bump,
       PHT_o!Goto,
                      PHT_o!answer, PHT_o!table, PHT_o!Inserting
  <2> QED  BY <1>0, <2>1, PHTLatchFrame DEF PHT_o!Inserting
<1>4. CASE PHT_o!Start(t) \/ PHT_o!Probed(t) \/ PHT_o!Free(t) \/ PHT_o!Probe(t) \/ PHT_o!Leave(t)
  <2>1. /\ UNCHANGED << rkeys, skeys, latch, i >>
        /\ PHT_o!Inserting(t) <=> PHT_o!Inserting(t)'
        /\ \A u \in Threads : u # t => pc'[u] = pc[u]
    BY <1>0, <1>4 DEF PHT_o!Start, PHT_o!Probed, PHT_o!Free, PHT_o!Probe, PHT_o!Leave, PHT_o!In,
       PHT_o!Goto,
                      PHT_o!answer, PHT_o!table, PHT_o!Inserting
  <2> QED  BY <1>0, <2>1, PHTLatchFrame DEF PHT_o!Inserting
<1>5. CASE PHT_o!Built(t) \/ PHT_o!Follow(t)
  <2>1. PHT_o!From(skeys, t) \in Nat \ {0}
    BY <1>0, PHTShares
  <2>2. /\ UNCHANGED << rkeys, skeys, latch >> /\ ~PHT_o!Inserting(t) /\ ~PHT_o!Inserting(t)'
        /\ \A u \in Threads : u # t => pc'[u] = pc[u]
        /\ i' = i \/ i' = [i EXCEPT ![t] = PHT_o!From(skeys, t)] \/ i' = [i EXCEPT ![t] = @ + 1]
    BY <1>0, <1>5 DEF PHT_o!Built, PHT_o!Follow, PHT_o!In, PHT_o!Goto, PHT_o!answer,
       PHT_o!table,
                      PHT_o!Inserting
  <2>3. i' \in [Threads -> Nat \ {0}] /\ \A u \in Threads : u # t => i'[u] = i[u]
    BY <1>0, <2>1, <2>2
  <2> QED  BY <2>2, <2>3, PHTLatchFrame DEF PHT_o!Inserting
<1> QED  BY <1>1, <1>2, <1>3, <1>4, <1>5 DEF PHT_o!Step

(* A thread steps from bucket to bucket outside the barriers; it frees     *)
(* behind the third.                                                       *)
LEMMA PHTFreeStep ==
  ASSUME PHTPhaseInv, PHTFreeInv, NEW t \in Threads, PHT_o!Step(t)
  PROVE  PHTFreeInv'
<1>0. /\ pc \in [Threads -> PHTPhases] /\ opened \in Nat /\ opened' \in Nat /\ opened' >= opened
      /\ inside \subseteq Threads
  <2>1. PHTPhaseInv'
    BY PHTPhaseStep
  <2>2. opened' = opened
    BY PHTMoves DEF Enters, Leaves
  <2> QED  BY <2>1, <2>2 DEF PHTPhaseInv, BarrierInv
<1>1. CASE PHT_o!Free(t)
  <2>1. UNCHANGED b /\ PHT_o!In(t, "free") /\ \A u \in Threads : u # t => pc'[u] = pc[u]
    BY <1>0, <1>1 DEF PHT_o!Free, PHT_o!Goto
  <2>2. Entered(t) = 3 /\ t \notin inside
    BY <2>1 DEF PHTPhaseInv, PHT_o!In, PHTRank
  <2>3. opened' >= 3
    BY <1>0, <2>2 DEF PHTPhaseInv, BarrierInv, Entered
  <2>4. \A u \in Threads : b[u] # PHT_o!NULL => u # t /\ PHT_o!In(u, "probe")'
    BY <1>1, <2>1 DEF PHTFreeInv, PHT_o!In, PHT_o!Free, PHT_o!bar
  <2> QED  BY <2>1, <2>3, <2>4 DEF PHTFreeInv
<1>2. CASE PHT_o!Probe(t) \/ PHT_o!Follow(t)
  <2>1. /\ UNCHANGED << pc, inside, opened, freed >> /\ PHT_o!In(t, "probe")
        /\ b' = [b EXCEPT ![t] = b'[t]]
    BY <1>2 DEF PHT_o!Probe, PHT_o!Follow, PHT_o!bar, PHTFreeInv
  <2>2. b' = [u \in Threads |-> b'[u]] /\ \A u \in Threads : u # t => b'[u] = b[u]
    BY <2>1 DEF PHTFreeInv
  <2> QED  BY <2>1, <2>2 DEF PHTFreeInv, PHT_o!In
<1>3. CASE PHT_o!Probed(t) \/ PHT_o!Leave(t)
  <2>1. /\ UNCHANGED << b, freed, opened >> /\ (b[t] = PHT_o!NULL \/ t \in inside)
        /\ \A u \in Threads : u # t => pc'[u] = pc[u] /\ (u \in inside' => u \in inside)
    BY <1>0, <1>3 DEF PHT_o!Probed, PHT_o!Leave, PHT_o!Goto, PHT_o!Bar!Enter, PHT_o!Bar!Leave
  <2>2. b[t] = PHT_o!NULL
    BY <2>1 DEF PHTFreeInv, PHT_o!In
  <2> QED  BY <2>1, <2>2 DEF PHTFreeInv, PHT_o!In
<1>4. CASE PHT_o!Start(t) \/ PHT_o!Built(t)
  <2>1. /\ UNCHANGED << b, freed, opened >> /\ pc[t] # "probe"
        /\ \A u \in Threads : u # t => pc'[u] = pc[u] /\ (u \in inside' => u \in inside)
    BY <1>0, <1>4 DEF PHT_o!Start, PHT_o!Built, PHT_o!Goto, PHT_o!Bar!Enter, PHT_o!In
  <2> QED  BY <2>1 DEF PHTFreeInv, PHT_o!In
<1>5. CASE \/ PHT_o!Lock(t) \/ PHT_o!InsertHere(t) \/ PHT_o!InsertNext(t) \/ PHT_o!InsertNew(t)
           \/ PHT_o!Bump(t) \/ PHT_o!Store(t)
  <2>1. /\ UNCHANGED << b, freed, opened, inside >> /\ pc[t] # "probe"
        /\ \A u \in Threads : u # t => pc'[u] = pc[u]
    BY <1>0, <1>5 DEF PHT_o!Lock, PHT_o!InsertHere, PHT_o!InsertNext, PHT_o!InsertNew,
       PHT_o!Bump, PHT_o!Store,
                      PHT_o!Goto, PHT_o!In, PHT_o!bar
  <2> QED  BY <2>1 DEF PHTFreeInv, PHT_o!In
<1> QED  BY <1>1, <1>2, <1>3, <1>4, <1>5 DEF PHT_o!Step

(* The steps of no thread: the barrier opens, the join returns. *)
LEMMA PHTOtherStep ==
  ASSUME PHTInv, PHT_o!Open \/ PHT_o!Return \/ UNCHANGED vars
  PROVE  PHTInv'
<1>1. /\ UNCHANGED << rkeys, skeys, latch, i, b, freed, pc, inside, passed >>
      /\ Opens \/ UNCHANGED << inside, passed, opened >>
  <2>1. PHT_o!Threads = Threads
    BY DEF PHT_o!Threads, Threads
  <2>2. CASE PHT_o!Open
    BY <2>1, <2>2 DEF PHT_o!Open, PHT_o!Bar!Open, PHT_o!answer, PHT_o!table, Opens
  <2>3. CASE PHT_o!Return
    BY <2>3 DEF PHT_o!Return, PHT_o!table, PHT_o!bar
  <2>4. CASE UNCHANGED vars
    BY <2>4 DEF vars, common, bucketVars, chainVars
  <2> QED  BY <2>2, <2>3, <2>4, PHTInv
<1>2. BarrierInv' /\ \A u \in Threads : Entered(u)' = Entered(u)
  BY <1>1, OpenStep, NoBarrierStep DEF PHTInv, PHTPhaseInv
<1>3. opened \in Nat /\ opened' \in Nat /\ opened' >= opened
  BY <1>1, <1>2 DEF Opens, PHTInv, PHTPhaseInv, BarrierInv
<1>4. PHTPhaseInv'
  BY <1>1, <1>2 DEF PHTInv, PHTPhaseInv
<1>5. PHTLatchInv'
  <2>1. i' \in [Threads -> Nat \ {0}] /\ \A u \in Threads : PHT_o!Inserting(u)' <=> PHT_o!Inserting(u)
    BY <1>1 DEF PHTInv, PHTLatchInv, PHT_o!Inserting
  <2> QED  BY <1>1, <2>1, PHTLatchFrame DEF PHTInv
<1>6. PHTFreeInv'
  BY <1>1, <1>3 DEF PHTInv, PHTFreeInv, PHT_o!In
<1> QED  BY <1>4, <1>5, <1>6 DEF PHTInv

(* PHT_o begins with nobody in a bucket. *)
LEMMA PHTInit == ASSUME "PHT_o" \in Algorithms, PHT_o!Init PROVE PHTInv
<1> USE DEF PHT_o!Init
<1>0. PHT_o!Threads = Threads
  BY DEF PHT_o!Threads, Threads
<1>1. BarrierInv /\ \A u \in Threads : Entered(u) = 0
  BY <1>0 DEF PHT_o!Bar!Init, BarrierInv, Entered
<1>2. PHTPhaseInv
  BY <1>0, <1>1 DEF PHTPhaseInv, PHTPhases, PHTRank
<1>3. \A u \in Threads : ~PHT_o!Inserting(u)
  BY <1>0 DEF PHT_o!Inserting
<1>4. i \in [Threads -> Nat \ {0}]
  <2>1. \A u \in Threads : PHT_o!From(rkeys, u) \in Nat \ {0}
    BY PHTConstants, PHTShares
  <2> QED  BY <1>0, <2>1
<1>5. PHTLatchInv
  BY <1>0, <1>3, <1>4 DEF PHTLatchInv, PHT_o!LatchProtects
<1>6. PHTFreeInv
  BY <1>0 DEF PHTFreeInv
<1> QED  BY <1>2, <1>5, <1>6 DEF PHTInv

(* What the invariant says: a probing thread has not left the barrier      *)
(* behind which buffers are freed.                                         *)
LEMMA PHTSafe == PHTInv => PHT_o!LatchProtects /\ PHT_o!NoUseAfterFree
<1> SUFFICES ASSUME PHTInv PROVE PHT_o!LatchProtects /\ PHT_o!NoUseAfterFree
  OBVIOUS
<1>1. PHT_o!LatchProtects
  BY DEF PHTInv, PHTLatchInv
<1>2. ASSUME NEW t \in Threads, b[t] # PHT_o!NULL PROVE freed = {}
  <2>1. pc[t] = "probe" /\ t \notin inside
    BY <1>2 DEF PHTInv, PHTFreeInv, PHT_o!In
  <2>2. Entered(t) = 2
    BY <2>1 DEF PHTInv, PHTPhaseInv, PHTRank
  <2>3. opened <= 2 /\ opened \in Nat
    BY <2>2 DEF PHTInv, PHTPhaseInv, BarrierInv
  <2> QED  BY <2>3 DEF PHTInv, PHTFreeInv
<1>3. PHT_o!NoUseAfterFree
  BY <1>2 DEF PHT_o!NoUseAfterFree, PHT_o!Threads, Threads
<1> QED  BY <1>1, <1>3

-----------------------------------------------------------------------------
(* How a step of a thread of MWAY moves it: into a barrier, out of one, or *)
(* within a phase.                                                         *)
LEMMA MWAYMoves ==
  ASSUME NEW t \in Threads, MWAY!Step(t)
  PROVE  \/ pc[t] = "barrier" /\ passed[t] < 5 /\ Enters(t) /\ UNCHANGED << pc, buffer, live >>
         \/ /\ pc[t] = "barrier" /\ Leaves(t) /\ UNCHANGED << buffer, live >>
            /\ pc' = [pc EXCEPT ![t] = MWAY!After[passed[t] + 1]]
         \/ /\ UNCHANGED << inside, passed, opened >>
            /\ \/ /\ pc[t] \in {"partition", "merge", "join"} /\ pc' = [pc EXCEPT ![t] = "barrier"]
                  /\ UNCHANGED << buffer, live >>
               \/ pc[t] = "sort" /\ pc' = [pc EXCEPT ![t] = "allocate"] /\ UNCHANGED << buffer,
                                                                                        live >>
               \/ /\ pc[t] = "allocate" /\ pc' = [pc EXCEPT ![t] = "barrier"]
                  /\ buffer' = t /\ live' = live \cup {t}
               \/ /\ pc[t] = "release" /\ pc' = [pc EXCEPT ![t] = "join"]
                  /\ buffer' = buffer /\ (t # 0 => live' = live)
               \/ UNCHANGED << pc, buffer, live >>
<1> USE DEF MWAY!Goto, MWAY!bar
<1>1. CASE MWAY!Arrive(t)
  BY <1>1 DEF MWAY!Arrive, MWAY!Bar!Enter, Enters
<1>2. CASE MWAY!Proceed(t)
  BY <1>2 DEF MWAY!Proceed, MWAY!Bar!Leave, Leaves
<1>3. CASE MWAY!Partition(t) \/ MWAY!Merge(t)
  BY <1>3 DEF MWAY!Partition, MWAY!Merge
<1>4. CASE MWAY!Sort(t)
  BY <1>4 DEF MWAY!Sort
<1>5. CASE MWAY!Allocate(t)
  BY <1>5 DEF MWAY!Allocate
<1>6. CASE MWAY!Release(t)
  BY <1>6 DEF MWAY!Release
<1>7. CASE MWAY!Skip(t) \/ MWAY!Match(t) \/ MWAY!EndPair(t)
  BY <1>7 DEF MWAY!Skip, MWAY!Match, MWAY!EndPair
<1> QED  BY <1>1, <1>2, <1>3, <1>4, <1>5, <1>6, <1>7 DEF MWAY!Step

(* The phase behind each barrier. *)
LEMMA MWAYAfter ==
  /\ MWAY!After[1] = "partition" /\ MWAY!After[2] = "sort" /\ MWAY!After[3] = "merge"
  /\ MWAY!After[4] = "release" /\ MWAY!After[5] = "done"
BY DEF MWAY!After

(* There is a thread 0. *)
LEMMA MWAYThreads == ASSUME "MWAY" \in Algorithms PROVE 0 \in Threads
<1>1. PICK e \in 0 .. NThreads + NParts + L : NThreads = 2 ^ e
  BY RunAssumption DEF MWAY!MultiwayAssumption
<1>2. NThreads \in Nat \ {0}
  BY <1>1, PowType
<1> QED  BY <1>2 DEF Threads

(* No step of a thread breaks the invariant: it allocates before the       *)
(* barrier it merges behind, and thread 0 releases behind the next.        *)
LEMMA MWAYStep ==
  ASSUME MWAYInv, NEW t \in Threads, MWAY!Step(t)
  PROVE  MWAYInv'
<1> USE DEF MWAYInv
<1>0. /\ 0 \in Threads /\ pc \in [Threads -> MWAYPhases] /\ passed \in [Threads -> Nat]
      /\ inside \subseteq Threads /\ opened \in Nat
  BY MWAYThreads DEF MWAYPhaseInv, BarrierInv
<1>1. CASE pc[t] = "barrier" /\ passed[t] < 5 /\ Enters(t) /\ UNCHANGED << pc, buffer, live >>
  <2>1. BarrierInv'
    BY <1>1, EnterStep DEF MWAYPhaseInv
  <2>2. MWAYPhaseInv'
    BY <1>0, <1>1, <2>1 DEF MWAYPhaseInv, Enters
  <2>3. MWAYBufferInv'
    BY <1>1 DEF MWAYBufferInv, Allocated, Unreleased, Enters
  <2> QED  BY <2>2, <2>3
<1>2. CASE /\ pc[t] = "barrier" /\ Leaves(t) /\ UNCHANGED << buffer, live >>
           /\ pc' = [pc EXCEPT ![t] = MWAY!After[passed[t] + 1]]
  <2>1. BarrierInv'
    BY <1>2, LeaveStep DEF MWAYPhaseInv
  <2>2. passed[t] \in {0, 1, 2, 3, 4}
    BY <1>0, <1>2 DEF Leaves, MWAYPhaseInv
  <2>3. /\ passed' = [passed EXCEPT ![t] = @ + 1] /\ inside' = inside \ {t}
        /\ \/ passed[t] = 0 /\ pc' = [pc EXCEPT ![t] = "partition"]
           \/ passed[t] = 1 /\ pc' = [pc EXCEPT ![t] = "sort"]
           \/ passed[t] = 2 /\ pc' = [pc EXCEPT ![t] = "merge"]
           \/ passed[t] = 3 /\ pc' = [pc EXCEPT ![t] = "release"]
           \/ passed[t] = 4 /\ pc' = [pc EXCEPT ![t] = "done"]
    <3>1. passed' = [passed EXCEPT ![t] = @ + 1] /\ inside' = inside \ {t}
      BY <1>2 DEF Leaves
    <3>2. ASSUME NEW k \in {0, 1, 2, 3, 4}, passed[t] = k
          PROVE  pc' = [pc EXCEPT ![t] = MWAY!After[k + 1]]
      BY ONLY <1>2, <3>2
    <3>3. 0 + 1 = 1 /\ 1 + 1 = 2 /\ 2 + 1 = 3 /\ 3 + 1 = 4 /\ 4 + 1 = 5
      OBVIOUS
    <3> QED  BY ONLY <2>2, <3>1, <3>2, <3>3, MWAYAfter
  <2>4. ASSUME NEW u \in Threads
        PROVE  /\ pc'[u] \in MWAYPhases
               /\ u \in inside' => pc'[u] = "barrier" /\ passed'[u] < 5
               /\ pc'[u] = "partition" => passed'[u] = 1
               /\ pc'[u] \in {"sort", "allocate"} => passed'[u] = 2
               /\ pc'[u] = "merge" => passed'[u] = 3
               /\ pc'[u] \in {"release", "join"} => passed'[u] = 4
               /\ pc'[u] = "done" => passed'[u] = 5
    <3>1. CASE u = t
      BY <1>0, <2>3, <3>1 DEF MWAYPhases
    <3>2. CASE u # t
      BY <1>0, <2>3, <3>2 DEF MWAYPhaseInv
    <3> QED  BY <3>1, <3>2
  <2>5. DOMAIN pc' = Threads /\ pc' = [u \in Threads |-> pc'[u]]
    BY <1>0, <1>2
  <2>6. MWAYPhaseInv'
    BY <2>1, <2>4, <2>5 DEF MWAYPhaseInv
  <2>7. Unreleased' => Unreleased
    BY <1>0, <2>3 DEF Unreleased
  <2>8. \A u \in Threads : Allocated(u)' => Allocated(u)
    BY <1>0, <1>2, <2>3 DEF Allocated
  <2>9. MWAYBufferInv'
    BY <1>2, <2>7, <2>8 DEF MWAYBufferInv
  <2> QED  BY <2>6, <2>9
<1>3. CASE UNCHANGED << inside, passed, opened >>
  <2>1. BarrierInv'
    BY <1>3, NoBarrierStep DEF MWAYPhaseInv
  <2>2. CASE /\ pc[t] \in {"partition", "merge", "join"} /\ pc' = [pc EXCEPT ![t] = "barrier"]
             /\ UNCHANGED << buffer, live >>
    <3>1. MWAYPhaseInv'
      BY <1>0, <1>3, <2>1, <2>2 DEF MWAYPhaseInv, MWAYPhases
    <3>2. (Unreleased' => Unreleased) /\ \A u \in Threads : Allocated(u)' => Allocated(u)
      BY <1>0, <1>3, <2>2 DEF Unreleased, Allocated, MWAYPhaseInv
    <3> QED  BY <2>2, <3>1, <3>2 DEF MWAYBufferInv
  <2>3. CASE pc[t] = "sort" /\ pc' = [pc EXCEPT ![t] = "allocate"] /\ UNCHANGED << buffer,
                                                                                   live >>
    <3>1. MWAYPhaseInv'
      BY <1>0, <1>3, <2>1, <2>3 DEF MWAYPhaseInv, MWAYPhases
    <3>2. (Unreleased' => Unreleased) /\ \A u \in Threads : Allocated(u)' => Allocated(u)
      BY <1>0, <1>3, <2>3 DEF Unreleased, Allocated
    <3> QED  BY <2>3, <3>1, <3>2 DEF MWAYBufferInv
  <2>4. CASE /\ pc[t] = "allocate" /\ pc' = [pc EXCEPT ![t] = "barrier"]
             /\ buffer' = t /\ live' = live \cup {t}
    <3>1. MWAYPhaseInv'
      BY <1>0, <1>3, <2>1, <2>4 DEF MWAYPhaseInv, MWAYPhases
    <3> QED  BY <2>4, <3>1 DEF MWAYBufferInv
  <2>5. CASE /\ pc[t] = "release" /\ pc' = [pc EXCEPT ![t] = "join"]
             /\ buffer' = buffer /\ (t # 0 => live' = live)
    <3>1. MWAYPhaseInv'
      BY <1>0, <1>3, <2>1, <2>5 DEF MWAYPhaseInv, MWAYPhases
    <3>2. t = 0 => ~Unreleased'
      BY <1>0, <1>3, <2>5 DEF Unreleased, MWAYPhaseInv
    <3>3. (Unreleased' => Unreleased) /\ \A u \in Threads : Allocated(u)' => Allocated(u)
      BY <1>0, <1>3, <2>5 DEF Unreleased, Allocated
    <3> QED  BY <2>5, <3>1, <3>2, <3>3 DEF MWAYBufferInv
  <2>6. CASE UNCHANGED << pc, buffer, live >>
    BY <1>3, <2>1, <2>6 DEF MWAYPhaseInv, MWAYBufferInv, Allocated, Unreleased
  <2>7. CASE ~(\/ /\ pc[t] \in {"partition", "merge", "join"} /\ pc' = [pc EXCEPT ![t] = "barrier"]
                  /\ UNCHANGED << buffer, live >>
               \/ pc[t] = "sort" /\ pc' = [pc EXCEPT ![t] = "allocate"] /\ UNCHANGED << buffer,
                                                                                        live >>
               \/ /\ pc[t] = "allocate" /\ pc' = [pc EXCEPT ![t] = "barrier"]
                  /\ buffer' = t /\ live' = live \cup {t}
               \/ /\ pc[t] = "release" /\ pc' = [pc EXCEPT ![t] = "join"]
                  /\ buffer' = buffer /\ (t # 0 => live' = live)
               \/ UNCHANGED << pc, buffer, live >>)
    <3>1. ~Enters(t) /\ ~Leaves(t)
      BY <1>0, <1>3 DEF Enters, Leaves
    <3> QED  BY <2>7, <3>1, MWAYMoves
  <2> QED  BY <2>2, <2>3, <2>4, <2>5, <2>6, <2>7
<1> QED  BY <1>1, <1>2, <1>3, MWAYMoves

(* The steps of no thread: the barrier opens, the join returns. *)
LEMMA MWAYOtherStep ==
  ASSUME MWAYInv, MWAY!Open \/ MWAY!Return \/ UNCHANGED vars
  PROVE  MWAYInv'
<1>1. /\ UNCHANGED << pc, buffer, live, inside, passed >>
      /\ Opens \/ UNCHANGED << inside, passed, opened >>
  <2>1. MWAY!Threads = Threads
    BY DEF MWAY!Threads, Threads
  <2>2. CASE MWAY!Open
    BY <2>1, <2>2 DEF MWAY!Open, MWAY!Bar!Open, Opens
  <2>3. CASE MWAY!Return
    BY <2>3 DEF MWAY!Return, MWAY!bar
  <2>4. CASE UNCHANGED vars
    BY <2>4 DEF vars, common, mwayVars, mergeVars
  <2> QED  BY <2>2, <2>3, <2>4, MWAYInv
<1>2. BarrierInv'
  BY <1>1, OpenStep, NoBarrierStep DEF MWAYInv, MWAYPhaseInv
<1> QED  BY <1>1, <1>2 DEF MWAYInv, MWAYPhaseInv, MWAYBufferInv, Allocated, Unreleased

(* MWAY begins in front of its first barrier. *)
LEMMA MWAYInit == ASSUME "MWAY" \in Algorithms, MWAY!Init PROVE MWAYInv
<1>0. MWAY!Threads = Threads
  BY DEF MWAY!Threads, Threads
<1> USE <1>0 DEF MWAY!Init, MWAY!Bar!Init
<1>1. BarrierInv
  BY DEF BarrierInv, Entered
<1>2. MWAYPhaseInv
  BY <1>1 DEF MWAYPhaseInv, MWAYPhases
<1>3. MWAYBufferInv
  BY DEF MWAYBufferInv, Allocated
<1> QED  BY <1>2, <1>3 DEF MWAYInv

(* What the invariant says: while a thread merges, thread 0 cannot have    *)
(* left the barrier behind which it frees the buffer.                      *)
LEMMA MWAYSafe == MWAYInv => MWAY!BufferLive
<1> SUFFICES ASSUME MWAYInv, NEW t \in Threads, pc[t] = "merge" PROVE buffer \in live
  BY DEF MWAY!BufferLive, MWAY!Threads, Threads
<1>1. passed[t] = 3 /\ t \notin inside
  BY DEF MWAYInv, MWAYPhaseInv
<1>2. opened = 3
  BY <1>1 DEF MWAYInv, MWAYPhaseInv, BarrierInv, Entered
<1>3. 0 \in Threads
  BY MWAYThreads DEF MWAYInv, MWAYPhaseInv
<1>4. passed[0] <= 3
  BY <1>2, <1>3 DEF MWAYInv, MWAYPhaseInv, BarrierInv
<1> QED  BY <1>1, <1>4 DEF MWAYInv, MWAYBufferInv, Allocated, Unreleased

-----------------------------------------------------------------------------
(* What the constants are, as far as the crack joins need them. *)
CrkConstants ==
  /\ NUM_BITS \in Nat /\ Levels \in Nat /\ Levels <= NUM_BITS
  /\ NThreads = 2 ^ Levels
LEMMA CrkSizes ==
  ASSUME algorithm \in Cracking \cap Algorithms
  PROVE  CrkConstants /\ CrewLevels \in Nat /\ Levels <= CrewLevels
<1>1. NThreads = 2 ^ Levels
  BY RunAssumption
<1>2. CASE algorithm = "CRKJ"
  BY <1>1, <1>2, RunAssumption DEF CRKJ!CrkAssumption, CrewLevels, CrkConstants
<1>3. CASE algorithm = "CRKJF"
  BY <1>1, <1>3, RunAssumption DEF CRKJF!CrkAssumption, CrewLevels, CrkConstants
<1>4. CASE algorithm = "CRKJS"
  BY <1>1, <1>4, RunAssumption DEF CRKJS!CrkAssumption, CrewLevels, CrkConstants
<1>5. CASE algorithm = "CRKJS_cut"
  BY <1>1, <1>5, RunAssumption DEF CRKJS_cut!CrkAssumption, CrewLevels, CrkConstants
<1> QED  BY <1>2, <1>3, <1>4, <1>5 DEF Cracking

(* The path of a partition is a sequence of bits. *)
LEMMA CrkPath ==
  ASSUME CrkConstants, NEW q \in Nat
  PROVE  /\ CRKJ!PathOf(q) \in Seq({0, 1}) /\ Len(CRKJ!PathOf(q)) = NUM_BITS
         /\ \A d \in 1 .. NUM_BITS : CRKJ!PathOf(q)[d] = (q \div 2 ^ (NUM_BITS - d)) % 2
<1>1. ASSUME NEW d \in 1 .. NUM_BITS PROVE (q \div 2 ^ (NUM_BITS - d)) % 2 \in {0, 1}
  <2>1. NUM_BITS - d \in Nat
    BY DEF CrkConstants
  <2>2. 2 ^ (NUM_BITS - d) \in Nat \ {0}
    BY ONLY <2>1, PowType
  <2>3. q \div 2 ^ (NUM_BITS - d) \in Nat
    BY ONLY q \in Nat, <2>2, DivMod
  <2>4. (q \div 2 ^ (NUM_BITS - d)) % 2 \in 0 .. 1
    BY ONLY <2>3, DivMod
  <2> QED  BY <2>4
<1>2. CRKJ!PathOf(q) = [d \in 1 .. NUM_BITS |-> (q \div 2 ^ (NUM_BITS - d)) % 2]
  BY DEF CRKJ!PathOf
<1> HIDE DEF CRKJ!PathOf
<1>3. NUM_BITS \in Nat
  BY DEF CrkConstants
<1> QED  BY ONLY <1>1, <1>2, <1>3

(* Two partitions whose paths begin with the same bits agree in the digits *)
(* these stand for.                                                        *)
LEMMA SamePath ==
  ASSUME CrkConstants, NEW q \in 0 .. 2 ^ NUM_BITS - 1, NEW r \in 0 .. 2 ^ NUM_BITS - 1,
         NEW l \in 0 .. NUM_BITS,
         \A d \in 1 .. l : CRKJ!PathOf(q)[d] = CRKJ!PathOf(r)[d]
  PROVE  q \div 2 ^ (NUM_BITS - l) = r \div 2 ^ (NUM_BITS - l)
<1> DEFINE P(e) == e <= l => q \div 2 ^ (NUM_BITS - e) = r \div 2 ^ (NUM_BITS - e)
           N == {e \in Nat : P(e)}
<1>0. NUM_BITS \in Nat /\ 2 ^ NUM_BITS \in Nat \ {0} /\ q \in Nat /\ r \in Nat /\ l \in Nat
  <2>1. NUM_BITS \in Nat
    BY DEF CrkConstants
  <2>2. 2 ^ NUM_BITS \in Nat \ {0}
    BY ONLY <2>1, PowType
  <2> QED  BY <2>1, <2>2
<1>1. 0 \in N
  <2>1. ASSUME NEW n \in 0 .. 2 ^ NUM_BITS - 1 PROVE n \div 2 ^ NUM_BITS = 0
    <3>1. PICK w : w = 2 ^ NUM_BITS
      OBVIOUS
    <3>2. n \in Nat /\ w \in Nat \ {0} /\ n \in 0 .. w - 1 /\ n = w * 0 + n
      BY <1>0, <3>1
    <3>3. n \div w = 0
      BY ONLY <3>2, DivUnique, 0 \in Nat
    <3> QED  BY <3>1, <3>3
  <2>2. NUM_BITS - 0 = NUM_BITS
    BY <1>0
  <2> QED  BY <2>1, <2>2
<1>2. ASSUME NEW e \in Nat, e \in N PROVE e + 1 \in N
  <2> SUFFICES ASSUME e + 1 <= l
               PROVE  q \div 2 ^ (NUM_BITS - (e + 1)) = r \div 2 ^ (NUM_BITS - (e + 1))
    OBVIOUS
  <2>1. PICK k : k = NUM_BITS - (e + 1)
    OBVIOUS
  <2>2. /\ k \in Nat /\ NUM_BITS - e = k + 1 /\ e + 1 \in 1 .. l /\ e + 1 \in 1 .. NUM_BITS
        /\ e <= l
    BY <1>0, <2>1
  <2>3. PICK m : m = 2 ^ k
    OBVIOUS
  <2>4. m \in Nat \ {0} /\ 2 ^ (NUM_BITS - e) = 2 * m
    BY ONLY <2>2, <2>3, PowType, PowNext
  <2>5. q \div (2 * m) = r \div (2 * m)
    BY <1>2, <2>2, <2>4
  <2>6. (q \div m) % 2 = (r \div m) % 2
    <3>1. ASSUME NEW n \in Nat PROVE CRKJ!PathOf(n)[e + 1] = (n \div m) % 2
      BY <2>1, <2>2, <2>3, CrkPath
    <3> QED  BY <1>0, <2>2, <3>1
  <2>7. /\ q \div m = 2 * (q \div (2 * m)) + ((q \div m) % 2)
        /\ r \div m = 2 * (r \div (2 * m)) + ((r \div m) % 2)
    BY ONLY <1>0, <2>4, DivHalf
  <2>8. q \div m = r \div m
    BY ONLY <2>5, <2>6, <2>7
  <2> QED  BY ONLY <2>1, <2>3, <2>8
<1>3. l \in N
  BY <1>0, <1>1, <1>2, Induction
<1> QED  BY <1>3

(* A thread's partitions are those with its number in the first digits. *)
LEMMA OwnPartitions ==
  ASSUME CrkConstants, NEW t \in Threads,
         NEW q \in t * CRKJ!PartPerThread .. (t + 1) * CRKJ!PartPerThread - 1
  PROVE  q \in 0 .. 2 ^ NUM_BITS - 1 /\ q \div 2 ^ (NUM_BITS - Levels) = t
<1>1. PICK w, n : w = 2 ^ (NUM_BITS - Levels) /\ n = 2 ^ Levels
  OBVIOUS
<1>2. NUM_BITS - Levels \in Nat /\ Levels \in Nat /\ Levels + (NUM_BITS - Levels) = NUM_BITS
  BY DEF CrkConstants
<1>3. w \in Nat \ {0} /\ n \in Nat \ {0} /\ 2 ^ NUM_BITS = n * w
  BY ONLY <1>1, <1>2, PowType, PowAdd
<1>4. CRKJ!PartPerThread = w
  <2>1. n * w \in Nat /\ n * w = n * w + 0 /\ 0 \in 0 .. n - 1
    BY ONLY <1>3
  <2>2. (n * w) \div n = w
    BY ONLY <1>3, <2>1, DivUnique
  <2> QED  BY <1>1, <1>3, <2>2 DEF CRKJ!PartPerThread, CRKJ!npart, CRKJ!nthreads
<1>5. t \in Nat /\ t + 1 \in Nat /\ t + 1 <= n
  BY <1>1, <1>3 DEF CrkConstants, Threads
<1>6. t * w \in Nat /\ (t + 1) * w = t * w + w /\ (t + 1) * w <= n * w /\ t * w = w * t
  BY ONLY <1>3, <1>5, TimesMono
<1>7. q \in t * w .. (t + 1) * w - 1
  BY <1>4
<1>8. PICK a : a = t * w
  OBVIOUS
<1>9. q \in Nat /\ q - a \in 0 .. w - 1 /\ q = w * t + (q - a) /\ q \in 0 .. n * w - 1
  BY ONLY <1>3, <1>6, <1>7, <1>8
<1>10. q \div w = t
  BY ONLY <1>3, <1>5, <1>9, DivUnique
<1> QED  BY ONLY <1>1, <1>3, <1>9, <1>10

(* The share of a thread is a number of partitions. *)
LEMMA CrkShares ==
  ASSUME CrkConstants, NEW t \in Nat
  PROVE  t * (2 ^ NUM_BITS \div 2 ^ Levels) \in Nat
<1>1. 2 ^ NUM_BITS \in Nat \ {0} /\ 2 ^ Levels \in Nat \ {0}
  BY ONLY CrkConstants, PowType DEF CrkConstants
<1>2. PICK w : w = 2 ^ NUM_BITS \div 2 ^ Levels
  OBVIOUS
<1>3. w \in Nat
  BY ONLY <1>1, <1>2, DivMod
<1>4. t * w \in Nat
  BY ONLY <1>3, t \in Nat
<1> QED  BY <1>2, <1>4

-----------------------------------------------------------------------------
(* The two children of a node. *)
Children(path) == {Append(path, 0), Append(path, 1)}
(* What cracking a node does to the trees: a leaf stays one, another node  *)
(* gets the children it lacks, and the other nodes stay.                   *)
Cracked(x, path) ==
  \/ tree' = tree
  \/ /\ ~CRKJ!Leaf(x, path)
     /\ tree' = [y \in Relations |-> tree'[y]]
     /\ \A y \in Relations \ {x} : tree'[y] = tree[y]
     /\ DOMAIN tree'[x] = DOMAIN tree[x] \cup Children(path)
     /\ \A q \in DOMAIN tree[x] : tree'[x][q] = tree[x][q]
CrackedIn(x, path) == Cracked(x, path) /\ (~CRKJ!Leaf(x, path) => Children(path) \subseteq DOMAIN tree'[x])

(* What a step of a join thread does, whichever crack join it belongs to:  *)
(* it cracks at most the slice of its partition, and nothing before the    *)
(* crew is through.                                                        *)
CrkThread(t) ==
  /\ crew' = crew
  /\ pc' = pc \/ \E to \in CrkPhases : pc' = [pc EXCEPT ![t] = to]
  /\ p' = p \/ p' = [p EXCEPT ![t] = @ + 1]
  /\ pc[t] = "start" => tree' = tree /\ (pc'[t] = "start" \/ \A x \in Relations : crew[x] = {})
  /\ tree' = tree \/ \E x \in Relations : Cracked(x, CRKJ!Slice(x, p[t]))

(* What a step of the crew does: it cracks a node and goes on with the     *)
(* children.                                                               *)
CrkCrew(x, path) ==
  /\ path \in crew[x]
  /\ CrackedIn(x, path)
  /\ crew' = [crew EXCEPT ![x] = (@ \ {path}) \cup
       (IF Len(path) + 1 < CrewLevels /\ ~CRKJ!Leaf(x, path) THEN Children(path) ELSE {})]
  /\ pc' = pc /\ p' = p

(* Giving the children to a node that is no leaf is cracking it. *)
LEMMA Grow ==
  ASSUME tree = [y \in Relations |-> tree[y]], NEW x \in Relations, NEW path,
         ~CRKJ!Leaf(x, path),
         NEW nodes, tree' = [tree EXCEPT ![x] = nodes],
         DOMAIN nodes = DOMAIN tree[x] \cup Children(path),
         \A q \in DOMAIN tree[x] : nodes[q] = tree[x][q]
  PROVE  CrackedIn(x, path)
<1>1. DOMAIN tree = Relations
  OBVIOUS
<1>2. /\ tree' = [y \in Relations |-> tree'[y]] /\ tree'[x] = nodes
      /\ \A y \in Relations \ {x} : tree'[y] = tree[y]
  BY <1>1
<1> QED  BY <1>2 DEF CrackedIn, Cracked

(* The crack joins crack in the same way, ... *)
LEMMA CRKJCrack ==
  ASSUME tree = [y \in Relations |-> tree[y]], NEW x \in Relations, NEW path,
         CRKJ!Crack(x, path)
  PROVE  CrackedIn(x, path)
<1>1. CASE CRKJ!Leaf(x, path)
  BY <1>1 DEF CRKJ!Crack, CrackedIn, Cracked
<1>2. CASE ~CRKJ!Leaf(x, path)
  <2>1. CRKJ!InsertChildren(x, path)
    BY <1>2 DEF CRKJ!Crack
  <2> DEFINE nodes == [q \in DOMAIN tree[x] \cup Children(path) |->
                      IF q \in DOMAIN tree[x] THEN tree[x][q] ELSE CRKJ!Child(x, path, q[Len(q)])]
  <2>2. DOMAIN nodes = DOMAIN tree[x] \cup Children(path) /\ \A q \in DOMAIN tree[x] : nodes[q] = tree[x][q]
    OBVIOUS
  <2>3. tree' = [tree EXCEPT ![x] = nodes]
    BY <2>1 DEF CRKJ!InsertChildren, Children
  <2> HIDE DEF nodes
  <2> QED  BY <1>2, <2>2, <2>3, Grow
<1> QED  BY <1>1, <1>2

(* The same of CRKJF. *)
LEMMA CRKJFCrack ==
  ASSUME tree = [y \in Relations |-> tree[y]], NEW x \in Relations, NEW path,
         CRKJF!Crack(x, path)
  PROVE  CrackedIn(x, path)
<1>1. CASE CRKJ!Leaf(x, path)
  BY <1>1 DEF CRKJF!Crack, CRKJF!Leaf, CRKJ!Leaf, CrackedIn, Cracked
<1>2. CASE ~CRKJ!Leaf(x, path)
  <2>1. CRKJF!InsertChildren(x, path)
    BY <1>2 DEF CRKJF!Crack, CRKJF!Leaf, CRKJ!Leaf
  <2> DEFINE nodes == [q \in DOMAIN tree[x] \cup Children(path) |->
                      IF q \in DOMAIN tree[x] THEN tree[x][q] ELSE CRKJF!Child(x, path, q[Len(q)])]
  <2>2. DOMAIN nodes = DOMAIN tree[x] \cup Children(path) /\ \A q \in DOMAIN tree[x] : nodes[q] = tree[x][q]
    OBVIOUS
  <2>3. tree' = [tree EXCEPT ![x] = nodes]
    BY <2>1 DEF CRKJF!InsertChildren, Children
  <2> HIDE DEF nodes
  <2> QED  BY <1>2, <2>2, <2>3, Grow
<1> QED  BY <1>1, <1>2

(* The same of CRKJS. *)
LEMMA CRKJSCrack ==
  ASSUME tree = [y \in Relations |-> tree[y]], NEW x \in Relations, NEW path,
         CRKJS!Crack(x, path)
  PROVE  CrackedIn(x, path)
<1>1. CASE CRKJ!Leaf(x, path)
  BY <1>1 DEF CRKJS!Crack, CRKJS!Leaf, CRKJ!Leaf, CrackedIn, Cracked
<1>2. CASE ~CRKJ!Leaf(x, path)
  <2>1. CRKJS!InsertChildren(x, path)
    BY <1>2 DEF CRKJS!Crack, CRKJS!Leaf, CRKJ!Leaf
  <2> DEFINE nodes == [q \in DOMAIN tree[x] \cup Children(path) |->
                      IF q \in DOMAIN tree[x] THEN tree[x][q] ELSE CRKJS!Child(x, path, q[Len(q)])]
  <2>2. DOMAIN nodes = DOMAIN tree[x] \cup Children(path) /\ \A q \in DOMAIN tree[x] : nodes[q] = tree[x][q]
    OBVIOUS
  <2>3. tree' = [tree EXCEPT ![x] = nodes]
    BY <2>1 DEF CRKJS!InsertChildren, Children
  <2> HIDE DEF nodes
  <2> QED  BY <1>2, <2>2, <2>3, Grow
<1> QED  BY <1>1, <1>2

(* The same of CRKJS with a threshold. *)
LEMMA CRKJScutCrack ==
  ASSUME tree = [y \in Relations |-> tree[y]], NEW x \in Relations, NEW path,
         CRKJS_cut!Crack(x, path)
  PROVE  CrackedIn(x, path)
<1>1. CASE CRKJ!Leaf(x, path)
  BY <1>1 DEF CRKJS_cut!Crack, CRKJS_cut!Leaf, CRKJ!Leaf, CrackedIn, Cracked
<1>2. CASE ~CRKJ!Leaf(x, path)
  <2>1. CRKJS_cut!InsertChildren(x, path)
    BY <1>2 DEF CRKJS_cut!Crack, CRKJS_cut!Leaf, CRKJ!Leaf
  <2> DEFINE nodes == [q \in DOMAIN tree[x] \cup Children(path) |->
                      IF q \in DOMAIN tree[x] THEN tree[x][q] ELSE CRKJS_cut!Child(x, path, q[Len(q)])]
  <2>2. DOMAIN nodes = DOMAIN tree[x] \cup Children(path) /\ \A q \in DOMAIN tree[x] : nodes[q] = tree[x][q]
    OBVIOUS
  <2>3. tree' = [tree EXCEPT ![x] = nodes]
    BY <2>1 DEF CRKJS_cut!InsertChildren, Children
  <2> HIDE DEF nodes
  <2> QED  BY <1>2, <2>2, <2>3, Grow
<1> QED  BY <1>1, <1>2

(* ... and find the slice of a partition in the same way. *)
LEMMA SameSlice ==
  ASSUME NEW x, NEW q
  PROVE  /\ CRKJF!Slice(x, q) = CRKJ!Slice(x, q)
         /\ CRKJS!Slice(x, q) = CRKJ!Slice(x, q)
         /\ CRKJS_cut!Slice(x, q) = CRKJ!Slice(x, q)
BY DEF CRKJ!Slice, CRKJF!Slice, CRKJS!Slice, CRKJS_cut!Slice,
       CRKJ!PathOf, CRKJF!PathOf, CRKJS!PathOf, CRKJS_cut!PathOf

(* They agree about the leaves, too. *)
LEMMA SameLeaf ==
  ASSUME NEW x, NEW path
  PROVE  /\ CRKJF!Leaf(x, path) <=> CRKJ!Leaf(x, path)
         /\ CRKJS!Leaf(x, path) <=> CRKJ!Leaf(x, path)
         /\ CRKJS_cut!Leaf(x, path) <=> CRKJ!Leaf(x, path)
BY DEF CRKJ!Leaf, CRKJF!Leaf, CRKJS!Leaf, CRKJS_cut!Leaf

(* A step of a thread of a crack join, ... *)
LEMMA CRKJStep ==
  ASSUME tree = [y \in Relations |-> tree[y]], NEW t, CRKJ!Step(t)
  PROVE  CrkThread(t)
<1> USE DEF CRKJ!Goto, CRKJ!In, CrkPhases
<1>1. CASE CRKJ!Start(t)
  BY <1>1 DEF CRKJ!Start, CrkThread, CRKJ!Relations, Relations
<1>2. CASE CRKJ!Histogram(t) \/ CRKJ!Sum(t) \/ CRKJ!Skip(t) \/ CRKJ!SimpleBuild(t) \/ CRKJ!Leave(t)
  BY <1>2 DEF CRKJ!Histogram, CRKJ!Sum, CRKJ!Skip, CRKJ!SimpleBuild, CRKJ!Leave, CrkThread
<1>3. CASE CRKJ!CrackS(t) \/ CRKJ!CrackR(t) \/ CRKJ!FusedBuild(t) \/ CRKJ!Probe(t)
  <2>1. tree' = tree \/ \E x \in Relations : CRKJ!Crack(x, CRKJ!Slice(x, p[t]))
    BY <1>3 DEF CRKJ!CrackS, CRKJ!CrackR, CRKJ!FusedBuild, CRKJ!Probe, Relations
  <2>2. tree' = tree \/ \E x \in Relations : Cracked(x, CRKJ!Slice(x, p[t]))
    BY <2>1, CRKJCrack DEF CrackedIn
  <2> QED  BY <1>3, <2>2 DEF CRKJ!CrackS, CRKJ!CrackR, CRKJ!FusedBuild, CRKJ!Probe, CrkThread
<1> QED  BY <1>1, <1>2, <1>3 DEF CRKJ!Step

(* The same of CRKJF. *)
LEMMA CRKJFStep ==
  ASSUME tree = [y \in Relations |-> tree[y]], NEW t, CRKJF!Step(t)
  PROVE  CrkThread(t)
<1> USE DEF CRKJF!Goto, CRKJF!In, CrkPhases
<1>1. CASE CRKJF!Start(t)
  BY <1>1 DEF CRKJF!Start, CrkThread, CRKJF!Relations, Relations
<1>2. CASE CRKJF!Histogram(t) \/ CRKJF!Sum(t) \/ CRKJF!Skip(t) \/ CRKJF!SimpleBuild(t) \/ CRKJF!Leave(t)
  BY <1>2 DEF CRKJF!Histogram, CRKJF!Sum, CRKJF!Skip, CRKJF!SimpleBuild, CRKJF!Leave, CrkThread
<1>3. CASE CRKJF!CrackS(t) \/ CRKJF!CrackR(t) \/ CRKJF!FusedBuild(t) \/ CRKJF!Probe(t)
  <2>1. tree' = tree \/ \E x \in Relations : CRKJF!Crack(x, CRKJF!Slice(x, p[t]))
    BY <1>3 DEF CRKJF!CrackS, CRKJF!CrackR, CRKJF!FusedBuild, CRKJF!Probe, Relations
  <2>2. tree' = tree \/ \E x \in Relations : Cracked(x, CRKJ!Slice(x, p[t]))
    BY <2>1, CRKJFCrack, SameSlice DEF CrackedIn
  <2> QED  BY <1>3, <2>2 DEF CRKJF!CrackS, CRKJF!CrackR, CRKJF!FusedBuild, CRKJF!Probe,
              CrkThread
<1> QED  BY <1>1, <1>2, <1>3 DEF CRKJF!Step

(* The same of CRKJS. *)
LEMMA CRKJSStep ==
  ASSUME tree = [y \in Relations |-> tree[y]], NEW t, CRKJS!Step(t)
  PROVE  CrkThread(t)
<1> USE DEF CRKJS!Goto, CRKJS!In, CrkPhases
<1>1. CASE CRKJS!Start(t)
  BY <1>1 DEF CRKJS!Start, CrkThread, CRKJS!Relations, Relations
<1>2. CASE CRKJS!Histogram(t) \/ CRKJS!Sum(t) \/ CRKJS!Skip(t) \/ CRKJS!SimpleBuild(t) \/ CRKJS!Leave(t)
  BY <1>2 DEF CRKJS!Histogram, CRKJS!Sum, CRKJS!Skip, CRKJS!SimpleBuild, CRKJS!Leave, CrkThread
<1>3. CASE CRKJS!CrackS(t) \/ CRKJS!CrackR(t) \/ CRKJS!FusedBuild(t) \/ CRKJS!Probe(t)
  <2>1. tree' = tree \/ \E x \in Relations : CRKJS!Crack(x, CRKJS!Slice(x, p[t]))
    BY <1>3 DEF CRKJS!CrackS, CRKJS!CrackR, CRKJS!FusedBuild, CRKJS!Probe, Relations
  <2>2. tree' = tree \/ \E x \in Relations : Cracked(x, CRKJ!Slice(x, p[t]))
    BY <2>1, CRKJSCrack, SameSlice DEF CrackedIn
  <2> QED  BY <1>3, <2>2 DEF CRKJS!CrackS, CRKJS!CrackR, CRKJS!FusedBuild, CRKJS!Probe,
              CrkThread
<1> QED  BY <1>1, <1>2, <1>3 DEF CRKJS!Step

(* The same of CRKJS with a threshold. *)
LEMMA CRKJScutStep ==
  ASSUME tree = [y \in Relations |-> tree[y]], NEW t, CRKJS_cut!Step(t)
  PROVE  CrkThread(t)
<1> USE DEF CRKJS_cut!Goto, CRKJS_cut!In, CrkPhases
<1>1. CASE CRKJS_cut!Start(t)
  BY <1>1 DEF CRKJS_cut!Start, CrkThread, CRKJS_cut!Relations, Relations
<1>2. CASE CRKJS_cut!Histogram(t) \/ CRKJS_cut!Sum(t) \/ CRKJS_cut!Skip(t) \/ CRKJS_cut!SimpleBuild(t) \/ CRKJS_cut!Leave(t)
  BY <1>2 DEF CRKJS_cut!Histogram, CRKJS_cut!Sum, CRKJS_cut!Skip, CRKJS_cut!SimpleBuild,
     CRKJS_cut!Leave, CrkThread
<1>3. CASE CRKJS_cut!CrackS(t) \/ CRKJS_cut!CrackR(t) \/ CRKJS_cut!FusedBuild(t) \/ CRKJS_cut!Probe(t)
  <2>1. tree' = tree \/ \E x \in Relations : CRKJS_cut!Crack(x, CRKJS_cut!Slice(x, p[t]))
    BY <1>3 DEF CRKJS_cut!CrackS, CRKJS_cut!CrackR, CRKJS_cut!FusedBuild, CRKJS_cut!Probe,
       Relations
  <2>2. tree' = tree \/ \E x \in Relations : Cracked(x, CRKJ!Slice(x, p[t]))
    BY <2>1, CRKJScutCrack, SameSlice DEF CrackedIn
  <2> QED  BY <1>3, <2>2 DEF CRKJS_cut!CrackS, CRKJS_cut!CrackR, CRKJS_cut!FusedBuild,
              CRKJS_cut!Probe, CrkThread
<1> QED  BY <1>1, <1>2, <1>3 DEF CRKJS_cut!Step

(* ... a step of the crew, ... *)
LEMMA CRKJCrew ==
  ASSUME algorithm = "CRKJ", "CRKJ" \in Algorithms, tree = [y \in Relations |-> tree[y]],
         CRKJ!AnyCrewStep
  PROVE  \E x \in Relations : \E path \in crew[x] : CrkCrew(x, path)
<1>1. CRKJ!CrackLevels = CrewLevels
  BY CrkSizes DEF CRKJ!CrackLevels, CrewLevels, CrkConstants, Cracking
<1>2. PICK x \in Relations : \E path \in crew[x] : CRKJ!CrewStep(x, path)
  BY DEF CRKJ!AnyCrewStep, CRKJ!Relations, Relations
<1>3. PICK path \in crew[x] : CRKJ!CrewStep(x, path)
  BY <1>2
<1>4. CrackedIn(x, path)
  BY <1>3, CRKJCrack DEF CRKJ!CrewStep
<1>5. CrkCrew(x, path)
  BY <1>1, <1>3, <1>4 DEF CRKJ!CrewStep, CrkCrew, Children
<1> QED  BY <1>5

(* The same of CRKJF. *)
LEMMA CRKJFCrew ==
  ASSUME algorithm = "CRKJF", "CRKJF" \in Algorithms, tree = [y \in Relations |-> tree[y]],
         CRKJF!AnyCrewStep
  PROVE  \E x \in Relations : \E path \in crew[x] : CrkCrew(x, path)
<1>1. CRKJF!CrackLevels = CrewLevels
  BY CrkSizes DEF CRKJF!CrackLevels, CrewLevels, CrkConstants, Cracking
<1>2. PICK x \in Relations : \E path \in crew[x] : CRKJF!CrewStep(x, path)
  BY DEF CRKJF!AnyCrewStep, CRKJF!Relations, Relations
<1>3. PICK path \in crew[x] : CRKJF!CrewStep(x, path)
  BY <1>2
<1>4. CrackedIn(x, path)
  BY <1>3, CRKJFCrack DEF CRKJF!CrewStep
<1>5. CrkCrew(x, path)
  BY <1>1, <1>3, <1>4 DEF CRKJF!CrewStep, CrkCrew, Children, CRKJF!Leaf, CRKJ!Leaf
<1> QED  BY <1>5

(* The same of CRKJS. *)
LEMMA CRKJSCrew ==
  ASSUME algorithm = "CRKJS", "CRKJS" \in Algorithms, tree = [y \in Relations |-> tree[y]],
         CRKJS!AnyCrewStep
  PROVE  \E x \in Relations : \E path \in crew[x] : CrkCrew(x, path)
<1>1. CRKJS!CrackLevels = CrewLevels
  BY CrkSizes DEF CRKJS!CrackLevels, CrewLevels, CrkConstants, Cracking
<1>2. PICK x \in Relations : \E path \in crew[x] : CRKJS!CrewStep(x, path)
  BY DEF CRKJS!AnyCrewStep, CRKJS!Relations, Relations
<1>3. PICK path \in crew[x] : CRKJS!CrewStep(x, path)
  BY <1>2
<1>4. CrackedIn(x, path)
  BY <1>3, CRKJSCrack DEF CRKJS!CrewStep
<1>5. CrkCrew(x, path)
  BY <1>1, <1>3, <1>4 DEF CRKJS!CrewStep, CrkCrew, Children, CRKJS!Leaf, CRKJ!Leaf
<1> QED  BY <1>5

(* The same of CRKJS with a threshold. *)
LEMMA CRKJScutCrew ==
  ASSUME algorithm = "CRKJS_cut", "CRKJS_cut" \in Algorithms, tree = [y \in Relations |-> tree[y]],
         CRKJS_cut!AnyCrewStep
  PROVE  \E x \in Relations : \E path \in crew[x] : CrkCrew(x, path)
<1>1. CRKJS_cut!CrackLevels = CrewLevels
  BY CrkSizes DEF CRKJS_cut!CrackLevels, CrewLevels, CrkConstants, Cracking
<1>2. PICK x \in Relations : \E path \in crew[x] : CRKJS_cut!CrewStep(x, path)
  BY DEF CRKJS_cut!AnyCrewStep, CRKJS_cut!Relations, Relations
<1>3. PICK path \in crew[x] : CRKJS_cut!CrewStep(x, path)
  BY <1>2
<1>4. CrackedIn(x, path)
  BY <1>3, CRKJScutCrack DEF CRKJS_cut!CrewStep
<1>5. CrkCrew(x, path)
  BY <1>1, <1>3, <1>4 DEF CRKJS_cut!CrewStep, CrkCrew, Children, CRKJS_cut!Leaf, CRKJ!Leaf
<1> QED  BY <1>5

(* ... of the barrier or the main thread, ... *)
LEMMA CrkQuiet ==
  ASSUME \/ CRKJ!Open \/ CRKJ!Return \/ CRKJF!Open \/ CRKJF!Return \/ CRKJS!Open \/ CRKJS!Return
         \/ CRKJS_cut!Open \/ CRKJS_cut!Return \/ UNCHANGED vars
  PROVE  UNCHANGED << tree, crew, pc, p >>
BY DEF CRKJ!Open, CRKJ!Return, CRKJF!Open, CRKJF!Return, CRKJS!Open, CRKJS!Return,
   CRKJS_cut!Open, CRKJS_cut!Return,
       vars, crkVars, treeVars, common

(* ... and the initial states. *)
LEMMA CRKJInit ==
  ASSUME algorithm = "CRKJ", "CRKJ" \in Algorithms, CRKJ!Init
  PROVE  CrkInv
<1>1. CRKJ!CrackLevels = CrewLevels /\ CrewLevels \in Nat /\ CRKJ!Threads = Threads
  BY CrkSizes DEF CRKJ!CrackLevels, CrewLevels, CrkConstants, Cracking, CRKJ!Threads,
     CRKJ!nthreads, Threads
<1>2. p \in [Threads -> Nat]
  BY <1>1, CrkShares, CrkSizes DEF CRKJ!Init, CRKJ!npart, CRKJ!nthreads, Cracking, Threads
<1>3. CrkPhaseInv
  BY <1>1, <1>2 DEF CRKJ!Init, CrkPhaseInv, CrkPhases
<1>4. CrkTreeInv
  BY <1>1 DEF CRKJ!Init, CRKJ!Relations, Relations, CrkTreeInv
<1> QED  BY <1>3, <1>4 DEF CrkInv

(* The same of CRKJF. *)
LEMMA CRKJFInit ==
  ASSUME algorithm = "CRKJF", "CRKJF" \in Algorithms, CRKJF!Init
  PROVE  CrkInv
<1>1. CRKJF!CrackLevels = CrewLevels /\ CrewLevels \in Nat /\ CRKJF!Threads = Threads
  BY CrkSizes DEF CRKJF!CrackLevels, CrewLevels, CrkConstants, Cracking, CRKJF!Threads,
     CRKJF!nthreads, Threads
<1>2. p \in [Threads -> Nat]
  BY <1>1, CrkShares, CrkSizes DEF CRKJF!Init, CRKJF!npart, CRKJF!nthreads, Cracking, Threads
<1>3. CrkPhaseInv
  BY <1>1, <1>2 DEF CRKJF!Init, CrkPhaseInv, CrkPhases
<1>4. CrkTreeInv
  BY <1>1 DEF CRKJF!Init, CRKJF!Relations, Relations, CrkTreeInv
<1> QED  BY <1>3, <1>4 DEF CrkInv

(* The same of CRKJS. *)
LEMMA CRKJSInit ==
  ASSUME algorithm = "CRKJS", "CRKJS" \in Algorithms, CRKJS!Init
  PROVE  CrkInv
<1>1. CRKJS!CrackLevels = CrewLevels /\ CrewLevels \in Nat /\ CRKJS!Threads = Threads
  BY CrkSizes DEF CRKJS!CrackLevels, CrewLevels, CrkConstants, Cracking, CRKJS!Threads,
     CRKJS!nthreads, Threads
<1>2. p \in [Threads -> Nat]
  BY <1>1, CrkShares, CrkSizes DEF CRKJS!Init, CRKJS!npart, CRKJS!nthreads, Cracking, Threads
<1>3. CrkPhaseInv
  BY <1>1, <1>2 DEF CRKJS!Init, CrkPhaseInv, CrkPhases
<1>4. CrkTreeInv
  BY <1>1 DEF CRKJS!Init, CRKJS!Relations, Relations, CrkTreeInv
<1> QED  BY <1>3, <1>4 DEF CrkInv

(* The same of CRKJS with a threshold. *)
LEMMA CRKJScutInit ==
  ASSUME algorithm = "CRKJS_cut", "CRKJS_cut" \in Algorithms, CRKJS_cut!Init
  PROVE  CrkInv
<1>1. CRKJS_cut!CrackLevels = CrewLevels /\ CrewLevels \in Nat /\ CRKJS_cut!Threads = Threads
  BY CrkSizes DEF CRKJS_cut!CrackLevels, CrewLevels, CrkConstants, Cracking, CRKJS_cut!Threads,
     CRKJS_cut!nthreads, Threads
<1>2. p \in [Threads -> Nat]
  BY <1>1, CrkShares, CrkSizes DEF CRKJS_cut!Init, CRKJS_cut!npart, CRKJS_cut!nthreads,
     Cracking, Threads
<1>3. CrkPhaseInv
  BY <1>1, <1>2 DEF CRKJS_cut!Init, CrkPhaseInv, CrkPhases
<1>4. CrkTreeInv
  BY <1>1 DEF CRKJS_cut!Init, CRKJS_cut!Relations, Relations, CrkTreeInv
<1> QED  BY <1>3, <1>4 DEF CrkInv

-----------------------------------------------------------------------------
(* The slice of a partition: as much of its path as there are nodes for.    *)
SliceOf(x, q, s) ==
  /\ s \in DOMAIN tree[x] /\ s \in Seq({0, 1}) /\ Len(s) <= NUM_BITS
  /\ \A e \in 1 .. Len(s) : s[e] = CRKJ!PathOf(q)[e]
  /\ Len(s) < NUM_BITS => \E bit \in {0, 1} : Append(s, bit) \notin DOMAIN tree[x]
LEMMA SliceFound ==
  ASSUME CrkConstants, NEW x, NEW q \in Nat, << >> \in DOMAIN tree[x]
  PROVE  SliceOf(x, q, CRKJ!Slice(x, q))
<1> DEFINE node(d) == SubSeq(CRKJ!PathOf(q), 1, d)
           deepest(d) == node(d) \in DOMAIN tree[x] /\ (d = NUM_BITS \/ node(d + 1) \notin DOMAIN tree[x])
           least == {n \in 0 .. NUM_BITS : node(NUM_BITS - n) \in DOMAIN tree[x]}
<1>0. NUM_BITS \in Nat /\ CRKJ!PathOf(q) \in Seq({0, 1}) /\ Len(CRKJ!PathOf(q)) = NUM_BITS
  BY CrkPath DEF CrkConstants
<1>1. \E d \in 0 .. NUM_BITS : deepest(d)
  <2>1. NUM_BITS \in least
    <3>1. NUM_BITS - NUM_BITS = 0 /\ NUM_BITS \in 0 .. NUM_BITS
      BY <1>0
    <3>2. node(0) = << >>
      BY <1>0
    <3>3. node(NUM_BITS - NUM_BITS) \in DOMAIN tree[x]
      BY <3>1, <3>2
    <3> HIDE DEF node
    <3> QED  BY <3>1, <3>3
  <2>2. PICK n \in least : \A m \in least : n <= m
    <3> HIDE DEF node
    <3>1. least \in SUBSET Nat /\ least # {}
      <4>1. \A n \in least : n \in 0 .. NUM_BITS
        OBVIOUS
      <4>2. \A n \in 0 .. NUM_BITS : n \in Nat
        BY <1>0
      <4> HIDE DEF least
      <4> QED  BY ONLY <2>1, <4>1, <4>2
    <3> HIDE DEF least
    <3> QED  BY <3>1, LeastElement
  <2>3. deepest(NUM_BITS - n) /\ NUM_BITS - n \in 0 .. NUM_BITS
    <3>1. n = 0 \/ n - 1 \in 0 .. NUM_BITS
      BY <1>0, <2>2
    <3>2. n = 0 \/ node(NUM_BITS - (n - 1)) \notin DOMAIN tree[x]
      BY <2>2, <3>1
    <3>3. NUM_BITS - (n - 1) = (NUM_BITS - n) + 1
      BY <1>0, <2>2
    <3> QED  BY <1>0, <2>2, <3>2, <3>3
  <2> QED  BY <2>3
<1>2. PICK d \in 0 .. NUM_BITS : deepest(d) /\ CRKJ!Slice(x, q) = node(d)
  <2>1. CRKJ!Slice(x, q) = node(CHOOSE d \in 0 .. NUM_BITS : deepest(d))
    BY DEF CRKJ!Slice
  <2> QED  BY <1>1, <2>1
<1>3. /\ node(d) \in Seq({0, 1}) /\ Len(node(d)) = d
      /\ \A e \in 1 .. d : node(d)[e] = CRKJ!PathOf(q)[e]
  BY <1>0
<1>4. d < NUM_BITS => \E bit \in {0, 1} : Append(node(d), bit) = node(d + 1)
  <2> SUFFICES ASSUME d < NUM_BITS PROVE \E bit \in {0, 1} : Append(node(d), bit) = node(d + 1)
    OBVIOUS
  <2>1. CRKJ!PathOf(q)[d + 1] \in {0, 1}
    BY <1>0
  <2>2. Append(node(d), CRKJ!PathOf(q)[d + 1]) = node(d + 1)
    BY <1>0
  <2> QED  BY <2>1, <2>2
<1>5. d < NUM_BITS => \E bit \in {0, 1} : Append(node(d), bit) \notin DOMAIN tree[x]
  <2> HIDE DEF node
  <2> SUFFICES ASSUME d < NUM_BITS
               PROVE  \E bit \in {0, 1} : Append(node(d), bit) \notin DOMAIN tree[x]
    OBVIOUS
  <2>1. deepest(d) /\ d # NUM_BITS
    BY <1>0, <1>2
  <2>2. node(d + 1) \notin DOMAIN tree[x]
    BY <2>1
  <2>3. PICK bit \in {0, 1} : Append(node(d), bit) = node(d + 1)
    BY <1>4
  <2> QED  BY <2>2, <2>3
<1>6. PICK s : s = CRKJ!Slice(x, q) /\ s = node(d)
  BY <1>2
<1>7. /\ s \in DOMAIN tree[x] /\ s \in Seq({0, 1}) /\ Len(s) = d
      /\ \A e \in 1 .. d : s[e] = CRKJ!PathOf(q)[e]
      /\ d < NUM_BITS => \E bit \in {0, 1} : Append(s, bit) \notin DOMAIN tree[x]
  <2> HIDE DEF node
  <2> QED  BY <1>2, <1>3, <1>5, <1>6
<1>8. SliceOf(x, q, s)
  BY <1>0, <1>7 DEF SliceOf
<1> QED  BY <1>6, <1>8

(* A slice that can be cracked lies below the levels of the crew, once the  *)
(* crew is through with the relation.                                       *)
LEMMA SliceDeep ==
  ASSUME CrkTreeInv, CrewLevels \in Nat, NUM_BITS \in Nat, NEW x \in Relations, crew[x] = {},
         NEW q \in Nat,
         NEW s, SliceOf(x, q, s), ~CRKJ!Leaf(x, s)
  PROVE  Len(s) >= CrewLevels
<1> SUFFICES ASSUME Len(s) < CrewLevels PROVE FALSE
  BY DEF SliceOf
<1>1. Children(s) \subseteq DOMAIN tree[x]
  BY DEF CrkTreeInv, SliceOf, Children
<1>2. Len(s) < NUM_BITS
  BY DEF CRKJ!Leaf, SliceOf
<1> QED  BY <1>1, <1>2 DEF SliceOf, Children

(* What cracking keeps. *)
LEMMA CrackedFacts ==
  ASSUME tree = [y \in Relations |-> tree[y]], NEW x \in Relations, NEW path, Cracked(x, path)
  PROVE  /\ tree' = [y \in Relations |-> tree'[y]]
         /\ \A y \in Relations \ {x} : tree'[y] = tree[y]
         /\ DOMAIN tree[x] \subseteq DOMAIN tree'[x]
         /\ \A q \in DOMAIN tree'[x] \ DOMAIN tree[x] : q \in Children(path) /\ ~CRKJ!Leaf(x, path)
         /\ \A y \in Relations : \A q \in DOMAIN tree[y] :
              q \in DOMAIN tree'[y] /\ (CRKJ!Leaf(y, q)' <=> CRKJ!Leaf(y, q))
<1>1. CASE tree' = tree
  <2>1. \A y \in Relations : \A q \in DOMAIN tree[y] : CRKJ!Leaf(y, q)' <=> CRKJ!Leaf(y, q)
    BY <1>1 DEF CRKJ!Leaf
  <2> QED  BY <1>1, <2>1
<1>2. CASE tree' # tree
  <2>1. /\ ~CRKJ!Leaf(x, path)
        /\ tree' = [y \in Relations |-> tree'[y]]
        /\ \A y \in Relations \ {x} : tree'[y] = tree[y]
        /\ DOMAIN tree'[x] = DOMAIN tree[x] \cup Children(path)
        /\ \A q \in DOMAIN tree[x] : tree'[x][q] = tree[x][q]
    BY <1>2 DEF Cracked
  <2>2. \A y \in Relations : \A q \in DOMAIN tree[y] : tree'[y][q] = tree[y][q] /\ q \in DOMAIN tree'[y]
    BY <2>1
  <2>3. \A y \in Relations : \A q \in DOMAIN tree[y] : CRKJ!Leaf(y, q)' <=> CRKJ!Leaf(y, q)
    BY <2>2 DEF CRKJ!Leaf
  <2> QED  BY <2>1, <2>2, <2>3
<1> QED  BY <1>1, <1>2

(* A path and its children are paths of bits, the children one longer. *)
LEMMA ChildPath ==
  ASSUME NEW path \in Seq({0, 1}), NEW q \in Children(path)
  PROVE  q \in Seq({0, 1}) /\ Len(q) = Len(path) + 1 /\ Len(path) \in Nat
BY DEF Children

(* A join thread keeps the invariant: what it cracks lies below the levels  *)
(* of the crew.                                                             *)
LEMMA CrkThreadStep ==
  ASSUME algorithm \in Cracking \cap Algorithms, algorithm' = algorithm, CrkInv,
         NEW t \in Threads, CrkThread(t)
  PROVE  CrkInv'
<1>0. CrkConstants /\ CrewLevels \in Nat /\ CrewLevels' = CrewLevels /\ NUM_BITS \in Nat
  BY CrkSizes DEF CrewLevels, CrkConstants
<1>1. CrkPhaseInv'
  <2>1. pc' \in [Threads -> CrkPhases] /\ p' \in [Threads -> Nat]
    BY DEF CrkThread, CrkInv, CrkPhaseInv
  <2>2. ASSUME NEW u \in Threads, pc'[u] # "start" PROVE \A x \in Relations : crew[x] = {}
    BY <2>2 DEF CrkThread, CrkInv, CrkPhaseInv
  <2> QED  BY <2>1, <2>2 DEF CrkThread, CrkPhaseInv
<1>2. CASE tree' = tree
  <2>1. ASSUME NEW x, NEW path PROVE CRKJ!Leaf(x, path)' <=> CRKJ!Leaf(x, path)
    BY <1>2 DEF CRKJ!Leaf
  <2>2. CrkTreeInv'
    BY <1>0, <1>2, <2>1 DEF CrkThread, CrkInv, CrkTreeInv
  <2> QED  BY <1>1, <2>2 DEF CrkInv
<1>3. CASE tree' # tree
  <2>1. PICK x \in Relations : Cracked(x, CRKJ!Slice(x, p[t]))
    BY <1>3 DEF CrkThread
  <2>2. PICK s : s = CRKJ!Slice(x, p[t])
    OBVIOUS
  <2>3. crew' = crew /\ \A y \in Relations : crew[y] = {}
    BY <1>3 DEF CrkThread, CrkInv, CrkPhaseInv
  <2>4. SliceOf(x, p[t], s) /\ p[t] \in Nat
    BY <1>0, <2>2, SliceFound DEF CrkInv, CrkTreeInv, CrkPhaseInv
  <2>5. ~CRKJ!Leaf(x, s)
    BY <1>3, <2>1, <2>2 DEF Cracked
  <2>6. Len(s) >= CrewLevels /\ s \in Seq({0, 1})
    BY <1>0, <2>3, <2>4, <2>5, SliceDeep DEF CrkInv, SliceOf
  <2>7. tree = [y \in Relations |-> tree[y]] /\ Cracked(x, s)
    BY <2>1, <2>2 DEF CrkInv, CrkTreeInv
  <2>8. ASSUME NEW y \in Relations
        PROVE  /\ DOMAIN tree'[y] \subseteq Seq({0, 1}) /\ << >> \in DOMAIN tree'[y]
               /\ \A path \in DOMAIN tree'[y] : Len(path) < CrewLevels => path \in DOMAIN tree[y]
    <3>1. DOMAIN tree[y] \subseteq Seq({0, 1}) /\ << >> \in DOMAIN tree[y]
      BY DEF CrkInv, CrkTreeInv
    <3>2. /\ DOMAIN tree[y] \subseteq DOMAIN tree'[y]
          /\ \A path \in DOMAIN tree'[y] \ DOMAIN tree[y] : path \in Children(s)
      BY <2>7, CrackedFacts
    <3>3. \A path \in Children(s) : path \in Seq({0, 1}) /\ ~(Len(path) < CrewLevels)
      BY <1>0, <2>6, ChildPath
    <3> QED  BY <3>1, <3>2, <3>3
  <2>9. ASSUME NEW y \in Relations, NEW path \in DOMAIN tree'[y], Len(path) < CrewLevels
        PROVE  CRKJ!Leaf(y, path)' \/ {Append(path, 0), Append(path, 1)} \subseteq DOMAIN tree'[y]
    <3>1. path \in DOMAIN tree[y] /\ path \notin crew[y]
      BY <2>3, <2>8, <2>9
    <3>2. CRKJ!Leaf(y, path) \/ {Append(path, 0), Append(path, 1)} \subseteq DOMAIN tree[y]
      BY <2>9, <3>1 DEF CrkInv, CrkTreeInv
    <3> QED  BY <2>7, <3>1, <3>2, CrackedFacts
  <2>10. DOMAIN tree' = Relations /\ tree' = [y \in Relations |-> tree'[y]]
    BY <2>7, CrackedFacts
  <2>11. CrkTreeInv'
    BY <1>0, <2>3, <2>8, <2>9, <2>10 DEF CrkInv, CrkTreeInv
  <2> QED  BY <1>1, <2>11 DEF CrkInv
<1> QED  BY <1>2, <1>3

(* So does the crew: the node it has cracked gets its children, and these   *)
(* are left to the crew as long as they are of its levels.                  *)
LEMMA CrkCrewStep ==
  ASSUME algorithm \in Cracking \cap Algorithms, algorithm' = algorithm, CrkInv,
         NEW x \in Relations, NEW path \in crew[x], CrkCrew(x, path)
  PROVE  CrkInv'
<1>0. CrewLevels \in Nat /\ CrewLevels' = CrewLevels
  BY CrkSizes DEF CrewLevels
<1>1. \A t \in Threads : pc[t] = "start"
  BY DEF CrkInv, CrkPhaseInv
<1>2. CrkPhaseInv'
  BY <1>1 DEF CrkCrew, CrkInv, CrkPhaseInv
<1>3. /\ path \in DOMAIN tree[x] /\ path \in Seq({0, 1}) /\ Len(path) < CrewLevels
      /\ tree = [y \in Relations |-> tree[y]] /\ Cracked(x, path)
      /\ crew = [y \in Relations |-> crew[y]]
      /\ DOMAIN tree[x] \subseteq Seq({0, 1}) /\ << >> \in DOMAIN tree[x]
  BY DEF CrkInv, CrkTreeInv, CrkCrew, CrackedIn
<1>4. PICK more : /\ more = (IF Len(path) + 1 < CrewLevels /\ ~CRKJ!Leaf(x, path) THEN Children(path) ELSE {})
                  /\ crew' = [crew EXCEPT ![x] = (@ \ {path}) \cup more]
  BY DEF CrkCrew
<1>5. /\ crew' = [y \in Relations |-> crew'[y]] /\ crew'[x] = (crew[x] \ {path}) \cup more
      /\ \A y \in Relations \ {x} : crew'[y] = crew[y]
  BY ONLY <1>3, <1>4
<1>6. ~CRKJ!Leaf(x, path) => Children(path) \subseteq DOMAIN tree'[x]
  BY DEF CrkCrew, CrackedIn
<1>7. DOMAIN tree' = Relations /\ tree' = [y \in Relations |-> tree'[y]]
  BY <1>3, CrackedFacts
<1>8. ASSUME NEW y \in Relations
      PROVE  /\ DOMAIN tree'[y] \subseteq Seq({0, 1}) /\ << >> \in DOMAIN tree'[y]
             /\ \A q \in crew'[y] : q \in DOMAIN tree'[y] /\ Len(q) < CrewLevels
             /\ \A q \in DOMAIN tree'[y] : Len(q) < CrewLevels /\ q \notin crew'[y] =>
                  CRKJ!Leaf(y, q)' \/ {Append(q, 0), Append(q, 1)} \subseteq DOMAIN tree'[y]
  <2>1. CASE y # x
    <3>1. tree'[y] = tree[y] /\ crew'[y] = crew[y]
      BY <1>3, <1>5, <2>1, CrackedFacts
    <3>2. \A q \in DOMAIN tree[y] : CRKJ!Leaf(y, q)' <=> CRKJ!Leaf(y, q)
      BY <1>3, CrackedFacts
    <3> QED  BY <3>1, <3>2 DEF CrkInv, CrkTreeInv
  <2>2. CASE y = x
    <3>1. DOMAIN tree'[x] \subseteq Seq({0, 1}) /\ << >> \in DOMAIN tree'[x]
      BY <1>3, CrackedFacts, ChildPath
    <3>2. ASSUME NEW q \in crew'[x] PROVE q \in DOMAIN tree'[x] /\ Len(q) < CrewLevels
      <4>1. CASE q \in crew[x]
        BY <1>3, <4>1, CrackedFacts DEF CrkInv, CrkTreeInv
      <4>2. CASE q \in more
        BY <1>3, <1>4, <1>6, <4>2, ChildPath
      <4> QED  BY <1>5, <3>2, <4>1, <4>2
    <3>3. ASSUME NEW q \in DOMAIN tree'[x], Len(q) < CrewLevels, q \notin crew'[x]
          PROVE  CRKJ!Leaf(x, q)' \/ {Append(q, 0), Append(q, 1)} \subseteq DOMAIN tree'[x]
      <4>1. CASE q = path
        BY <1>3, <1>6, <4>1, CrackedFacts DEF Children
      <4>2. CASE q \in DOMAIN tree[x] /\ q # path
        <5>1. q \notin crew[x]
          BY <1>5, <3>3, <4>2
        <5>2. CRKJ!Leaf(x, q) \/ {Append(q, 0), Append(q, 1)} \subseteq DOMAIN tree[x]
          BY <3>3, <4>2, <5>1 DEF CrkInv, CrkTreeInv
        <5> QED  BY <1>3, <4>2, <5>2, CrackedFacts
      <4>3. CASE q \notin DOMAIN tree[x]
        <5>1. q \in Children(path) /\ ~CRKJ!Leaf(x, path)
          BY <1>3, <4>3, CrackedFacts
        <5>2. Len(path) + 1 < CrewLevels
          BY <1>3, <3>3, <5>1, ChildPath
        <5> QED  BY <1>4, <1>5, <3>3, <5>1, <5>2
      <4> QED  BY <4>1, <4>2, <4>3
    <3> QED  BY <2>2, <3>1, <3>2, <3>3
  <2> QED  BY <2>1, <2>2
<1>9. CrkTreeInv'
  BY <1>0, <1>5, <1>7, <1>8 DEF CrkTreeInv
<1> QED  BY <1>2, <1>9 DEF CrkInv

(* So do the steps that neither crack nor move a thread. *)
LEMMA CrkOtherStep ==
  ASSUME algorithm' = algorithm, CrkInv, UNCHANGED << tree, crew, pc, p >>
  PROVE  CrkInv'
<1>1. \A x, path : CRKJ!Leaf(x, path)' <=> CRKJ!Leaf(x, path)
  BY DEF CRKJ!Leaf
<1>2. CrewLevels' = CrewLevels
  BY DEF CrewLevels
<1> QED  BY <1>1, <1>2 DEF CrkInv, CrkPhaseInv, CrkTreeInv

(* What the invariant says: the partitions of two threads differ in the     *)
(* bits of the crew's levels, so a slice of both is a leaf.                 *)
LEMMA CrkSafe ==
  ASSUME algorithm \in Cracking \cap Algorithms, CrkInv
  PROVE  CRKJ!SlicesPrivate
<1>0. CrkConstants /\ CrewLevels \in Nat /\ Levels <= CrewLevels /\ NUM_BITS \in Nat
      /\ Levels \in 0 .. NUM_BITS
  BY CrkSizes DEF CrkConstants
<1>1. CRKJ!Threads = Threads /\ CRKJ!Relations = Relations
  BY <1>0 DEF CRKJ!Threads, CRKJ!nthreads, CrkConstants, Threads, CRKJ!Relations, Relations
<1>2. ASSUME NEW x \in Relations, NEW t \in Threads, NEW u \in Threads, t # u, pc[t] = "next",
             NEW q \in t * CRKJ!PartPerThread .. (t + 1) * CRKJ!PartPerThread - 1,
             NEW r \in u * CRKJ!PartPerThread .. (u + 1) * CRKJ!PartPerThread - 1,
             CRKJ!Slice(x, q) = CRKJ!Slice(x, r), ~CRKJ!Leaf(x, CRKJ!Slice(x, q))
      PROVE  FALSE
  <2>1. /\ q \in 0 .. 2 ^ NUM_BITS - 1 /\ q \div 2 ^ (NUM_BITS - Levels) = t
        /\ r \in 0 .. 2 ^ NUM_BITS - 1 /\ r \div 2 ^ (NUM_BITS - Levels) = u
    BY <1>0, OwnPartitions
  <2>2. q \in Nat /\ r \in Nat
    BY <2>1
  <2>3. PICK s : s = CRKJ!Slice(x, q)
    OBVIOUS
  <2>4. SliceOf(x, q, s) /\ SliceOf(x, r, s)
    BY <1>0, <1>2, <2>2, <2>3, SliceFound DEF CrkInv, CrkTreeInv
  <2>5. crew[x] = {}
    BY <1>2 DEF CrkInv, CrkPhaseInv
  <2>6. Len(s) >= Levels /\ Len(s) \in Nat
    <3>1. Len(s) >= CrewLevels
      BY <1>0, <1>2, <2>2, <2>3, <2>4, <2>5, SliceDeep DEF CrkInv
    <3> QED  BY <1>0, <2>4, <3>1 DEF SliceOf
  <2>7. \A d \in 1 .. Levels : CRKJ!PathOf(q)[d] = CRKJ!PathOf(r)[d]
    <3>1. \A d \in 1 .. Levels : d \in 1 .. Len(s)
      BY <1>0, <2>6
    <3> QED  BY <2>4, <3>1 DEF SliceOf
  <2>8. q \div 2 ^ (NUM_BITS - Levels) = r \div 2 ^ (NUM_BITS - Levels)
    BY <1>0, <2>1, <2>7, SamePath
  <2> QED  BY <1>2, <2>1, <2>8
<1> QED  BY <1>1, <1>2 DEF CRKJ!SlicesPrivate

-----------------------------------------------------------------------------
(* Every join starts in its part of the invariant, ... *)
LEMMA InitIInv == Init => IInv
<1> SUFFICES ASSUME Init PROVE IInv
  OBVIOUS
<1>1. algorithm \in Algorithms
  BY DEF Init
<1>2. algorithm = "PHT_o" => PHT_o!Init
  BY DEF Init
<1>3. algorithm = "MWAY" => MWAY!Init
  BY DEF Init
<1>4. /\ algorithm = "CRKJ" => CRKJ!Init
      /\ algorithm = "CRKJF" => CRKJF!Init
      /\ algorithm = "CRKJS" => CRKJS!Init
      /\ algorithm = "CRKJS_cut" => CRKJS_cut!Init
  BY DEF Init
<1>5. algorithm \in Cracking => CrkInv
  BY <1>1, <1>4, CRKJInit, CRKJFInit, CRKJSInit, CRKJScutInit DEF Cracking
<1> QED  BY <1>1, <1>2, <1>3, <1>5, PHTInit, MWAYInit DEF IInv

(* ... and every step of it stays there, be it one of a crack join ... *)
LEMMA CrkStep ==
  ASSUME algorithm \in Cracking \cap Algorithms, CrkInv, Next
  PROVE  CrkInv'
<1>0. algorithm' = algorithm /\ tree = [y \in Relations |-> tree[y]]
  BY OneJoin DEF CrkInv, CrkTreeInv
<1>1. \/ \E t \in Threads : CrkThread(t)
      \/ \E x \in Relations : \E path \in crew[x] : CrkCrew(x, path)
      \/ UNCHANGED << tree, crew, pc, p >>
  <2>1. CASE algorithm = "CRKJ"
    BY <1>0, <2>1, OneJoin, CRKJStep, CRKJCrew, CrkQuiet
  <2>2. CASE algorithm = "CRKJF"
    BY <1>0, <2>2, OneJoin, CRKJFStep, CRKJFCrew, CrkQuiet
  <2>3. CASE algorithm = "CRKJS"
    BY <1>0, <2>3, OneJoin, CRKJSStep, CRKJSCrew, CrkQuiet
  <2>4. CASE algorithm = "CRKJS_cut"
    BY <1>0, <2>4, OneJoin, CRKJScutStep, CRKJScutCrew, CrkQuiet
  <2> QED  BY <2>1, <2>2, <2>3, <2>4 DEF Cracking
<1> QED  BY <1>0, <1>1, CrkThreadStep, CrkCrewStep, CrkOtherStep

(* ... or of any other. *)
LEMMA NextIInv == IInv /\ [Next]_vars => IInv'
<1> SUFFICES ASSUME IInv, [Next]_vars PROVE IInv'
  OBVIOUS
<1>1. CASE Next
  <2>1. algorithm' = algorithm /\ algorithm' \in Algorithms'
    BY <1>1, OneJoin DEF IInv, Algorithms
  <2>2. CASE algorithm = "PHT_o"
    <3>1. PHTInv'
      BY <1>1, <2>2, OneJoin, PHTPhaseStep, PHTLatchStep, PHTFreeStep, PHTOtherStep DEF IInv,
         PHTInv
    <3> QED  BY <2>1, <2>2, <3>1 DEF IInv, Cracking
  <2>3. CASE algorithm = "MWAY"
    <3>1. MWAYInv'
      BY <1>1, <2>3, OneJoin, MWAYStep, MWAYOtherStep DEF IInv
    <3> QED  BY <2>1, <2>3, <3>1 DEF IInv, Cracking
  <2>4. CASE algorithm \in Cracking
    <3>1. CrkInv'
      BY <1>1, <2>4, CrkStep DEF IInv
    <3> QED  BY <2>1, <2>4, <3>1 DEF IInv, Cracking
  <2>5. CASE algorithm \notin {"PHT_o", "MWAY"} \cup Cracking
    BY <2>1, <2>5 DEF IInv, Cracking
  <2> QED  BY <2>2, <2>3, <2>4, <2>5
<1>2. CASE UNCHANGED vars
  <2>1. algorithm' = algorithm /\ algorithm' \in Algorithms'
    BY <1>2 DEF IInv, Algorithms, vars
  <2>2. algorithm = "PHT_o" => PHTInv'
    BY <1>2, PHTOtherStep DEF IInv
  <2>3. algorithm = "MWAY" => MWAYInv'
    BY <1>2, MWAYOtherStep DEF IInv
  <2>4. algorithm \in Cracking => CrkInv'
    BY <1>2, <2>1, CrkQuiet, CrkOtherStep DEF IInv
  <2> QED  BY <2>1, <2>2, <2>3, <2>4 DEF IInv, Cracking
<1> QED  BY <1>1, <1>2

(* So the invariant holds in every run. *)
LEMMA RunInvariant == Spec => []IInv
BY InitIInv, NextIInv, PTL DEF Spec

(* With any number of threads, two threads of PHT_o never work on chains   *)
(* of the same bucket at a time, and the buckets that are worked on are    *)
(* the locked ones; a slice that a thread of a crack join may still crack  *)
(* belongs to no partition of another thread, although the threads crack   *)
(* without any synchronisation.                                            *)
THEOREM WorkIsExclusive == Spec => []Exclusive
<1>1. IInv => Exclusive
  BY PHTSafe, CrkSafe DEF IInv, PHTInv, Exclusive
<1> QED  BY <1>1, RunInvariant, PTL

(* No thread of PHT_o probes an overflow bucket after its buffer has been  *)
(* freed, and the threads of MWAY merge in a buffer that thread 0 has not  *)
(* freed yet, although it is not always the buffer of thread 0.            *)
THEOREM FreedIsUnused == Spec => []NoUseAfterFree
<1>1. IInv => NoUseAfterFree
  BY PHTSafe, MWAYSafe DEF IInv, NoUseAfterFree
<1> QED  BY <1>1, RunInvariant, PTL

-----------------------------------------------------------------------------
(* A relation of dense keys that fills the table's buckets on average. *)
DenseKeys(r) ==
  /\ r \in Seq(Nat \ {0}) /\ Len(r) > 0 /\ Len(r) % BUCKET_SIZE = 0
  /\ {r[n] : n \in DOMAIN r} = DOMAIN r

(* The positions of a thread of PHT, and how many barriers it has entered  *)
(* there.                                                                  *)
TablePhases == {"start", "build", "save", "bump", "probe", "done"}
TableRank(ph) ==
  CASE ph = "start" -> 0
    [] ph \in {"build", "save", "bump"} -> 1
    [] ph = "probe" -> 2
    [] OTHER -> 3

TablePhaseInv ==
  /\ BarrierInv
  /\ pc \in [Threads -> TablePhases]
  /\ \A t \in Threads :
       /\ Entered(t) = TableRank(pc[t])
       /\ pc[t] \in {"save", "bump"} => t \notin inside

TableTypeInv ==
  /\ DenseKeys(rkeys) /\ skeys \in Seq(Nat \ {0})
  /\ NThreads \in Nat \ {0} /\ BUCKET_SIZE \in Nat \ {0}
  /\ latch \in [PHT!Buckets -> BOOLEAN] /\ count \in [PHT!Buckets -> 0 .. BUCKET_SIZE]
  /\ tuples \in [PHT!Buckets -> [0 .. BUCKET_SIZE - 1 -> Nat]]
  /\ i \in [Threads -> Nat] /\ num_results \in [Threads -> Nat]

(* A thread goes through its share of R. While it saves a tuple it has the *)
(* bucket for itself.                                                      *)
Saving(t) == pc[t] \in {"save", "bump"}
TableThreadInv ==
  \A t \in Threads :
    /\ PHT!From(rkeys, t) <= i[t] /\ i[t] <= PHT!Upto(rkeys, t) + 1
    /\ Saving(t) => /\ i[t] <= PHT!Upto(rkeys, t) /\ latch[PHT!bucket(t)]
                    /\ \A u \in Threads : u # t /\ Saving(u) => PHT!bucket(u) # PHT!bucket(t)
    /\ pc[t] \in {"probe", "done"} => i[t] = PHT!Upto(rkeys, t) + 1

(* The tuples of a bucket that the threads have inserted so far. *)
Mine(x) == {n \in DOMAIN rkeys : PHT!Hash(rkeys[n]) = x}
Inserted(x) ==
  {n \in Mine(x) : \E t \in Threads : PHT!From(rkeys, t) <= n /\ n < i[t]}

(* A bucket holds these, each once, in its first slots. What is behind     *)
(* them is zero, but for a tuple that is saved and not yet counted.        *)
BucketInv(x) ==
  /\ \A k \in 0 .. count[x] - 1 : tuples[x][k] \in Inserted(x)
  /\ \A n \in Inserted(x) : \E k \in 0 .. count[x] - 1 : tuples[x][k] = n
  /\ \A k, l \in 0 .. count[x] - 1 : tuples[x][k] = tuples[x][l] => k = l
  /\ \A k \in count[x] .. BUCKET_SIZE - 1 :
       tuples[x][k] = 0 \/ \E t \in Threads : pc[t] = "bump" /\ PHT!bucket(t) = x
  /\ \A t \in Threads : pc[t] = "bump" /\ PHT!bucket(t) = x =>
       /\ count[x] < BUCKET_SIZE /\ tuples[x][count[x]] = i[t]
       /\ \A k \in count[x] + 1 .. BUCKET_SIZE - 1 : tuples[x][k] = 0
TableBucketInv == \A x \in PHT!Buckets : BucketInv(x)

(* A thread that is through has counted the matches of its share of S. *)
Matching(t) ==
  {m \in (DOMAIN rkeys) \X (PHT!From(skeys, t) .. PHT!Upto(skeys, t)) : rkeys[m[1]] = skeys[m[2]]}
TableResultInv ==
  /\ \A t \in Threads : pc[t] = "done" => num_results[t] = Cardinality(Matching(t))
  /\ PHT!ResultCorrect

TableInv == TablePhaseInv /\ TableTypeInv /\ TableThreadInv /\ TableBucketInv /\ TableResultInv

(* Where the shares of a thread begin and end, ...                         *)
LEMMA ShareType ==
  ASSUME NEW rel, rel \in Seq(Nat), NThreads \in Nat \ {0}, NEW t \in Threads
  PROVE  /\ PHT!From(rel, t) \in Nat \ {0} /\ PHT!Upto(rel, t) \in 0 .. Len(rel)
         /\ PHT!From(rel, t) <= PHT!Upto(rel, t) + 1
<1>1. Len(rel) \in Nat
  OBVIOUS
<1>2. PICK s : s = Len(rel) \div NThreads
  OBVIOUS
<1>3. /\ Len(rel) \div NThreads \in Nat
      /\ Len(rel) % NThreads \in 0 .. NThreads - 1
      /\ Len(rel) = NThreads * (Len(rel) \div NThreads) + (Len(rel) % NThreads)
  BY ONLY <1>1, NThreads \in Nat \ {0}, DivMod
<1>4. /\ s \in Nat /\ Len(rel) = NThreads * s + (Len(rel) % NThreads)
      /\ Len(rel) % NThreads \in Nat
  BY ONLY <1>2, <1>3, NThreads \in Nat \ {0}
<1>5. t \in Nat /\ t + 1 \in Nat /\ t <= t + 1 /\ t + 1 <= NThreads
  BY DEF Threads
<1>6. t * s \in Nat /\ (t + 1) * s <= NThreads * s /\ (t + 1) * s \in Nat /\ NThreads * s \in Nat
      /\ t * s <= (t + 1) * s
  BY ONLY <1>4, <1>5, NThreads \in Nat \ {0}, TimesMono
<1>7. (t + 1) * s <= Len(rel)
  BY ONLY <1>1, <1>4, <1>6
<1>8. PHT!From(rel, t) = t * s + 1 /\ PHT!Upto(rel, t) \in {Len(rel), (t + 1) * s}
  BY ONLY <1>2 DEF PHT!From, PHT!Upto, PHT!Share
<1> QED  BY ONLY <1>1, <1>6, <1>7, <1>8

(* ... that no two threads share a tuple, ...                              *)
LEMMA ShareOrder ==
  ASSUME NEW rel, rel \in Seq(Nat), NThreads \in Nat \ {0}, NEW t \in Threads, NEW u \in Threads, t < u
  PROVE  PHT!Upto(rel, t) < PHT!From(rel, u)
<1>1. /\ Len(rel) \in Nat /\ t \in Nat /\ u \in Nat /\ t + 1 <= u /\ t + 1 \in Nat
      /\ t # NThreads - 1
  BY DEF Threads
<1>2. PICK s : s = Len(rel) \div NThreads
  OBVIOUS
<1>3. s \in Nat
  BY ONLY <1>1, <1>2, NThreads \in Nat \ {0}, DivMod
<1>4. (t + 1) * s <= u * s /\ (t + 1) * s \in Nat /\ u * s \in Nat
  BY ONLY <1>1, <1>3, TimesMono
<1>5. PHT!From(rel, u) = u * s + 1 /\ PHT!Upto(rel, t) = (t + 1) * s
  BY ONLY <1>1, <1>2 DEF PHT!From, PHT!Upto, PHT!Share
<1> QED  BY ONLY <1>4, <1>5

(* ... not even one in the middle, ...                                     *)
LEMMA ShareUnique ==
  ASSUME NEW rel, rel \in Seq(Nat), NThreads \in Nat \ {0}, NEW t \in Threads, NEW u \in Threads,
         NEW n \in PHT!From(rel, t) .. PHT!Upto(rel, t), n \in PHT!From(rel, u) .. PHT!Upto(rel, u)
  PROVE  t = u
<1>1. /\ PHT!From(rel, t) \in Nat /\ PHT!Upto(rel, t) \in Nat
      /\ PHT!From(rel, u) \in Nat /\ PHT!Upto(rel, u) \in Nat /\ t \in Nat /\ u \in Nat
  BY ShareType DEF Threads
<1>2. ~(t < u)
  <2> SUFFICES ASSUME t < u PROVE FALSE
    OBVIOUS
  <2>1. PHT!Upto(rel, t) < PHT!From(rel, u)
    BY ShareOrder
  <2> QED  BY ONLY <1>1, <2>1, n \in PHT!From(rel, t) .. PHT!Upto(rel, t),
                n \in PHT!From(rel, u) .. PHT!Upto(rel, u)
<1>3. ~(u < t)
  <2> SUFFICES ASSUME u < t PROVE FALSE
    OBVIOUS
  <2>1. PHT!Upto(rel, u) < PHT!From(rel, t)
    BY ShareOrder
  <2> QED  BY ONLY <1>1, <2>1, n \in PHT!From(rel, t) .. PHT!Upto(rel, t),
                n \in PHT!From(rel, u) .. PHT!Upto(rel, u)
<1> QED  BY ONLY <1>1, <1>2, <1>3

(* ... and that every tuple is in a share.                                 *)
LEMMA ShareCover ==
  ASSUME NEW rel, rel \in Seq(Nat), NThreads \in Nat \ {0}, NEW n \in DOMAIN rel
  PROVE  \E t \in Threads : n \in PHT!From(rel, t) .. PHT!Upto(rel, t)
<1> DEFINE T == {t \in Threads : n <= PHT!Upto(rel, t)}
<1>1. Len(rel) \in Nat /\ n \in 1 .. Len(rel) /\ NThreads - 1 \in Threads /\ Threads \subseteq Nat
      /\ 0 \in Threads
  BY DEF Threads
<1>2. PHT!Upto(rel, NThreads - 1) = Len(rel)
  BY DEF PHT!Upto
<1>3. NThreads - 1 \in T /\ T \in SUBSET Nat
  <2>1. n <= PHT!Upto(rel, NThreads - 1)
    BY ONLY <1>1, <1>2
  <2>2. NThreads - 1 \in T
    BY ONLY <1>1, <2>1, Zenon DEF T
  <2> QED  BY ONLY <1>1, <2>2, Zenon DEF T
<1>4. PICK t \in T : \A u \in T : t <= u
  <2> HIDE DEF T
  <2> QED  BY <1>3, LeastElement
<1>5. t \in Threads /\ n <= PHT!Upto(rel, t) /\ t \in Nat
  BY <1>1, <1>4
<1>6. PHT!From(rel, t) \in Nat /\ PHT!Upto(rel, t) \in Nat
  BY <1>5, ShareType
<1>7. PHT!From(rel, t) <= n
  <2>1. CASE t = 0
    <3>1. PICK s : s = Len(rel) \div NThreads
      OBVIOUS
    <3>2. s \in Nat
      BY ONLY <1>1, <3>1, NThreads \in Nat \ {0}, DivMod
    <3>3. PHT!From(rel, 0) = 0 * s + 1
      BY ONLY <3>1 DEF PHT!From, PHT!Share
    <3> QED  BY ONLY <1>1, <2>1, <3>2, <3>3
  <2>2. CASE t # 0
    <3>1. t - 1 \in Threads /\ t - 1 # NThreads - 1 /\ t - 1 < t /\ t - 1 \in Nat /\ (t - 1) + 1 = t
      BY <1>5, <2>2 DEF Threads
    <3>2. ~(n <= PHT!Upto(rel, t - 1))
      BY <1>4, <1>5, <3>1
    <3>3. PICK s : s = Len(rel) \div NThreads
      OBVIOUS
    <3>4. s \in Nat
      BY ONLY <1>1, <3>3, NThreads \in Nat \ {0}, DivMod
    <3>5. PHT!Upto(rel, t - 1) = ((t - 1) + 1) * s /\ PHT!From(rel, t) = t * s + 1
      BY ONLY <3>1, <3>3 DEF PHT!From, PHT!Upto, PHT!Share
    <3>6. t * s \in Nat
      BY ONLY <1>5, <3>4, TimesMono
    <3>7. PHT!Upto(rel, t - 1) = t * s
      BY ONLY <3>1, <3>5
    <3> QED  BY ONLY <1>1, <3>2, <3>5, <3>6, <3>7
  <2> QED  BY <2>1, <2>2
<1> QED  BY ONLY <1>1, <1>5, <1>6, <1>7

-----------------------------------------------------------------------------
(* The table has a power of two of buckets, enough for all tuples.         *)
LEMMA TableSize ==
  ASSUME DenseKeys(rkeys), BUCKET_SIZE \in Nat \ {0}
  PROVE  /\ PHT!nb \in Nat \ {0} /\ Len(rkeys) \in Nat
         /\ Len(rkeys) <= BUCKET_SIZE * PHT!nb
<1>1. Len(rkeys) \in Nat /\ Len(rkeys) > 0 /\ Len(rkeys) % BUCKET_SIZE = 0
  BY DEF DenseKeys
<1>2. PICK n, q : n = Len(rkeys) /\ q = n \div BUCKET_SIZE
  OBVIOUS
<1>3. q \in Nat /\ n = BUCKET_SIZE * q /\ n \in Nat /\ n > 0
  <2>1. /\ Len(rkeys) \div BUCKET_SIZE \in Nat
        /\ Len(rkeys) = BUCKET_SIZE * (Len(rkeys) \div BUCKET_SIZE) + (Len(rkeys) % BUCKET_SIZE)
    BY ONLY <1>1, BUCKET_SIZE \in Nat \ {0}, DivMod
  <2>2. q \in Nat /\ n = BUCKET_SIZE * q + 0
    BY ONLY <1>1, <1>2, <2>1
  <2>3. BUCKET_SIZE * q \in Nat
    BY ONLY <2>2, BUCKET_SIZE \in Nat \ {0}, TimesMono
  <2> QED  BY ONLY <1>1, <1>2, <2>2, <2>3
<1>4. q > 0
  <2> SUFFICES ASSUME q = 0 PROVE FALSE
    BY <1>3
  <2> QED  BY ONLY <1>3, q = 0, BUCKET_SIZE \in Nat \ {0}
<1>5. q <= n
  BY ONLY <1>3, BUCKET_SIZE \in Nat \ {0}
<1> DEFINE S == {e \in 0 .. n : 2 ^ e >= q}
<1>6. n \in S
  <2>1. 2 ^ n > n /\ 2 ^ n \in Nat
    BY ONLY <1>3, PowGreater, PowType
  <2> QED  BY ONLY <1>3, <1>5, <2>1 DEF S
<1>7. PICK e \in S : \A c \in S : e <= c
  <2>1. S \in SUBSET Nat /\ S # {}
    BY ONLY <1>3, <1>6 DEF S
  <2> HIDE DEF S
  <2> QED  BY ONLY <2>1, LeastElement
<1>8. e \in 0 .. n /\ 2 ^ e >= q /\ 2 ^ e \in Nat \ {0} /\ e \in Nat
  BY <1>3, <1>7, PowType
<1>9. 2 ^ e < 2 * q
  <2>1. CASE e = 0
    <3>1. 2 ^ e = 1
      BY <2>1
    <3> QED  BY ONLY <1>3, <1>4, <3>1
  <2>2. CASE e # 0
    <3>1. e - 1 \in Nat /\ e - 1 \in 0 .. n /\ ~(e <= e - 1) /\ (e - 1) + 1 = e
      BY ONLY <1>3, <1>8, <2>2
    <3>2. e - 1 \notin S
      BY ONLY <1>7, <3>1
    <3>3. ~(2 ^ (e - 1) >= q)
      BY ONLY <3>1, <3>2 DEF S
    <3>4. 2 ^ e = 2 * 2 ^ (e - 1) /\ 2 ^ (e - 1) \in Nat
      <4>1. 2 ^ ((e - 1) + 1) = 2 * 2 ^ (e - 1) /\ 2 ^ (e - 1) \in Nat
        BY ONLY <3>1, PowNext, PowType
      <4> QED  BY ONLY <3>1, <4>1
    <3> QED  BY ONLY <1>3, <3>3, <3>4
  <2> QED  BY <2>1, <2>2
<1>10. \E x \in {2 ^ c : c \in 0 .. n} : x >= q /\ x < 2 * q
  <2>1. 2 ^ e \in {2 ^ c : c \in 0 .. n}
    BY ONLY <1>8
  <2> QED  BY ONLY <1>8, <1>9, <2>1
<1>11. PHT!nb = CHOOSE x \in {2 ^ c : c \in 0 .. n} : x >= q /\ x < 2 * q
  BY ONLY <1>2 DEF PHT!nb, PHT!NumBuckets
<1>12. PHT!nb \in {2 ^ c : c \in 0 .. n} /\ PHT!nb >= q
  BY ONLY <1>10, <1>11
<1>13. PICK c \in 0 .. n : PHT!nb = 2 ^ c
  BY ONLY <1>12
<1>14. PHT!nb \in Nat \ {0}
  BY ONLY <1>3, <1>13, PowType
<1>15. q * BUCKET_SIZE <= PHT!nb * BUCKET_SIZE
  BY ONLY <1>3, <1>12, <1>14, BUCKET_SIZE \in Nat \ {0}, TimesMono
<1> QED  BY ONLY <1>1, <1>2, <1>3, <1>14, <1>15, BUCKET_SIZE \in Nat \ {0}

(* Dense keys are all different, ...                                       *)
LEMMA KeysDiffer ==
  ASSUME DenseKeys(rkeys), NEW n \in DOMAIN rkeys, NEW k \in DOMAIN rkeys, rkeys[n] = rkeys[k]
  PROVE  n = k
<1>1. rkeys \in [DOMAIN rkeys -> DOMAIN rkeys] /\ IsFiniteSet(DOMAIN rkeys)
      /\ \A y \in DOMAIN rkeys : \E x \in DOMAIN rkeys : rkeys[x] = y
  <2>1. rkeys \in Seq(Nat \ {0}) /\ {rkeys[x] : x \in DOMAIN rkeys} = DOMAIN rkeys
    BY DEF DenseKeys
  <2>2. DOMAIN rkeys = 1 .. Len(rkeys) /\ Len(rkeys) \in Nat /\ rkeys = [x \in DOMAIN rkeys |-> rkeys[x]]
    BY ONLY <2>1
  <2>3. IsFiniteSet(DOMAIN rkeys)
    BY ONLY <2>2, FS_Interval
  <2> QED  BY ONLY <2>1, <2>2, <2>3
<1>2. rkeys \in Surjection(DOMAIN rkeys, DOMAIN rkeys)
  BY ONLY <1>1 DEF Surjection
<1>3. rkeys \in Injection(DOMAIN rkeys, DOMAIN rkeys)
  BY ONLY <1>1, <1>2, FS_SurjSameCardinalityImpliesInj
<1> QED  BY ONLY <1>3, n \in DOMAIN rkeys, k \in DOMAIN rkeys, rkeys[n] = rkeys[k] DEF Injection, IsInjective

(* ... so that a bucket gets no more than it has slots.                    *)
LEMMA TableFits ==
  ASSUME DenseKeys(rkeys), BUCKET_SIZE \in Nat \ {0}
  PROVE  /\ \A n \in DOMAIN rkeys : PHT!Hash(rkeys[n]) \in PHT!Buckets
         /\ \A x \in PHT!Buckets : IsFiniteSet(Mine(x)) /\ Cardinality(Mine(x)) <= BUCKET_SIZE
<1>1. PICK N : N = PHT!nb
  OBVIOUS
<1>2. N \in Nat \ {0} /\ Len(rkeys) \in Nat /\ Len(rkeys) <= BUCKET_SIZE * N
  BY <1>1, TableSize
<1>3. /\ rkeys \in Seq(Nat) /\ DOMAIN rkeys = 1 .. Len(rkeys)
      /\ \A n \in DOMAIN rkeys : rkeys[n] \in 1 .. Len(rkeys)
  <2>1. rkeys \in Seq(Nat \ {0}) /\ {rkeys[n] : n \in DOMAIN rkeys} = DOMAIN rkeys
    BY DEF DenseKeys
  <2>2. DOMAIN rkeys = 1 .. Len(rkeys)
    BY ONLY <2>1
  <2>3. \A n \in DOMAIN rkeys : rkeys[n] \in DOMAIN rkeys
    BY ONLY <2>1
  <2>4. rkeys \in Seq(Nat)
    BY ONLY <2>1
  <2> QED  BY ONLY <2>2, <2>3, <2>4
<1>4. \A key : PHT!Hash(key) = key % N
  BY <1>1 DEF PHT!Hash
<1>5. PHT!Buckets = 0 .. N - 1
  BY <1>1 DEF PHT!Buckets
<1>6. \A n \in DOMAIN rkeys : rkeys[n] \in Nat
  BY ONLY <1>2, <1>3
<1>7. \A n \in DOMAIN rkeys : PHT!Hash(rkeys[n]) \in PHT!Buckets
  <2> TAKE n \in DOMAIN rkeys
  <2>1. rkeys[n] % N \in 0 .. N - 1
    BY ONLY <1>2, <1>6, DivMod
  <2> QED  BY ONLY <1>4, <1>5, <2>1
<1>8. ASSUME NEW x \in PHT!Buckets
      PROVE  IsFiniteSet(Mine(x)) /\ Cardinality(Mine(x)) <= BUCKET_SIZE
  <2> DEFINE D == IF x = 0 THEN 1 .. BUCKET_SIZE ELSE 0 .. BUCKET_SIZE - 1
             f == [n \in Mine(x) |-> rkeys[n] \div N]
  <2>1. IsFiniteSet(D) /\ Cardinality(D) = BUCKET_SIZE
    <3>1. 1 \in Int /\ 0 \in Int /\ BUCKET_SIZE \in Int /\ BUCKET_SIZE - 1 \in Int
      OBVIOUS
    <3>2. /\ IsFiniteSet(1 .. BUCKET_SIZE) /\ Cardinality(1 .. BUCKET_SIZE) = BUCKET_SIZE
          /\ IsFiniteSet(0 .. BUCKET_SIZE - 1) /\ Cardinality(0 .. BUCKET_SIZE - 1) = BUCKET_SIZE
      BY <3>1, FS_Interval
    <3> QED  BY <3>2
  <2>2. ASSUME NEW n \in Mine(x)
        PROVE  /\ rkeys[n] \div N \in D /\ rkeys[n] = N * (rkeys[n] \div N) + x
    <3>1. n \in DOMAIN rkeys /\ rkeys[n] % N = x /\ rkeys[n] \in Nat
      BY <1>4, <1>6 DEF Mine
    <3>2. /\ rkeys[n] \div N \in Nat
          /\ rkeys[n] = N * (rkeys[n] \div N) + (rkeys[n] % N)
      BY ONLY <1>2, <3>1, DivMod
    <3>3. PICK d, key : d = rkeys[n] \div N /\ key = rkeys[n]
      OBVIOUS
    <3>4. d \in Nat /\ key = N * d + x /\ key \in 1 .. Len(rkeys) /\ x \in Nat
      BY ONLY <1>2, <1>3, <1>5, <3>1, <3>2, <3>3, x \in PHT!Buckets
    <3>5. N * d \in Nat /\ N * d <= N * d + x
      BY ONLY <1>2, <3>4
    <3>6. d <= BUCKET_SIZE
      <4> SUFFICES ASSUME BUCKET_SIZE + 1 <= d PROVE FALSE
        BY <3>4, BUCKET_SIZE \in Nat \ {0}
      <4>1. (BUCKET_SIZE + 1) * N <= d * N
        BY ONLY <1>2, <3>4, BUCKET_SIZE + 1 <= d, BUCKET_SIZE \in Nat \ {0}, TimesMono
      <4> QED  BY ONLY <1>2, <3>4, <3>5, <4>1, BUCKET_SIZE \in Nat \ {0}
    <3>7. x # 0 => d < BUCKET_SIZE
      <4> SUFFICES ASSUME x # 0, d = BUCKET_SIZE PROVE FALSE
        BY <3>4, <3>6, BUCKET_SIZE \in Nat \ {0}
      <4> QED  BY ONLY <1>2, <3>4, x # 0, d = BUCKET_SIZE, BUCKET_SIZE \in Nat \ {0}
    <3>8. x = 0 => d > 0
      <4> SUFFICES ASSUME x = 0, d = 0 PROVE FALSE
        BY <3>4
      <4> QED  BY ONLY <1>2, <3>4, x = 0, d = 0
    <3>9. d \in D
      BY ONLY <3>4, <3>6, <3>7, <3>8, BUCKET_SIZE \in Nat \ {0}
    <3> QED  BY ONLY <3>3, <3>4, <3>9
  <2>3. \A n, k \in Mine(x) : rkeys[n] \div N = rkeys[k] \div N => n = k
    <3> SUFFICES ASSUME NEW n \in Mine(x), NEW k \in Mine(x), rkeys[n] \div N = rkeys[k] \div N
                 PROVE  n = k
      OBVIOUS
    <3>1. rkeys[n] = rkeys[k]
      BY ONLY <2>2, rkeys[n] \div N = rkeys[k] \div N
    <3> QED  BY <3>1, KeysDiffer DEF Mine
  <2> HIDE DEF D
  <2>4. f \in Injection(Mine(x), D)
    <3>1. f \in [Mine(x) -> D]
      BY ONLY <2>2
    <3>2. \A n, k \in Mine(x) : f[n] = f[k] => n = k
      BY ONLY <2>3
    <3> HIDE DEF f
    <3> QED  BY ONLY <3>1, <3>2 DEF Injection, IsInjective
  <2> HIDE DEF f
  <2> QED  BY ONLY <2>1, <2>4, FS_Injection
<1> QED  BY ONLY <1>7, <1>8

-----------------------------------------------------------------------------
(* How a step of a thread of PHT moves it: into the next barrier, within a *)
(* phase, or out of a barrier.                                             *)
LEMMA TableMoves ==
  ASSUME NEW t \in Threads, PHT!Step(t)
  PROVE  \/ \E ph, to \in TablePhases :
              /\ pc[t] = ph /\ Enters(t) /\ pc' = [pc EXCEPT ![t] = to]
              /\ TableRank(to) = TableRank(ph) + 1 /\ to \notin {"save", "bump"}
         \/ \E ph, to \in TablePhases :
              /\ pc[t] = ph /\ pc' = [pc EXCEPT ![t] = to] /\ TableRank(to) = TableRank(ph)
              /\ UNCHANGED << inside, passed, opened >>
              /\ t \notin inside \/ ph \in {"save", "bump"}
         \/ Leaves(t) /\ pc' = pc
<1>1. CASE PHT!Start(t) \/ PHT!Built(t) \/ PHT!Probe(t)
  BY <1>1 DEF PHT!Start, PHT!Built, PHT!Probe, PHT!In, PHT!Goto, PHT!Bar!Enter, Enters,
              TablePhases, TableRank
<1>2. CASE PHT!Lock(t) \/ PHT!Save(t) \/ PHT!Bump(t)
  BY <1>2 DEF PHT!Lock, PHT!Save, PHT!Bump, PHT!In, PHT!Goto, PHT!bar, TablePhases, TableRank
<1>3. CASE PHT!Leave(t)
  BY <1>3 DEF PHT!Leave, PHT!Bar!Leave, Leaves
<1> QED  BY <1>1, <1>2, <1>3 DEF PHT!Step

(* So it keeps count of the barriers it has entered. *)
LEMMA TablePhaseStep ==
  ASSUME TablePhaseInv, NEW t \in Threads, PHT!Step(t)
  PROVE  TablePhaseInv'
<1> USE DEF TablePhaseInv
<1>1. ASSUME NEW ph \in TablePhases, NEW to \in TablePhases,
             pc[t] = ph, Enters(t), pc' = [pc EXCEPT ![t] = to],
             TableRank(to) = TableRank(ph) + 1, to \notin {"save", "bump"}
      PROVE  TablePhaseInv'
  <2>1. BarrierInv' /\ Entered(t)' = Entered(t) + 1 /\ \A u \in Threads : u # t => Entered(u)' = Entered(u)
    BY <1>1, EnterStep
  <2> QED  BY <1>1, <2>1 DEF Enters
<1>2. ASSUME NEW ph \in TablePhases, NEW to \in TablePhases,
             pc[t] = ph, pc' = [pc EXCEPT ![t] = to], TableRank(to) = TableRank(ph),
             UNCHANGED << inside, passed, opened >>, t \notin inside \/ ph \in {"save", "bump"}
      PROVE  TablePhaseInv'
  <2>1. BarrierInv' /\ \A u \in Threads : Entered(u)' = Entered(u)
    BY <1>2, NoBarrierStep
  <2> QED  BY <1>2, <2>1
<1>3. CASE Leaves(t) /\ pc' = pc
  <2>1. BarrierInv' /\ \A u \in Threads : Entered(u)' = Entered(u)
    BY <1>3, LeaveStep
  <2> QED  BY <1>3, <2>1 DEF Leaves
<1> QED  BY <1>1, <1>2, <1>3, TableMoves

(* What depends on the relations alone. *)
LEMMA TableFixed ==
  ASSUME UNCHANGED << rkeys, skeys >>
  PROVE  /\ PHT!Buckets' = PHT!Buckets /\ PHT!nb' = PHT!nb
         /\ \A x : Mine(x)' = Mine(x)
         /\ \A t : Matching(t)' = Matching(t)
         /\ (DenseKeys(rkeys))' <=> DenseKeys(rkeys)
         /\ \A t : /\ (PHT!From(rkeys, t))' = PHT!From(rkeys, t)
                   /\ (PHT!Upto(rkeys, t))' = PHT!Upto(rkeys, t)
                   /\ i'[t] = i[t] => PHT!bucket(t)' = PHT!bucket(t)
                   /\ PHT!bucket(t) = PHT!Hash(rkeys[i[t]])
<1>1. rkeys' = rkeys /\ skeys' = skeys
  OBVIOUS
<1>2. PHT!nb' = PHT!nb
  BY <1>1 DEF PHT!nb
<1>3. PHT!Buckets' = PHT!Buckets
  BY <1>2 DEF PHT!Buckets
<1>4. \A key : PHT!Hash(key)' = PHT!Hash(key)
  BY <1>2 DEF PHT!Hash
<1>5. \A x : Mine(x)' = Mine(x)
  BY <1>1, <1>2 DEF Mine, PHT!Hash
<1>6. \A t : Matching(t)' = Matching(t)
  BY <1>1 DEF Matching
<1>7. (DenseKeys(rkeys))' <=> DenseKeys(rkeys)
  BY <1>1
<1>8. ASSUME NEW t
      PROVE  /\ (PHT!From(rkeys, t))' = PHT!From(rkeys, t)
             /\ (PHT!Upto(rkeys, t))' = PHT!Upto(rkeys, t)
             /\ i'[t] = i[t] => PHT!bucket(t)' = PHT!bucket(t)
             /\ PHT!bucket(t) = PHT!Hash(rkeys[i[t]])
  BY <1>1, <1>2 DEF PHT!bucket, PHT!Hash
<1> QED  BY <1>2, <1>3, <1>5, <1>6, <1>7, <1>8

(* A step that touches no bucket's tuples and no thread's tuple, and after *)
(* which the same threads have saved a tuple that is not counted, leaves   *)
(* what the buckets hold.                                                  *)
LEMMA BucketFrame ==
  ASSUME TableBucketInv, UNCHANGED << rkeys, skeys, count, tuples, i >>,
         \A t \in Threads : pc'[t] = "bump" <=> pc[t] = "bump"
  PROVE  TableBucketInv'
<1>1. /\ PHT!Buckets' = PHT!Buckets /\ (\A x : Mine(x)' = Mine(x))
      /\ \A t : /\ (PHT!From(rkeys, t))' = PHT!From(rkeys, t)
                /\ PHT!bucket(t)' = PHT!bucket(t)
  BY TableFixed
<1>2. \A x : Inserted(x)' = Inserted(x)
  BY <1>1 DEF Inserted
<1> QED  BY <1>1, <1>2 DEF TableBucketInv, BucketInv

(* If it also leaves the latches and who is saving, the threads' part of   *)
(* the invariant stays.                                                    *)
LEMMA ThreadFrame ==
  ASSUME TableThreadInv, UNCHANGED << rkeys, skeys, latch, i >>,
         \A t \in Threads : /\ Saving(t)' <=> Saving(t)
                            /\ pc'[t] \in {"probe", "done"} => i[t] = PHT!Upto(rkeys, t) + 1
  PROVE  TableThreadInv'
<1>1. \A t : /\ (PHT!From(rkeys, t))' = PHT!From(rkeys, t)
             /\ (PHT!Upto(rkeys, t))' = PHT!Upto(rkeys, t)
             /\ PHT!bucket(t)' = PHT!bucket(t)
  BY TableFixed
<1> QED  BY <1>1 DEF TableThreadInv

(* A step that changes no count of results and after which the same        *)
(* threads are through.                                                    *)
LEMMA ResultFrame ==
  ASSUME TableResultInv, UNCHANGED << rkeys, skeys, num_results, result, finished >>,
         \A t \in Threads : pc'[t] = "done" <=> pc[t] = "done"
  PROVE  TableResultInv'
<1>1. \A t : Matching(t)' = Matching(t)
  BY TableFixed
<1>2. PHT!ResultCorrect' <=> PHT!ResultCorrect
  BY DEF PHT!ResultCorrect
<1> QED  BY <1>1, <1>2 DEF TableResultInv

(* The types of what only the relations decide stay. *)
LEMMA TypeFrame ==
  ASSUME TableTypeInv, UNCHANGED << rkeys, skeys >>,
         latch' \in [PHT!Buckets -> BOOLEAN], count' \in [PHT!Buckets -> 0 .. BUCKET_SIZE],
         tuples' \in [PHT!Buckets -> [0 .. BUCKET_SIZE - 1 -> Nat]],
         i' \in [Threads -> Nat], num_results' \in [Threads -> Nat]
  PROVE  TableTypeInv'
<1>1. PHT!Buckets' = PHT!Buckets /\ ((DenseKeys(rkeys))' <=> DenseKeys(rkeys))
  BY TableFixed
<1> QED  BY <1>1 DEF TableTypeInv

(* The tuple of a thread that is not through with R: it is in one bucket,  *)
(* and no thread has inserted it.                                          *)
LEMMA TablePlace ==
  ASSUME TableTypeInv, TableThreadInv, NEW t \in Threads, i[t] <= PHT!Upto(rkeys, t)
  PROVE  /\ i[t] \in DOMAIN rkeys /\ i[t] \in Nat \ {0} /\ PHT!bucket(t) \in PHT!Buckets
         /\ \A x : i[t] \in Mine(x) <=> x = PHT!bucket(t)
         /\ \A x : i[t] \notin Inserted(x)
<1>1. rkeys \in Seq(Nat) /\ NThreads \in Nat \ {0} /\ DenseKeys(rkeys) /\ BUCKET_SIZE \in Nat \ {0}
      /\ i \in [Threads -> Nat]
  <2>1. DenseKeys(rkeys) /\ NThreads \in Nat \ {0} /\ BUCKET_SIZE \in Nat \ {0} /\ i \in [Threads -> Nat]
    BY DEF TableTypeInv
  <2>2. rkeys \in Seq(Nat \ {0})
    BY <2>1 DEF DenseKeys
  <2> QED  BY ONLY <2>1, <2>2
<1>2. \A u \in Threads : /\ PHT!From(rkeys, u) \in Nat \ {0} /\ PHT!Upto(rkeys, u) \in 0 .. Len(rkeys)
                         /\ PHT!From(rkeys, u) <= i[u] /\ i[u] <= PHT!Upto(rkeys, u) + 1
  BY <1>1, ShareType DEF TableThreadInv
<1>3. Len(rkeys) \in Nat /\ DOMAIN rkeys = 1 .. Len(rkeys)
  BY <1>1
<1>4. i[t] \in DOMAIN rkeys /\ i[t] \in Nat \ {0}
  BY ONLY <1>1, <1>2, <1>3, i[t] <= PHT!Upto(rkeys, t), t \in Threads
<1>5. PHT!bucket(t) = PHT!Hash(rkeys[i[t]])
  BY DEF PHT!bucket
<1>6. PHT!bucket(t) \in PHT!Buckets
  BY <1>1, <1>4, <1>5, TableFits
<1>7. \A x : i[t] \in Mine(x) <=> x = PHT!bucket(t)
  BY <1>4, <1>5 DEF Mine
<1>8. ASSUME NEW x, i[t] \in Inserted(x) PROVE FALSE
  <2>1. PICK u \in Threads : PHT!From(rkeys, u) <= i[t] /\ i[t] < i[u]
    BY <1>8 DEF Inserted
  <2>2. i[t] \in PHT!From(rkeys, t) .. PHT!Upto(rkeys, t) /\ i[t] \in PHT!From(rkeys, u) .. PHT!Upto(rkeys, u)
    BY ONLY <1>1, <1>2, <1>4, <2>1, i[t] <= PHT!Upto(rkeys, t), t \in Threads, u \in Threads
  <2>3. t = u
    BY <1>1, <2>2, ShareUnique
  <2> QED  BY ONLY <1>4, <2>1, <2>3
<1> QED  BY <1>4, <1>6, <1>7, <1>8

(* There is room for the tuple that a thread saves, though no code checks: *)
(* the bucket holds other tuples of R with the same hash, each once, and   *)
(* not this one.                                                           *)
LEMMA TableRoom ==
  ASSUME TableTypeInv, TableThreadInv, TableBucketInv, NEW t \in Threads, Saving(t)
  PROVE  count[PHT!bucket(t)] < BUCKET_SIZE
<1>1. PICK x : x = PHT!bucket(t)
  OBVIOUS
<1>2. i[t] <= PHT!Upto(rkeys, t)
  BY DEF TableThreadInv
<1>3. x \in PHT!Buckets /\ i[t] \in Mine(x) /\ i[t] \notin Inserted(x)
  BY <1>1, <1>2, TablePlace
<1>4. count[x] \in Nat /\ BUCKET_SIZE \in Nat /\ IsFiniteSet(Mine(x)) /\ Cardinality(Mine(x)) <= BUCKET_SIZE
  BY <1>3, TableFits DEF TableTypeInv
<1>5. BucketInv(x)
  BY <1>3 DEF TableBucketInv
<1>6. Inserted(x) \cup {i[t]} \subseteq Mine(x)
  BY <1>3 DEF Inserted
<1>7. IsFiniteSet(Inserted(x)) /\ Cardinality(Inserted(x)) \in Nat /\ Cardinality(Inserted(x)) + 1 <= BUCKET_SIZE
  <2>1. IsFiniteSet(Inserted(x)) /\ IsFiniteSet(Inserted(x) \cup {i[t]})
    BY ONLY <1>4, <1>6, FS_Subset
  <2>2. Cardinality(Inserted(x) \cup {i[t]}) <= Cardinality(Mine(x))
    BY ONLY <1>4, <1>6, FS_Subset
  <2>3. Cardinality(Inserted(x) \cup {i[t]}) = Cardinality(Inserted(x)) + 1
    BY ONLY <1>3, <2>1, FS_AddElement
  <2>4. Cardinality(Inserted(x)) \in Nat /\ Cardinality(Mine(x)) \in Nat
    BY <1>4, <2>1, FS_CardinalityType
  <2> QED  BY ONLY <1>4, <2>1, <2>2, <2>3, <2>4
<1>8. count[x] <= Cardinality(Inserted(x))
  <2> DEFINE K == 0 .. count[x] - 1
             f == [k \in K |-> tuples[x][k]]
  <2>1. IsFiniteSet(K) /\ Cardinality(K) = count[x]
    <3>1. 0 \in Int /\ count[x] - 1 \in Int
      BY <1>4
    <3>2. IsFiniteSet(0 .. count[x] - 1)
          /\ Cardinality(0 .. count[x] - 1) = IF 0 > count[x] - 1 THEN 0 ELSE (count[x] - 1) - 0 + 1
      BY ONLY <3>1, FS_Interval
    <3> QED  BY <1>4, <3>2
  <2>2. f \in Injection(K, Inserted(x))
    <3>1. \A k \in K : tuples[x][k] \in Inserted(x)
      BY <1>5 DEF BucketInv
    <3>2. \A k, l \in K : tuples[x][k] = tuples[x][l] => k = l
      BY <1>5 DEF BucketInv
    <3> HIDE DEF K
    <3>3. f \in [K -> Inserted(x)] /\ \A k, l \in K : f[k] = f[l] => k = l
      BY ONLY <3>1, <3>2
    <3> HIDE DEF f
    <3> QED  BY <3>3 DEF Injection, IsInjective
  <2> HIDE DEF K, f
  <2> QED  BY ONLY <1>7, <2>1, <2>2, FS_Injection
<1> QED  BY ONLY <1>1, <1>4, <1>7, <1>8

-----------------------------------------------------------------------------
(* A thread that takes a latch has the bucket for itself: whoever is saving *)
(* in it holds the latch.                                                  *)
LEMMA LockStep ==
  ASSUME TableTypeInv, TablePhaseInv, TableThreadInv, TableBucketInv, TableResultInv,
         NEW t \in Threads, PHT!Lock(t)
  PROVE  TableTypeInv' /\ TableThreadInv' /\ TableBucketInv' /\ TableResultInv'
<1>1. /\ pc[t] = "build" /\ i[t] <= PHT!Upto(rkeys, t) /\ ~latch[PHT!bucket(t)]
      /\ latch' = [latch EXCEPT ![PHT!bucket(t)] = TRUE]
      /\ pc' = [pc EXCEPT ![t] = "save"]
      /\ UNCHANGED << rkeys, skeys, count, tuples, i, num_results, result, finished >>
  BY DEF PHT!Lock, PHT!In, PHT!Goto
<1>2. PHT!bucket(t) \in PHT!Buckets
  BY <1>1, TablePlace
<1>3. /\ pc' = [u \in Threads |-> pc'[u]] /\ pc'[t] = "save"
      /\ \A u \in Threads : u # t => pc'[u] = pc[u]
  BY <1>1 DEF TablePhaseInv
<1>4. TableTypeInv'
  BY <1>1, <1>2, TypeFrame DEF TableTypeInv
<1>5. TableBucketInv'
  BY <1>1, <1>3, BucketFrame
<1>6. TableResultInv'
  BY <1>1, <1>3, ResultFrame
<1>7. \A x \in PHT!Buckets : latch'[x] <=> (latch[x] \/ x = PHT!bucket(t))
  BY <1>1 DEF TableTypeInv
<1>8. \A u : /\ (PHT!From(rkeys, u))' = PHT!From(rkeys, u)
             /\ (PHT!Upto(rkeys, u))' = PHT!Upto(rkeys, u)
             /\ PHT!bucket(u)' = PHT!bucket(u)
  BY <1>1, TableFixed
<1>9. \A u \in Threads : /\ Saving(u)' <=> Saving(u) \/ u = t
                         /\ pc'[u] \in {"probe", "done"} => pc[u] \in {"probe", "done"}
                         /\ Saving(u) => u # t
  BY <1>1, <1>3 DEF Saving
<1>10. \A u \in Threads : Saving(u) => PHT!bucket(u) \in PHT!Buckets /\ latch[PHT!bucket(u)]
  BY TablePlace DEF TableThreadInv
<1>11. \A u \in Threads : Saving(u) => PHT!bucket(u) # PHT!bucket(t)
  BY <1>1, <1>10
<1>12. ASSUME NEW u \in Threads
       PROVE  /\ PHT!From(rkeys, u) <= i[u] /\ i[u] <= PHT!Upto(rkeys, u) + 1
              /\ Saving(u)' => /\ i[u] <= PHT!Upto(rkeys, u) /\ latch'[PHT!bucket(u)]
                               /\ \A v \in Threads : v # u /\ Saving(v)' => PHT!bucket(v) # PHT!bucket(u)
              /\ pc'[u] \in {"probe", "done"} => i[u] = PHT!Upto(rkeys, u) + 1
  <2>1. /\ PHT!From(rkeys, u) <= i[u] /\ i[u] <= PHT!Upto(rkeys, u) + 1
        /\ pc'[u] \in {"probe", "done"} => i[u] = PHT!Upto(rkeys, u) + 1
    BY <1>9 DEF TableThreadInv
  <2>2. ASSUME Saving(u)' PROVE i[u] <= PHT!Upto(rkeys, u) /\ latch'[PHT!bucket(u)]
    <3>1. CASE u = t
      BY <1>1, <1>2, <1>7, <3>1
    <3>2. CASE Saving(u)
      BY <1>7, <1>10, <3>2 DEF TableThreadInv
    <3> QED  BY <1>9, <2>2, <3>1, <3>2
  <2>3. ASSUME Saving(u)', NEW v \in Threads, v # u, Saving(v)' PROVE PHT!bucket(v) # PHT!bucket(u)
    BY <1>9, <1>11, <2>3 DEF TableThreadInv
  <2> QED  BY <2>1, <2>2, <2>3
<1>13. TableThreadInv'
  BY <1>1, <1>8, <1>12 DEF TableThreadInv
<1> QED  BY <1>4, <1>5, <1>6, <1>13

(* The tuple is written into the first free slot, ...                      *)
LEMMA SaveStep ==
  ASSUME TableTypeInv, TablePhaseInv, TableThreadInv, TableBucketInv, TableResultInv,
         NEW t \in Threads, PHT!Save(t)
  PROVE  TableTypeInv' /\ TableThreadInv' /\ TableBucketInv' /\ TableResultInv'
<1>1. /\ pc[t] = "save" /\ pc' = [pc EXCEPT ![t] = "bump"]
      /\ tuples' = [tuples EXCEPT ![PHT!bucket(t)][count[PHT!bucket(t)]] = i[t]]
      /\ UNCHANGED << rkeys, skeys, latch, count, i, num_results, result, finished >>
  BY DEF PHT!Save, PHT!Goto, PHT!Saved, PHT!InUnrolled
<1>2. Saving(t) /\ i[t] <= PHT!Upto(rkeys, t)
  BY <1>1 DEF Saving, TableThreadInv
<1>3. PICK x : x = PHT!bucket(t)
  OBVIOUS
<1>4. x \in PHT!Buckets /\ i[t] \in Nat \ {0} /\ count[x] < BUCKET_SIZE
  BY <1>2, <1>3, TablePlace, TableRoom
<1>5. /\ pc' = [u \in Threads |-> pc'[u]] /\ pc'[t] = "bump"
      /\ \A u \in Threads : u # t => pc'[u] = pc[u]
  BY <1>1 DEF TablePhaseInv
<1>6. /\ BUCKET_SIZE \in Nat \ {0} /\ count \in [PHT!Buckets -> 0 .. BUCKET_SIZE]
      /\ tuples \in [PHT!Buckets -> [0 .. BUCKET_SIZE - 1 -> Nat]] /\ count[x] \in 0 .. BUCKET_SIZE - 1
  BY <1>4 DEF TableTypeInv
<1>7. /\ tuples' \in [PHT!Buckets -> [0 .. BUCKET_SIZE - 1 -> Nat]]
      /\ \A y \in PHT!Buckets : y # x => tuples'[y] = tuples[y]
      /\ tuples'[x][count[x]] = i[t]
      /\ \A k \in 0 .. BUCKET_SIZE - 1 : k # count[x] => tuples'[x][k] = tuples[x][k]
  BY ONLY <1>1, <1>3, <1>4, <1>6
<1>8. TableTypeInv'
  BY <1>1, <1>7, TypeFrame DEF TableTypeInv
<1>9. TableThreadInv'
  <2>1. \A u \in Threads : /\ Saving(u)' <=> Saving(u)
                           /\ pc'[u] \in {"probe", "done"} => pc[u] \in {"probe", "done"}
    BY <1>1, <1>5 DEF Saving
  <2> QED  BY <1>1, <2>1, ThreadFrame DEF TableThreadInv
<1>10. TableResultInv'
  BY <1>1, <1>5, ResultFrame
<1>11. /\ PHT!Buckets' = PHT!Buckets /\ (\A y : Mine(y)' = Mine(y))
       /\ \A u : /\ (PHT!From(rkeys, u))' = PHT!From(rkeys, u)
                 /\ PHT!bucket(u)' = PHT!bucket(u)
  BY <1>1, TableFixed
<1>12. \A y : Inserted(y)' = Inserted(y)
  BY <1>1, <1>11 DEF Inserted
<1>13. \A u \in Threads : u # t /\ pc[u] = "bump" => PHT!bucket(u) # x
  BY <1>2, <1>3 DEF Saving, TableThreadInv
<1>14. ASSUME NEW y \in PHT!Buckets, y # x PROVE BucketInv(y)'
  <2>1. BucketInv(y) /\ tuples'[y] = tuples[y]
    BY <1>7, <1>14 DEF TableBucketInv
  <2>2. \A u \in Threads : (pc'[u] = "bump" /\ PHT!bucket(u) = y) <=> (pc[u] = "bump" /\ PHT!bucket(u) = y)
    BY <1>1, <1>3, <1>5, <1>14
  <2> QED  BY <1>1, <1>11, <1>12, <2>1, <2>2 DEF BucketInv
<1>15. BucketInv(x)'
  <2>1. BucketInv(x)
    BY <1>4 DEF TableBucketInv
  <2>2. \A u \in Threads : pc'[u] = "bump" /\ PHT!bucket(u) = x <=> u = t
    BY <1>3, <1>5, <1>13
  <2>3. \A k \in 0 .. count[x] - 1 : k \in 0 .. BUCKET_SIZE - 1 /\ k # count[x] /\ tuples'[x][k] = tuples[x][k]
    <3>1. \A k \in 0 .. count[x] - 1 : k \in 0 .. BUCKET_SIZE - 1 /\ k # count[x]
      BY ONLY <1>6
    <3> QED  BY ONLY <1>7, <3>1
  <2>4. \A k \in count[x] + 1 .. BUCKET_SIZE - 1 : tuples'[x][k] = 0
    <3>1. \A k \in count[x] + 1 .. BUCKET_SIZE - 1 :
            k \in 0 .. BUCKET_SIZE - 1 /\ k # count[x] /\ k \in count[x] .. BUCKET_SIZE - 1
      BY ONLY <1>6
    <3>2. \A u \in Threads : ~(pc[u] = "bump" /\ PHT!bucket(u) = x)
      BY <1>1, <1>13
    <3>3. \A k \in count[x] .. BUCKET_SIZE - 1 : tuples[x][k] = 0
      BY <2>1, <3>2 DEF BucketInv
    <3> QED  BY ONLY <1>7, <3>1, <3>3
  <2>5. /\ \A k \in 0 .. count[x] - 1 : tuples'[x][k] \in Inserted(x)
        /\ \A n \in Inserted(x) : \E k \in 0 .. count[x] - 1 : tuples'[x][k] = n
        /\ \A k, l \in 0 .. count[x] - 1 : tuples'[x][k] = tuples'[x][l] => k = l
    <3>1. /\ \A k \in 0 .. count[x] - 1 : tuples[x][k] \in Inserted(x)
          /\ \A n \in Inserted(x) : \E k \in 0 .. count[x] - 1 : tuples[x][k] = n
          /\ \A k, l \in 0 .. count[x] - 1 : tuples[x][k] = tuples[x][l] => k = l
      BY <2>1 DEF BucketInv
    <3> QED  BY ONLY <2>3, <3>1
  <2>6. \A k \in count[x] .. BUCKET_SIZE - 1 :
          tuples'[x][k] = 0 \/ \E u \in Threads : pc'[u] = "bump" /\ PHT!bucket(u) = x
    BY ONLY <2>2, t \in Threads
  <2>7. \A u \in Threads : pc'[u] = "bump" /\ PHT!bucket(u) = x =>
          /\ count[x] < BUCKET_SIZE /\ tuples'[x][count[x]] = i[u]
          /\ \A k \in count[x] + 1 .. BUCKET_SIZE - 1 : tuples'[x][k] = 0
    BY ONLY <1>4, <1>7, <2>2, <2>4
  <2> QED  BY <1>1, <1>11, <1>12, <2>5, <2>6, <2>7 DEF BucketInv
<1>16. TableBucketInv'
  BY <1>11, <1>14, <1>15 DEF TableBucketInv
<1> QED  BY <1>8, <1>9, <1>10, <1>16

(* ... then it is counted and the bucket unlocked.                         *)
LEMMA BumpStep ==
  ASSUME TableTypeInv, TablePhaseInv, TableThreadInv, TableBucketInv, TableResultInv,
         NEW t \in Threads, PHT!Bump(t)
  PROVE  TableTypeInv' /\ TableThreadInv' /\ TableBucketInv' /\ TableResultInv'
<1>1. /\ pc[t] = "bump" /\ pc' = [pc EXCEPT ![t] = "build"]
      /\ count' = [count EXCEPT ![PHT!bucket(t)] = @ + 1]
      /\ latch' = [latch EXCEPT ![PHT!bucket(t)] = FALSE]
      /\ i' = [i EXCEPT ![t] = @ + 1]
      /\ UNCHANGED << rkeys, skeys, tuples, num_results, result, finished >>
  BY DEF PHT!Bump, PHT!Goto
<1>2. Saving(t) /\ i[t] <= PHT!Upto(rkeys, t)
  BY <1>1 DEF Saving, TableThreadInv
<1>3. PICK x : x = PHT!bucket(t)
  OBVIOUS
<1>4. /\ x \in PHT!Buckets /\ i[t] \in Nat \ {0} /\ count[x] < BUCKET_SIZE
      /\ i[t] \in DOMAIN rkeys /\ \A y : (i[t] \in Mine(y) <=> y = x) /\ i[t] \notin Inserted(y)
  BY <1>2, <1>3, TablePlace, TableRoom
<1>5. /\ pc' = [u \in Threads |-> pc'[u]] /\ pc'[t] = "build"
      /\ \A u \in Threads : u # t => pc'[u] = pc[u]
  BY <1>1 DEF TablePhaseInv
<1>6. /\ BUCKET_SIZE \in Nat \ {0} /\ count \in [PHT!Buckets -> 0 .. BUCKET_SIZE]
      /\ latch \in [PHT!Buckets -> BOOLEAN] /\ i \in [Threads -> Nat] /\ count[x] \in 0 .. BUCKET_SIZE - 1
  BY <1>4 DEF TableTypeInv
<1>7. /\ count' \in [PHT!Buckets -> 0 .. BUCKET_SIZE] /\ count'[x] = count[x] + 1
      /\ \A y \in PHT!Buckets : y # x => count'[y] = count[y] /\ latch'[y] = latch[y]
      /\ latch' \in [PHT!Buckets -> BOOLEAN]
      /\ i' \in [Threads -> Nat] /\ i'[t] = i[t] + 1
      /\ \A u \in Threads : u # t => i'[u] = i[u]
  BY ONLY <1>1, <1>3, <1>4, <1>6, t \in Threads
<1>8. TableTypeInv'
  BY <1>1, <1>7, TypeFrame DEF TableTypeInv
<1>9. TableResultInv'
  BY <1>1, <1>5, ResultFrame
<1>10. /\ PHT!Buckets' = PHT!Buckets /\ (\A y : Mine(y)' = Mine(y))
       /\ \A u : /\ (PHT!From(rkeys, u))' = PHT!From(rkeys, u)
                 /\ (PHT!Upto(rkeys, u))' = PHT!Upto(rkeys, u)
                 /\ i'[u] = i[u] => PHT!bucket(u)' = PHT!bucket(u)
  BY <1>1, TableFixed
<1>11. \A u \in Threads : u # t /\ Saving(u) => PHT!bucket(u) # x
  BY <1>2, <1>3 DEF TableThreadInv
<1>12. \A u \in Threads : /\ Saving(u)' <=> Saving(u) /\ u # t
                          /\ pc'[u] \in {"probe", "done"} => pc[u] \in {"probe", "done"} /\ u # t
  BY <1>5 DEF Saving
<1>13. TableThreadInv'
  <2>1. ASSUME NEW u \in Threads
        PROVE  /\ PHT!From(rkeys, u) <= i'[u] /\ i'[u] <= PHT!Upto(rkeys, u) + 1
               /\ Saving(u)' => /\ i'[u] <= PHT!Upto(rkeys, u) /\ latch'[PHT!bucket(u)']
                                /\ \A v \in Threads : v # u /\ Saving(v)' => PHT!bucket(v)' # PHT!bucket(u)'
               /\ pc'[u] \in {"probe", "done"} => i'[u] = PHT!Upto(rkeys, u) + 1
    <3>1. CASE u = t
      <4>1. /\ PHT!From(rkeys, t) <= i[t] /\ i[t] \in Nat
            /\ PHT!From(rkeys, t) \in Nat /\ PHT!Upto(rkeys, t) \in Nat
        <5>1. rkeys \in Seq(Nat) /\ NThreads \in Nat \ {0}
          BY DEF TableTypeInv, DenseKeys
        <5>2. PHT!From(rkeys, t) \in Nat \ {0} /\ PHT!Upto(rkeys, t) \in 0 .. Len(rkeys)
          BY <5>1, ShareType
        <5>3. Len(rkeys) \in Nat
          BY <5>1
        <5>4. PHT!From(rkeys, t) <= i[t]
          BY DEF TableThreadInv
        <5> QED  BY ONLY <1>6, <5>2, <5>3, <5>4, t \in Threads
      <4>2. PHT!From(rkeys, t) <= i'[t] /\ i'[t] <= PHT!Upto(rkeys, t) + 1
        BY ONLY <1>2, <1>7, <4>1
      <4> QED  BY <1>12, <3>1, <4>2
    <3>2. CASE u # t
      <4>1. i'[u] = i[u] /\ PHT!bucket(u)' = PHT!bucket(u)
        BY <1>7, <1>10, <3>2
      <4>2. /\ PHT!From(rkeys, u) <= i[u] /\ i[u] <= PHT!Upto(rkeys, u) + 1
            /\ pc'[u] \in {"probe", "done"} => i[u] = PHT!Upto(rkeys, u) + 1
        BY <1>12 DEF TableThreadInv
      <4>3. ASSUME Saving(u)' PROVE i[u] <= PHT!Upto(rkeys, u) /\ latch'[PHT!bucket(u)]
        <5>1. Saving(u) /\ PHT!bucket(u) # x
          BY <1>11, <1>12, <3>2, <4>3
        <5>2. i[u] <= PHT!Upto(rkeys, u) /\ latch[PHT!bucket(u)]
          BY <5>1 DEF TableThreadInv
        <5>3. PHT!bucket(u) \in PHT!Buckets
          BY <5>2, TablePlace
        <5> QED  BY <1>7, <5>1, <5>2, <5>3
      <4>4. ASSUME Saving(u)', NEW v \in Threads, v # u, Saving(v)' PROVE PHT!bucket(v)' # PHT!bucket(u)'
        <5>1. Saving(u) /\ Saving(v) /\ v # t
          BY <1>12, <4>4
        <5>2. PHT!bucket(v)' = PHT!bucket(v)
          BY <1>7, <1>10, <5>1
        <5>3. PHT!bucket(v) # PHT!bucket(u)
          BY <4>4, <5>1 DEF TableThreadInv
        <5> QED  BY <4>1, <5>2, <5>3
      <4> QED  BY <4>1, <4>2, <4>3, <4>4
    <3> QED  BY <3>1, <3>2
  <2> QED  BY <1>10, <2>1 DEF TableThreadInv
<1>14. /\ \A y : y # x => Inserted(y)' = Inserted(y)
       /\ Inserted(x)' = Inserted(x) \cup {i[t]}
  <2>1. PHT!From(rkeys, t) <= i[t]
    BY DEF TableThreadInv
  <2>2. ASSUME NEW y, NEW n \in Mine(y)
        PROVE  n \in Inserted(y)' <=> n \in Inserted(y) \/ n = i[t]
    <3>1. n \in Nat
      <4>1. rkeys \in Seq(Nat \ {0})
        BY DEF TableTypeInv, DenseKeys
      <4>2. n \in DOMAIN rkeys
        BY DEF Mine
      <4> QED  BY <4>1, <4>2
    <3>2. n \in Inserted(y) <=> \E u \in Threads : PHT!From(rkeys, u) <= n /\ n < i[u]
      BY DEF Inserted
    <3>3. n \in Inserted(y)' <=> \E u \in Threads : PHT!From(rkeys, u) <= n /\ n < i'[u]
      BY <1>10 DEF Inserted
    <3>4. n < i'[t] <=> n < i[t] \/ n = i[t]
      BY ONLY <1>4, <1>7, <3>1
    <3>5. \A u \in Threads : PHT!From(rkeys, u) <= n /\ n < i'[u] =>
                               n = i[t] \/ (PHT!From(rkeys, u) <= n /\ n < i[u])
      BY <1>7, <3>4
    <3>6. \A u \in Threads : PHT!From(rkeys, u) <= n /\ n < i[u] => n < i'[u]
      BY <1>7, <3>4
    <3>7. n = i[t] => PHT!From(rkeys, t) <= n /\ n < i'[t]
      BY <2>1, <3>4
    <3> QED  BY <3>2, <3>3, <3>5, <3>6, <3>7
  <2>3. \A y : Inserted(y) \subseteq Mine(y) /\ Inserted(y)' \subseteq Mine(y)
    BY <1>10 DEF Inserted
  <2> QED  BY <1>4, <2>2, <2>3
<1>15. ASSUME NEW y \in PHT!Buckets, y # x PROVE BucketInv(y)'
  <2>1. BucketInv(y) /\ count'[y] = count[y] /\ Inserted(y)' = Inserted(y)
    BY <1>7, <1>14, <1>15 DEF TableBucketInv
  <2>2. \A u \in Threads : (pc'[u] = "bump" /\ PHT!bucket(u)' = y) <=> (pc[u] = "bump" /\ PHT!bucket(u) = y)
    BY <1>1, <1>3, <1>5, <1>7, <1>10, <1>15
  <2>3. \A u \in Threads : pc'[u] = "bump" => i'[u] = i[u]
    BY <1>5, <1>7
  <2> QED  BY <1>1, <2>1, <2>2, <2>3 DEF BucketInv
<1>16. BucketInv(x)'
  <2>1. BucketInv(x)
    BY <1>4 DEF TableBucketInv
  <2>2. \A u \in Threads : ~(pc'[u] = "bump" /\ PHT!bucket(u)' = x)
    <3>1. ASSUME NEW u \in Threads, pc'[u] = "bump" PROVE PHT!bucket(u)' # x
      <4>1. u # t /\ Saving(u)
        BY <1>5, <3>1 DEF Saving
      <4> QED  BY <1>7, <1>10, <1>11, <4>1
    <3> QED  BY <3>1
  <2>3. /\ tuples[x][count[x]] = i[t]
        /\ \A k \in count[x] + 1 .. BUCKET_SIZE - 1 : tuples[x][k] = 0
    BY <1>1, <1>3, <2>1 DEF BucketInv
  <2>4. /\ \A k \in 0 .. count[x] - 1 : tuples[x][k] \in Inserted(x)
        /\ \A n \in Inserted(x) : \E k \in 0 .. count[x] - 1 : tuples[x][k] = n
        /\ \A k, l \in 0 .. count[x] - 1 : tuples[x][k] = tuples[x][l] => k = l
    BY <2>1 DEF BucketInv
  <2>5. \A k : k \in 0 .. count'[x] - 1 <=> k \in 0 .. count[x] - 1 \/ k = count[x]
    BY ONLY <1>6, <1>7
  <2>6. /\ \A k \in 0 .. count'[x] - 1 : tuples[x][k] \in Inserted(x) \cup {i[t]}
        /\ \A n \in Inserted(x) \cup {i[t]} : \E k \in 0 .. count'[x] - 1 : tuples[x][k] = n
        /\ \A k, l \in 0 .. count'[x] - 1 : tuples[x][k] = tuples[x][l] => k = l
    BY ONLY <1>4, <2>3, <2>4, <2>5
  <2>7. \A k \in count'[x] .. BUCKET_SIZE - 1 : tuples[x][k] = 0
    BY ONLY <1>7, <2>3
  <2> QED  BY <1>1, <1>14, <2>2, <2>6, <2>7 DEF BucketInv
<1>17. TableBucketInv'
  BY <1>10, <1>15, <1>16 DEF TableBucketInv
<1> QED  BY <1>8, <1>9, <1>13, <1>17

-----------------------------------------------------------------------------
(* Sums and cardinalities of the instances are those of the library. *)
LEMMA TableSums ==
  /\ \A f : PHT!SumFunction(f) = SumFunctionOnSet(f, DOMAIN f)
  /\ \A f : PHT_un!SumFunction(f) = SumFunctionOnSet(f, DOMAIN f)
<1>1. ASSUME NEW f
      PROVE  PHT!SumFunction(f) = SumFunctionOnSet(f, DOMAIN f) /\ PHT_un!SumFunction(f) = SumFunctionOnSet(f, DOMAIN f)
  BY DEF PHT!SumFunction, PHT!SumFunctionOnSet, PHT!FoldFunctionOnSet, PHT!MapThenFoldSet,
         PHT_un!SumFunction, PHT_un!SumFunctionOnSet, PHT_un!FoldFunctionOnSet, PHT_un!MapThenFoldSet,
         FoldFunctionOnSet, SumFunctionOnSet, MapThenFoldSet
<1> QED  BY <1>1

(* A cardinality is the same in all of them. *)
LEMMA TableCards ==
  \A S : PHT!Cardinality(S) = Cardinality(S) /\ PHT_un!Cardinality(S) = Cardinality(S)
BY DEF PHT!Cardinality, PHT_un!Cardinality, Cardinality

(* A thread probes after the barrier behind the build is open. *)
LEMMA ProbeOpened ==
  ASSUME TablePhaseInv, NEW t \in Threads, pc[t] = "probe", t \notin inside
  PROVE  opened >= 2
<1>1. Entered(t) = 2
  BY DEF TablePhaseInv, TableRank
<1>2. passed[t] \in Nat /\ Entered(t) = passed[t] + 0
  BY DEF TablePhaseInv, BarrierInv, Entered
<1>3. passed[t] <= opened /\ opened \in Nat
  BY DEF TablePhaseInv, BarrierInv
<1> QED  BY ONLY <1>1, <1>2, <1>3

(* From then on all threads have inserted their share of R. *)
LEMMA TableFull ==
  ASSUME TableTypeInv, TablePhaseInv, TableThreadInv, TableBucketInv, opened >= 2
  PROVE  \A x \in PHT!Buckets :
           /\ \A k \in 0 .. count[x] - 1 : tuples[x][k] \in Mine(x)
           /\ \A n \in Mine(x) : \E k \in 0 .. count[x] - 1 : tuples[x][k] = n
           /\ \A k, l \in 0 .. count[x] - 1 : tuples[x][k] = tuples[x][l] => k = l
           /\ \A k \in count[x] .. BUCKET_SIZE - 1 : tuples[x][k] = 0
<1>1. opened >= 2 /\ opened \in Nat
  BY DEF TablePhaseInv, BarrierInv
<1>2. ASSUME NEW u \in Threads PROVE pc[u] \in {"probe", "done"}
  <2>1. opened <= Entered(u) /\ Entered(u) = TableRank(pc[u]) /\ pc[u] \in TablePhases
    BY DEF TablePhaseInv, BarrierInv
  <2>2. TableRank(pc[u]) \in Nat /\ TableRank(pc[u]) >= opened
    BY <2>1 DEF TableRank
  <2>3. TableRank(pc[u]) >= 2
    BY ONLY <1>1, <2>2
  <2> QED  BY <2>1, <2>3 DEF TableRank, TablePhases
<1>3. \A u \in Threads : i[u] = PHT!Upto(rkeys, u) + 1 /\ pc[u] # "bump"
  BY <1>2 DEF TableThreadInv
<1>4. rkeys \in Seq(Nat) /\ NThreads \in Nat \ {0}
  BY DEF TableTypeInv, DenseKeys
<1>5. ASSUME NEW x PROVE Inserted(x) = Mine(x)
  <2>1. ASSUME NEW n \in Mine(x) PROVE n \in Inserted(x)
    <3>1. n \in DOMAIN rkeys /\ n \in Nat
      BY <1>4 DEF Mine
    <3>2. PICK u \in Threads : n \in PHT!From(rkeys, u) .. PHT!Upto(rkeys, u)
      BY <1>4, <3>1, ShareCover
    <3>3. PHT!From(rkeys, u) \in Nat /\ PHT!Upto(rkeys, u) \in Nat
      BY <1>4, ShareType
    <3>4. PHT!From(rkeys, u) <= n /\ n < i[u]
      BY ONLY <1>3, <3>1, <3>2, <3>3
    <3> QED  BY <3>4 DEF Inserted
  <2> QED  BY <2>1 DEF Inserted
<1> QED  BY <1>3, <1>5 DEF TableBucketInv, BucketInv

(* The positions of R with a key, and the pairs of a tuple of S.           *)
Having(key) == {n \in DOMAIN rkeys : rkeys[n] = key}
PairsOf(n) == {m \in (DOMAIN rkeys) \X {n} : rkeys[m[1]] = skeys[n]}

(* So the plain and the unrolled probe find as many tuples as R has with   *)
(* the key, ...                                                            *)
LEMMA TableFinds ==
  ASSUME TableTypeInv, TablePhaseInv, TableThreadInv, TableBucketInv,
         NEW t \in Threads, pc[t] = "probe", t \notin inside,
         NEW key \in Nat \ {0}
  PROVE  /\ PHT!Found(key) = Cardinality(Having(key)) /\ PHT_un!Found(key) = Cardinality(Having(key))
         /\ IsFiniteSet(Having(key))
<1>1. /\ DenseKeys(rkeys) /\ BUCKET_SIZE \in Nat \ {0} /\ rkeys \in Seq(Nat)
      /\ count \in [PHT!Buckets -> 0 .. BUCKET_SIZE]
  BY DEF TableTypeInv, DenseKeys
<1>2. PICK x : x = PHT!Hash(key)
  OBVIOUS
<1>3. x \in PHT!Buckets
  <2>1. PHT!nb \in Nat \ {0}
    BY <1>1, TableSize
  <2>2. key % PHT!nb \in 0 .. PHT!nb - 1
    BY ONLY <2>1, key \in Nat \ {0}, DivMod
  <2> QED  BY <1>2, <2>2 DEF PHT!Hash, PHT!Buckets
<1> DEFINE Hits(n) == {k \in 0 .. n - 1 : PHT!KeyAt(x, k) = key}
<1>4. count[x] \in Nat /\ count[x] <= BUCKET_SIZE
  BY <1>1, <1>3
<1>5. /\ \A k \in 0 .. count[x] - 1 : tuples[x][k] \in Mine(x)
      /\ \A n \in Mine(x) : \E k \in 0 .. count[x] - 1 : tuples[x][k] = n
      /\ \A k, l \in 0 .. count[x] - 1 : tuples[x][k] = tuples[x][l] => k = l
      /\ \A k \in count[x] .. BUCKET_SIZE - 1 : tuples[x][k] = 0
  BY <1>3, ProbeOpened, TableFull
<1>6. \A k \in 0 .. count[x] - 1 : PHT!KeyAt(x, k) = rkeys[tuples[x][k]] /\ tuples[x][k] \in DOMAIN rkeys
  <2>1. \A n \in Mine(x) : n # 0 /\ n \in DOMAIN rkeys
    BY <1>1 DEF Mine
  <2> QED  BY <1>5, <2>1 DEF PHT!KeyAt
<1>7. Hits(BUCKET_SIZE) = Hits(count[x])
  <2>1. \A k : k \in 0 .. BUCKET_SIZE - 1 <=> k \in 0 .. count[x] - 1 \/ k \in count[x] .. BUCKET_SIZE - 1
    BY ONLY <1>1, <1>4
  <2>2. \A k \in count[x] .. BUCKET_SIZE - 1 : PHT!KeyAt(x, k) # key
    BY <1>5 DEF PHT!KeyAt
  <2> QED  BY <2>1, <2>2
<1>8. Having(key) \subseteq Mine(x) /\ IsFiniteSet(Having(key))
  <2>1. Having(key) \subseteq Mine(x)
    BY <1>2 DEF Having, Mine
  <2>2. IsFiniteSet(Mine(x))
    BY <1>1, <1>3, TableFits
  <2> QED  BY <2>1, <2>2, FS_Subset
<1>9. IsFiniteSet(0 .. count[x] - 1) /\ Cardinality(0 .. count[x] - 1) = count[x]
  <2>1. 0 \in Int /\ count[x] - 1 \in Int
    BY <1>4
  <2>2. IsFiniteSet(0 .. count[x] - 1)
        /\ Cardinality(0 .. count[x] - 1) = IF 0 > count[x] - 1 THEN 0 ELSE (count[x] - 1) - 0 + 1
    BY ONLY <2>1, FS_Interval
  <2> QED  BY <1>4, <2>2
<1>10. /\ IsFiniteSet(Hits(count[x])) /\ Cardinality(Hits(count[x])) <= count[x]
       /\ Cardinality(Hits(count[x])) \in Nat
  <2>1. Hits(count[x]) \subseteq 0 .. count[x] - 1
    OBVIOUS
  <2> HIDE DEF Hits
  <2> QED  BY <1>9, <2>1, FS_Subset, FS_CardinalityType
<1>11. Cardinality(Having(key)) = Cardinality(Hits(count[x]))
  <2> DEFINE f == [k \in Hits(count[x]) |-> tuples[x][k]]
  <2>1. \A k \in Hits(count[x]) : tuples[x][k] \in Having(key)
    BY <1>6 DEF Having
  <2>2. \A k, l \in Hits(count[x]) : tuples[x][k] = tuples[x][l] => k = l
    BY <1>5
  <2>3. \A n \in Having(key) : \E k \in Hits(count[x]) : tuples[x][k] = n
    <3> TAKE n \in Having(key)
    <3>1. PICK k \in 0 .. count[x] - 1 : tuples[x][k] = n
      BY <1>5, <1>8
    <3>2. k \in Hits(count[x])
      BY <1>6, <3>1 DEF Having
    <3> QED  BY <3>1, <3>2
  <2> HIDE DEF Hits
  <2>4. /\ f \in [Hits(count[x]) -> Having(key)]
        /\ \A k, l \in Hits(count[x]) : f[k] = f[l] => k = l
        /\ \A n \in Having(key) : \E k \in Hits(count[x]) : f[k] = n
    BY ONLY <2>1, <2>2, <2>3
  <2> HIDE DEF f
  <2>5. f \in Bijection(Hits(count[x]), Having(key))
    BY ONLY <2>4 DEF Bijection, Injection, Surjection, IsInjective
  <2> QED  BY ONLY <1>10, <2>5, FS_Bijection DEF ExistsBijection
<1>12. PHT!Found(key) = Cardinality(Hits(count[x]))
  BY <1>2, TableCards DEF PHT!Found
<1>13. PHT_un!Found(key) = IF Cardinality(Hits(BUCKET_SIZE)) < count[x] THEN Cardinality(Hits(BUCKET_SIZE)) ELSE count[x]
  BY <1>2, TableCards DEF PHT_un!Found, PHT_un!Hash, PHT_un!nb, PHT_un!NumBuckets, PHT!Hash, PHT!nb,
     PHT!NumBuckets, PHT_un!KeyAt, PHT!KeyAt
<1> HIDE DEF Hits
<1>14. PHT_un!Found(key) = Cardinality(Hits(count[x]))
  BY ONLY <1>4, <1>7, <1>10, <1>13
<1> QED  BY ONLY <1>8, <1>11, <1>12, <1>14

(* ... which is the number of pairs of the tuple of S.                     *)
LEMMA PairsCount ==
  ASSUME NEW n, IsFiniteSet(Having(skeys[n]))
  PROVE  IsFiniteSet(PairsOf(n)) /\ Cardinality(PairsOf(n)) = Cardinality(Having(skeys[n]))
<1> DEFINE f == [k \in Having(skeys[n]) |-> << k, n >>]
<1>1. \A k \in Having(skeys[n]) : << k, n >> \in PairsOf(n)
  BY DEF Having, PairsOf
<1>2. \A m \in PairsOf(n) : \E k \in Having(skeys[n]) : << k, n >> = m
  <2> TAKE m \in PairsOf(n)
  <2>1. m[1] \in Having(skeys[n]) /\ m = << m[1], n >>
    BY DEF Having, PairsOf
  <2> QED  BY <2>1
<1>3. /\ f \in [Having(skeys[n]) -> PairsOf(n)]
      /\ \A k, l \in Having(skeys[n]) : f[k] = f[l] => k = l
      /\ \A m \in PairsOf(n) : \E k \in Having(skeys[n]) : f[k] = m
  BY ONLY <1>1, <1>2
<1> HIDE DEF f
<1>4. f \in Bijection(Having(skeys[n]), PairsOf(n))
  BY ONLY <1>3 DEF Bijection, Injection, Surjection, IsInjective
<1> QED  BY ONLY <1>4, IsFiniteSet(Having(skeys[n])), FS_Bijection DEF ExistsBijection

(* A thread that probes counts the matches of its share of S. *)
LEMMA ProbeStep ==
  ASSUME TableTypeInv, TablePhaseInv, TableThreadInv, TableBucketInv, TableResultInv,
         NEW t \in Threads, PHT!Probe(t)
  PROVE  TableTypeInv' /\ TableThreadInv' /\ TableBucketInv' /\ TableResultInv'
<1> DEFINE share == PHT!From(skeys, t) .. PHT!Upto(skeys, t)
           counts == [n \in share |-> PHT!Found(skeys[n])]
<1>1. /\ pc[t] = "probe" /\ t \notin inside /\ pc' = [pc EXCEPT ![t] = "done"]
      /\ num_results' = [num_results EXCEPT ![t] = SumFunctionOnSet(counts, share)]
      /\ UNCHANGED << rkeys, skeys, latch, count, tuples, i, result, finished >>
  <2>1. /\ pc[t] = "probe" /\ t \notin inside /\ pc' = [pc EXCEPT ![t] = "done"]
        /\ num_results' = [num_results EXCEPT ![t] = PHT!SumFunction(counts)]
        /\ UNCHANGED << rkeys, skeys, latch, count, tuples, i, result, finished >>
    BY DEF PHT!Probe, PHT!In, PHT!Goto
  <2>2. DOMAIN counts = share
    OBVIOUS
  <2> HIDE DEF counts, share
  <2> QED  BY <2>1, <2>2, TableSums
<1>2. /\ skeys \in Seq(Nat \ {0}) /\ skeys \in Seq(Nat) /\ NThreads \in Nat \ {0}
      /\ num_results \in [Threads -> Nat]
  BY DEF TableTypeInv
<1>3. /\ PHT!From(skeys, t) \in Nat \ {0} /\ PHT!Upto(skeys, t) \in 0 .. Len(skeys) /\ Len(skeys) \in Nat
      /\ DOMAIN skeys = 1 .. Len(skeys)
  BY <1>2, ShareType
<1>4. IsFiniteSet(share) /\ \A n \in share : n \in DOMAIN skeys
  <2>1. PHT!From(skeys, t) \in Int /\ PHT!Upto(skeys, t) \in Int
    BY ONLY <1>3
  <2>2. IsFiniteSet(share)
    BY <2>1, FS_Interval
  <2>3. \A n \in share : n \in DOMAIN skeys
    BY ONLY <1>3
  <2> QED  BY <2>2, <2>3
<1> HIDE DEF share
<1>5. \A n \in share : skeys[n] \in Nat \ {0}
  BY <1>2, <1>4
<1>6. \A n \in share : IsFiniteSet(PairsOf(n)) /\ PHT!Found(skeys[n]) = Cardinality(PairsOf(n))
  BY <1>1, <1>5, TableFinds, PairsCount
<1>7. SumFunctionOnSet(counts, share) = Cardinality(Matching(t)) /\ SumFunctionOnSet(counts, share) \in Nat
  <2> DEFINE F == [n \in share |-> PairsOf(n)]
  <2>1. /\ \A n \in share : F[n] = PairsOf(n) /\ counts[n] = PHT!Found(skeys[n])
        /\ UNION {F[n] : n \in share} = UNION {PairsOf(n) : n \in share}
    OBVIOUS
  <2>2. UNION {PairsOf(n) : n \in share} = Matching(t)
    <3>1. \A m \in Matching(t) : m[2] \in share /\ m \in PairsOf(m[2])
      BY DEF Matching, PairsOf, share
    <3>2. \A n \in share : PairsOf(n) \subseteq Matching(t)
      BY DEF Matching, PairsOf, share
    <3> QED  BY <3>1, <3>2
  <2>3. \A n, k \in share : n # k => PairsOf(n) \cap PairsOf(k) = {}
    BY DEF PairsOf
  <2> HIDE DEF F, counts
  <2>4. /\ \A n \in share : IsFiniteSet(F[n]) /\ counts[n] = Cardinality(F[n])
        /\ \A n, k \in share : n # k => F[n] \cap F[k] = {}
    BY ONLY <1>6, <2>1, <2>3
  <2>5. Cardinality(UNION {F[n] : n \in share}) = SumFunctionOnSet(counts, share)
    BY ONLY <1>4, <2>4, CardUnion
  <2>6. \A n \in share : counts[n] \in Nat
    BY ONLY <2>4, FS_CardinalityType
  <2>7. SumFunctionOnSet(counts, share) \in Nat
    BY ONLY <1>4, <2>6, SumType
  <2> QED  BY ONLY <2>1, <2>2, <2>5, <2>7
<1> HIDE DEF counts
<1>8. /\ pc' = [u \in Threads |-> pc'[u]] /\ pc'[t] = "done"
      /\ \A u \in Threads : u # t => pc'[u] = pc[u]
  BY <1>1 DEF TablePhaseInv
<1>9. /\ num_results' \in [Threads -> Nat] /\ num_results'[t] = Cardinality(Matching(t))
      /\ \A u \in Threads : u # t => num_results'[u] = num_results[u]
  BY ONLY <1>1, <1>2, <1>7, t \in Threads
<1>10. TableTypeInv'
  BY <1>1, <1>9, TypeFrame DEF TableTypeInv
<1>11. TableThreadInv'
  <2>1. \A u \in Threads : /\ Saving(u)' <=> Saving(u)
                           /\ pc'[u] \in {"probe", "done"} => pc[u] \in {"probe", "done"}
    BY <1>1, <1>8 DEF Saving
  <2> QED  BY <1>1, <2>1, ThreadFrame DEF TableThreadInv
<1>12. TableBucketInv'
  BY <1>1, <1>8, BucketFrame
<1>13. TableResultInv'
  <2>1. \A u : Matching(u)' = Matching(u)
    BY <1>1, TableFixed
  <2>2. PHT!ResultCorrect' <=> PHT!ResultCorrect
    BY <1>1 DEF PHT!ResultCorrect
  <2>3. ASSUME NEW u \in Threads, pc'[u] = "done" PROVE num_results'[u] = Cardinality(Matching(u))
    BY <1>8, <1>9, <2>3 DEF TableResultInv
  <2> QED  BY <2>1, <2>2, <2>3 DEF TableResultInv
<1> QED  BY <1>10, <1>11, <1>12, <1>13

(* All pairs with equal keys. *)
AllMatching == {m \in (DOMAIN rkeys) \X (DOMAIN skeys) : rkeys[m[1]] = skeys[m[2]]}

(* All threads together count each matching pair once: the shares cover S  *)
(* and do not overlap.                                                     *)
LEMMA TotalCount ==
  ASSUME TableTypeInv, \A t \in Threads : num_results[t] = Cardinality(Matching(t))
  PROVE  SumFunctionOnSet(num_results, Threads) = Cardinality(AllMatching)
<1>1. /\ skeys \in Seq(Nat) /\ NThreads \in Nat \ {0} /\ rkeys \in Seq(Nat)
      /\ DOMAIN skeys = 1 .. Len(skeys) /\ Len(skeys) \in Nat
      /\ DOMAIN rkeys = 1 .. Len(rkeys) /\ Len(rkeys) \in Nat
  <2>1. skeys \in Seq(Nat \ {0}) /\ NThreads \in Nat \ {0} /\ rkeys \in Seq(Nat \ {0})
    BY DEF TableTypeInv, DenseKeys
  <2> QED  BY ONLY <2>1
<1>2. \A t \in Threads : /\ PHT!From(skeys, t) \in Nat \ {0} /\ PHT!Upto(skeys, t) \in 0 .. Len(skeys)
  BY <1>1, ShareType
<1>3. \A t \in Threads : \A n \in PHT!From(skeys, t) .. PHT!Upto(skeys, t) : n \in DOMAIN skeys
  BY ONLY <1>1, <1>2
<1>4. \A t \in Threads : Matching(t) \subseteq AllMatching
  BY <1>3 DEF Matching, AllMatching
<1>5. IsFiniteSet(AllMatching)
  <2>1. IsFiniteSet(DOMAIN rkeys) /\ IsFiniteSet(DOMAIN skeys)
    BY ONLY <1>1, FS_Interval
  <2>2. IsFiniteSet((DOMAIN rkeys) \X (DOMAIN skeys))
    BY <2>1, FS_Product
  <2> QED  BY <2>2, FS_Subset DEF AllMatching
<1>6. ASSUME NEW m \in AllMatching PROVE \E t \in Threads : m \in Matching(t)
  <2>1. m[2] \in DOMAIN skeys /\ m[1] \in DOMAIN rkeys /\ m = << m[1], m[2] >> /\ rkeys[m[1]] = skeys[m[2]]
    BY DEF AllMatching
  <2>2. PICK t \in Threads : m[2] \in PHT!From(skeys, t) .. PHT!Upto(skeys, t)
    BY <1>1, <2>1, ShareCover
  <2> QED  BY <2>1, <2>2 DEF Matching
<1>7. ASSUME NEW t \in Threads, NEW u \in Threads, t # u PROVE Matching(t) \cap Matching(u) = {}
  <2> SUFFICES ASSUME NEW m, m \in Matching(t), m \in Matching(u) PROVE FALSE
    OBVIOUS
  <2>1. /\ m[2] \in PHT!From(skeys, t) .. PHT!Upto(skeys, t)
        /\ m[2] \in PHT!From(skeys, u) .. PHT!Upto(skeys, u)
    BY DEF Matching
  <2> QED  BY <1>1, <1>7, <2>1, ShareUnique
<1> DEFINE F == [t \in Threads |-> Matching(t)]
<1>8. UNION {F[t] : t \in Threads} = AllMatching
  BY <1>4, <1>6
<1>9. \A t \in Threads : IsFiniteSet(F[t]) /\ num_results[t] = Cardinality(F[t])
  BY <1>4, <1>5, FS_Subset
<1>10. \A t, u \in Threads : t # u => F[t] \cap F[u] = {}
  BY <1>7
<1>11. IsFiniteSet(Threads)
  <2>1. 0 \in Int /\ NThreads - 1 \in Int
    BY <1>1
  <2> QED  BY <2>1, FS_Interval DEF Threads
<1> HIDE DEF F
<1>12. Cardinality(UNION {F[t] : t \in Threads}) = SumFunctionOnSet(num_results, Threads)
  BY ONLY <1>9, <1>10, <1>11, CardUnion
<1> QED  BY <1>8, <1>12

(* The main thread returns that number. *)
LEMMA TableReturn ==
  ASSUME TableInv, PHT!Return \/ PHT_un!Return
  PROVE  TableInv'
<1> USE DEF TableInv
<1>1. /\ \A t \in Threads : pc[t] = "done"
      /\ result' = SumFunctionOnSet(num_results, Threads) /\ finished' = TRUE
      /\ UNCHANGED << rkeys, skeys, latch, count, tuples, i, num_results, pc, inside, passed, opened >>
  <2>1. PHT!Threads = Threads /\ PHT_un!Threads = Threads /\ DOMAIN num_results = Threads
    BY DEF PHT!Threads, PHT_un!Threads, Threads, TableTypeInv
  <2> QED  BY <2>1, TableSums DEF PHT!Return, PHT!In, PHT!bar, PHT_un!Return, PHT_un!In, PHT_un!bar
<1>2. result' = Cardinality(AllMatching)
  BY <1>1, TotalCount DEF TableResultInv
<1>3. TablePhaseInv'
  <2>1. BarrierInv' /\ \A u \in Threads : Entered(u)' = Entered(u)
    BY <1>1, NoBarrierStep DEF TablePhaseInv
  <2> QED  BY <1>1, <2>1 DEF TablePhaseInv
<1>4. TableTypeInv' /\ TableBucketInv'
  BY <1>1, TypeFrame, BucketFrame DEF TableTypeInv
<1>5. TableThreadInv'
  <2>1. \A u \in Threads : Saving(u)' <=> Saving(u)
    BY <1>1 DEF Saving
  <2> QED  BY <1>1, <2>1, ThreadFrame DEF TableThreadInv
<1>6. TableResultInv'
  <2>1. \A u : Matching(u)' = Matching(u)
    BY <1>1, TableFixed
  <2>2. PHT!ResultCorrect'
    BY <1>1, <1>2, TableCards DEF PHT!ResultCorrect, AllMatching
  <2> QED  BY <1>1, <2>1, <2>2 DEF TableResultInv
<1> QED  BY <1>3, <1>4, <1>5, <1>6

(* Opening the barrier and doing nothing. *)
LEMMA TableOther ==
  ASSUME TableInv, PHT!Open \/ PHT_un!Open \/ UNCHANGED vars
  PROVE  TableInv'
<1> USE DEF TableInv
<1>1. /\ UNCHANGED << rkeys, skeys, latch, count, tuples, i, num_results, result, finished, pc >>
      /\ Opens \/ UNCHANGED << inside, passed, opened >>
  <2>1. PHT!Threads = Threads /\ PHT_un!Threads = Threads
    BY DEF PHT!Threads, PHT_un!Threads, Threads
  <2>2. CASE PHT!Open
    BY <2>1, <2>2 DEF PHT!Open, PHT!Bar!Open, Opens
  <2>3. CASE PHT_un!Open
    BY <2>1, <2>3 DEF PHT_un!Open, PHT_un!Bar!Open, Opens
  <2>4. CASE UNCHANGED vars
    BY <2>4 DEF vars, common, bucketVars
  <2> QED  BY <2>2, <2>3, <2>4
<1>2. TablePhaseInv'
  <2>1. BarrierInv' /\ \A u \in Threads : Entered(u)' = Entered(u)
    BY <1>1, OpenStep, NoBarrierStep DEF TablePhaseInv
  <2>2. inside' = inside
    BY <1>1 DEF Opens
  <2> QED  BY <1>1, <2>1, <2>2 DEF TablePhaseInv
<1>3. TableTypeInv' /\ TableBucketInv' /\ TableResultInv'
  BY <1>1, TypeFrame, BucketFrame, ResultFrame DEF TableTypeInv
<1>4. TableThreadInv'
  <2>1. \A u \in Threads : Saving(u)' <=> Saving(u)
    BY <1>1 DEF Saving
  <2> QED  BY <1>1, <2>1, ThreadFrame DEF TableThreadInv
<1> QED  BY <1>2, <1>3, <1>4

(* Every step of a thread of PHT keeps the invariant. *)
LEMMA TableStep ==
  ASSUME TableInv, NEW t \in Threads, PHT!Step(t)
  PROVE  TableInv'
<1> USE DEF TableInv
<1>1. TablePhaseInv'
  BY TablePhaseStep
<1>2. CASE PHT!Start(t) \/ PHT!Built(t) \/ PHT!Leave(t)
  <2>1. /\ UNCHANGED << rkeys, skeys, latch, count, tuples, i, num_results, result, finished >>
        /\ \/ pc[t] = "start" /\ pc' = [pc EXCEPT ![t] = "build"]
           \/ pc[t] = "build" /\ i[t] > PHT!Upto(rkeys, t) /\ pc' = [pc EXCEPT ![t] = "probe"]
           \/ pc' = pc
    BY <1>2 DEF PHT!Start, PHT!Built, PHT!Leave, PHT!In, PHT!Goto
  <2>2. \A u \in Threads : u # t => pc'[u] = pc[u]
    BY <2>1 DEF TablePhaseInv
  <2>3. \/ pc[t] = "start" /\ pc'[t] = "build"
        \/ pc[t] = "build" /\ i[t] > PHT!Upto(rkeys, t) /\ pc'[t] = "probe"
        \/ pc'[t] = pc[t]
    BY <2>1 DEF TablePhaseInv
  <2>4. i[t] > PHT!Upto(rkeys, t) => i[t] = PHT!Upto(rkeys, t) + 1
    <3>1. rkeys \in Seq(Nat) /\ NThreads \in Nat \ {0}
      BY DEF TableTypeInv, DenseKeys
    <3>2. PHT!Upto(rkeys, t) \in 0 .. Len(rkeys) /\ Len(rkeys) \in Nat
      BY <3>1, ShareType
    <3>3. i[t] \in Nat /\ i[t] <= PHT!Upto(rkeys, t) + 1
      BY DEF TableTypeInv, TableThreadInv
    <3> QED  BY ONLY <3>2, <3>3
  <2>5. \A u \in Threads : /\ Saving(u)' <=> Saving(u)
                           /\ pc'[u] = "bump" <=> pc[u] = "bump"
                           /\ pc'[u] = "done" <=> pc[u] = "done"
                           /\ pc'[u] \in {"probe", "done"} => i[u] = PHT!Upto(rkeys, u) + 1
    BY <2>2, <2>3, <2>4 DEF Saving, TableThreadInv
  <2>6. TableTypeInv'
    BY <2>1, TypeFrame DEF TableTypeInv
  <2> QED  BY <1>1, <2>1, <2>5, <2>6, ThreadFrame, BucketFrame, ResultFrame
<1>3. CASE PHT!Lock(t)
  BY <1>1, <1>3, LockStep
<1>4. CASE PHT!Save(t)
  BY <1>1, <1>4, SaveStep
<1>5. CASE PHT!Bump(t)
  BY <1>1, <1>5, BumpStep
<1>6. CASE PHT!Probe(t)
  BY <1>1, <1>6, ProbeStep
<1> QED  BY <1>2, <1>3, <1>4, <1>5, <1>6 DEF PHT!Step

(* Up to eight at a time, the unrolled build saves the tuple it has hashed, *)
(* and the unrolled probe finds what the plain one finds.                  *)
LEMMA UnrolledStep ==
  ASSUME TableInv, PHT_UNROLL_FACTOR \in 1 .. 8, NEW t \in Threads, PHT_un!Step(t)
  PROVE  PHT!Step(t)
<1> USE DEF TableInv
<1> USE DEF PHT!Step, PHT_un!bar, PHT!bar, PHT_un!In, PHT!In, PHT_un!Goto, PHT!Goto
<1>1. /\ \A r, u : PHT_un!From(r, u) = PHT!From(r, u) /\ PHT_un!Upto(r, u) = PHT!Upto(r, u)
      /\ \A u : PHT_un!bucket(u) = PHT!bucket(u)
  BY DEF PHT_un!From, PHT!From, PHT_un!Upto, PHT!Upto, PHT_un!Share, PHT!Share,
         PHT_un!bucket, PHT!bucket, PHT_un!Hash, PHT!Hash, PHT_un!nb, PHT!nb, PHT_un!NumBuckets, PHT!NumBuckets
<1>2. CASE PHT_un!Start(t)
  BY <1>2 DEF PHT_un!Start, PHT!Start, PHT_un!Bar!Enter, PHT!Bar!Enter
<1>3. CASE PHT_un!Lock(t)
  BY <1>1, <1>3 DEF PHT_un!Lock, PHT!Lock
<1>4. CASE PHT_un!Save(t)
  <2>1. PHT_un!Saved(t, i[t]) = i[t] /\ PHT!Saved(t, i[t]) = i[t]
    <3>1. PHT!From(rkeys, t) \in Nat /\ i[t] \in Nat /\ PHT!From(rkeys, t) <= i[t]
      <4>1. rkeys \in Seq(Nat) /\ NThreads \in Nat \ {0} /\ i[t] \in Nat
        BY DEF TableTypeInv, DenseKeys
      <4>2. PHT!From(rkeys, t) \in Nat \ {0}
        BY <4>1, ShareType
      <4>3. PHT!From(rkeys, t) <= i[t]
        BY DEF TableThreadInv
      <4> QED  BY ONLY <4>1, <4>2, <4>3
    <3>2. PICK d : d = i[t] - PHT!From(rkeys, t)
      OBVIOUS
    <3>3. d \in Nat
      BY ONLY <3>1, <3>2
    <3>4. d % PHT_UNROLL_FACTOR \in 0 .. PHT_UNROLL_FACTOR - 1
      BY ONLY <3>3, PHT_UNROLL_FACTOR \in 1 .. 8, DivMod
    <3>5. ~((i[t] - PHT!From(rkeys, t)) % PHT_UNROLL_FACTOR >= 8)
      BY ONLY <3>2, <3>4, PHT_UNROLL_FACTOR \in 1 .. 8
    <3> QED  BY <1>1, <3>5 DEF PHT_un!Saved, PHT!Saved, PHT!InUnrolled
  <2> QED  BY <1>1, <1>4, <2>1 DEF PHT_un!Save, PHT!Save
<1>5. CASE PHT_un!Bump(t)
  BY <1>1, <1>5 DEF PHT_un!Bump, PHT!Bump
<1>6. CASE PHT_un!Built(t)
  BY <1>1, <1>6 DEF PHT_un!Built, PHT!Built, PHT_un!Bar!Enter, PHT!Bar!Enter
<1>7. CASE PHT_un!Probe(t)
  <2>1. pc[t] = "probe" /\ t \notin inside
    BY <1>7 DEF PHT_un!Probe
  <2> DEFINE share == PHT!From(skeys, t) .. PHT!Upto(skeys, t)
  <2>2. \A n \in share : skeys[n] \in Nat \ {0}
    <3>1. skeys \in Seq(Nat \ {0}) /\ skeys \in Seq(Nat) /\ NThreads \in Nat \ {0}
      BY DEF TableTypeInv
    <3>2. /\ PHT!From(skeys, t) \in Nat \ {0} /\ PHT!Upto(skeys, t) \in 0 .. Len(skeys) /\ Len(skeys) \in Nat
          /\ DOMAIN skeys = 1 .. Len(skeys)
      BY <3>1, ShareType
    <3>3. \A n \in share : n \in DOMAIN skeys
      BY ONLY <3>2
    <3> QED  BY <3>1, <3>3
  <2>3. \A n \in share : PHT_un!Found(skeys[n]) = PHT!Found(skeys[n])
    BY <2>1, <2>2, TableFinds
  <2>4. [n \in share |-> PHT_un!Found(skeys[n])] = [n \in share |-> PHT!Found(skeys[n])]
    BY <2>3
  <2>5. \A f : PHT_un!SumFunction(f) = PHT!SumFunction(f)
    BY TableSums
  <2> QED  BY <1>1, <1>7, <2>4, <2>5 DEF PHT_un!Probe, PHT!Probe, PHT_un!Bar!Enter, PHT!Bar!Enter
<1>8. CASE PHT_un!Leave(t)
  BY <1>8 DEF PHT_un!Leave, PHT!Leave, PHT_un!Bar!Leave, PHT!Bar!Leave
<1> QED  BY <1>2, <1>3, <1>4, <1>5, <1>6, <1>7, <1>8 DEF PHT_un!Step

(* The relations that PHT and PHT_un are given, ...                        *)
LEMMA TableRelations ==
  /\ "PHT" \in Algorithms /\ rkeys \in InputsR("PHT") /\ skeys \in InputsS("PHT") =>
       /\ DenseKeys(rkeys) /\ skeys \in Seq(Nat \ {0})
       /\ NThreads \in Nat \ {0} /\ BUCKET_SIZE \in Nat \ {0}
  /\ "PHT_un" \in Algorithms /\ rkeys \in InputsR("PHT_un") /\ skeys \in InputsS("PHT_un") =>
       /\ DenseKeys(rkeys) /\ skeys \in Seq(Nat \ {0})
       /\ NThreads \in Nat \ {0} /\ BUCKET_SIZE \in Nat \ {0} /\ PHT_UNROLL_FACTOR \in Nat \ {0}
BY RunAssumption DEF PHT!NoOverflowAssumption, PHT_un!NoOverflowAssumption, PHT!Range, PHT_un!Range, DenseKeys

(* ... with which they begin with an empty table.                          *)
LEMMA TableInit ==
  ASSUME ("PHT" \in Algorithms /\ PHT!Init) \/ ("PHT_un" \in Algorithms /\ PHT_un!Init)
  PROVE  TableInv
<1>1. /\ latch = [x \in PHT!Buckets |-> FALSE] /\ count = [x \in PHT!Buckets |-> 0]
      /\ tuples = [x \in PHT!Buckets |-> [k \in 0 .. BUCKET_SIZE - 1 |-> 0]]
      /\ i = [t \in Threads |-> PHT!From(rkeys, t)]
      /\ num_results = [t \in Threads |-> 0] /\ finished = FALSE
      /\ pc = [t \in Threads |-> "start"]
      /\ inside = {} /\ passed = [t \in Threads |-> 0] /\ opened = 0
      /\ \/ "PHT" \in Algorithms /\ rkeys \in InputsR("PHT") /\ skeys \in InputsS("PHT")
         \/ "PHT_un" \in Algorithms /\ rkeys \in InputsR("PHT_un") /\ skeys \in InputsS("PHT_un")
  <2>1. PHT!Threads = Threads /\ PHT_un!Threads = Threads
    BY DEF PHT!Threads, PHT_un!Threads, Threads
  <2>2. PHT_un!Buckets = PHT!Buckets
    BY DEF PHT!Buckets, PHT_un!Buckets, PHT_un!nb, PHT!nb, PHT_un!NumBuckets, PHT!NumBuckets
  <2>3. \A r, t : PHT_un!From(r, t) = PHT!From(r, t)
    BY DEF PHT_un!From, PHT!From, PHT_un!Share, PHT!Share
  <2>4. CASE "PHT" \in Algorithms /\ PHT!Init
    BY <2>1, <2>4 DEF PHT!Init, PHT!Bar!Init
  <2>5. CASE "PHT_un" \in Algorithms /\ PHT_un!Init
    BY <2>1, <2>2, <2>3, <2>5 DEF PHT_un!Init, PHT_un!Bar!Init
  <2> QED  BY <2>4, <2>5
<1>2. /\ DenseKeys(rkeys) /\ skeys \in Seq(Nat \ {0})
      /\ NThreads \in Nat \ {0} /\ BUCKET_SIZE \in Nat \ {0}
  BY <1>1, TableRelations
<1>3. TablePhaseInv
  <2>1. BarrierInv /\ \A u \in Threads : Entered(u) = 0
    BY <1>1 DEF BarrierInv, Entered
  <2> QED  BY <1>1, <2>1 DEF TablePhaseInv, TablePhases, TableRank
<1>4. \A t \in Threads : /\ PHT!From(rkeys, t) \in Nat \ {0} /\ PHT!Upto(rkeys, t) \in Nat
                         /\ PHT!From(rkeys, t) <= PHT!Upto(rkeys, t) + 1 /\ i[t] = PHT!From(rkeys, t)
  <2>1. rkeys \in Seq(Nat) /\ Len(rkeys) \in Nat
    BY <1>2 DEF DenseKeys
  <2>2. \A n \in 0 .. Len(rkeys) : n \in Nat
    BY ONLY <2>1
  <2> QED  BY <1>1, <1>2, <2>1, <2>2, ShareType
<1>5. TableTypeInv
  <2>1. 0 \in 0 .. BUCKET_SIZE
    BY ONLY <1>2
  <2> QED  BY <1>1, <1>2, <1>4, <2>1 DEF TableTypeInv
<1>6. TableThreadInv
  <2>1. \A t \in Threads : PHT!From(rkeys, t) <= i[t] /\ i[t] <= PHT!Upto(rkeys, t) + 1
    BY ONLY <1>4
  <2> QED  BY <1>1, <2>1 DEF TableThreadInv, Saving
<1>7. \A x : Inserted(x) = {}
  <2>1. ASSUME NEW x, NEW n \in Inserted(x) PROVE FALSE
    <3>1. n \in Nat
      <4>1. rkeys \in Seq(Nat) /\ n \in DOMAIN rkeys
        BY <1>2, <2>1 DEF DenseKeys, Inserted, Mine
      <4> QED  BY ONLY <4>1
    <3>2. PICK t \in Threads : PHT!From(rkeys, t) <= n /\ n < i[t]
      BY <2>1 DEF Inserted
    <3> QED  BY ONLY <1>4, <3>1, <3>2
  <2> QED  BY <2>1
<1>8. TableBucketInv
  <2>1. ASSUME NEW x \in PHT!Buckets PROVE BucketInv(x)
    <3>1. /\ \A k : k \notin 0 .. count[x] - 1
          /\ \A k \in count[x] .. BUCKET_SIZE - 1 : tuples[x][k] = 0
      BY <1>1, <1>2
    <3> QED  BY <1>1, <1>7, <3>1 DEF BucketInv
  <2> QED  BY <2>1 DEF TableBucketInv
<1>9. TableResultInv
  BY <1>1 DEF TableResultInv, PHT!ResultCorrect
<1> QED  BY <1>3, <1>5, <1>6, <1>8, <1>9 DEF TableInv

-----------------------------------------------------------------------------
(* What the invariant says of the table: no bucket is overrun, and after   *)
(* the build each holds the tuples of R that hash to it.                   *)
LEMMA TableSafe ==
  ASSUME TableInv
  PROVE  PHT!SlotsFit /\ PHT!TableComplete
<1> USE DEF TableInv
<1>1. PHT!SlotsFit
  <2>1. PHT!Threads = Threads
    BY DEF PHT!Threads, Threads
  <2>2. \A t \in Threads : pc[t] = "save" => count[PHT!bucket(t)] < BUCKET_SIZE
    BY TableRoom DEF Saving
  <2> QED  BY <2>1, <2>2 DEF PHT!SlotsFit
<1>2. ASSUME opened >= 2, NEW x \in PHT!Buckets
      PROVE  /\ {tuples[x][k] : k \in 0 .. count[x] - 1} = Mine(x)
             /\ count[x] = Cardinality(Mine(x))
  <2> DEFINE K == 0 .. count[x] - 1
             f == [k \in K |-> tuples[x][k]]
  <2>1. /\ \A k \in K : tuples[x][k] \in Mine(x)
        /\ \A n \in Mine(x) : \E k \in K : tuples[x][k] = n
        /\ \A k, l \in K : tuples[x][k] = tuples[x][l] => k = l
    BY <1>2, TableFull
  <2>2. count[x] \in Nat
    BY DEF TableTypeInv
  <2>3. IsFiniteSet(K) /\ Cardinality(K) = count[x]
    <3>1. 0 \in Int /\ count[x] - 1 \in Int
      BY <2>2
    <3>2. IsFiniteSet(0 .. count[x] - 1)
          /\ Cardinality(0 .. count[x] - 1) = IF 0 > count[x] - 1 THEN 0 ELSE (count[x] - 1) - 0 + 1
      BY ONLY <3>1, FS_Interval
    <3> QED  BY <2>2, <3>2
  <2> HIDE DEF K
  <2>4. /\ f \in [K -> Mine(x)]
        /\ \A k, l \in K : f[k] = f[l] => k = l
        /\ \A n \in Mine(x) : \E k \in K : f[k] = n
    BY ONLY <2>1
  <2> HIDE DEF f
  <2>5. f \in Bijection(K, Mine(x))
    BY ONLY <2>4 DEF Bijection, Injection, Surjection, IsInjective
  <2>6. Cardinality(Mine(x)) = count[x]
    BY ONLY <2>3, <2>5, FS_Bijection DEF ExistsBijection
  <2> QED  BY <2>1, <2>6 DEF K
<1>3. PHT!TableComplete
  BY <1>2, TableCards DEF PHT!TableComplete, Mine
<1> QED  BY <1>1, <1>3

-----------------------------------------------------------------------------
(* The unroll factors up to which the unrolled build saves every tuple     *)
(* under its own index, and the invariant of a run.                        *)
UnrollsAtMostEight == "PHT_un" \in Algorithms => PHT_UNROLL_FACTOR <= 8
TablesInv ==
  /\ algorithm \in Algorithms
  /\ algorithm = "PHT" \/ (algorithm = "PHT_un" /\ UnrollsAtMostEight) => TableInv

(* A run begins in it, ...                                                 *)
LEMMA TablesInit == Init => TablesInv
<1> SUFFICES ASSUME Init PROVE TablesInv
  OBVIOUS
<1>1. algorithm \in Algorithms
  BY DEF Init
<1>2. (algorithm = "PHT" => PHT!Init) /\ (algorithm = "PHT_un" => PHT_un!Init)
  BY DEF Init
<1> QED  BY <1>1, <1>2, TableInit DEF TablesInv

(* ... and every step stays in it.                                         *)
LEMMA TablesNext == TablesInv /\ [Next]_vars => TablesInv'
<1> SUFFICES ASSUME TablesInv, [Next]_vars PROVE TablesInv'
  OBVIOUS
<1>0. UnrollsAtMostEight' <=> UnrollsAtMostEight
  BY DEF UnrollsAtMostEight, Algorithms
<1>1. CASE Next
  <2>1. algorithm' = algorithm /\ algorithm' \in Algorithms'
    BY <1>1, OneJoin DEF TablesInv, Algorithms
  <2>2. CASE algorithm = "PHT"
    <3>1. (\E t \in Threads : PHT!Step(t)) \/ PHT!Open \/ PHT!Return \/ UNCHANGED vars
      BY <1>1, <2>2, OneJoin
    <3>2. TableInv
      BY <2>2 DEF TablesInv
    <3>3. TableInv'
      BY <3>1, <3>2, TableStep, TableOther, TableReturn
    <3> QED  BY <2>1, <3>3 DEF TablesInv
  <2>3. CASE algorithm = "PHT_un" /\ UnrollsAtMostEight
    <3>1. (\E t \in Threads : PHT_un!Step(t)) \/ PHT_un!Open \/ PHT_un!Return \/ UNCHANGED vars
      BY <1>1, <2>3, OneJoin
    <3>2. TableInv /\ "PHT_un" \in Algorithms
      BY <2>3 DEF TablesInv
    <3>3. PHT_UNROLL_FACTOR \in 1 .. 8
      <4>1. PHT_UNROLL_FACTOR \in Nat \ {0}
        BY <3>2, RunAssumption DEF PHT_un!NoOverflowAssumption
      <4>2. PHT_UNROLL_FACTOR <= 8
        BY <2>3, <3>2 DEF UnrollsAtMostEight
      <4> QED  BY ONLY <4>1, <4>2
    <3>4. TableInv'
      BY <3>1, <3>2, <3>3, UnrolledStep, TableStep, TableOther, TableReturn
    <3> QED  BY <2>1, <3>4 DEF TablesInv
  <2>4. CASE ~(algorithm = "PHT" \/ (algorithm = "PHT_un" /\ UnrollsAtMostEight))
    BY <1>0, <2>1, <2>4 DEF TablesInv
  <2> QED  BY <2>2, <2>3, <2>4
<1>2. CASE UNCHANGED vars
  <2>1. algorithm' = algorithm /\ algorithm' \in Algorithms'
    BY <1>2 DEF TablesInv, Algorithms, vars
  <2> QED  BY <1>0, <1>2, <2>1, TableOther DEF TablesInv
<1> QED  BY <1>1, <1>2

(* With any number of threads and any dense R, PHT writes no bucket past   *)
(* its last slot, although no code checks that, and after the build each   *)
(* bucket holds exactly the tuples of R that hash to it.                   *)
THEOREM PHTFillsTable == Spec => [](algorithm = "PHT" => PHT!SlotsFit /\ PHT!TableComplete)
<1>1. TablesInv => (algorithm = "PHT" => PHT!SlotsFit /\ PHT!TableComplete)
  BY TableSafe DEF TablesInv
<1> QED  BY <1>1, TablesInit, TablesNext, PTL DEF Spec

(* With any number of threads, any dense R and any S, PHT returns the      *)
(* number of pairs with equal keys: no tuple of R is lost or saved twice   *)
(* although the threads fill the buckets together.  So does PHT_un, if it  *)
(* unrolls at most eight tuples; with the default factor of ten it saves   *)
(* some tuples twice and others not at all.                                *)
THEOREM PHTCounts == UnrollsAtMostEight => (Spec => []ResultCorrect)
<1> SUFFICES ASSUME UnrollsAtMostEight PROVE Spec => []ResultCorrect
  OBVIOUS
<1>1. TablesInv => ResultCorrect
  <2> SUFFICES ASSUME TablesInv, algorithm \in {"PHT", "PHT_un"}
               PROVE  PHT!ResultCorrect /\ PHT_un!ResultCorrect
    BY DEF ResultCorrect
  <2>1. PHT!ResultCorrect
    BY DEF TablesInv, TableInv, TableResultInv
  <2>2. PHT_un!ResultCorrect <=> PHT!ResultCorrect
    BY TableCards DEF PHT!ResultCorrect, PHT_un!ResultCorrect
  <2> QED  BY <2>1, <2>2
<1> QED  BY <1>1, TablesInit, TablesNext, PTL DEF Spec
=============================================================================
