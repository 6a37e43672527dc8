------------------------------ MODULE RunJoin ------------------------------
(***************************************************************************)
(* run_join of joins.cpp with the joins it can be asked for: the name      *)
(* selects an algorithm, which then runs alone on its own state.           *)
(* PHT_o is the no-partitioning join with overflow buckets, PHT and PHT_un *)
(* are the plain and the unrolled one without, CHT is the concise hash     *)
(* table, CRKJ, CRKJF and CRKJS are the plain, the fused and the simple    *)
(* crack join, the last one without and (CRKJS_cut) with a threshold, MWAY *)
(* is the multi-way sort-merge join, of NThreads threads and (MWAY_1) of one, *)
(* NL and INL are the loop joins, and NPO_st, NPO_no and NPBC_st the hash  *)
(* joins of one thread.                                                    *)
(***************************************************************************)
EXTENDS Integers, Sequences, FiniteSets

CONSTANTS
  NThreads, Levels,        (* threads, and their base-2 logarithm         *)
  Workload,                (* name of an algorithm that is asked for ->   *)
                           (* the relations R and S it gets               *)
  BucketCounts, BUCKET_SIZE, PHT_UNROLL_FACTOR,
  NParts, W, L, Batch, Chunk, Garbage,
  NUM_BITS

VARIABLES
  algorithm,
  rkeys, skeys, finished, pc, inside, passed, opened,     (* of all algorithms *)
  latch,                                                  (* of PHT*           *)
  tuples,                                                 (* and of NPO*       *)
  num_results, result,                                    (* and of NL, INL    *)
  freed, dest,                                            (* of PHT_o          *)
  used, b,                                                (* and of NPO*       *)
  next,                                                   (* and of NPBC_st    *)
  bucket, hit,                                            (* of NPBC_st        *)
  at, tree, crew, localHistR, histR, p,                   (* of CRKJ*          *)
  matches,                                                (* and of NPBC_st    *)
  hist, dst, buffers, partBuffer, bits, tupleArray,       (* of CHT            *)
  counter, pos, seen, dropped, found, failed,
  tmp, chunks, buffer, live, merged, nresults,            (* of MWAY*          *)
  j,                                                      (* and of NL, NPBC   *)
  count,                                                  (* of PHT* and CHT   *)
  i,                                                      (* of all but CRKJ*  *)
  part,                                                   (* of CRKJ* and CHT  *)
  out                                                     (* of all but PHT    *)

common == << rkeys, skeys, finished, pc, inside, passed, opened >>
barrier == << inside, passed, opened >>
bucketVars == << latch, tuples, num_results, result >>
chainVars == << next, used, freed, dest, b >>
npbcVars == << bucket, hit >>
treeVars == << at, tree, crew, localHistR, histR, p >>
crkVars == << treeVars, matches >>
chtVars == << hist, dst, buffers, partBuffer, bits, tupleArray,
              counter, pos, seen, dropped, found, failed >>
mergeVars == << tmp, chunks, buffer, live, merged, nresults >>
mwayVars == << mergeVars, j >>
vars == << algorithm, common, bucketVars, chainVars, npbcVars, crkVars, chtVars, mwayVars,
           count, i, part, out >>

NextPow2(n) == CHOOSE x \in {2 ^ e : e \in 0 .. n} : n <= x /\ x < 2 * n

(* The algorithms that are asked for. *)
Algorithms == DOMAIN Workload
Cracking == {"CRKJ", "CRKJF", "CRKJS", "CRKJS_cut"}

InputsR(a) == Workload[a].R
InputsS(a) == Workload[a].S

PHT_o == INSTANCE NoPartitioningJoin WITH
  RelationsR <- InputsR("PHT_o"), RelationsS <- InputsS("PHT_o")
PHT == INSTANCE NoOverflowJoin WITH
  RelationsR <- InputsR("PHT"), RelationsS <- InputsS("PHT"), Unroll <- FALSE
PHT_un == INSTANCE NoOverflowJoin WITH
  RelationsR <- InputsR("PHT_un"), RelationsS <- InputsS("PHT_un"), Unroll <- TRUE
CHT == INSTANCE CHTJoin WITH
  RelationsR <- InputsR("CHT"), RelationsS <- InputsS("CHT")
CRKJ == INSTANCE CrkJoin WITH
  RelationsR <- InputsR("CRKJ"), RelationsS <- InputsS("CRKJ"),
  Fused <- FALSE, Simple <- FALSE, Threshold <- 0
CRKJF == INSTANCE CrkJoin WITH
  RelationsR <- InputsR("CRKJF"), RelationsS <- InputsS("CRKJF"),
  Fused <- TRUE, Simple <- FALSE, Threshold <- 0
CRKJS == INSTANCE CrkJoin WITH
  RelationsR <- InputsR("CRKJS"), RelationsS <- InputsS("CRKJS"),
  Fused <- FALSE, Simple <- TRUE, Threshold <- 0
CRKJS_cut == INSTANCE CrkJoin WITH
  RelationsR <- InputsR("CRKJS_cut"), RelationsS <- InputsS("CRKJS_cut"),
  Fused <- FALSE, Simple <- TRUE, Threshold <- 1
MWAY == INSTANCE MultiwayJoin WITH
  RelationsR <- InputsR("MWAY"), RelationsS <- InputsS("MWAY")
MWAY_1 == INSTANCE MultiwayJoin WITH
  RelationsR <- InputsR("MWAY_1"), RelationsS <- InputsS("MWAY_1"), NThreads <- 1

NPO_st == INSTANCE SerialHashJoin WITH
  RelationsR <- InputsR("NPO_st"), RelationsS <- InputsS("NPO_st"), Overflows <- TRUE
NPO_no == INSTANCE SerialHashJoin WITH
  RelationsR <- InputsR("NPO_no"), RelationsS <- InputsS("NPO_no"), Overflows <- FALSE
NPBC_st == INSTANCE BucketChaining WITH
  RelationsR <- InputsR("NPBC_st"), RelationsS <- InputsS("NPBC_st"),
  Partitions <- 1, TableSize <- NextPow2
NL == INSTANCE LoopJoin WITH
  RelationsR <- InputsR("NL"), RelationsS <- InputsS("NL"), Indexed <- FALSE
INL == INSTANCE LoopJoin WITH
  RelationsR <- InputsR("INL"), RelationsS <- InputsS("INL"), Indexed <- TRUE

(* What each algorithm that is asked for assumes. *)
ASSUME RunAssumption ==
  /\ "PHT_o" \in Algorithms => PHT_o!BuildAssumption
  /\ "PHT" \in Algorithms => PHT!NoOverflowAssumption
  /\ "PHT_un" \in Algorithms => PHT_un!NoOverflowAssumption
  /\ "CHT" \in Algorithms => CHT!CHTAssumption
  /\ Algorithms \cap Cracking # {} => NThreads = 2 ^ Levels
  /\ "CRKJ" \in Algorithms => CRKJ!CrkAssumption
  /\ "CRKJF" \in Algorithms => CRKJF!CrkAssumption
  /\ "CRKJS" \in Algorithms => CRKJS!CrkAssumption
  /\ "CRKJS_cut" \in Algorithms => CRKJS_cut!CrkAssumption
  /\ "MWAY" \in Algorithms => MWAY!MultiwayAssumption
  /\ "MWAY_1" \in Algorithms => MWAY_1!MultiwayAssumption
  /\ "NPO_st" \in Algorithms => NPO_st!SerialAssumption
  /\ "NPO_no" \in Algorithms => NPO_no!SerialAssumption
  /\ "NPBC_st" \in Algorithms => NPBC_st!ChainingAssumption
  /\ "NL" \in Algorithms => NL!LoopAssumption
  /\ "INL" \in Algorithms => INL!LoopAssumption

-----------------------------------------------------------------------------
(* The state of an algorithm that is not the one asked for. *)
None == "none"
NoBarrier == inside = None /\ passed = None /\ opened = None
NoBuckets == latch = None /\ tuples = None /\ num_results = None /\ result = None
NoChains == next = None /\ used = None /\ freed = None /\ dest = None /\ b = None
NoNPBC == bucket = None /\ hit = None
NoTree ==
  /\ at = None /\ tree = None /\ crew = None
  /\ localHistR = None /\ histR = None /\ p = None
NoCrk == NoTree /\ matches = None
NoCHT ==
  /\ hist = None /\ dst = None /\ buffers = None /\ partBuffer = None /\ bits = None
  /\ tupleArray = None /\ counter = None /\ pos = None /\ seen = None /\ dropped = None
  /\ found = None /\ failed = FALSE

NoMerge ==
  /\ tmp = None /\ chunks = None /\ buffer = None /\ live = None
  /\ merged = None /\ nresults = None
NoMWAY == NoMerge /\ j = None

(* For the joins without a table of buckets, ...                            *)
NoPHT == NoBuckets /\ NoChains /\ NoNPBC
(* ... and for the joins of one thread, or of threads without barriers.     *)
NoParallel == NoBarrier /\ NoTree /\ NoCHT /\ NoMerge /\ part = None

Init ==
  /\ algorithm \in Algorithms
  /\ \/ /\ algorithm = "PHT_o" /\ PHT_o!Init
        /\ NoNPBC /\ NoCrk /\ NoCHT /\ NoMWAY /\ part = None
     \/ /\ algorithm \in {"PHT", "PHT_un"} /\ IF algorithm = "PHT" THEN PHT!Init ELSE PHT_un!Init
        /\ NoChains /\ NoNPBC /\ NoCrk /\ NoCHT /\ NoMWAY /\ part = None /\ out = {}
     \/ algorithm = "CHT" /\ CHT!Init /\ NoPHT /\ NoCrk /\ NoMWAY
     \/ /\ \/ algorithm = "CRKJ" /\ CRKJ!Init
           \/ algorithm = "CRKJF" /\ CRKJF!Init
           \/ algorithm = "CRKJS" /\ CRKJS!Init
           \/ algorithm = "CRKJS_cut" /\ CRKJS_cut!Init
        /\ NoPHT /\ NoCHT /\ NoMWAY /\ count = None /\ i = None
     \/ /\ algorithm \in {"MWAY", "MWAY_1"} /\ IF algorithm = "MWAY" THEN MWAY!Init ELSE MWAY_1!Init
        /\ NoPHT /\ NoCrk /\ NoCHT /\ count = None /\ part = None
     \/ /\ algorithm \in {"NPO_st", "NPO_no"} /\ IF algorithm = "NPO_st" THEN NPO_st!Init ELSE NPO_no!Init
        /\ NoParallel /\ NoNPBC /\ latch = None /\ num_results = None /\ freed = None /\ dest = None
        /\ matches = None /\ j = None /\ count = None
     \/ /\ algorithm = "NPBC_st" /\ NPBC_st!Init /\ finished = FALSE
        /\ NoParallel /\ NoBuckets /\ used = None /\ freed = None /\ dest = None /\ b = None /\ count = None
     \/ /\ algorithm \in {"NL", "INL"} /\ IF algorithm = "NL" THEN NL!Init ELSE INL!Init
        /\ NoParallel /\ NoChains /\ NoNPBC /\ latch = None /\ tuples = None
        /\ matches = None /\ count = None /\ pc = None

(* What an algorithm leaves alone. *)
OnlyPHT_o == UNCHANGED << algorithm, npbcVars, crkVars, chtVars, mwayVars, part >>
OnlyPHT == UNCHANGED << algorithm, chainVars, npbcVars, crkVars, chtVars, mwayVars, part, out >>
OnlyCHT == UNCHANGED << algorithm, bucketVars, chainVars, npbcVars, crkVars, mwayVars >>
OnlyCRKJ == UNCHANGED << algorithm, bucketVars, chainVars, npbcVars, chtVars, mwayVars, count, i >>
OnlyMWAY == UNCHANGED << algorithm, bucketVars, chainVars, npbcVars, crkVars, chtVars, count, part >>
NotParallel == UNCHANGED << algorithm, barrier, treeVars, chtVars, mergeVars, count, part >>
OnlyNPO == NotParallel /\ UNCHANGED << npbcVars, latch, num_results, freed, dest, matches, j >>
OnlyNPBC == NotParallel /\ UNCHANGED << bucketVars, used, freed, dest, b >>
OnlyNL == NotParallel /\ UNCHANGED << chainVars, npbcVars, latch, tuples, matches, pc >>

Threads == 0 .. NThreads - 1

(* A step of a thread of the algorithm ... *)
Step(t) ==
  \/ algorithm = "PHT_o" /\ PHT_o!Step(t) /\ OnlyPHT_o
  \/ algorithm = "PHT" /\ PHT!Step(t) /\ OnlyPHT
  \/ algorithm = "PHT_un" /\ PHT_un!Step(t) /\ OnlyPHT
  \/ algorithm = "CHT" /\ ~failed /\ CHT!Step(t) /\ OnlyCHT
  \/ algorithm = "CRKJ" /\ CRKJ!Step(t) /\ OnlyCRKJ
  \/ algorithm = "CRKJF" /\ CRKJF!Step(t) /\ OnlyCRKJ
  \/ algorithm = "CRKJS" /\ CRKJS!Step(t) /\ OnlyCRKJ
  \/ algorithm = "CRKJS_cut" /\ CRKJS_cut!Step(t) /\ OnlyCRKJ
  \/ algorithm = "MWAY" /\ MWAY!Step(t) /\ OnlyMWAY
  \/ algorithm = "MWAY_1" /\ t = 0 /\ MWAY_1!Step(t) /\ OnlyMWAY
  \/ algorithm = "NL" /\ NL!Step(t) /\ OnlyNL
  \/ algorithm = "INL" /\ INL!Step(t) /\ OnlyNL
  \/ algorithm = "NPO_st" /\ t = 0 /\ NPO_st!Step /\ OnlyNPO
  \/ algorithm = "NPO_no" /\ t = 0 /\ NPO_no!Step /\ OnlyNPO
  \/ algorithm = "NPBC_st" /\ t = 0 /\ NPBC_st!Step /\ UNCHANGED finished /\ OnlyNPBC

(* ... of the threads that crack the first levels, ...                      *)
CrewStep ==
  \/ algorithm = "CRKJ" /\ CRKJ!AnyCrewStep /\ OnlyCRKJ
  \/ algorithm = "CRKJF" /\ CRKJF!AnyCrewStep /\ OnlyCRKJ
  \/ algorithm = "CRKJS" /\ CRKJS!AnyCrewStep /\ OnlyCRKJ
  \/ algorithm = "CRKJS_cut" /\ CRKJS_cut!AnyCrewStep /\ OnlyCRKJ

(* ... of the last thread in a barrier, ...                                 *)
Open ==
  \/ algorithm = "PHT_o" /\ PHT_o!Open /\ OnlyPHT_o
  \/ algorithm = "PHT" /\ PHT!Open /\ OnlyPHT
  \/ algorithm = "PHT_un" /\ PHT_un!Open /\ OnlyPHT
  \/ algorithm = "CHT" /\ ~failed /\ CHT!Open /\ OnlyCHT
  \/ algorithm = "CRKJ" /\ CRKJ!Open /\ OnlyCRKJ
  \/ algorithm = "CRKJF" /\ CRKJF!Open /\ OnlyCRKJ
  \/ algorithm = "CRKJS" /\ CRKJS!Open /\ OnlyCRKJ
  \/ algorithm = "CRKJS_cut" /\ CRKJS_cut!Open /\ OnlyCRKJ
  \/ algorithm = "MWAY" /\ MWAY!Open /\ OnlyMWAY
  \/ algorithm = "MWAY_1" /\ MWAY_1!Open /\ OnlyMWAY

(* ... and of the main thread, which waits for all and sums up.             *)
Return ==
  \/ algorithm = "PHT_o" /\ PHT_o!Return /\ OnlyPHT_o
  \/ algorithm = "PHT" /\ PHT!Return /\ OnlyPHT
  \/ algorithm = "PHT_un" /\ PHT_un!Return /\ OnlyPHT
  \/ algorithm = "CHT" /\ ~failed /\ CHT!Return /\ OnlyCHT
  \/ algorithm = "CRKJ" /\ CRKJ!Return /\ OnlyCRKJ
  \/ algorithm = "CRKJF" /\ CRKJF!Return /\ OnlyCRKJ
  \/ algorithm = "CRKJS" /\ CRKJS!Return /\ OnlyCRKJ
  \/ algorithm = "CRKJS_cut" /\ CRKJS_cut!Return /\ OnlyCRKJ
  \/ algorithm = "MWAY" /\ MWAY!Return /\ OnlyMWAY
  \/ algorithm = "MWAY_1" /\ MWAY_1!Return /\ OnlyMWAY
  \/ algorithm = "NL" /\ NL!Return /\ OnlyNL
  \/ algorithm = "INL" /\ INL!Return /\ OnlyNL
  \/ algorithm = "NPO_st" /\ NPO_st!Return /\ OnlyNPO
  \/ algorithm = "NPO_no" /\ NPO_no!Return /\ OnlyNPO
  \/ algorithm = "NPBC_st" /\ NPBC_st!Return /\ finished' = TRUE /\ OnlyNPBC

Terminated == (finished \/ failed) /\ UNCHANGED vars

Next == (\E t \in Threads : Step(t)) \/ CrewStep \/ Open \/ Return \/ Terminated

Spec == Init /\ [][Next]_vars

(* Every thread is scheduled.  A test-and-set latch is not fair, but each   *)
(* thread takes it only finitely often, so this is enough.                  *)
FairSpec ==
  /\ Spec
  /\ \A t \in Threads : WF_vars(Step(t))
  /\ WF_vars(CrewStep) /\ WF_vars(Open) /\ WF_vars(Return)

-----------------------------------------------------------------------------
(* Two threads never work on chains of the same bucket at a time, exactly   *)
(* the buckets that are worked on are locked, and a slice that a thread may *)
(* still crack belongs to no partition of another thread.                   *)
Exclusive ==
  /\ algorithm = "PHT_o" => PHT_o!LatchProtects
  /\ algorithm \in Cracking => CRKJ!SlicesPrivate

(* PHT_o: a thread that probes never stands on an overflow bucket whose     *)
(* buffer has been freed.  MWAY: the buffer that all threads merge in, of   *)
(* whichever thread it is, has not been freed.                              *)
NoUseAfterFree ==
  /\ algorithm = "PHT_o" => PHT_o!NoUseAfterFree
  /\ algorithm = "MWAY" => MWAY!BufferLive

(* No table is written past its end although no code checks that: dense     *)
(* keys spread over the buckets evenly enough, leave no overflow in the     *)
(* concise table (what the comments at CHT.hpp:175 and 203 say), and the    *)
(* table of a cracked partition gets as many tuples as thread 0 counted.    *)
TablesFit ==
  /\ algorithm = "PHT_o" => PHT_o!TypeOK
  /\ algorithm = "PHT" => PHT!SlotsFit
  /\ algorithm = "PHT_un" => PHT_un!SlotsFit
  /\ algorithm = "CHT" => CHT!TypeOK /\ CHT!DenseKeysFit
  /\ algorithm \in Cracking \ {"CRKJF"} => CRKJ!TableFits
  /\ algorithm \in {"NPO_st", "NPO_no"} => NPO_st!SlotsFit

(* Partitioning only moves tuples.  CHT writes full lines with stale slots  *)
(* that belong to others; once the open lines are repaired, each partition  *)
(* holds exactly its tuples.  A node of the crack tree holds exactly the    *)
(* tuples whose leading radix bits are its path.  The regions of the MWAY   *)
(* threads do not overlap: each chunk has its tuples, sorted.               *)
PartitionsComplete ==
  /\ algorithm = "MWAY" => MWAY!ChunksComplete
  /\ algorithm = "MWAY_1" => MWAY_1!ChunksComplete
  /\ algorithm = "CHT" => CHT!ClustersComplete
  /\ algorithm \in Cracking => CRKJ!TreeSound

(* From the barrier behind the build on, a probe finds every tuple of R:    *)
(* in the chain of its bucket, in its bucket, or, if the keys are dense, at *)
(* the place that bitmap and counts give it.                                *)
TablesComplete ==
  /\ algorithm = "NPBC_st" => NPBC_st!ChainsComplete
  /\ algorithm = "PHT_o" => PHT_o!ChainsComplete
  /\ algorithm = "PHT" => PHT!TableComplete
  /\ algorithm = "PHT_un" => PHT_un!TableComplete
  /\ algorithm = "CHT" /\ CHT!Dense(rkeys) => CHT!TableComplete

(* The tables that threads fill together are neither overrun nor lossy.     *)
TablesSound == TablesFit /\ TablesComplete

(* CHT: keys that are not dense may lose their tuple, but what the join     *)
(* reports are matches, and it counts none of them twice; with dense keys   *)
(* the program gives up only for a tuple of S without partner.              *)
ReportsSound ==
  algorithm = "CHT" => CHT!ReportsSound /\ (CHT!Dense(rkeys) => CHT!FailsOnlyOnMiss)

(* PHT returns the number of pairs with equal keys.                         *)
ResultCorrect ==
  /\ algorithm = "PHT" => PHT!ResultCorrect
  /\ algorithm = "PHT_un" => PHT_un!ResultCorrect

(* The number of results counted so far, by algorithm. *)
Counted ==
  CASE algorithm = "PHT_o" -> IF finished THEN result ELSE PHT_o!Total
    [] algorithm \in {"NL", "INL"} -> IF finished THEN result ELSE NL!Total
    [] algorithm \in {"NPO_st", "NPO_no"} -> result
    [] algorithm = "NPBC_st" -> matches
    [] algorithm = "CHT" -> CHT!Total
    [] algorithm \in Cracking -> CRKJ!Total
    [] algorithm \in {"MWAY", "MWAY_1"} -> MWAY!Total
    [] OTHER -> 0

Abstract == INSTANCE AbstractJoin WITH matches <- Counted

(* The algorithms whose pairs are part of the model; CHT is made for dense  *)
(* keys, MWAY needs threads that agree on the radix bits, and CRKJF does    *)
(* not keep the promise.                                                    *)
Promises ==
  \/ algorithm \in {"PHT_o", "CRKJ", "CRKJS", "CRKJS_cut", "MWAY_1", "NL", "INL", "NPO_st", "NPO_no", "NPBC_st"}
  \/ algorithm = "CHT" /\ CHT!Dense(rkeys)
  \/ algorithm = "MWAY" /\ MWAY!SameShift

(* A join with overflow buckets, a concise table or a cracked one, or one   *)
(* that sorts and merges, a loop join and a join of one thread report each  *)
(* matching pair once, and return only after that.                          *)
ImplementsJoin ==
  /\ Abstract!Init
  /\ [][Promises => Abstract!Report \/ Abstract!Finish \/ UNCHANGED Abstract!jvars]_vars

(* Every join returns, or CHT gives up. *)
Termination == <>(finished \/ failed)
=============================================================================
