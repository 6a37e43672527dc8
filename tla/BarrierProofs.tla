---------------------------- MODULE BarrierProofs ----------------------------
(***************************************************************************)
(* The barrier is correct for every number of threads and rounds and for   *)
(* every width of the round counter that has at least two values.          *)
(***************************************************************************)
EXTENDS Barrier, FiniteSetTheorems, TLAPS

(* The number of threads is a positive natural number.                      *)
LEMMA ThreadCountFacts ==
  /\ threadCount \in Nat
  /\ threadCount >= 1
  /\ Cardinality(Waiting) \in 0 .. threadCount
  /\ IsFiniteSet(Waiting)
<1>1. threadCount \in Nat
  BY BarrierAssumption, FS_CardinalityType DEF threadCount
<1>2. threadCount # 0
  BY BarrierAssumption, FS_EmptySet DEF threadCount
<1>3. Waiting \subseteq Threads
  BY DEF Waiting
<1>4. IsFiniteSet(Waiting) /\ Cardinality(Waiting) <= Cardinality(Threads)
  BY <1>3, BarrierAssumption, FS_Subset
<1>5. Cardinality(Waiting) \in Nat
  BY <1>4, FS_CardinalityType
<1> QED  BY <1>1, <1>2, <1>4, <1>5 DEF threadCount

(* When the thread about to arrive is the only one the counter misses, all  *)
(* the others are waiting.                                                  *)
LEMMA LastArriver ==
  ASSUME NEW t \in Threads, t \notin Waiting,
         Cardinality(Waiting) = threadCount - 1
  PROVE  Threads \ {t} = Waiting
<1>1. Waiting \subseteq Threads \ {t}
  BY DEF Waiting
<1>2. IsFiniteSet(Threads \ {t}) /\ Cardinality(Threads \ {t}) = threadCount - 1
  BY BarrierAssumption, FS_RemoveElement DEF threadCount
<1> QED  BY <1>1, <1>2, FS_Subset

(* An arriving thread that is not last joins the waiting ones. *)
LEMMA OneMoreWaiting ==
  ASSUME NEW t \in Threads, t \notin Waiting
  PROVE  Cardinality(Waiting \cup {t}) = Cardinality(Waiting) + 1
BY ThreadCountFacts, FS_AddElement

(* As long as a thread is outside the barrier, not all are waiting.         *)
LEMMA NotAllWaiting ==
  ASSUME NEW t \in Threads, t \notin Waiting
  PROVE  Cardinality(Waiting) < threadCount
<1>1. Waiting \cup {t} \subseteq Threads
  BY DEF Waiting
<1>2. Cardinality(Waiting \cup {t}) <= threadCount
  BY <1>1, BarrierAssumption, FS_Subset DEF threadCount
<1> QED  BY <1>2, OneMoreWaiting, ThreadCountFacts

-----------------------------------------------------------------------------
(* The invariant holds initially.                                           *)
LEMMA InitInv == Init => IInv
<1> SUFFICES ASSUME Init PROVE IInv
  OBVIOUS
<1>1. Waiting = {}
  BY DEF Init, Waiting
<1>2. Cardinality(Waiting) = 0
  BY <1>1, FS_EmptySet
<1>3. TypeOK
  BY BarrierAssumption, ThreadCountFacts DEF Init, TypeOK
<1>4. \A t \in Threads : ThreadInv(t)
  BY <1>1 DEF Init, ThreadInv
<1>5. LastInv /\ CounterInv
  BY <1>2, ThreadCountFacts DEF Init, LastInv, CounterInv, LastStates
<1> QED  BY <1>3, <1>4, <1>5 DEF IInv

(* Where nobody has found itself last, the counter has not reached zero     *)
(* while a thread is still on its way to it.                                *)
LEMMA ArrivalCounter ==
  ASSUME IInv, NEW t \in Threads, pc[t] = "arrive"
  PROVE  /\ \A u \in Threads : pc[u] \notin LastStates
         /\ cntr = threadCount - Cardinality(Waiting)
         /\ cntr >= 1
         /\ t \notin Waiting
<1>1. t \notin Waiting
  BY DEF Waiting
<1>2. \A u \in Threads : pc[u] \notin LastStates
  BY <1>1 DEF IInv, LastInv, LastStates
<1> QED
  BY <1>1, <1>2, NotAllWaiting, ThreadCountFacts DEF IInv, CounterInv

(* Loading the round number preserves the invariant.                        *)
LEMMA LoadRoundInv ==
  ASSUME IInv, NEW t \in Threads, LoadRound(t)
  PROVE  IInv'
<1> USE DEF LoadRound
<1>1. TypeOK'
  BY DEF IInv, TypeOK
<1>2. Waiting' = Waiting
  BY DEF IInv, TypeOK, Waiting
<1>3. \A u \in Threads : ThreadInv(u)'
  <2> TAKE u \in Threads
  <2>1. t \notin Waiting /\ \A v \in Threads : pc[v] = "release" => pc'[v] = "release"
    BY DEF IInv, TypeOK, Waiting
  <2>2. CASE u = t
    BY <1>2, <2>1, <2>2 DEF IInv, TypeOK, ThreadInv
  <2>3. CASE u # t
    BY <1>2, <2>1, <2>3 DEF IInv, TypeOK, ThreadInv
  <2> QED  BY <2>2, <2>3
<1>4. \A u \in Threads : pc'[u] \in LastStates => pc[u] \in LastStates /\ u # t
  BY DEF IInv, TypeOK, LastStates
<1>5. LastInv'
  BY <1>2, <1>4 DEF IInv, LastInv
<1>6. \A u \in Threads : u # t => pc'[u] = pc[u]
  BY DEF IInv, TypeOK
<1>7. CounterInv'
  BY <1>2, <1>4, <1>6 DEF IInv, CounterInv, LastStates, threadCount, TypeOK
<1> QED  BY <1>1, <1>3, <1>5, <1>7 DEF IInv

(* The atomic decrement preserves the invariant.                            *)
LEMMA FetchSubInv ==
  ASSUME IInv, NEW t \in Threads, FetchSub(t)
  PROVE  IInv'
<1> USE DEF FetchSub
<1>1. /\ \A u \in Threads : pc[u] \notin LastStates
      /\ cntr = threadCount - Cardinality(Waiting)
      /\ cntr >= 1
      /\ t \notin Waiting
  BY ArrivalCounter
<1>2. TypeOK'
  BY <1>1, ThreadCountFacts DEF IInv, TypeOK, LastStates
<1>3. /\ prevRound[t] = round
      /\ passed[t] = finalized
      /\ passed[t] < Rounds
  BY DEF IInv, ThreadInv
<1>4. \A u \in Threads : u # t => pc'[u] = pc[u]
  BY DEF IInv, TypeOK
<1>5. \A u \in Threads : pc[u] # "release"
  BY <1>1 DEF LastStates
<1>6. CASE cntr = 1
  <2>1. cntr' = 0 /\ pc'[t] = "reset"
    BY <1>6 DEF IInv, TypeOK
  <2>2. Waiting' = Waiting
    BY <2>1, <1>1, <1>4 DEF Waiting
  <2>3. Threads \ {t} = Waiting
    <3> HIDE DEF FetchSub
    <3>1. 1 = threadCount - Cardinality(Waiting)
      BY <1>1, <1>6
    <3>2. threadCount \in Nat /\ Cardinality(Waiting) \in Nat
      BY ThreadCountFacts
    <3>3. Cardinality(Waiting) = threadCount - 1
      BY <3>1, <3>2
    <3>4. t \notin Waiting
      BY <1>1
    <3> QED  BY <3>3, <3>4, LastArriver
  <2>4. \A u \in Threads \ {t} : u \in Waiting' /\ passed'[u] = passed'[t]
    BY <2>2, <2>3, <1>3, <1>5 DEF IInv, ThreadInv
  <2>5. \A u \in Threads : ThreadInv(u)'
    <3> TAKE u \in Threads
    <3>1. CASE u = t
      BY <3>1, <2>1, <1>3, <2>2, <1>1 DEF ThreadInv
    <3>2. CASE u # t
      BY <3>2, <1>4, <1>5, <2>2, <2>3 DEF ThreadInv, IInv
    <3> QED  BY <3>1, <3>2
  <2>6. LastInv'
    BY <2>4, <1>1, <1>4 DEF LastInv
  <2>7. CounterInv'
    BY <2>1, <1>1, <1>4 DEF CounterInv, LastStates
  <2> QED  BY <1>2, <2>5, <2>6, <2>7 DEF IInv
<1>7. CASE cntr # 1
  <2>1. cntr' = cntr - 1 /\ pc'[t] = "spin"
    BY <1>7, <1>1 DEF IInv, TypeOK
  <2>2. Waiting' = Waiting \cup {t}
    BY <2>1, <1>3, <1>4 DEF Waiting
  <2>3. \A u \in Threads : ThreadInv(u)'
    <3> TAKE u \in Threads
    <3>1. CASE u = t
      BY <3>1, <2>1, <1>3 DEF ThreadInv
    <3>2. CASE u # t
      BY <3>2, <1>4, <1>5, <2>2 DEF ThreadInv, IInv
    <3> QED  BY <3>1, <3>2
  <2>4. \A u \in Threads : pc'[u] \notin LastStates
    BY <2>1, <1>1, <1>4 DEF LastStates
  <2>5. LastInv'
    BY <2>4 DEF LastInv
  <2>6. Cardinality(Waiting)' = Cardinality(Waiting) + 1
    BY <2>2, <1>1, OneMoreWaiting
  <2>7. cntr' = threadCount - Cardinality(Waiting)'
    BY <2>6, <2>1, <1>1, ThreadCountFacts
  <2>8. CounterInv'
    BY <2>4, <2>7 DEF CounterInv, LastStates, threadCount
  <2> QED  BY <1>2, <2>3, <2>5, <2>8 DEF IInv
<1> QED  BY <1>6, <1>7

(* The steps of the last arriver.  All other threads stay in Waiting until  *)
(* round is incremented.                                                    *)
LEMMA LastStepFacts ==
  ASSUME IInv, NEW t \in Threads, pc[t] \in LastStates
  PROVE  /\ \A u \in Threads \ {t} : /\ pc[u] = "spin"
                                     /\ prevRound[u] = round
                                     /\ passed[u] = passed[t]
         /\ passed[t] < Rounds
         /\ t \notin Waiting
BY DEF IInv, LastInv, ThreadInv, Waiting, LastStates

(* The reset of the counter preserves the invariant.                        *)
LEMMA ResetCounterInv ==
  ASSUME IInv, NEW t \in Threads, ResetCounter(t)
  PROVE  IInv'
<1> USE DEF ResetCounter
<1>1. /\ \A u \in Threads \ {t} : pc[u] = "spin" /\ prevRound[u] = round /\ passed[u] = passed[t]
      /\ passed[t] < Rounds
      /\ t \notin Waiting
      /\ passed[t] = finalized
  BY LastStepFacts DEF LastStates, IInv, ThreadInv
<1>2. pc'[t] = "finalize" /\ \A u \in Threads : u # t => pc'[u] = pc[u]
  BY DEF IInv, TypeOK
<1>3. TypeOK'
  BY ThreadCountFacts DEF IInv, TypeOK, LastStates
<1>4. Waiting' = Waiting
  BY <1>1, <1>2 DEF Waiting
<1>5. \A u \in Threads : ThreadInv(u)'
  BY <1>1, <1>2, <1>4 DEF ThreadInv, IInv
<1>6. LastInv'
  BY <1>1, <1>2 DEF LastInv, LastStates, Waiting
<1>7. CounterInv'
  BY <1>1, <1>2 DEF CounterInv, LastStates, threadCount
<1> QED  BY <1>3, <1>5, <1>6, <1>7 DEF IInv

(* Running the finalizer preserves the invariant.                           *)
LEMMA FinalizerInv ==
  ASSUME IInv, NEW t \in Threads, Finalizer(t)
  PROVE  IInv'
<1> USE DEF Finalizer
<1>1. /\ \A u \in Threads \ {t} : pc[u] = "spin" /\ prevRound[u] = round /\ passed[u] = passed[t]
      /\ passed[t] < Rounds
      /\ t \notin Waiting
      /\ passed[t] = finalized
      /\ cntr = threadCount
  BY LastStepFacts DEF LastStates, IInv, ThreadInv, CounterInv
<1>2. pc'[t] = "release" /\ \A u \in Threads : u # t => pc'[u] = pc[u]
  BY DEF IInv, TypeOK
<1>3. finalized' = finalized + 1 /\ finalized + 1 <= Rounds
  BY <1>1, BarrierAssumption DEF IInv, TypeOK
<1>4. TypeOK'
  BY <1>3, BarrierAssumption DEF IInv, TypeOK, LastStates
<1>5. Waiting' = Waiting
  BY <1>1, <1>2 DEF Waiting
<1>6. \A u \in Threads : ThreadInv(u)'
  BY <1>1, <1>2, <1>3, <1>5 DEF ThreadInv, IInv, TypeOK, Waiting
<1>7. LastInv'
  BY <1>1, <1>2 DEF LastInv, LastStates, Waiting
<1>8. CounterInv'
  BY <1>1, <1>2 DEF CounterInv, LastStates, threadCount
<1> QED  BY <1>4, <1>6, <1>7, <1>8 DEF IInv

(* Two values of round are enough: only the threads released last can still *)
(* hold an old one.                                                         *)
LEMMA NextRoundDiffers ==
  ASSUME TypeOK
  PROVE  /\ (round + 1) % RoundMod # round
         /\ (round + 1) % RoundMod \in 0 .. RoundMod - 1
<1>1. CASE round + 1 < RoundMod
  BY <1>1, BarrierAssumption DEF TypeOK
<1>2. CASE round + 1 = RoundMod
  BY <1>2, BarrierAssumption DEF TypeOK
<1> QED  BY <1>1, <1>2, BarrierAssumption DEF TypeOK

(* Publishing the new round preserves the invariant.                        *)
LEMMA ReleaseInv ==
  ASSUME IInv, NEW t \in Threads, Release(t)
  PROVE  IInv'
<1> USE DEF Release
<1>1. /\ \A u \in Threads \ {t} : pc[u] = "spin" /\ prevRound[u] = round /\ passed[u] = passed[t]
      /\ passed[t] < Rounds
      /\ passed[t] + 1 = finalized
      /\ cntr = threadCount
  BY LastStepFacts DEF LastStates, IInv, ThreadInv, CounterInv
<1>2. pc'[t] = "work" /\ \A u \in Threads : u # t => pc'[u] = pc[u]
  BY DEF IInv, TypeOK
<1>3. passed'[t] = finalized /\ \A u \in Threads : u # t => passed'[u] = passed[u]
  BY <1>1 DEF IInv, TypeOK
<1>4. round' # round /\ round' \in 0 .. RoundMod - 1
  BY NextRoundDiffers DEF IInv
<1>5. TypeOK'
  BY <1>1, <1>4, BarrierAssumption DEF IInv, TypeOK
<1>6. Waiting' = {}
  BY <1>1, <1>2, <1>4 DEF Waiting
<1>7. Cardinality(Waiting)' = 0
  BY <1>6, FS_EmptySet
<1>8. \A u \in Threads : ThreadInv(u)'
  BY <1>1, <1>2, <1>3, <1>4, <1>6 DEF ThreadInv
<1>9. \A u \in Threads : pc'[u] \notin LastStates
  BY <1>1, <1>2 DEF LastStates
<1>10. LastInv' /\ CounterInv'
  BY <1>1, <1>7, <1>9, ThreadCountFacts DEF LastInv, CounterInv, LastStates, threadCount
<1> QED  BY <1>5, <1>8, <1>10 DEF IInv

(* Leaving the spin loop preserves the invariant.                           *)
LEMMA SpinExitInv ==
  ASSUME IInv, NEW t \in Threads, SpinExit(t)
  PROVE  IInv'
<1> USE DEF SpinExit
<1>1. t \notin Waiting /\ passed[t] + 1 = finalized /\ passed[t] < Rounds
  BY DEF Waiting, IInv, ThreadInv
<1>2. \A u \in Threads : pc[u] \notin LastStates
  BY <1>1 DEF IInv, LastInv, LastStates
<1>3. pc'[t] = "work" /\ \A u \in Threads : u # t => pc'[u] = pc[u]
  BY DEF IInv, TypeOK
<1>4. passed'[t] = finalized /\ \A u \in Threads : u # t => passed'[u] = passed[u]
  BY <1>1 DEF IInv, TypeOK
<1>5. TypeOK'
  BY <1>1, BarrierAssumption DEF IInv, TypeOK
<1>6. Waiting' = Waiting
  BY <1>1, <1>3 DEF Waiting
<1>7. \A u \in Threads : ThreadInv(u)'
  BY <1>2, <1>3, <1>4, <1>6 DEF ThreadInv, IInv, LastStates
<1>8. \A u \in Threads : pc'[u] \notin LastStates
  BY <1>2, <1>3 DEF LastStates
<1>9. LastInv' /\ CounterInv'
  BY <1>2, <1>6, <1>8 DEF LastInv, CounterInv, IInv, LastStates, threadCount
<1> QED  BY <1>5, <1>7, <1>9 DEF IInv

(* A stuttering step preserves the invariant.                               *)
LEMMA StutterInv ==
  ASSUME IInv, UNCHANGED vars
  PROVE  IInv'
BY DEF vars, IInv, TypeOK, ThreadInv, Waiting, LastInv, CounterInv, LastStates, threadCount

(* Every step preserves the invariant.                                      *)
LEMMA StepInv == IInv /\ [Next]_vars => IInv'
<1> SUFFICES ASSUME IInv, [Next]_vars PROVE IInv'
  OBVIOUS
<1>1. ASSUME NEW t \in Threads, Step(t) PROVE IInv'
  <2>1. CASE LoadRound(t)     BY <2>1, LoadRoundInv
  <2>2. CASE FetchSub(t)      BY <2>2, FetchSubInv
  <2>3. CASE ResetCounter(t)  BY <2>3, ResetCounterInv
  <2>4. CASE Finalizer(t)     BY <2>4, FinalizerInv
  <2>5. CASE Release(t)       BY <2>5, ReleaseInv
  <2>6. CASE Spin(t)          BY <2>6, StutterInv DEF Spin
  <2>7. CASE SpinExit(t)      BY <2>7, SpinExitInv
  <2> QED  BY <1>1, <2>1, <2>2, <2>3, <2>4, <2>5, <2>6, <2>7 DEF Step
<1>2. CASE Terminated
  BY <1>2, StutterInv DEF Terminated
<1>3. CASE UNCHANGED vars
  BY <1>3, StutterInv
<1> QED  BY <1>1, <1>2, <1>3 DEF Next

(* The inductive invariant holds in every reachable state of the barrier.   *)
THEOREM BarrierInvariant == Spec => []IInv
BY InitInv, StepInv, PTL DEF Spec

-----------------------------------------------------------------------------
(* The unsigned thread counter of Barrier.hpp:12 never wraps below zero.    *)
THEOREM BarrierTypeOK == Spec => []TypeOK
BY BarrierInvariant, PTL DEF IInv

(* The invariant implies that each round is finalized once.                 *)
LEMMA InvFinalizedOnce == IInv => FinalizedOncePerRound
<1> SUFFICES ASSUME IInv, NEW t \in Threads
             PROVE  passed[t] <= finalized /\ finalized <= passed[t] + 1
  BY DEF FinalizedOncePerRound
<1>1. passed[t] \in Nat /\ finalized \in Nat
  BY BarrierAssumption DEF IInv, TypeOK
<1>2. CASE pc[t] # "spin"
  BY <1>1, <1>2 DEF IInv, TypeOK, ThreadInv, LastStates
<1>3. CASE pc[t] = "spin" /\ prevRound[t] # round
  BY <1>1, <1>3 DEF IInv, ThreadInv
<1>4. CASE t \in Waiting
  <2>1. CASE passed[t] = finalized
    BY <1>1, <2>1
  <2>2. CASE \E u \in Threads : pc[u] = "release"
    <3>1. PICK u \in Threads : pc[u] = "release"
      BY <2>2
    <3>2. passed[u] + 1 = finalized /\ passed[t] = passed[u]
      BY <3>1, <1>4 DEF IInv, ThreadInv, LastInv, LastStates, Waiting
    <3> QED  BY <1>1, <3>2
  <2> QED  BY <1>4, <2>1, <2>2 DEF IInv, ThreadInv
<1> QED  BY <1>2, <1>3, <1>4 DEF Waiting

(* What the last arriver allocates in the finalizer exists when any thread  *)
(* returns from wait, and no second finalizer replaces it.                  *)
THEOREM FinalizerOnce == Spec => []FinalizedOncePerRound
BY BarrierInvariant, InvFinalizedOnce, PTL

(* The invariant implies that the finalizer runs alone.                     *)
LEMMA InvFinalizerAlone == IInv => FinalizerRunsAlone
BY DEF IInv, LastInv, Waiting, FinalizerRunsAlone

(* The finalizer has the shared state for itself. *)
THEOREM FinalizerAlone == Spec => []FinalizerRunsAlone
BY BarrierInvariant, InvFinalizerAlone, PTL

(* The invariant implies that no thread overtakes another by a round.       *)
LEMMA InvNoOvertaking == IInv => NoOvertaking
<1> SUFFICES ASSUME IInv, NEW t \in Threads, NEW u \in Threads, passed[u] < passed[t]
             PROVE  passed[t] = passed[u] + 1 /\ pc[u] = "spin"
  BY DEF NoOvertaking
<1>1. /\ passed[t] <= finalized /\ finalized <= passed[t] + 1
      /\ passed[u] <= finalized /\ finalized <= passed[u] + 1
  BY InvFinalizedOnce DEF FinalizedOncePerRound
<1>2. passed[t] \in Nat /\ passed[u] \in Nat /\ finalized \in Nat
  BY BarrierAssumption DEF IInv, TypeOK
<1>3. passed[t] = finalized /\ finalized = passed[u] + 1
  BY <1>1, <1>2
<1>4. pc[u] \notin {"work", "arrive", "reset", "finalize"}
  BY <1>2, <1>3 DEF IInv, ThreadInv
<1>5. pc[u] # "release"
  BY <1>2, <1>3 DEF IInv, LastInv, LastStates
<1> QED  BY <1>3, <1>4, <1>5 DEF IInv, TypeOK, LastStates

(* No thread starts a phase while another is still in the previous one.     *)
THEOREM PhasesDoNotOverlap == Spec => []NoOvertaking
BY BarrierInvariant, InvNoOvertaking, PTL

-----------------------------------------------------------------------------
(* Refinement: FetchSub is the arrival, Finalizer opens the round, Release  *)
(* and SpinExit leave it, and every other access is invisible.              *)
LEMMA InitRefines == Init => Abstract!Init
BY DEF Init, Abstract!Init

(* The decrement is the arrival at the abstract barrier.                    *)
LEMMA FetchSubRefines ==
  ASSUME IInv, NEW t \in Threads, FetchSub(t)
  PROVE  Abstract!Enter(t)
<1>1. passed[t] < Rounds
  BY DEF IInv, ThreadInv, FetchSub
<1>2. pc'[t] \in {"reset", "spin"} /\ \A u \in Threads \ {t} : pc'[u] = pc[u]
  BY DEF IInv, TypeOK, FetchSub
<1> QED  BY <1>1, <1>2 DEF Abstract!Enter, FetchSub

(* The finalizer is the opening of the abstract barrier.                    *)
LEMMA FinalizerRefines ==
  ASSUME IInv, NEW t \in Threads, Finalizer(t)
  PROVE  Abstract!Open
<1>1. pc[t] = "finalize" /\ passed[t] = finalized
  BY DEF IInv, ThreadInv, Finalizer
<1>2. \A u \in Threads \ {t} : pc[u] = "spin" /\ passed[u] = passed[t]
  BY <1>1 DEF IInv, LastInv, LastStates, Waiting
<1>3. pc'[t] = "release" /\ \A u \in Threads \ {t} : pc'[u] = pc[u]
  BY DEF IInv, TypeOK, Finalizer
<1> QED  BY <1>1, <1>2, <1>3 DEF Abstract!Open, Finalizer

(* Returning from wait is leaving the abstract barrier.                     *)
LEMMA LeaveRefines ==
  ASSUME IInv, NEW t \in Threads, Release(t) \/ SpinExit(t)
  PROVE  Abstract!Leave(t)
<1>1. passed[t] + 1 = finalized /\ pc[t] \in {"release", "spin"}
  BY DEF IInv, ThreadInv, Release, SpinExit
<1>2. passed[t] < finalized
  BY <1>1, BarrierAssumption DEF IInv, TypeOK
<1>3. pc'[t] = "work" /\ \A u \in Threads \ {t} : pc'[u] = pc[u]
  BY DEF IInv, TypeOK, Release, SpinExit
<1> QED  BY <1>1, <1>2, <1>3 DEF Abstract!Leave, Release, SpinExit

(* A step that changes no abstract variable is a stutter.                   *)
LEMMA InternalStep ==
  ASSUME IInv, NEW t \in Threads,
         LoadRound(t) \/ ResetCounter(t) \/ Spin(t)
  PROVE  UNCHANGED Abstract!bvars
<1>1. \A u \in Threads : pc'[u] \in {"work", "arrive"} <=> pc[u] \in {"work", "arrive"}
  BY DEF IInv, TypeOK, LoadRound, ResetCounter, Spin, vars
<1> QED  BY <1>1 DEF Abstract!bvars, LoadRound, ResetCounter, Spin, vars

(* Every step is a step of the abstract barrier or a stutter.               *)
LEMMA StepRefines == IInv /\ [Next]_vars => [Abstract!Next]_(Abstract!bvars)
<1> SUFFICES ASSUME IInv, [Next]_vars PROVE [Abstract!Next]_(Abstract!bvars)
  OBVIOUS
<1>1. ASSUME NEW t \in Threads, Step(t) PROVE [Abstract!Next]_(Abstract!bvars)
  <2>1. CASE FetchSub(t)
    BY <2>1, FetchSubRefines DEF Abstract!Next
  <2>2. CASE Finalizer(t)
    BY <2>2, FinalizerRefines DEF Abstract!Next
  <2>3. CASE Release(t) \/ SpinExit(t)
    BY <2>3, LeaveRefines DEF Abstract!Next
  <2>4. CASE LoadRound(t) \/ ResetCounter(t) \/ Spin(t)
    BY <2>4, InternalStep
  <2> QED  BY <1>1, <2>1, <2>2, <2>3, <2>4 DEF Step
<1>2. CASE Terminated \/ UNCHANGED vars
  BY <1>2 DEF Terminated, vars, Abstract!bvars
<1> QED  BY <1>1, <1>2 DEF Next

(* The atomic-access barrier implements the rendezvous that the joins, the  *)
(* filters and the scans are written against.                               *)
THEOREM BarrierRefinement == Spec => ImplementsBarrier
BY BarrierInvariant, InitRefines, StepRefines, PTL DEF Spec, ImplementsBarrier, Abstract!Spec
=============================================================================
