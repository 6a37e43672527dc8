------------------------------- MODULE Barrier -------------------------------
(***************************************************************************)
(* The sense-reversing barrier of Barrier.hpp, one action per atomic       *)
(* access of wait(finalizer).  Every thread alternates between its own     *)
(* work and wait, Rounds times, the way prj_thread, npo_thread, CHTJoin,   *)
(* CrkJoin, parallel_filter and scan_wrapper use the class.                *)
(***************************************************************************)
EXTENDS Integers, FiniteSets

CONSTANTS
  Threads,    (* the threads that share the barrier                      *)
  Rounds,     (* number of calls of wait by each thread                  *)
  RoundMod,   (* number of values of round (uint8_t: 256)                *)
  CntrMod     (* number of values of cntr (uint64_t: 2^64)               *)

threadCount == Cardinality(Threads)

ASSUME BarrierAssumption ==
  /\ IsFiniteSet(Threads)
  /\ Threads # {}
  /\ Rounds \in Nat
  /\ RoundMod \in Nat /\ RoundMod >= 2
  /\ CntrMod \in Nat /\ CntrMod > threadCount

VARIABLES
  cntr,       (* threads still missing in this round                     *)
  round,      (* the round number the spinning threads compare with      *)
  prevRound,  (* local prevRound of each thread                          *)
  pc,         (* next atomic access of each thread                       *)
  passed,     (* history: rounds each thread has returned from           *)
  finalized   (* history: number of finalizer calls                      *)

vars == << cntr, round, prevRound, pc, passed, finalized >>

-----------------------------------------------------------------------------
Init ==
  /\ cntr = threadCount
  /\ round = 0
  /\ prevRound = [t \in Threads |-> 0]
  /\ pc = [t \in Threads |-> "work"]
  /\ passed = [t \in Threads |-> 0]
  /\ finalized = 0

(* Mutant: the round number of an earlier call is reused. *)
MutLoadRound(t) ==
  /\ pc[t] = "work"
  /\ passed[t] < Rounds
  /\ pc' = [pc EXCEPT ![t] = "arrive"]
  /\ UNCHANGED << cntr, round, prevRound, passed, finalized >>

(* wait is called: round is read before the arrival is announced. *)
LoadRound(t) ==
  /\ pc[t] = "work"
  /\ passed[t] < Rounds
  /\ prevRound' = [prevRound EXCEPT ![t] = round]
  /\ pc' = [pc EXCEPT ![t] = "arrive"]
  /\ UNCHANGED << cntr, round, passed, finalized >>

(* Mutant: two arrivals at once both take the branch of the last one. *)
MutFetchSub(t) ==
  /\ pc[t] = "arrive"
  /\ cntr' = IF cntr = 0 THEN CntrMod - 1 ELSE cntr - 1
  /\ pc' = [pc EXCEPT ![t] = IF cntr <= 2 THEN "reset" ELSE "spin"]
  /\ UNCHANGED << round, prevRound, passed, finalized >>

(* cntr.fetch_sub(1) decides who is last.  The counter is unsigned. *)
FetchSub(t) ==
  /\ pc[t] = "arrive"
  /\ cntr' = IF cntr = 0 THEN CntrMod - 1 ELSE cntr - 1
  /\ pc' = [pc EXCEPT ![t] = IF cntr = 1 THEN "reset" ELSE "spin"]
  /\ UNCHANGED << round, prevRound, passed, finalized >>

(* Mutant: the counter is not re-armed. *)
MutResetCounter(t) ==
  /\ pc[t] = "reset"
  /\ pc' = [pc EXCEPT ![t] = "finalize"]
  /\ UNCHANGED << cntr, round, prevRound, passed, finalized >>

(* The last thread re-arms the counter ... *)
ResetCounter(t) ==
  /\ pc[t] = "reset"
  /\ cntr' = threadCount
  /\ pc' = [pc EXCEPT ![t] = "finalize"]
  /\ UNCHANGED << round, prevRound, passed, finalized >>

(* ... runs the finalizer while the others spin ... *)
Finalizer(t) ==
  /\ pc[t] = "finalize"
  /\ finalized' = finalized + 1
  /\ pc' = [pc EXCEPT ![t] = "release"]
  /\ UNCHANGED << cntr, round, prevRound, passed >>

(* Mutant: the round number is not advanced. *)
MutRelease(t) ==
  /\ pc[t] = "release"
  /\ pc' = [pc EXCEPT ![t] = "work"]
  /\ passed' = [passed EXCEPT ![t] = @ + 1]
  /\ UNCHANGED << cntr, round, prevRound, finalized >>

(* ... and releases them with round++, which wraps. *)
Release(t) ==
  /\ pc[t] = "release"
  /\ round' = (round + 1) % RoundMod
  /\ pc' = [pc EXCEPT ![t] = "work"]
  /\ passed' = [passed EXCEPT ![t] = @ + 1]
  /\ UNCHANGED << cntr, prevRound, finalized >>

(* A spinning thread re-reads round and still finds the value it loaded. *)
Spin(t) ==
  /\ pc[t] = "spin"
  /\ round = prevRound[t]
  /\ UNCHANGED vars

(* Mutant: a thread leaves as soon as the counter has been re-armed. *)
MutSpinExit(t) ==
  /\ pc[t] = "spin"
  /\ cntr = threadCount
  /\ pc' = [pc EXCEPT ![t] = "work"]
  /\ passed' = [passed EXCEPT ![t] = @ + 1]
  /\ UNCHANGED << cntr, round, prevRound, finalized >>

(* It sees a round other than the one it loaded and returns false. *)
SpinExit(t) ==
  /\ pc[t] = "spin"
  /\ round # prevRound[t]
  /\ pc' = [pc EXCEPT ![t] = "work"]
  /\ passed' = [passed EXCEPT ![t] = @ + 1]
  /\ UNCHANGED << cntr, round, prevRound, finalized >>

Step(t) ==
  \/ LoadRound(t) \/ FetchSub(t) \/ ResetCounter(t)
  \/ Finalizer(t) \/ Release(t) \/ Spin(t) \/ SpinExit(t)

(* All threads have made their Rounds calls. *)
Terminated ==
  /\ \A t \in Threads : pc[t] = "work" /\ passed[t] = Rounds
  /\ UNCHANGED vars

Next == (\E t \in Threads : Step(t)) \/ Terminated

Spec == Init /\ [][Next]_vars

(* Every thread is an operating-system thread that keeps running; the pause *)
(* loop re-reads round until it has changed.                                *)
FairSpec == Spec /\ \A t \in Threads : WF_vars(Step(t))

-----------------------------------------------------------------------------
LastStates == {"reset", "finalize", "release"}

(* Type invariant: the counters stay in the range of the thread count.      *)
TypeOK ==
  /\ cntr \in 0 .. threadCount
  /\ round \in 0 .. RoundMod - 1
  /\ prevRound \in [Threads -> 0 .. RoundMod - 1]
  /\ pc \in [Threads -> {"work", "arrive", "spin"} \cup LastStates]
  /\ passed \in [Threads -> 0 .. Rounds]
  /\ finalized \in 0 .. Rounds

(* A thread that has returned from its k-th wait can rely on the k-th       *)
(* finalizer having run exactly once, and no further one: whatever the last *)
(* arriver allocated in Barrier.hpp:24 is there, and is not redone.         *)
FinalizedOncePerRound ==
  \A t \in Threads :
    /\ passed[t] <= finalized
    /\ finalized <= passed[t] + 1

(* While one thread runs the finalizer every other one is spinning in the   *)
(* same round: the finalizer may touch the shared state without a lock.     *)
FinalizerRunsAlone ==
  \A t \in Threads : pc[t] \in LastStates =>
    \A u \in Threads \ {t} : pc[u] = "spin" /\ passed[u] = passed[t]

(* No thread works in a phase while another still works in the one before:  *)
(* a thread one round behind is already past its arrival.                   *)
NoOvertaking ==
  \A t, u \in Threads :
    passed[u] < passed[t] => passed[t] = passed[u] + 1 /\ pc[u] = "spin"

(* The arrivals that the counter of the current round has counted. *)
Waiting == {t \in Threads : pc[t] = "spin" /\ prevRound[t] = round}

(* What one thread knows at each point of wait. *)
ThreadInv(t) ==
  /\ pc[t] \in {"work", "arrive", "reset", "finalize"} => passed[t] = finalized
  /\ pc[t] = "release" => passed[t] + 1 = finalized
  /\ pc[t] = "arrive" => prevRound[t] = round
  /\ pc[t] # "work" => passed[t] < Rounds
  /\ pc[t] = "spin" /\ prevRound[t] # round => passed[t] + 1 = finalized
  /\ t \in Waiting =>
       passed[t] = finalized \/ \E u \in Threads : pc[u] = "release"

(* The last arriver has everybody else waiting for it. *)
LastInv ==
  \A t \in Threads : pc[t] \in LastStates =>
    \A u \in Threads \ {t} : u \in Waiting /\ passed[u] = passed[t]

(* The counter is the number of threads still missing, except that the last *)
(* arriver finds it at zero and re-arms it before anybody is released.      *)
CounterInv ==
  /\ (\A t \in Threads : pc[t] \notin LastStates)
       => cntr = threadCount - Cardinality(Waiting)
  /\ \A t \in Threads :
       /\ pc[t] = "reset" => cntr = 0
       /\ pc[t] \in {"finalize", "release"} => cntr = threadCount

(* The inductive invariant: the unsigned counter never wraps, and the       *)
(* wrapping round still tells the released threads from the waiting ones.   *)
IInv ==
  /\ TypeOK
  /\ \A t \in Threads : ThreadInv(t)
  /\ LastInv
  /\ CounterInv

(* The barrier implements the rendezvous its callers assume. *)
Abstract == INSTANCE AbstractBarrier WITH
  inside <- {t \in Threads : pc[t] \notin {"work", "arrive"}},
  opened <- finalized

(* wait implements the abstract barrier, step by step.                      *)
ImplementsBarrier == Abstract!Spec

(* Nobody spins for ever: a thread that calls wait returns from it, also    *)
(* when the others rush ahead into the next round.                          *)
EveryWaitReturns ==
  \A t \in Threads : pc[t] = "arrive" ~> pc[t] = "work"
=============================================================================
