--------------------------- MODULE AbstractBarrier ---------------------------
(***************************************************************************)
(* What a rendezvous barrier promises to the join, filter and scan         *)
(* threads: nobody leaves a round before everybody has entered it, and the *)
(* round's finalizer has run, once, in between.                            *)
(***************************************************************************)
EXTENDS Naturals

CONSTANTS
  Threads,  (* the threads the barrier was constructed for *)
  Rounds    (* how many times each thread calls wait       *)

VARIABLES
  inside,   (* threads that have arrived and not yet left            *)
  passed,   (* passed[t]: number of rounds that thread t has left    *)
  opened    (* number of rounds whose finalizer has run              *)

bvars == << inside, passed, opened >>

Init ==
  /\ inside = {}
  /\ passed = [t \in Threads |-> 0]
  /\ opened = 0

(* A thread arrives for its next round. *)
Enter(t) ==
  /\ t \notin inside
  /\ passed[t] < Rounds
  /\ inside' = inside \cup {t}
  /\ UNCHANGED << passed, opened >>

(* Everybody has arrived for the same round: the finalizer runs. *)
Open ==
  /\ inside = Threads
  /\ \A t \in Threads : passed[t] = opened
  /\ opened' = opened + 1
  /\ UNCHANGED << inside, passed >>

(* A thread leaves a round that has been opened. *)
Leave(t) ==
  /\ t \in inside
  /\ passed[t] < opened
  /\ inside' = inside \ {t}
  /\ passed' = [passed EXCEPT ![t] = @ + 1]
  /\ UNCHANGED opened

Next ==
  \/ \E t \in Threads : Enter(t) \/ Leave(t)
  \/ Open

Spec == Init /\ [][Next]_bvars
=============================================================================
