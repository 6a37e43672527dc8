---------------------------- MODULE AbstractJoin ----------------------------
(***************************************************************************)
(* What every join algorithm of the library promises its caller: it        *)
(* reports each pair of tuples with equal keys exactly once, and it does   *)
(* not return before it has reported all of them.  The order is free.      *)
(***************************************************************************)
EXTENDS Naturals, FiniteSets

VARIABLES
  rkeys, skeys,  (* the keys of the build and of the probe relation  *)
  out,           (* the pairs <<i, j>> of positions reported so far  *)
  matches,       (* the number of results counted so far             *)
  finished       (* the join has returned                            *)

jvars == << rkeys, skeys, out, matches, finished >>

Matches == {m \in (DOMAIN rkeys) \X (DOMAIN skeys) : rkeys[m[1]] = skeys[m[2]]}

Init ==
  /\ out = {}
  /\ matches = 0
  /\ finished = FALSE

Report ==
  /\ ~finished
  /\ out \subseteq out' /\ out' \subseteq Matches
  /\ matches' = matches + Cardinality(out' \ out)
  /\ UNCHANGED << rkeys, skeys, finished >>

Finish ==
  /\ ~finished
  /\ out = Matches
  /\ finished' = TRUE
  /\ UNCHANGED << rkeys, skeys, out, matches >>

Spec == Init /\ [][Report \/ Finish]_jvars
=============================================================================
