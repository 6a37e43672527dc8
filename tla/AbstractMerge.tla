---------------------------- MODULE AbstractMerge ----------------------------
(***************************************************************************)
(* What merging sorted runs promises: the tuples leave in ascending order  *)
(* of their keys, each of them once, and the merge ends only when none is  *)
(* left.  How many leave at a time is free.                                *)
(***************************************************************************)
EXTENDS Naturals, Sequences, SequencesExt, FiniteSets

VARIABLES
  rest,          (* the tuples << key, payload >> that have not left *)
  output,        (* those that have, in order                        *)
  returned

mvars == << rest, output, returned >>

Init == output = << >> /\ ~returned

Emit ==
  /\ ~returned
  /\ IsPrefix(output, output')
  /\ LET block == SubSeq(output', Len(output) + 1, Len(output'))
     IN /\ rest' = rest \ ToSet(block)
        /\ Cardinality(rest') = Cardinality(rest) - Len(block)
        /\ \A x, y \in DOMAIN block : x < y => block[x][1] <= block[y][1]
        /\ \A x \in ToSet(block), later \in rest' : x[1] <= later[1]
  /\ UNCHANGED returned

Finish ==
  /\ ~returned /\ returned'
  /\ rest = {}
  /\ UNCHANGED << rest, output >>

Spec == Init /\ [][Emit \/ Finish]_mvars
=============================================================================
