--------------------------- MODULE MCMultiwayMerge ---------------------------
EXTENDS MultiwayMerge

(* How long the runs are: equal, one or two long ones, every second empty,  *)
(* growing, all empty ...                                                   *)
Lengths(n) ==
  {[c \in 1 .. n |-> 3], [c \in 1 .. n |-> IF c = 1 THEN 9 ELSE 1],
   [c \in 1 .. n |-> IF c \in {2, n} THEN 7 ELSE 0], [c \in 1 .. n |-> IF c % 2 = 0 THEN 5 ELSE 0],
   [c \in 1 .. n |-> c \div 2], [c \in 1 .. n |-> 0]}

(* ... and how their keys lie to each other: interleaved, one run after the *)
(* other, in ascending or descending order, all equal, clustered.           *)
Keyed(len) ==
  LET n == Len(len)
      runs(key(_, _)) == [c \in 1 .. n |-> [k \in 1 .. len[c] |-> << key(c, k), 100 * c + k >>]]
      interleaved(c, k) == k * n + c
      ascending(c, k) == c * 10 + k
      descending(c, k) == (n - c) * 10 + k
      equal(c, k) == 1
      clustered(c, k) == 1 + (k * c) \div 3
  IN {runs(interleaved), runs(ascending), runs(descending), runs(equal), runs(clustered)}

MCRuns == UNION {Keyed(len) : len \in UNION {Lengths(n) : n \in {8, 16}}}
=============================================================================
