--------------------------- MODULE CountingLemmas ----------------------------
(***************************************************************************)
(* Facts that the proofs of this project share: induction over the         *)
(* natural numbers and over the subsets of a finite set, the sums and      *)
(* cardinalities that histograms and prefix sums are made of, powers of    *)
(* two, division, and what concatenating and folding sequences gives. The  *)
(* induction theorems of the library take an operator; here the induction  *)
(* hypothesis is a set, the set of the values that have the property, so   *)
(* that the provers can use them.                                          *)
(***************************************************************************)
EXTENDS Integers, FiniteSets, Functions, SequencesExt, FiniteSetTheorems, SequenceTheorems,
        WellFoundedInduction, TLAPS

(* Every set of natural numbers that is not empty has a least element. *)
LEMMA LeastElement ==
  ASSUME NEW S \in SUBSET Nat, S # {}
  PROVE  \E n \in S : \A m \in S : n <= m
<1>1. PICK x \in S : \A y \in S : <<y, x>> \notin OpToRel(<, Nat)
  BY NatLessThanWellFounded, WFMin
<1>2. \A y \in S : ~(y < x)
  BY <1>1 DEF OpToRel
<1> QED  BY <1>2

(* A set with 0 that has the successor of each of its numbers has all     *)
(* numbers.                                                               *)
LEMMA Induction ==
  ASSUME NEW S, 0 \in S, \A n \in Nat : n \in S => n + 1 \in S
  PROVE  Nat \subseteq S
<1> SUFFICES ASSUME Nat \ S # {} PROVE FALSE
  OBVIOUS
<1>1. PICK n \in Nat \ S : \A m \in Nat \ S : n <= m
  BY LeastElement
<1>2. n - 1 \in Nat /\ n - 1 \in S
  BY <1>1
<1>3. n \in S
  BY <1>2
<1> QED  BY <1>1, <1>3

(* A set of subsets that has the empty one and grows with each of its     *)
(* members by any one element has all subsets of a finite set.            *)
LEMMA SubsetInduction ==
  ASSUME NEW S, IsFiniteSet(S), NEW P,
         {} \in P,
         \A T \in SUBSET S : \A x \in S \ T : T \in P => T \cup {x} \in P
  PROVE  SUBSET S \subseteq P
<1> DEFINE N == {n \in Nat : \A T \in SUBSET S : Cardinality(T) = n => T \in P}
<1>1. 0 \in N
  BY FS_EmptySet, FS_Subset
<1>2. ASSUME NEW n \in Nat, n \in N PROVE n + 1 \in N
  <2> SUFFICES ASSUME NEW T \in SUBSET S, Cardinality(T) = n + 1 PROVE T \in P
    OBVIOUS
  <2>1. IsFiniteSet(T)
    BY FS_Subset
  <2>2. T # {}
    <3> SUFFICES ASSUME T = {} PROVE FALSE
      OBVIOUS
    <3>1. Cardinality(T) = 0
      BY FS_EmptySet
    <3> QED  BY <3>1
  <2>3. PICK x \in T : TRUE
    BY <2>2
  <2>4. Cardinality(T \ {x}) = n
    <3>1. Cardinality(T \ {x}) = Cardinality(T) - 1
      BY <2>1, <2>3, FS_RemoveElement
    <3> QED  BY <3>1
  <2>5. T \ {x} \in P
    BY <1>2, <2>4
  <2>6. T = (T \ {x}) \cup {x} /\ x \in S \ (T \ {x})
    OBVIOUS
  <2> QED  BY <2>5, <2>6
<1> HIDE DEF N
<1>3. Nat \subseteq N
  BY <1>1, <1>2, Induction
<1>4. \A T \in SUBSET S : Cardinality(T) \in Nat
  BY FS_Subset, FS_CardinalityType
<1> QED  BY <1>3, <1>4 DEF N

-----------------------------------------------------------------------------
(* The element that the folds of the community modules take next. *)
Pick(s) == CHOOSE x \in s : TRUE
(* One step of the recursion by which they define a sum. *)
Body(f, g, s) == IF s = {} THEN 0 ELSE f[Pick(s)] + g[s \ {Pick(s)}]
(* g is the sum of f over each subset of S. *)
IsSum(f, S, g) == g = [s \in SUBSET S |-> Body(f, g, s)]

(* What is picked from a set is in it. *)
LEMMA PickIn == ASSUME NEW s, s # {} PROVE Pick(s) \in s
BY DEF Pick

(* Over the subsets of a finite set the recursion has a solution. *)
LEMMA SumExists ==
  ASSUME NEW f, NEW S, IsFiniteSet(S)
  PROVE  \E g : IsSum(f, S, g)
<1> DEFINE Good(g, n) == /\ DOMAIN g = SUBSET S
                         /\ \A s \in SUBSET S : Cardinality(s) <= n => g[s] = Body(f, g, s)
           Up(g) == [s \in SUBSET S |-> Body(f, g, s)]
           N == {n \in Nat : \E g : g = [s \in SUBSET S |-> g[s]] /\ Good(g, n)}
<1>1. 0 \in N
  <2> DEFINE g == [s \in SUBSET S |-> 0]
  <2>1. ASSUME NEW s \in SUBSET S, Cardinality(s) <= 0 PROVE s = {}
    BY <2>1, FS_EmptySet, FS_Subset, FS_CardinalityType
  <2>2. Good(g, 0) /\ g = [s \in SUBSET S |-> g[s]]
    BY <2>1 DEF Body
  <2> QED  BY <2>2
<1>2. ASSUME NEW n \in Nat, n \in N PROVE n + 1 \in N
  <2>1. PICK g : Good(g, n) /\ g = [s \in SUBSET S |-> g[s]]
    BY <1>2
  <2> DEFINE h == Up(g)
  <2>2. ASSUME NEW s \in SUBSET S, Cardinality(s) <= n + 1 PROVE h[s] = Body(f, h, s)
    <3>1. CASE s = {}
      BY <3>1 DEF Body
    <3>2. CASE s # {}
      <4> DEFINE r == s \ {Pick(s)}
      <4>1. Pick(s) \in s /\ r \in SUBSET S
        BY <3>2, PickIn
      <4>2. IsFiniteSet(s) /\ Cardinality(s) \in Nat
        BY FS_Subset, FS_CardinalityType
      <4>3. Cardinality(r) = Cardinality(s) - 1
        BY <4>1, <4>2, FS_RemoveElement
      <4>4. Cardinality(r) <= n
        BY <2>2, <4>2, <4>3
      <4>5. g[r] = Body(f, g, r)
        BY <4>1, <4>4, <2>1
      <4>6. h[r] = g[r]
        BY <4>1, <4>5
      <4>7. h[s] = f[Pick(s)] + g[r]
        BY <3>2 DEF Body
      <4>8. Body(f, h, s) = f[Pick(s)] + h[r]
        BY <3>2 DEF Body
      <4> QED  BY <4>6, <4>7, <4>8
    <3> QED  BY <3>1, <3>2
  <2>3. Good(h, n + 1) /\ h = [s \in SUBSET S |-> h[s]]
    BY <2>2
  <2> HIDE DEF h, Good
  <2> QED  BY <2>3
<1> HIDE DEF N
<1>3. Cardinality(S) \in N
  BY <1>1, <1>2, Induction, FS_CardinalityType
<1>4. PICK g : Good(g, Cardinality(S)) /\ g = [s \in SUBSET S |-> g[s]]
  BY <1>3 DEF N
<1>5. \A s \in SUBSET S : g[s] = Body(f, g, s)
  BY <1>4, FS_Subset
<1>6. g = [s \in SUBSET S |-> Body(f, g, s)]
  BY <1>4, <1>5
<1> QED  BY <1>6 DEF IsSum

(* A solution is 0 for the empty set and takes one element off any other. *)
LEMMA SumUnfold ==
  ASSUME NEW f, NEW S, NEW g, IsSum(f, S, g), NEW s \in SUBSET S
  PROVE  /\ s = {} => g[s] = 0
         /\ s # {} => /\ Pick(s) \in s
                      /\ s \ {Pick(s)} \in SUBSET S
                      /\ g[s] = f[Pick(s)] + g[s \ {Pick(s)}]
<1>1. g[s] = Body(f, g, s)
  BY DEF IsSum
<1> QED  BY <1>1, PickIn DEF Body

(* SumFunctionOnSet is such a solution, at the whole set. *)
LEMMA SumIsFold ==
  ASSUME NEW f, NEW S, IsFiniteSet(S)
  PROVE  \E g : IsSum(f, S, g) /\ SumFunctionOnSet(f, S) = g[S]
<1> DEFINE it == CHOOSE g : g = [s \in SUBSET S |->
                   IF s = {} THEN 0
                   ELSE f[CHOOSE x \in s : TRUE] + g[s \ {CHOOSE x \in s : TRUE}]]
<1>1. SumFunctionOnSet(f, S) = it[S]
  BY DEF SumFunctionOnSet, FoldFunctionOnSet, MapThenFoldSet
<1>2. it = CHOOSE g : IsSum(f, S, g)
  BY DEF IsSum, Body, Pick
<1> HIDE DEF it
<1>3. IsSum(f, S, it)
  BY <1>2, SumExists
<1> QED  BY <1>1, <1>3

(* Solutions over a set and over a part of it agree on that part. *)
LEMMA SumRestrict ==
  ASSUME NEW f, NEW S, IsFiniteSet(S), NEW T \in SUBSET S,
         NEW g, IsSum(f, S, g), NEW h, IsSum(f, T, h)
  PROVE  \A s \in SUBSET T : g[s] = h[s]
<1> DEFINE N == {n \in Nat : \A s \in SUBSET T : Cardinality(s) = n => g[s] = h[s]}
<1>1. \A s \in SUBSET T : IsFiniteSet(s) /\ Cardinality(s) \in Nat
  BY FS_Subset, FS_CardinalityType
<1>2. 0 \in N
  <2> SUFFICES ASSUME NEW s \in SUBSET T, Cardinality(s) = 0 PROVE g[s] = h[s]
    OBVIOUS
  <2>1. s = {}
    BY <1>1, FS_EmptySet
  <2>2. g[s] = 0 /\ h[s] = 0
    BY <2>1, SumUnfold
  <2> QED  BY <2>2
<1>3. ASSUME NEW n \in Nat, n \in N PROVE n + 1 \in N
  <2> SUFFICES ASSUME NEW s \in SUBSET T, Cardinality(s) = n + 1 PROVE g[s] = h[s]
    OBVIOUS
  <2>1. s # {}
    <3> SUFFICES ASSUME s = {} PROVE FALSE
      OBVIOUS
    <3>1. Cardinality(s) = 0
      BY FS_EmptySet
    <3> QED  BY <3>1
  <2> DEFINE x == Pick(s)
             r == s \ {x}
  <2>2. s \in SUBSET S /\ x \in s /\ r \in SUBSET T
    BY <2>1, PickIn
  <2>3. g[s] = f[x] + g[r]
    BY <2>1, <2>2, SumUnfold
  <2>7. h[s] = f[x] + h[r]
    BY <2>1, <2>2, SumUnfold
  <2>4. Cardinality(r) = Cardinality(s) - 1
    BY <1>1, <2>2, FS_RemoveElement
  <2>5. Cardinality(r) = n
    BY <2>4
  <2>6. g[r] = h[r]
    BY <1>3, <2>2, <2>5
  <2> QED  BY <2>3, <2>6, <2>7
<1> HIDE DEF N
<1>4. Nat \subseteq N
  BY <1>2, <1>3, Induction
<1> QED  BY <1>1, <1>4 DEF N

(* One solution gives the sums over all parts of the set. *)
LEMMA SumAt ==
  ASSUME NEW f, NEW S, IsFiniteSet(S), NEW g, IsSum(f, S, g), NEW T \in SUBSET S
  PROVE  SumFunctionOnSet(f, T) = g[T]
<1>1. IsFiniteSet(T)
  BY FS_Subset
<1>2. PICK h : IsSum(f, T, h) /\ SumFunctionOnSet(f, T) = h[T]
  BY <1>1, SumIsFold
<1>3. \A s \in SUBSET T : g[s] = h[s]
  BY <1>2, SumRestrict
<1> QED  BY <1>2, <1>3

(* A sum of natural numbers is a natural number. *)
LEMMA SumType ==
  ASSUME NEW f, NEW S, IsFiniteSet(S), \A x \in S : f[x] \in Nat
  PROVE  SumFunctionOnSet(f, S) \in Nat
<1>1. PICK g : IsSum(f, S, g) /\ SumFunctionOnSet(f, S) = g[S]
  BY SumIsFold
<1> DEFINE N == {n \in Nat : \A s \in SUBSET S : Cardinality(s) = n => g[s] \in Nat}
<1>2. \A s \in SUBSET S : IsFiniteSet(s) /\ Cardinality(s) \in Nat
  BY FS_Subset, FS_CardinalityType
<1>3. 0 \in N
  <2> SUFFICES ASSUME NEW s \in SUBSET S, Cardinality(s) = 0 PROVE g[s] \in Nat
    OBVIOUS
  <2>1. s = {}
    BY <1>2, FS_EmptySet
  <2>2. g[s] = 0
    BY <1>1, <2>1, SumUnfold
  <2> QED  BY <2>2
<1>4. ASSUME NEW n \in Nat, n \in N PROVE n + 1 \in N
  <2> SUFFICES ASSUME NEW s \in SUBSET S, Cardinality(s) = n + 1 PROVE g[s] \in Nat
    OBVIOUS
  <2>1. s # {}
    <3> SUFFICES ASSUME s = {} PROVE FALSE
      OBVIOUS
    <3>1. Cardinality(s) = 0
      BY FS_EmptySet
    <3> QED  BY <3>1
  <2> DEFINE x == Pick(s)
             r == s \ {x}
  <2>2. x \in s /\ r \in SUBSET S /\ g[s] = f[x] + g[r]
    BY <1>1, <2>1, SumUnfold
  <2>3. Cardinality(r) = Cardinality(s) - 1
    BY <1>2, <2>2, FS_RemoveElement
  <2>4. Cardinality(r) = n
    BY <2>3
  <2>5. g[r] \in Nat /\ f[x] \in Nat
    BY <1>4, <2>2, <2>4
  <2> HIDE DEF x, r
  <2> QED  BY <2>2, <2>5
<1> HIDE DEF N
<1>5. Nat \subseteq N
  BY <1>3, <1>4, Induction
<1> QED  BY <1>1, <1>2, <1>5 DEF N

(* Any element may be taken off first: the choice of the fold does not    *)
(* matter.                                                                *)
LEMMA SumRemove ==
  ASSUME NEW f, NEW S, IsFiniteSet(S), \A x \in S : f[x] \in Nat, NEW y \in S
  PROVE  SumFunctionOnSet(f, S) = f[y] + SumFunctionOnSet(f, S \ {y})
<1>1. PICK g : IsSum(f, S, g) /\ SumFunctionOnSet(f, S) = g[S]
  BY SumIsFold
<1>2. \A s \in SUBSET S : IsFiniteSet(s) /\ Cardinality(s) \in Nat
  BY FS_Subset, FS_CardinalityType
<1>3. \A s \in SUBSET S : g[s] \in Nat
  <2> TAKE s \in SUBSET S
  <2>1. SumFunctionOnSet(f, s) \in Nat
    BY <1>2, SumType
  <2>2. SumFunctionOnSet(f, s) = g[s]
    BY <1>1, SumAt
  <2> QED  BY <2>1, <2>2
<1> DEFINE Q(s) == \A y1 \in s : g[s] = f[y1] + g[s \ {y1}]
           N == {n \in Nat : \A s \in SUBSET S : Cardinality(s) = n => Q(s)}
<1>4. 0 \in N
  <2> SUFFICES ASSUME NEW s \in SUBSET S, Cardinality(s) = 0 PROVE Q(s)
    OBVIOUS
  <2>1. s = {}
    BY <1>2, FS_EmptySet
  <2> QED  BY <2>1
<1>5. ASSUME NEW n \in Nat, n \in N PROVE n + 1 \in N
  <2> SUFFICES ASSUME NEW s \in SUBSET S, Cardinality(s) = n + 1, NEW z \in s
               PROVE  g[s] = f[z] + g[s \ {z}]
    OBVIOUS
  <2> DEFINE x == Pick(s)
  <2>1. x \in s /\ g[s] = f[x] + g[s \ {x}]
    <3>1. s # {}
      OBVIOUS
    <3> QED  BY <1>1, <3>1, SumUnfold
  <2>2. CASE x = z
    BY <2>1, <2>2
  <2>3. CASE x # z
    <3> DEFINE r == s \ {x}
               q == s \ {z}
               b == (s \ {x}) \ {z}
    <3>1. r \in SUBSET S /\ q \in SUBSET S /\ b \in SUBSET S /\ r \ {z} = b /\ q \ {x} = b
          /\ z \in r /\ x \in q
      BY <2>1, <2>3
    <3>2. Cardinality(r) = Cardinality(s) - 1 /\ Cardinality(q) = Cardinality(s) - 1
      BY <1>2, <2>1, FS_RemoveElement
    <3>3. Cardinality(r) = n /\ Cardinality(q) = n
      BY <3>2
    <3>4. Q(r) /\ Q(q)
      BY <1>5, <3>1, <3>3
    <3>5. g[r] = f[z] + g[b] /\ g[q] = f[x] + g[b]
      BY <3>1, <3>4
    <3>6. f[x] \in Nat /\ f[z] \in Nat /\ g[b] \in Nat /\ g[s] = f[x] + g[r]
      BY <1>3, <2>1, <3>1
    <3> HIDE DEF r, q, b, x
    <3>7. g[s] = f[z] + g[q]
      BY <3>5, <3>6
    <3> QED  BY <3>7 DEF q
  <2> QED  BY <2>2, <2>3
<1> HIDE DEF N
<1>6. Nat \subseteq N
  BY <1>4, <1>5, Induction
<1>7. Q(S)
  BY <1>2, <1>6 DEF N
<1>8. SumFunctionOnSet(f, S \ {y}) = g[S \ {y}]
  BY <1>1, SumAt
<1> QED  BY <1>1, <1>7, <1>8

(* The empty sum is 0. *)
LEMMA SumEmpty == ASSUME NEW f PROVE SumFunctionOnSet(f, {}) = 0
<1>1. IsFiniteSet({})
  BY FS_EmptySet
<1>2. PICK g : IsSum(f, {}, g) /\ SumFunctionOnSet(f, {}) = g[{}]
  BY <1>1, SumIsFold
<1> QED  BY <1>2, SumUnfold

(* The sum over a set with one more element. *)
LEMMA SumAdd ==
  ASSUME NEW f, NEW S, IsFiniteSet(S), NEW y, y \notin S, \A x \in S \cup {y} : f[x] \in Nat
  PROVE  SumFunctionOnSet(f, S \cup {y}) = f[y] + SumFunctionOnSet(f, S)
<1>1. IsFiniteSet(S \cup {y}) /\ (S \cup {y}) \ {y} = S
  BY FS_AddElement
<1> QED  BY <1>1, SumRemove

(* Functions that agree on a set have the same sum over it. *)
LEMMA SumEqual ==
  ASSUME NEW f, NEW h, NEW S, IsFiniteSet(S), \A x \in S : f[x] \in Nat /\ f[x] = h[x]
  PROVE  SumFunctionOnSet(f, S) = SumFunctionOnSet(h, S)
<1> DEFINE P == {T \in SUBSET S : SumFunctionOnSet(f, T) = SumFunctionOnSet(h, T)}
<1>1. {} \in P
  BY SumEmpty
<1>2. ASSUME NEW T \in SUBSET S, NEW x \in S \ T, T \in P PROVE T \cup {x} \in P
  <2>1. IsFiniteSet(T)
    BY FS_Subset
  <2>2. /\ SumFunctionOnSet(f, T \cup {x}) = f[x] + SumFunctionOnSet(f, T)
        /\ SumFunctionOnSet(h, T \cup {x}) = h[x] + SumFunctionOnSet(h, T)
    BY <2>1, SumAdd
  <2> QED  BY <1>2, <2>2
<1> HIDE DEF P
<1>3. SUBSET S \subseteq P
  BY <1>1, <1>2, SubsetInduction
<1> QED  BY <1>3 DEF P

(* The sum of zeros is 0. *)
LEMMA SumZero ==
  ASSUME NEW f, NEW S, IsFiniteSet(S), \A x \in S : f[x] = 0
  PROVE  \A T \in SUBSET S : SumFunctionOnSet(f, T) = 0
<1> DEFINE P == {T \in SUBSET S : SumFunctionOnSet(f, T) = 0}
<1>1. {} \in P
  BY SumEmpty
<1>2. ASSUME NEW T \in SUBSET S, NEW x \in S \ T, T \in P PROVE T \cup {x} \in P
  <2>1. IsFiniteSet(T) /\ \A y \in T \cup {x} : f[y] \in Nat
    BY FS_Subset
  <2>2. SumFunctionOnSet(f, T \cup {x}) = f[x] + SumFunctionOnSet(f, T)
    BY <2>1, SumAdd
  <2> QED  BY <1>2, <2>2
<1> HIDE DEF P
<1>3. SUBSET S \subseteq P
  BY <1>1, <1>2, SubsetInduction
<1> QED  BY <1>3 DEF P

(* The sum changes by as much as the one value that changes. *)
LEMMA SumUpdate ==
  ASSUME NEW S, IsFiniteSet(S), NEW y \in S, NEW f \in [S -> Nat], NEW h \in [S -> Nat],
         \A x \in S : x # y => h[x] = f[x]
  PROVE  SumFunction(h) + f[y] = SumFunction(f) + h[y]
<1> DEFINE r == S \ {y}
<1>1. DOMAIN f = S /\ DOMAIN h = S /\ (\A x \in S : f[x] \in Nat) /\ (\A x \in S : h[x] \in Nat)
  OBVIOUS
<1>2. IsFiniteSet(r)
  BY FS_RemoveElement
<1>3. SumFunctionOnSet(f, S) = f[y] + SumFunctionOnSet(f, r)
  BY <1>1, SumRemove
<1>4. SumFunctionOnSet(h, S) = h[y] + SumFunctionOnSet(h, r)
  BY <1>1, SumRemove
<1>5. SumFunctionOnSet(f, r) = SumFunctionOnSet(h, r)
  <2>1. \A x \in r : f[x] \in Nat /\ f[x] = h[x]
    BY <1>1
  <2> HIDE DEF r
  <2> QED  BY <1>2, <2>1, SumEqual
<1>6. SumFunctionOnSet(f, r) \in Nat
  BY <1>1, <1>2, SumType
<1>7. /\ SumFunction(f) = f[y] + SumFunctionOnSet(f, r)
      /\ SumFunction(h) = h[y] + SumFunctionOnSet(f, r)
  BY <1>1, <1>3, <1>4, <1>5 DEF SumFunction
<1> QED  BY <1>1, <1>6, <1>7

-----------------------------------------------------------------------------
(* A power of two is positive. *)
LEMMA PowType == ASSUME NEW n \in Nat PROVE 2 ^ n \in Nat \ {0}
<1>1. IsFiniteSet(1 .. n) /\ Cardinality(1 .. n) = n
  BY FS_Interval
<1>2. IsFiniteSet(SUBSET (1 .. n)) /\ Cardinality(SUBSET (1 .. n)) = 2 ^ n
  BY <1>1, FS_SUBSET
<1>3. SUBSET (1 .. n) # {}
  OBVIOUS
<1> QED  BY <1>2, <1>3, FS_EmptySet, FS_CardinalityType

(* The next power of two is twice as large. *)
LEMMA PowNext == ASSUME NEW n \in Nat PROVE 2 ^ (n + 1) = 2 * 2 ^ n
<1> DEFINE S == 1 .. n
           x == n + 1
           A == SUBSET S
           B == {T \cup {x} : T \in A}
           f == [T \in A |-> T \cup {x}]
<1>1. /\ IsFiniteSet(S) /\ Cardinality(S) = n /\ IsFiniteSet(1 .. n + 1)
      /\ Cardinality(1 .. n + 1) = n + 1
  BY FS_Interval
<1>2. IsFiniteSet(A) /\ Cardinality(A) = 2 ^ n /\ Cardinality(SUBSET (1 .. n + 1)) = 2 ^ (n + 1)
  BY <1>1, FS_SUBSET
<1>3. SUBSET (1 .. n + 1) = A \cup B
  <2>1. ASSUME NEW T \in SUBSET (1 .. n + 1) PROVE T \in A \cup B
    <3>1. CASE x \in T
      <4>1. T \ {x} \in A /\ T = (T \ {x}) \cup {x}
        BY <3>1
      <4> QED  BY <4>1
    <3>2. CASE x \notin T
      BY <3>2
    <3> QED  BY <3>1, <3>2
  <2>2. A \cup B \subseteq SUBSET (1 .. n + 1)
    <3>1. S \subseteq 1 .. n + 1 /\ x \in 1 .. n + 1
      OBVIOUS
    <3> HIDE DEF S, x
    <3> QED  BY <3>1
  <2> QED  BY <2>1, <2>2
<1>4. \A T \in A : x \notin T
  OBVIOUS
<1>5. A \cap B = {}
  BY <1>4
<1>6. f \in Bijection(A, B)
  <2>1. f \in [A -> B] /\ \A y \in B : \E T \in A : f[T] = y
    OBVIOUS
  <2>2. ASSUME NEW T \in A, NEW U \in A, f[T] = f[U] PROVE T = U
    <3>1. T = f[T] \ {x} /\ U = f[U] \ {x}
      BY <1>4
    <3> QED  BY <2>2, <3>1
  <2> HIDE DEF f
  <2> QED  BY <2>1, <2>2 DEF Bijection, Injection, Surjection, IsInjective
<1> HIDE DEF A, B, f
<1>7. IsFiniteSet(B) /\ Cardinality(B) = Cardinality(A)
  BY <1>2, <1>6, FS_Bijection DEF ExistsBijection
<1>8. Cardinality(A \cup B) = Cardinality(A) + Cardinality(B) - Cardinality(A \cap B)
  BY <1>2, <1>7, FS_Union
<1>9. Cardinality(A \cap B) = 0
  BY <1>5, FS_EmptySet
<1>10. Cardinality(A) \in Nat
  BY <1>2, FS_CardinalityType
<1>11. Cardinality(A \cup B) = 2 * Cardinality(A)
  BY <1>7, <1>8, <1>9, <1>10
<1> QED  BY <1>2, <1>3, <1>11

(* The power of a sum of exponents is the product of the powers. *)
LEMMA PowAdd == ASSUME NEW a \in Nat, NEW b \in Nat PROVE 2 ^ (a + b) = 2 ^ a * 2 ^ b
<1> DEFINE N == {n \in Nat : 2 ^ (a + n) = 2 ^ a * 2 ^ n}
<1>1. 0 \in N
  <2>1. 2 ^ a \in Nat /\ 2 ^ 0 = 1 /\ a + 0 = a
    BY PowType
  <2> QED  BY <2>1
<1>2. ASSUME NEW n \in Nat, n \in N PROVE n + 1 \in N
  <2> DEFINE p == 2 ^ a
             q == 2 ^ n
  <2>1. p \in Nat /\ q \in Nat /\ 2 ^ (a + n) = p * q
    BY <1>2, PowType
  <2>2. 2 ^ (n + 1) = 2 * q
    BY PowNext
  <2>3. 2 ^ ((a + n) + 1) = 2 * 2 ^ (a + n) /\ (a + n) + 1 = a + (n + 1)
    BY PowNext
  <2>4. 2 ^ (a + (n + 1)) = 2 * (p * q)
    BY <2>1, <2>3
  <2> HIDE DEF p, q
  <2>5. 2 * (p * q) = p * (2 * q)
    BY <2>1
  <2> QED  BY <2>2, <2>4, <2>5 DEF p
<1> HIDE DEF N
<1>3. b \in N
  BY <1>1, <1>2, Induction
<1> QED  BY <1>3 DEF N

(* A power of two is greater than its exponent. *)
LEMMA PowGreater == ASSUME NEW n \in Nat PROVE 2 ^ n > n
<1> DEFINE N == {m \in Nat : 2 ^ m > m}
<1>1. 0 \in N
  OBVIOUS
<1>2. ASSUME NEW m \in Nat, m \in N PROVE m + 1 \in N
  <2> DEFINE q == 2 ^ m
  <2>1. q \in Nat /\ q > m /\ 2 ^ (m + 1) = 2 * q
    BY <1>2, PowNext, PowType
  <2> HIDE DEF q
  <2>2. 2 * q > m + 1
    BY <2>1
  <2> QED  BY <2>1, <2>2
<1> HIDE DEF N
<1>3. n \in N
  BY <1>1, <1>2, Induction
<1> QED  BY <1>3 DEF N

(* Quotient and remainder. *)
LEMMA DivMod ==
  ASSUME NEW n \in Nat, NEW d \in Nat \ {0}
  PROVE  /\ n \div d \in Nat
         /\ n % d \in 0 .. d - 1
         /\ n = d * (n \div d) + (n % d)
OBVIOUS

(* Multiplication is monotonic. *)
LEMMA TimesMono ==
  ASSUME NEW a \in Nat, NEW b \in Nat, NEW c \in Nat, a <= b
  PROVE  a * c <= b * c /\ a * c \in Nat /\ b * c \in Nat
OBVIOUS

(* The remainder is the only number below the divisor that leaves a       *)
(* multiple of it.                                                        *)
LEMMA ModUnique ==
  ASSUME NEW n \in Nat, NEW d \in Nat \ {0}, NEW q \in Nat,
         NEW r, r \in 0 .. d - 1, n = d * q + r
  PROVE  n % d = r
<1> DEFINE q2 == n \div d
           r2 == n % d
<1>1. q2 \in Nat /\ r2 \in 0 .. d - 1 /\ n = d * q2 + r2
  BY DivMod
<1> HIDE DEF q2, r2
<1>2. CASE q < q2
  <2>1. /\ (q + 1) * d <= q2 * d /\ (q + 1) * d = d * q + d /\ q2 * d = d * q2 /\ d * q \in Nat
        /\ d * q2 \in Nat
    BY <1>1, <1>2, TimesMono
  <2> QED  BY <1>1, <2>1
<1>3. CASE q2 < q
  <2>1. /\ (q2 + 1) * d <= q * d /\ (q2 + 1) * d = d * q2 + d /\ q * d = d * q /\ d * q \in Nat
        /\ d * q2 \in Nat
    BY <1>1, <1>3, TimesMono
  <2> QED  BY <1>1, <2>1
<1>4. CASE q = q2
  BY <1>1, <1>4 DEF r2
<1> QED  BY <1>1, <1>2, <1>3, <1>4

(* The remainder by a product, digit by digit. *)
LEMMA ModSplit ==
  ASSUME NEW v \in Nat, NEW a \in Nat \ {0}, NEW b \in Nat \ {0}
  PROVE  v % (a * b) = (v % a) + a * ((v \div a) % b)
<1> DEFINE q == v \div a
           r == v % a
           p == q \div b
           c == q % b
<1>1. q \in Nat /\ r \in 0 .. a - 1 /\ v = a * q + r
  BY DivMod
<1>2. p \in Nat /\ c \in 0 .. b - 1 /\ q = b * p + c
  <2> HIDE DEF q
  <2> QED  BY <1>1, DivMod
<1> HIDE DEF q, r, p, c
<1>3. a * q = (a * b) * p + a * c
  BY <1>2
<1>4. a * b \in Nat \ {0} /\ a * c \in Nat /\ (a * b) * p \in Nat
  BY <1>2
<1>5. a * c + a <= a * b
  <2>1. (c + 1) * a <= b * a
    BY <1>2, TimesMono
  <2> QED  BY <1>2, <2>1
<1> DEFINE d == a * b
           e == a * c
<1>6. d \in Nat \ {0} /\ e \in Nat /\ d * p \in Nat /\ e + a <= d /\ v = (d * p + e) + r
  BY <1>1, <1>3, <1>4, <1>5
<1> HIDE DEF d, e
<1> DEFINE w == r + e
<1>7. w \in 0 .. d - 1 /\ v = d * p + w
  BY <1>1, <1>6
<1> HIDE DEF w
<1>8. v % d = w
  <2>1. d \in Nat \ {0} /\ p \in Nat /\ w \in 0 .. d - 1 /\ v \in Nat /\ v = d * p + w
    BY <1>2, <1>6, <1>7
  <2> QED  BY ONLY <2>1, ModUnique, ZenonT(30)
<1> QED  BY <1>8 DEF d, e, q, r, c, w

(* The quotient is the only number of divisors that leaves less than one. *)
LEMMA DivUnique ==
  ASSUME NEW n \in Nat, NEW d \in Nat \ {0}, NEW q \in Nat,
         NEW r, r \in 0 .. d - 1, n = d * q + r
  PROVE  n \div d = q
<1>1. PICK p, s : p = n \div d /\ s = n % d
  OBVIOUS
<1>2. p \in Nat /\ s = r /\ n = d * p + s
  BY ONLY n \in Nat, d \in Nat \ {0}, q \in Nat, r \in 0 .. d - 1, n = d * q + r, <1>1, DivMod, ModUnique
<1>3. CASE q < p
  <2>1. (q + 1) * d <= p * d /\ (q + 1) * d = d * q + d /\ p * d = d * p /\ d * q \in Nat
    BY <1>2, <1>3, TimesMono
  <2> QED  BY <1>2, <2>1
<1>4. CASE p < q
  <2>1. (p + 1) * d <= q * d /\ (p + 1) * d = d * p + d /\ q * d = d * q /\ d * p \in Nat
    BY <1>2, <1>4, TimesMono
  <2> QED  BY <1>2, <2>1
<1> QED  BY <1>1, <1>2, <1>3, <1>4

(* A quotient is known from the next coarser one and its own last bit. *)
LEMMA DivHalf ==
  ASSUME NEW n \in Nat, NEW m \in Nat \ {0}
  PROVE  n \div m = 2 * (n \div (2 * m)) + ((n \div m) % 2)
<1>1. PICK q, a, r, c : q = n \div m /\ r = n % m /\ a = q \div 2 /\ c = q % 2
  OBVIOUS
<1>2. q \in Nat /\ r \in 0 .. m - 1 /\ n = m * q + r
  BY ONLY n \in Nat, m \in Nat \ {0}, <1>1, DivMod
<1>3. a \in Nat /\ c \in 0 .. 1 /\ q = 2 * a + c
  BY ONLY <1>1, <1>2, DivMod
<1>4. n = (2 * m) * a + (m * c + r)
  BY ONLY n \in Nat, m \in Nat \ {0}, <1>2, <1>3
<1>5. m * c + r \in 0 .. (2 * m) - 1
  BY ONLY m \in Nat \ {0}, <1>2, <1>3
<1>6. 2 * m \in Nat \ {0}
  OBVIOUS
<1>7. n \div (2 * m) = a
  BY ONLY n \in Nat, <1>3, <1>4, <1>5, <1>6, DivUnique
<1> QED  BY <1>1, <1>3, <1>7

(* The size of a union of disjoint sets is the sum of their sizes. *)
LEMMA CardUnion ==
  ASSUME NEW S, IsFiniteSet(S), NEW F,
         \A s \in S : IsFiniteSet(F[s]),
         \A s, r \in S : s # r => F[s] \cap F[r] = {},
         NEW c, \A s \in S : c[s] = Cardinality(F[s])
  PROVE  /\ IsFiniteSet(UNION {F[s] : s \in S})
         /\ Cardinality(UNION {F[s] : s \in S}) = SumFunctionOnSet(c, S)
<1> DEFINE U(T) == UNION {F[s] : s \in T}
           P == {T \in SUBSET S : IsFiniteSet(U(T)) /\ Cardinality(U(T)) = SumFunctionOnSet(c, T)}
<1>1. {} \in P
  <2>1. U({}) = {}
    OBVIOUS
  <2> QED  BY <2>1, FS_EmptySet, SumEmpty
<1>2. ASSUME NEW T \in SUBSET S, NEW x \in S \ T, T \in P PROVE T \cup {x} \in P
  <2>1. U(T \cup {x}) = U(T) \cup F[x] /\ U(T) \cap F[x] = {}
    OBVIOUS
  <2>2. /\ IsFiniteSet(T) /\ IsFiniteSet(U(T)) /\ IsFiniteSet(F[x])
        /\ Cardinality(U(T)) = SumFunctionOnSet(c, T)
    BY <1>2, FS_Subset
  <2> HIDE DEF U
  <2>3. /\ IsFiniteSet(U(T) \cup F[x])
        /\ Cardinality(U(T) \cup F[x])
             = Cardinality(U(T)) + Cardinality(F[x]) - Cardinality(U(T) \cap F[x])
    BY <2>2, FS_Union
  <2>4. /\ Cardinality(U(T) \cap F[x]) = 0 /\ Cardinality(U(T)) \in Nat
        /\ Cardinality(F[x]) \in Nat
    BY <2>1, <2>2, FS_EmptySet, FS_CardinalityType
  <2>5. \A y \in T \cup {x} : c[y] \in Nat
    BY FS_CardinalityType
  <2>6. SumFunctionOnSet(c, T \cup {x}) = c[x] + SumFunctionOnSet(c, T)
    BY <2>2, <2>5, SumAdd
  <2>7. /\ IsFiniteSet(U(T \cup {x}))
        /\ Cardinality(U(T \cup {x})) = SumFunctionOnSet(c, T \cup {x})
    <3>1. c[x] = Cardinality(F[x])
      OBVIOUS
    <3>2. Cardinality(U(T) \cup F[x]) = Cardinality(U(T)) + Cardinality(F[x])
      BY <2>3, <2>4
    <3>3. Cardinality(U(T) \cup F[x]) = SumFunctionOnSet(c, T \cup {x})
      BY <3>1, <3>2, <2>2, <2>4, <2>6
    <3> QED  BY <2>1, <2>3, <3>3
  <2> QED  BY <2>7 DEF U
<1> HIDE DEF P
<1>3. SUBSET S \subseteq P
  BY <1>1, <1>2, SubsetInduction
<1> QED  BY <1>3 DEF P

(* A family of sets has no more members than it has indices. *)
LEMMA ImageBound ==
  ASSUME NEW S, IsFiniteSet(S), NEW f, NEW T, T \subseteq {f[s] : s \in S}
  PROVE  IsFiniteSet(T) /\ Cardinality(T) <= Cardinality(S)
<1> DEFINE I == {f[s] : s \in S}
           g == [s \in S |-> f[s]]
<1>1. g \in Surjection(S, I)
  BY DEF Surjection
<1> HIDE DEF g
<1>2. IsFiniteSet(I) /\ Cardinality(I) <= Cardinality(S)
  BY <1>1, FS_Surjection
<1> HIDE DEF I
<1>3. IsFiniteSet(T) /\ Cardinality(T) <= Cardinality(I)
  BY <1>2, FS_Subset DEF I
<1>4. Cardinality(T) \in Nat /\ Cardinality(I) \in Nat /\ Cardinality(S) \in Nat
  BY <1>2, <1>3, FS_CardinalityType
<1> QED  BY <1>2, <1>3, <1>4

-----------------------------------------------------------------------------
(* Concatenations of sequences of sequences.                                *)

(* g[n] is the concatenation of the first n members of s. *)
IsFlat(s, g) ==
  /\ g[0] = << >>
  /\ \A n \in 1 .. Len(s) : g[n] = g[n - 1] \o s[n]

(* There are such concatenations, and all of them agree. *)
LEMMA FlatExists ==
  ASSUME NEW V, NEW s \in Seq(Seq(V))
  PROVE  \E g \in [0 .. Len(s) -> Seq(V)] : IsFlat(s, g)
<1> DEFINE Good(g, n) == /\ g \in [0 .. n -> Seq(V)]
                         /\ g[0] = << >>
                         /\ \A k \in 1 .. n : g[k] = g[k - 1] \o s[k]
           P(n) == n <= Len(s) => \E g : Good(g, n)
           N == {n \in Nat : P(n)}
<1>0. Len(s) \in Nat /\ s \in [1 .. Len(s) -> Seq(V)]
  BY LenProperties
<1>1. P(0)
  <2>1. Good([k \in 0 .. 0 |-> << >>], 0)
    BY EmptySeq
  <2> QED  BY <2>1
<1> HIDE DEF Good
<1>2. ASSUME NEW n \in Nat, P(n) PROVE P(n + 1)
  <2> SUFFICES ASSUME n + 1 <= Len(s) PROVE \E g : Good(g, n + 1)
    OBVIOUS
  <2>1. PICK g : Good(g, n)
    BY <1>0, <1>2
  <2> DEFINE new == g[n] \o s[n + 1]
             h == [k \in 0 .. n + 1 |-> IF k = n + 1 THEN new ELSE g[k]]
  <2>2. g[n] \in Seq(V) /\ s[n + 1] \in Seq(V)
    BY <1>0, <2>1 DEF Good
  <2>3. new \in Seq(V)
    BY <2>2, ConcatProperties
  <2>4. new = g[n] \o s[n + 1] /\ (n + 1) - 1 = n /\ n \in 0 .. n
    OBVIOUS
  <2> HIDE DEF new
  <2>5. h \in [0 .. n + 1 -> Seq(V)] /\ h[n + 1] = new
    BY <2>1, <2>3 DEF Good
  <2>6. \A k \in 0 .. n : h[k] = g[k]
    OBVIOUS
  <2> HIDE DEF h
  <2>7. ASSUME NEW k \in 1 .. n + 1 PROVE h[k] = h[k - 1] \o s[k]
    <3>1. CASE k = n + 1
      BY <3>1, <2>4, <2>5, <2>6
    <3>2. CASE k # n + 1
      <4>1. k \in 1 .. n /\ k \in 0 .. n /\ k - 1 \in 0 .. n
        BY <3>2
      <4> QED  BY <4>1, <2>1, <2>6 DEF Good
    <3> QED  BY <3>1, <3>2
  <2>8. h[0] = << >>
    BY <2>1, <2>6 DEF Good
  <2>9. Good(h, n + 1)
    BY <2>5, <2>7, <2>8 DEF Good
  <2> QED  BY <2>9
<1>3. \A n \in Nat : n \in N <=> P(n)
  OBVIOUS
<1> HIDE DEF P, N
<1>4. Nat \subseteq N
  <2>1. 0 \in N
    BY <1>1, <1>3
  <2>2. ASSUME NEW n \in Nat, n \in N PROVE n + 1 \in N
    <3>1. P(n + 1)
      BY <1>2, <1>3, <2>2
    <3>2. n + 1 \in Nat
      OBVIOUS
    <3> QED  BY <1>3, <3>1, <3>2
  <2> QED  BY <2>1, <2>2, Induction
<1>5. P(Len(s))
  BY <1>0, <1>3, <1>4
<1>6. PICK g : Good(g, Len(s))
  BY <1>0, <1>5 DEF P
<1> QED  BY <1>6 DEF Good, IsFlat

(* A sequence of sequences has one concatenation. *)
LEMMA FlatUnique ==
  ASSUME NEW s, NEW g, NEW h, IsFlat(s, g), IsFlat(s, h), Len(s) \in Nat
  PROVE  \A n \in 0 .. Len(s) : g[n] = h[n]
<1> DEFINE N == {n \in Nat : n <= Len(s) => g[n] = h[n]}
<1>1. 0 \in N
  BY DEF IsFlat
<1>2. ASSUME NEW n \in Nat, n \in N PROVE n + 1 \in N
  <2> SUFFICES ASSUME n + 1 <= Len(s) PROVE g[n + 1] = h[n + 1]
    OBVIOUS
  <2>1. g[n] = h[n] /\ n + 1 \in 1 .. Len(s) /\ (n + 1) - 1 = n
    BY <1>2
  <2> QED  BY <2>1 DEF IsFlat
<1> HIDE DEF N
<1>3. Nat \subseteq N
  BY <1>1, <1>2, Induction
<1> QED  BY <1>3 DEF N

(* FlattenSeq is the whole of them. *)
LEMMA FlatWhole ==
  ASSUME NEW V, NEW s \in Seq(Seq(V)), NEW g, IsFlat(s, g)
  PROVE  FlattenSeq(s) = g[Len(s)]
<1>1. Len(s) \in Nat
  OBVIOUS
<1>2. CASE Len(s) = 0
  <2>1. s = << >>
    BY <1>2
  <2> QED  BY <1>2, <2>1 DEF FlattenSeq, IsFlat
<1>3. CASE Len(s) # 0
  <2> DEFINE IsIt(f) == f = [i \in 1 .. Len(s) |-> IF i = 1 THEN s[i] ELSE f[i - 1] \o s[i]]
             it == CHOOSE f : IsIt(f)
             u == [i \in 1 .. Len(s) |-> g[i]]
  <2>1. FlattenSeq(s) = it[Len(s)]
    BY <1>3 DEF FlattenSeq
  <2>2. g[1] = s[1]
    <3>1. 1 \in 1 .. Len(s) /\ 1 - 1 = 0
      BY <1>1, <1>3
    <3>2. g[1] = << >> \o s[1]
      BY <3>1 DEF IsFlat
    <3>3. s[1] \in Seq(V)
      BY <3>1, ElementOfSeq
    <3> QED  BY <3>2, <3>3, ConcatEmptySeq
  <2>3. ASSUME NEW i \in 1 .. Len(s), i # 1 PROVE u[i] = u[i - 1] \o s[i]
    <3>1. i - 1 \in 1 .. Len(s)
      BY <2>3, <1>1
    <3>2. u[i] = g[i] /\ u[i - 1] = g[i - 1]
      BY <3>1
    <3> QED  BY <3>2 DEF IsFlat
  <2>4. IsIt(u)
    BY <2>2, <2>3
  <2> HIDE DEF u
  <2>5. IsIt(it)
    BY <2>4
  <2> HIDE DEF it
  <2> DEFINE N == {n \in Nat : n + 1 <= Len(s) => it[n + 1] = g[n + 1]}
  <2>6. 0 \in N
    BY <2>2, <2>5
  <2>7. ASSUME NEW n \in Nat, n \in N PROVE n + 1 \in N
    <3> SUFFICES ASSUME n + 2 <= Len(s) PROVE it[n + 2] = g[n + 2]
      OBVIOUS
    <3>1. n + 2 \in 1 .. Len(s) /\ n + 2 # 1 /\ (n + 2) - 1 = n + 1 /\ it[n + 1] = g[n + 1]
      BY <1>1, <2>7
    <3>2. it[n + 2] = it[n + 1] \o s[n + 2]
      BY <3>1, <2>5
    <3>3. g[n + 2] = g[n + 1] \o s[n + 2]
      BY <3>1 DEF IsFlat
    <3> QED  BY <3>1, <3>2, <3>3
  <2> HIDE DEF N
  <2>8. Len(s) - 1 \in N
    <3>1. Nat \subseteq N
      BY <2>6, <2>7, Induction
    <3>2. Len(s) - 1 \in Nat
      BY <1>1, <1>3
    <3> QED  BY <3>1, <3>2
  <2>9. it[Len(s)] = g[Len(s)]
    BY <1>1, <1>3, <2>8 DEF N
  <2> QED  BY <2>1, <2>9
<1> QED  BY <1>2, <1>3

(* The concatenation is a sequence of the same elements. *)
LEMMA FlatType ==
  ASSUME NEW V, NEW s \in Seq(Seq(V))
  PROVE  FlattenSeq(s) \in Seq(V)
<1>1. PICK g \in [0 .. Len(s) -> Seq(V)] : IsFlat(s, g)
  BY FlatExists
<1>2. Len(s) \in 0 .. Len(s)
  OBVIOUS
<1> QED  BY <1>1, <1>2, FlatWhole

(* A sequence of empty sequences, as it may be none. *)
LEMMA FlatEmpty ==
  ASSUME NEW V, NEW s \in Seq(Seq(V)), \A n \in 1 .. Len(s) : s[n] = << >>
  PROVE  FlattenSeq(s) = << >>
<1> DEFINE g == [n \in 0 .. Len(s) |-> << >>]
<1>1. << >> \o << >> = << >>
  BY EmptySeq, ConcatEmptySeq
<1>2. IsFlat(s, g)
  <2>1. Len(s) \in Nat
    OBVIOUS
  <2>2. \A n \in 0 .. Len(s) : g[n] = << >>
    OBVIOUS
  <2> HIDE DEF g
  <2>3. ASSUME NEW n \in 1 .. Len(s) PROVE g[n] = g[n - 1] \o s[n]
    <3>1. n \in 0 .. Len(s) /\ n - 1 \in 0 .. Len(s)
      BY <2>1
    <3> QED  BY <3>1, <2>2, <1>1
  <2>4. g[0] = << >>
    BY <2>1, <2>2
  <2> QED  BY <2>3, <2>4 DEF IsFlat
<1>3. g[Len(s)] = << >>
  OBVIOUS
<1> HIDE DEF g
<1> QED  BY <1>2, <1>3, FlatWhole

(* One step of the concatenation. *)
LEMMA FlatStep ==
  ASSUME NEW s, NEW g, IsFlat(s, g), NEW n \in 1 .. Len(s)
  PROVE  g[n] = g[n - 1] \o s[n]
BY DEF IsFlat

(* One more sequence at the end. *)
LEMMA FlatAppend ==
  ASSUME NEW V, NEW s \in Seq(Seq(V)), NEW x \in Seq(V)
  PROVE  FlattenSeq(Append(s, x)) = FlattenSeq(s) \o x
<1>1. PICK l : l = Len(s) /\ l \in Nat
  OBVIOUS
<1>2. PICK r : r = Append(s, x)
  OBVIOUS
<1>3. r \in Seq(Seq(V)) /\ Len(r) = l + 1 /\ r[l + 1] = x /\ \A n \in 1 .. l : r[n] = s[n]
  BY <1>1, <1>2
<1>4. PICK h \in [0 .. Len(r) -> Seq(V)] : IsFlat(r, h)
  BY <1>3, FlatExists
<1>5. IsFlat(s, h)
  <2>1. ASSUME NEW n \in 1 .. Len(s) PROVE h[n] = h[n - 1] \o s[n]
    <3>1. n \in 1 .. Len(r) /\ r[n] = s[n]
      BY <1>1, <1>3
    <3> QED  BY <3>1, <1>4, FlatStep
  <2> QED  BY <2>1, <1>4 DEF IsFlat
<1>6. h[l] = FlattenSeq(s)
  BY <1>1, <1>5, FlatWhole
<1>7. h[l + 1] = FlattenSeq(r)
  BY <1>3, <1>4, FlatWhole
<1>8. l + 1 \in 1 .. Len(r) /\ (l + 1) - 1 = l
  BY <1>1, <1>3
<1>9. h[l + 1] = h[l] \o r[l + 1]
  BY <1>4, <1>8, FlatStep
<1> QED  BY <1>2, <1>3, <1>6, <1>7, <1>9

(* r is s with the element e appended to its member at c, behind which only *)
(* empty members follow.                                                    *)
Extended(s, r, c, e) ==
  /\ c \in 1 .. Len(s)
  /\ \A n \in c + 1 .. Len(s) : s[n] = << >>
  /\ Len(r) = Len(s)
  /\ r[c] = Append(s[c], e)
  /\ \A n \in 1 .. Len(s) : n # c => r[n] = s[n]

(* An element more in the last sequence that has any. *)
LEMMA FlatInsert ==
  ASSUME NEW V, NEW s, NEW r, NEW e, NEW c,
         s \in Seq(Seq(V)), r \in Seq(Seq(V)), e \in V, Extended(s, r, c, e)
  PROVE  FlattenSeq(r) = Append(FlattenSeq(s), e)
<1>11. /\ c \in 1 .. Len(s)
       /\ \A n \in c + 1 .. Len(s) : s[n] = << >>
       /\ Len(r) = Len(s)
       /\ r[c] = Append(s[c], e)
       /\ \A n \in 1 .. Len(s) : n # c => r[n] = s[n]
  BY DEF Extended
<1>1. PICK l : l = Len(s) /\ l \in Nat /\ s \in [1 .. l -> Seq(V)]
  BY LenProperties
<1>2. s[c] \in Seq(V) /\ Append(s[c], e) \in Seq(V) /\ c \in 1 .. l
  BY <1>1, <1>11
<1>4. /\ r \in Seq(Seq(V)) /\ Len(r) = l
      /\ \A n \in 1 .. l : r[n] = IF n = c THEN Append(s[c], e) ELSE s[n]
  BY <1>1, <1>11
<1>5. PICK g : g \in [0 .. l -> Seq(V)] /\ IsFlat(s, g)
  BY <1>1, FlatExists
<1>6. PICK h : h = [n \in 0 .. l |-> IF n < c THEN g[n] ELSE Append(g[n], e)]
  OBVIOUS
<1>7. ASSUME NEW n, n \in 1 .. l PROVE h[n] = h[n - 1] \o r[n]
  <2>0. n \in 0 .. l /\ n - 1 \in 0 .. l /\ n \in Int
    BY <1>1, <1>7
  <2>1. g[n] \in Seq(V) /\ g[n - 1] \in Seq(V) /\ s[n] \in Seq(V)
    BY <1>1, <1>5, <1>7, <2>0
  <2>2. g[n] = g[n - 1] \o s[n]
    BY <1>1, <1>5, <1>7, FlatStep
  <2>3. CASE n < c
    <3>1. h[n] = g[n] /\ h[n - 1] = g[n - 1]
      BY <1>2, <1>6, <2>0, <2>3
    <3>2. r[n] = s[n]
      BY <1>2, <1>4, <1>7, <2>3
    <3> QED  BY <2>2, <3>1, <3>2
  <2>4. CASE n = c
    <3>1. h[n] = Append(g[n], e) /\ h[n - 1] = g[n - 1]
      BY <1>2, <1>6, <2>0, <2>4
    <3>2. r[n] = Append(s[n], e)
      BY <1>4, <1>7, <2>4
    <3>3. << e >> \in Seq(V)
      OBVIOUS
    <3>4. PICK x, y, z : /\ x = g[n - 1] /\ y = s[n] /\ z = << e >>
                         /\ x \in Seq(V) /\ y \in Seq(V) /\ z \in Seq(V)
      BY <2>1, <3>3
    <3>5. (x \o y) \o z = x \o (y \o z)
      <4>1. x \in Seq(V) /\ y \in Seq(V) /\ z \in Seq(V)
        BY <3>4
      <4> QED  BY ONLY <4>1, ConcatAssociative, SMT
    <3>6. Append(g[n], e) = g[n] \o << e >> /\ Append(s[n], e) = s[n] \o << e >>
      BY <2>1, AppendIsConcat
    <3> QED  BY <2>2, <3>1, <3>2, <3>4, <3>5, <3>6
  <2>5. CASE n > c
    <3>1. n \in c + 1 .. Len(s) /\ n # c
      BY <1>1, <1>2, <1>7, <2>0, <2>5
    <3>2. s[n] = << >> /\ r[n] = << >>
      BY <1>11, <1>4, <1>7, <3>1
    <3>3. ~(n < c) /\ ~(n - 1 < c)
      BY <1>1, <1>2, <2>0, <2>5
    <3>4. h[n] = Append(g[n], e) /\ h[n - 1] = Append(g[n - 1], e)
      BY <1>6, <2>0, <3>3
    <3>5. PICK x : x = g[n - 1] /\ x \in Seq(V) /\ Append(x, e) \in Seq(V)
      BY <2>1
    <3>6. x \o << >> = x /\ Append(x, e) \o << >> = Append(x, e)
      BY <3>5, ConcatEmptySeq
    <3> QED  BY <2>2, <3>2, <3>4, <3>5, <3>6
  <2>6. n < c \/ n = c \/ n > c
    BY <1>2, <2>0
  <2> QED  BY <2>3, <2>4, <2>5, <2>6
<1>8. h[0] = << >> /\ h[l] = Append(g[l], e)
  BY <1>1, <1>2, <1>5, <1>6 DEF IsFlat
<1>9. IsFlat(r, h)
  BY <1>4, <1>7, <1>8 DEF IsFlat
<1>10. FlattenSeq(r) = h[l] /\ FlattenSeq(s) = g[l]
  BY <1>1, <1>4, <1>5, <1>9, FlatWhole
<1> QED  BY <1>8, <1>10

(* The concatenation of a concatenation. *)
LEMMA FlatConcat ==
  ASSUME NEW V, NEW s, NEW r, s \in Seq(Seq(V)), r \in Seq(Seq(V))
  PROVE  FlattenSeq(s \o r) = FlattenSeq(s) \o FlattenSeq(r)
<1>0. Len(s) \in Nat /\ Len(r) \in Nat
  OBVIOUS
<1>1. PICK a, b : a = Len(s) /\ b = Len(r) /\ a \in Nat /\ b \in Nat
  BY <1>0
<1>2. PICK q : q = s \o r
  OBVIOUS
<1>3. /\ q \in Seq(Seq(V)) /\ Len(q) = a + b
      /\ \A n \in 1 .. a + b : q[n] = IF n <= a THEN s[n] ELSE r[n - a]
  BY <1>1, <1>2, ConcatProperties
<1>4. PICK h : h \in [0 .. b -> Seq(V)] /\ IsFlat(r, h)
  BY <1>1, FlatExists
<1>5. PICK f : f \in [0 .. a + b -> Seq(V)] /\ IsFlat(q, f)
  BY <1>3, FlatExists
<1>6. IsFlat(s, f)
  <2>1. ASSUME NEW n \in 1 .. Len(s) PROVE f[n] = f[n - 1] \o s[n]
    <3>0. n \in 1 .. a + b /\ n <= a
      BY <1>1
    <3>1. n \in 1 .. Len(q) /\ q[n] = s[n]
      BY <1>3, <3>0
    <3> QED  BY <1>5, <3>1, FlatStep
  <2> QED  BY <1>5, <2>1 DEF IsFlat
<1>7. FlattenSeq(s) = f[a] /\ FlattenSeq(r) = h[b] /\ FlattenSeq(q) = f[a + b]
  BY <1>1, <1>3, <1>4, <1>5, <1>6, FlatWhole
<1>8. f[a] \in Seq(V)
  BY <1>1, <1>5
<1> DEFINE P(n) == n <= b => f[a + n] = f[a] \o h[n]
           N == {n \in Nat : P(n)}
<1>9. P(0)
  <2>1. h[0] = << >> /\ a + 0 = a
    BY <1>1, <1>4 DEF IsFlat
  <2>2. f[a] \o << >> = f[a]
    BY <1>8, ConcatEmptySeq
  <2> QED  BY <2>1, <2>2
<1> HIDE DEF P
<1>10. ASSUME NEW n \in Nat, P(n) PROVE P(n + 1)
  <2>0. SUFFICES ASSUME n + 1 <= b PROVE f[a + (n + 1)] = f[a] \o h[n + 1]
    BY DEF P
  <2>1. PICK m : m = a + (n + 1)
    OBVIOUS
  <2>2. m \in 1 .. Len(q) /\ m - 1 = a + n /\ m - a = n + 1 /\ ~(m <= a)
    <3>1. Len(q) = a + b
      BY <1>3
    <3> QED  BY ONLY <1>1, <2>0, <2>1, <3>1
  <2>3. n + 1 \in 1 .. Len(r) /\ (n + 1) - 1 = n /\ n \in 0 .. b
    BY <1>1, <2>0
  <2>4. q[m] = r[n + 1] /\ r[n + 1] \in Seq(V) /\ h[n] \in Seq(V)
    BY <1>3, <1>4, <2>2, <2>3, ElementOfSeq
  <2>5. f[a + n] = f[a] \o h[n]
    <3>1. n <= b
      BY <1>1, <2>0
    <3> QED  BY <1>10, <3>1 DEF P
  <2>6. f[m] = f[m - 1] \o q[m]
    BY <1>5, <2>2, FlatStep
  <2>7. h[n + 1] = h[n] \o r[n + 1]
    BY <1>4, <2>3, FlatStep
  <2>8. PICK x, y, z : /\ x = f[a] /\ y = h[n] /\ z = r[n + 1]
                       /\ x \in Seq(V) /\ y \in Seq(V) /\ z \in Seq(V)
    BY <1>8, <2>4
  <2>9. (x \o y) \o z = x \o (y \o z)
    <3>1. x \in Seq(V) /\ y \in Seq(V) /\ z \in Seq(V)
      BY <2>8
    <3> QED  BY ONLY <3>1, ConcatAssociative, SMT
  <2> QED  BY <2>1, <2>2, <2>4, <2>5, <2>6, <2>7, <2>8, <2>9
<1>11. \A n \in Nat : n \in N <=> P(n)
  OBVIOUS
<1> HIDE DEF N
<1>12. Nat \subseteq N
  <2>1. 0 \in N
    BY <1>9, <1>11
  <2>2. ASSUME NEW n \in Nat, n \in N PROVE n + 1 \in N
    <3>1. P(n + 1)
      BY <1>10, <1>11, <2>2
    <3>2. n + 1 \in Nat
      OBVIOUS
    <3> QED  BY <1>11, <3>1, <3>2
  <2> QED  BY <2>1, <2>2, Induction
<1>13. P(b)
  BY <1>1, <1>11, <1>12
<1>14. f[a + b] = f[a] \o h[b]
  <2>1. b <= b
    BY <1>1
  <2> QED  BY ONLY <1>13, <2>1 DEF P
<1> QED  BY <1>2, <1>7, <1>14

(* Flattening twice is flattening the flattened members. *)
LEMMA FlatFlat ==
  ASSUME NEW V, NEW s \in Seq(Seq(Seq(V))), NEW r \in Seq(Seq(V)), Len(r) = Len(s),
         \A n \in 1 .. Len(s) : r[n] = FlattenSeq(s[n])
  PROVE  FlattenSeq(FlattenSeq(s)) = FlattenSeq(r)
<1>1. PICK l : l = Len(s) /\ l \in Nat
  OBVIOUS
<1>2. PICK g : g \in [0 .. l -> Seq(Seq(V))] /\ IsFlat(s, g)
  BY <1>1, FlatExists
<1>3. PICK f : f = [n \in 0 .. l |-> FlattenSeq(g[n])]
  OBVIOUS
<1>4. g[0] = << >> /\ << >> \in Seq(Seq(V)) /\ Len(<< >>) = 0
  BY <1>2, EmptySeq DEF IsFlat
<1>5. FlattenSeq(<< >>) = << >>
  BY <1>4 DEF FlattenSeq
<1>6. f[0] = << >>
  BY <1>1, <1>3, <1>4, <1>5
<1>7. ASSUME NEW n, n \in 1 .. l PROVE f[n] = f[n - 1] \o r[n]
  <2>1. n \in 0 .. l /\ n - 1 \in 0 .. l
    BY <1>1, <1>7
  <2>2. g[n] = g[n - 1] \o s[n]
    BY <1>1, <1>2, <1>7, FlatStep
  <2>3. g[n - 1] \in Seq(Seq(V)) /\ s[n] \in Seq(Seq(V))
    BY <1>1, <1>2, <1>7, <2>1, ElementOfSeq
  <2>4. PICK x, y : x = g[n - 1] /\ y = s[n] /\ x \in Seq(Seq(V)) /\ y \in Seq(Seq(V))
    BY <2>3
  <2>5. FlattenSeq(x \o y) = FlattenSeq(x) \o FlattenSeq(y)
    <3>1. x \in Seq(Seq(V)) /\ y \in Seq(Seq(V))
      BY <2>4
    <3> QED  BY ONLY <3>1, FlatConcat
  <2>6. r[n] = FlattenSeq(y)
    BY <1>1, <1>7, <2>4
  <2>7. f[n] = FlattenSeq(x \o y) /\ f[n - 1] = FlattenSeq(x)
    BY <1>3, <2>1, <2>2, <2>4
  <2> QED  BY <2>5, <2>6, <2>7
<1>8. IsFlat(r, f)
  BY <1>1, <1>6, <1>7 DEF IsFlat
<1>9. FlattenSeq(r) = f[l]
  BY <1>1, <1>8, FlatWhole
<1>10. FlattenSeq(s) = g[l]
  <2>1. s \in Seq(Seq(Seq(V)))
    OBVIOUS
  <2> QED  BY <1>1, <1>2, FlatWhole
<1>11. l \in 0 .. l
  BY <1>1
<1> QED  BY <1>3, <1>9, <1>10, <1>11

(* The length of a concatenation is the sum of the lengths. *)
LEMMA FlatLen ==
  ASSUME NEW V, NEW s \in Seq(Seq(V)), NEW f, \A n \in 1 .. Len(s) : f[n] = Len(s[n])
  PROVE  Len(FlattenSeq(s)) = SumFunctionOnSet(f, 1 .. Len(s))
<1>1. PICK l : l = Len(s) /\ l \in Nat
  OBVIOUS
<1>2. PICK g : g \in [0 .. l -> Seq(V)] /\ IsFlat(s, g)
  BY <1>1, FlatExists
<1>3. \A n \in 1 .. l : s[n] \in Seq(V) /\ f[n] = Len(s[n]) /\ f[n] \in Nat
  BY <1>1, ElementOfSeq, LenProperties
<1> DEFINE P(n) == n <= l => Len(g[n]) = SumFunctionOnSet(f, 1 .. n)
           N == {n \in Nat : P(n)}
<1>4. P(0)
  <2>1. g[0] = << >> /\ 1 .. 0 = {} /\ Len(<< >>) = 0
    BY <1>2 DEF IsFlat
  <2> QED  BY <2>1, SumEmpty
<1> HIDE DEF P
<1>5. ASSUME NEW n \in Nat, P(n) PROVE P(n + 1)
  <2> SUFFICES ASSUME n + 1 <= l PROVE Len(g[n + 1]) = SumFunctionOnSet(f, 1 .. n + 1)
    BY DEF P
  <2>1. n + 1 \in 1 .. l /\ (n + 1) - 1 = n /\ n \in 0 .. l /\ n <= l
    BY <1>1
  <2>2. g[n + 1] = g[n] \o s[n + 1]
    BY <1>1, <1>2, <2>1, FlatStep
  <2>3. Len(g[n] \o s[n + 1]) = Len(g[n]) + Len(s[n + 1])
    BY <1>2, <1>3, <2>1, ConcatProperties
  <2>4. Len(g[n]) = SumFunctionOnSet(f, 1 .. n)
    BY <1>5, <2>1 DEF P
  <2>5. PICK S : S = 1 .. n /\ IsFiniteSet(S)
    BY FS_Interval
  <2>6. n + 1 \notin S /\ S \cup {n + 1} = 1 .. n + 1 /\ \A x \in S \cup {n + 1} : f[x] \in Nat
    BY <1>1, <1>3, <2>1, <2>5
  <2>7. SumFunctionOnSet(f, S \cup {n + 1}) = f[n + 1] + SumFunctionOnSet(f, S)
    BY <2>5, <2>6, SumAdd
  <2>8. SumFunctionOnSet(f, S) \in Nat
    BY <2>5, <2>6, SumType
  <2>9. f[n + 1] = Len(s[n + 1]) /\ f[n + 1] \in Nat
    BY <1>3, <2>1
  <2>10. Len(g[n + 1]) = SumFunctionOnSet(f, S) + f[n + 1]
    BY <2>2, <2>3, <2>4, <2>5, <2>9
  <2>11. SumFunctionOnSet(f, 1 .. n + 1) = f[n + 1] + SumFunctionOnSet(f, S)
    BY <2>6, <2>7
  <2>12. f[n + 1] + SumFunctionOnSet(f, S) = SumFunctionOnSet(f, S) + f[n + 1]
    BY <2>8, <2>9
  <2> QED  BY <2>10, <2>11, <2>12
<1>6. \A n \in Nat : n \in N <=> P(n)
  OBVIOUS
<1> HIDE DEF N
<1>7. Nat \subseteq N
  <2>1. 0 \in N
    BY <1>4, <1>6
  <2>2. ASSUME NEW n \in Nat, n \in N PROVE n + 1 \in N
    <3>1. P(n + 1)
      BY <1>5, <1>6, <2>2
    <3>2. n + 1 \in Nat
      OBVIOUS
    <3> QED  BY <1>6, <3>1, <3>2
  <2> QED  BY <2>1, <2>2, Induction
<1>8. Len(g[l]) = SumFunctionOnSet(f, 1 .. l)
  BY <1>1, <1>6, <1>7 DEF P
<1>9. FlattenSeq(s) = g[l]
  BY <1>1, <1>2, FlatWhole
<1> QED  BY <1>1, <1>8, <1>9

(* FoldLeft takes the last element off. *)
TakesLast(f, l, g) ==
  g = [t \in SUBSET (1 .. l) |-> IF t = {} THEN 0 ELSE g[t \ {Max(t)}] + f[Max(t)]]

(* What Max chooses. *)
LEMMA MaxIn ==
  ASSUME NEW l \in Nat, NEW t \in SUBSET (1 .. l), t # {}
  PROVE  Max(t) \in t /\ \A x \in t : x <= Max(t)
<1> DEFINE S == {l - x : x \in t}
<1>1. S \in SUBSET Nat /\ S # {}
  OBVIOUS
<1>2. PICK y \in S : \A z \in S : y <= z
  BY <1>1, LeastElement
<1>3. PICK x \in t : y = l - x
  BY <1>2
<1>4. \A z \in t : x >= z
  <2> TAKE z \in t
  <2>1. l - z \in S
    OBVIOUS
  <2> QED  BY <1>2, <1>3, <2>1
<1>5. \E m \in t : \A z \in t : m >= z
  BY <1>4
<1> QED  BY <1>5 DEF Max

(* Sums solve that recursion. *)
LEMMA MaxSolved ==
  ASSUME NEW l \in Nat, NEW f, \A n \in 1 .. l : f[n] \in Nat
  PROVE  TakesLast(f, l, [t \in SUBSET (1 .. l) |-> SumFunctionOnSet(f, t)])
<1>1. PICK g : g = [t \in SUBSET (1 .. l) |-> SumFunctionOnSet(f, t)]
  OBVIOUS
<1>2. ASSUME NEW t \in SUBSET (1 .. l)
      PROVE  g[t] = IF t = {} THEN 0 ELSE g[t \ {Max(t)}] + f[Max(t)]
  <2>1. CASE t = {}
    BY <1>1, <2>1, SumEmpty
  <2>2. CASE t # {}
    <3>1. PICK m : m = Max(t) /\ m \in t
      BY <2>2, MaxIn
    <3>0. IsFiniteSet(1 .. l)
      BY FS_Interval
    <3>2. IsFiniteSet(t) /\ IsFiniteSet(t \ {m}) /\ t \ {m} \in SUBSET (1 .. l)
      BY <3>0, FS_Subset
    <3>3. SumFunctionOnSet(f, t) = f[m] + SumFunctionOnSet(f, t \ {m})
      BY <3>1, <3>2, SumRemove
    <3>4. f[m] \in Nat /\ SumFunctionOnSet(f, t \ {m}) \in Nat
      BY <3>1, <3>2, SumType
    <3> QED  BY <1>1, <2>2, <3>1, <3>2, <3>3, <3>4
  <2> QED  BY <2>1, <2>2
<1>3. g = [t \in SUBSET (1 .. l) |-> IF t = {} THEN 0 ELSE g[t \ {Max(t)}] + f[Max(t)]]
  BY <1>1, <1>2
<1> QED  BY <1>1, <1>3 DEF TakesLast

(* Every solution is the sum at the whole domain. *)
LEMMA MaxUnique ==
  ASSUME NEW l \in Nat, NEW f, \A n \in 1 .. l : f[n] \in Nat, NEW g, TakesLast(f, l, g)
  PROVE  g[1 .. l] = SumFunctionOnSet(f, 1 .. l)
<1> DEFINE P(n) == n <= l => g[1 .. n] = SumFunctionOnSet(f, 1 .. n)
           N == {n \in Nat : P(n)}
<1>0. \A t \in SUBSET (1 .. l) : g[t] = IF t = {} THEN 0 ELSE g[t \ {Max(t)}] + f[Max(t)]
  BY DEF TakesLast
<1>1. P(0)
  <2>1. 1 .. 0 = {}
    OBVIOUS
  <2> QED  BY <1>0, <2>1, SumEmpty
<1> HIDE DEF P
<1>2. ASSUME NEW n \in Nat, P(n) PROVE P(n + 1)
  <2> SUFFICES ASSUME n + 1 <= l PROVE g[1 .. n + 1] = SumFunctionOnSet(f, 1 .. n + 1)
    BY DEF P
  <2>0. 1 .. n + 1 \in SUBSET (1 .. l) /\ n + 1 \in 1 .. n + 1
    OBVIOUS
  <2>1. PICK t : t = 1 .. n + 1 /\ t \in SUBSET (1 .. l) /\ n + 1 \in t /\ t # {}
    BY <2>0
  <2>2. Max(t) = n + 1
    <3>1. Max(t) \in t /\ \A x \in t : x <= Max(t)
      BY <2>1, MaxIn
    <3> QED  BY <2>1, <3>1
  <2>3. t \ {n + 1} = 1 .. n
    BY <2>1
  <2>4. g[1 .. n] = SumFunctionOnSet(f, 1 .. n)
    BY <1>2 DEF P
  <2>5. IsFiniteSet(t)
    BY <2>1, FS_Interval
  <2>6. SumFunctionOnSet(f, t) = f[n + 1] + SumFunctionOnSet(f, t \ {n + 1})
    BY <2>1, <2>5, SumRemove
  <2>7. f[n + 1] \in Nat /\ SumFunctionOnSet(f, t \ {n + 1}) \in Nat
    <3>1. IsFiniteSet(t \ {n + 1}) /\ \A x \in t \ {n + 1} : f[x] \in Nat
      BY <2>1, <2>5, FS_Subset
    <3> QED  BY <2>1, <3>1, SumType
  <2>8. g[t] = g[t \ {n + 1}] + f[n + 1]
    BY <1>0, <2>1, <2>2
  <2>9. g[t \ {n + 1}] = SumFunctionOnSet(f, t \ {n + 1})
    BY <2>3, <2>4
  <2>10. g[t] = SumFunctionOnSet(f, t)
    BY <2>6, <2>7, <2>8, <2>9
  <2> QED  BY <2>1, <2>10
<1>3. \A n \in Nat : n \in N <=> P(n)
  OBVIOUS
<1> HIDE DEF N
<1>4. Nat \subseteq N
  <2>1. 0 \in N
    BY <1>1, <1>3
  <2>2. ASSUME NEW n \in Nat, n \in N PROVE n + 1 \in N
    <3>1. P(n + 1)
      BY <1>2, <1>3, <2>2
    <3>2. n + 1 \in Nat
      OBVIOUS
    <3> QED  BY <1>3, <3>1, <3>2
  <2> QED  BY <2>1, <2>2, Induction
<1> QED  BY <1>3, <1>4 DEF P

(* The folds that add up lengths or numbers are sums. *)
LEMMA FoldLens ==
  ASSUME NEW V, NEW s \in Seq(Seq(V)), NEW f, \A n \in 1 .. Len(s) : f[n] = Len(s[n])
  PROVE  FoldLeft(LAMBDA n, c : n + Len(c), 0, s) = SumFunctionOnSet(f, 1 .. Len(s))
<1>1. PICK l : l = Len(s) /\ l \in Nat /\ DOMAIN s = 1 .. l
  OBVIOUS
<1>2. \A n \in 1 .. l : f[n] = Len(s[n]) /\ f[n] \in Nat
  BY <1>1, ElementOfSeq, LenProperties
<1> DEFINE IsIt(g) == g = [t \in SUBSET (1 .. l) |->
                             IF t = {} THEN 0 ELSE g[t \ {Max(t)}] + Len(s[Max(t)])]
           it == CHOOSE g : IsIt(g)
<1>3. FoldLeft(LAMBDA n, c : n + Len(c), 0, s) = it[1 .. l]
  BY <1>1 DEF FoldLeft, MapThenFoldSet
<1>4. \A t \in SUBSET (1 .. l) : t # {} => Max(t) \in 1 .. l /\ Len(s[Max(t)]) = f[Max(t)]
  BY <1>1, <1>2, MaxIn
<1>5. ASSUME NEW g PROVE IsIt(g) <=> TakesLast(f, l, g)
  BY <1>4 DEF TakesLast
<1>6. \E g : IsIt(g)
  BY <1>1, <1>2, <1>5, MaxSolved
<1> HIDE DEF IsIt
<1>7. TakesLast(f, l, it)
  BY <1>5, <1>6
<1> HIDE DEF it
<1> QED  BY <1>1, <1>2, <1>3, <1>7, MaxUnique

(* Adding the elements of a sequence, from the left, gives their sum. *)
LEMMA FoldNumbers ==
  ASSUME NEW l \in Nat, NEW f, DOMAIN f = 1 .. l, \A n \in 1 .. l : f[n] \in Nat
  PROVE  FoldLeft(LAMBDA n, k : n + k, 0, f) = SumFunctionOnSet(f, 1 .. l)
<1> DEFINE it == CHOOSE g : TakesLast(f, l, g)
<1>3. FoldLeft(LAMBDA n, k : n + k, 0, f) = it[1 .. l]
  BY DEF FoldLeft, MapThenFoldSet, TakesLast
<1>6. TakesLast(f, l, it)
  BY MaxSolved
<1> HIDE DEF it
<1> QED  BY <1>3, <1>6, MaxUnique
=============================================================================
