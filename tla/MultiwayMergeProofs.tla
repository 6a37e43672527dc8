------------------------- MODULE MultiwayMergeProofs -------------------------
(***************************************************************************)
(* The merge tree of the multi-way sort-merge join, for any 8 to 128       *)
(* sorted runs and rings of any size from 2 slots on: no ring runs over    *)
(* and every ring stays sorted, and, where no tuple occurs twice, the tree *)
(* implements a merge that emits the smallest remaining tuples one after   *)
(* the other and returns when none is left. Both follow from one           *)
(* invariant: the runs, the rings and the output are the boxes of a binary *)
(* tree, each box holds an ascending sequence, what it holds is no larger  *)
(* than anything still to come from below it, and below a ring that is     *)
(* done there is nothing.                                                  *)
(***************************************************************************)
EXTENDS MultiwayMerge, CountingLemmas

Tuple == Nat \X Nat
Lists == {"A", "B"}
PickSeq == Seq(Tuple \X Lists)

(* Picks that take the two lists in S onwards from the offsets o: of each  *)
(* list the next ones, each once, in ascending order, and none that is     *)
(* larger than one that stays.                                             *)
Taken(S, o, P) ==
  /\ P \in PickSeq
  /\ \A l \in Lists : o[l] + From(l, P) <= Len(S[l])
  /\ \A k \in DOMAIN P :
       \E x \in o[P[k][2]] + 1 .. o[P[k][2]] + From(P[k][2], P) : P[k][1] = S[P[k][2]][x]
  /\ \A l \in Lists : \A x \in o[l] + 1 .. o[l] + From(l, P) :
       \E k \in DOMAIN P : P[k] = << S[l][x], l >>
  /\ \A j, k \in DOMAIN P : j <= k => P[j][1][1] <= P[k][1][1]
  /\ \A k \in DOMAIN P : \A l \in Lists : \A x \in o[l] + From(l, P) + 1 .. Len(S[l]) :
       P[k][1][1] <= S[l][x][1]
  /\ (\A l \in Lists : \A x, y \in DOMAIN S[l] : S[l][x] = S[l][y] => x = y) =>
       \A j, k \in DOMAIN P : P[j] = P[k] => j = k

(* Sorted without the library's operator. *)
LEMMA SortedIs ==
  ASSUME NEW s \in Seq(Tuple)
  PROVE  Sorted(s) <=> \A x, y \in 1 .. Len(s) : x <= y => s[x][1] <= s[y][1]
<1> DEFINE keys == [k \in DOMAIN s |-> s[k][1]]
<1>1. Len(keys) = Len(s) /\ \A k \in 1 .. Len(s) : keys[k] = s[k][1] /\ s[k][1] \in Nat
  BY DEF Tuple
<1>2. Sorted(s) <=> \A x, y \in 1 .. Len(keys) : x < y => keys[x] <= keys[y]
  BY DEF Sorted, IsSorted
<1> HIDE DEF keys
<1> QED  BY <1>1, <1>2

(* Two lists as a pair. *)
Two(A, B) == [l \in Lists |-> IF l = "A" THEN A ELSE B]

(* The two lists. *)
LEMMA TwoIs == ASSUME NEW A, NEW B PROVE Two(A, B)["A"] = A /\ Two(A, B)["B"] = B
BY DEF Two, Lists

(* How many picks are from a list. *)
LEMMA FromType ==
  ASSUME NEW P \in PickSeq
  PROVE  /\ \A l \in Lists : From(l, P) \in Nat
         /\ From("A", P) + From("B", P) = Len(P)
<1> DEFINE X(l) == {k \in DOMAIN P : P[k][2] = l}
<1>0. Len(P) \in Nat /\ DOMAIN P = 1 .. Len(P) /\ \A k \in 1 .. Len(P) : P[k][2] \in Lists
  BY DEF PickSeq
<1>1. IsFiniteSet(1 .. Len(P)) /\ Cardinality(1 .. Len(P)) = Len(P) /\ DOMAIN P = 1 .. Len(P)
  BY <1>0, FS_Interval
<1>2. \A l \in Lists : IsFiniteSet(X(l)) /\ Cardinality(X(l)) \in Nat
  BY <1>1, FS_Subset, FS_CardinalityType
<1>3. X("A") \cup X("B") = DOMAIN P /\ X("A") \cap X("B") = {}
  BY <1>0 DEF Lists
<1>4. Cardinality(X("A") \cup X("B")) =
        Cardinality(X("A")) + Cardinality(X("B")) - Cardinality(X("A") \cap X("B"))
  BY <1>2, FS_Union DEF Lists
<1>5. Cardinality(X("A") \cap X("B")) = 0
  BY <1>3, FS_EmptySet
<1>6. \A l \in Lists : From(l, P) = Cardinality(X(l))
  BY DEF From
<1>7. PICK a, b, n : a = From("A", P) /\ b = From("B", P) /\ n = Len(P)
  OBVIOUS
<1>8. a \in Nat /\ b \in Nat /\ n = a + b - 0
  BY ONLY <1>1, <1>2, <1>3, <1>4, <1>5, <1>6, <1>7 DEF Lists
<1>9. \A l \in Lists : From(l, P) \in Nat
  BY <1>2, <1>6
<1> QED  BY <1>7, <1>8, <1>9

(* Nothing is taken without picks. *)
LEMMA FromEmpty == ASSUME NEW l PROVE From(l, << >>) = 0 /\ << >> \in PickSeq
<1>1. {k \in DOMAIN << >> : << >>[k][2] = l} = {}
  OBVIOUS
<1> QED  BY <1>1, FS_EmptySet DEF From, PickSeq

(* They add up when picks follow picks. *)
LEMMA FromConcat ==
  ASSUME NEW P \in PickSeq, NEW Q \in PickSeq, NEW l \in Lists
  PROVE  From(l, P \o Q) = From(l, P) + From(l, Q)
<1> DEFINE R == P \o Q
           X == {k \in DOMAIN P : P[k][2] = l}
           Y == {k \in DOMAIN Q : Q[k][2] = l}
           Z == {k \in DOMAIN R : R[k][2] = l}
           f == [k \in Y |-> k + Len(P)]
           W == {k \in Z : k > Len(P)}
<1>1. /\ Len(P) \in Nat /\ Len(Q) \in Nat /\ Len(R) = Len(P) + Len(Q)
      /\ DOMAIN P = 1 .. Len(P) /\ DOMAIN Q = 1 .. Len(Q) /\ DOMAIN R = 1 .. Len(R)
      /\ \A k \in 1 .. Len(P) : R[k] = P[k]
      /\ \A k \in 1 .. Len(Q) : R[k + Len(P)] = Q[k]
  BY DEF PickSeq
<1>2. IsFiniteSet(X) /\ IsFiniteSet(Y) /\ IsFiniteSet(W)
  <2>1. IsFiniteSet(1 .. Len(P)) /\ IsFiniteSet(1 .. Len(Q)) /\ IsFiniteSet(1 .. Len(R))
    BY <1>1, FS_Interval
  <2> HIDE DEF R
  <2> QED  BY <1>1, <2>1, FS_Subset
<1> HIDE DEF R
<1>3. \A k \in W : k - Len(P) \in Y
  <2> SUFFICES ASSUME NEW k \in W PROVE k - Len(P) \in Y
    OBVIOUS
  <2>1. k \in 1 .. Len(P) + Len(Q) /\ k > Len(P) /\ R[k][2] = l
    BY <1>1
  <2>2. k - Len(P) \in 1 .. Len(Q) /\ (k - Len(P)) + Len(P) = k
    BY <1>1, <2>1
  <2> QED  BY <1>1, <2>1, <2>2
<1>4. \A k \in Y : k + Len(P) \in W /\ k \in Nat
  BY <1>1
<1>5. f \in Bijection(Y, W)
  <2>1. f \in [Y -> W]
    BY <1>4
  <2>2. \A j, k \in Y : f[j] = f[k] => j = k
    BY <1>1, <1>4
  <2>3. \A k \in W : \E j \in Y : f[j] = k
    <3> SUFFICES ASSUME NEW k \in W PROVE \E j \in Y : f[j] = k
      OBVIOUS
    <3>1. k - Len(P) \in Y /\ k \in Nat
      BY <1>1, <1>3
    <3>2. f[k - Len(P)] = k
      BY <1>1, <3>1
    <3> QED  BY <3>1, <3>2
  <2> HIDE DEF f
  <2> QED  BY <2>1, <2>2, <2>3 DEF Bijection, Injection, Surjection, IsInjective
<1>6. Cardinality(Y) = Cardinality(W)
  BY <1>2, <1>5, FS_Bijection DEF ExistsBijection
<1>7. Z = X \cup W /\ X \cap W = {}
  <2>1. X \subseteq Z
    BY <1>1
  <2>2. \A k \in Z : k \in X \/ k \in W
    BY <1>1
  <2>3. \A k \in X : k \notin W
    BY <1>1
  <2> QED  BY <2>1, <2>2, <2>3
<1>8. Cardinality(Z) = Cardinality(X) + Cardinality(W) - Cardinality(X \cap W)
  BY <1>2, <1>7, FS_Union
<1>9. Cardinality(X \cap W) = 0 /\ Cardinality(X) \in Nat /\ Cardinality(W) \in Nat
  BY <1>2, <1>7, FS_EmptySet, FS_CardinalityType
<1>10. From(l, P) = Cardinality(X) /\ From(l, Q) = Cardinality(Y) /\ From(l, P \o Q) = Cardinality(Z)
  BY DEF From, R
<1> HIDE DEF X, Y, Z, W
<1> QED  BY <1>6, <1>7, <1>8, <1>9, <1>10

(* All picks of a copied stretch are from one list. *)
LEMMA FromTagged ==
  ASSUME NEW s \in Seq(Tuple), NEW l \in Lists, NEW n \in Nat
  PROVE  /\ Tagged(s, l, n) \in PickSeq
         /\ Len(Tagged(s, l, n)) = minimum(n, Len(s))
         /\ \A k \in 1 .. minimum(n, Len(s)) : Tagged(s, l, n)[k] = << s[k], l >>
         /\ From(l, Tagged(s, l, n)) = minimum(n, Len(s))
         /\ \A l2 \in Lists : l2 # l => From(l2, Tagged(s, l, n)) = 0
<1> DEFINE c == minimum(n, Len(s))
           T == [x \in 1 .. c |-> << s[x], l >>]
<1>1. c \in Nat /\ c <= Len(s) /\ \A k \in 1 .. c : s[k] \in Tuple
  BY DEF minimum
<1> HIDE DEF c
<1>2. T \in PickSeq /\ Len(T) = c /\ DOMAIN T = 1 .. c /\ \A k \in 1 .. c : T[k] = << s[k], l >>
  BY <1>1 DEF PickSeq
<1>3. {k \in DOMAIN T : T[k][2] = l} = 1 .. c
  BY <1>2
<1>4. \A l2 \in Lists : l2 # l => {k \in DOMAIN T : T[k][2] = l2} = {}
  BY <1>2
<1>5. Cardinality(1 .. c) = c
  BY <1>1, FS_Interval
<1> HIDE DEF T
<1>6. Tagged(s, l, n) = T
  BY DEF T, c, Tagged
<1> QED  BY <1>2, <1>3, <1>4, <1>5, <1>6, FS_EmptySet DEF From, c

(* One pick. *)
LEMMA FromOne ==
  ASSUME NEW t \in Tuple, NEW l \in Lists
  PROVE  /\ << << t, l >> >> \in PickSeq
         /\ From(l, << << t, l >> >>) = 1
         /\ \A l2 \in Lists : l2 # l => From(l2, << << t, l >> >>) = 0
<1>1. << t >> \in Seq(Tuple) /\ minimum(1, Len(<< t >>)) = 1
  BY DEF minimum
<1> DEFINE T == Tagged(<< t >>, l, 1)
<1>2. T \in PickSeq /\ Len(T) = 1 /\ T[1] = << t, l >>
  <2>1. /\ T \in PickSeq /\ Len(T) = minimum(1, Len(<< t >>))
        /\ \A k \in 1 .. minimum(1, Len(<< t >>)) : T[k] = << << t >>[k], l >>
    BY <1>1, FromTagged
  <2> HIDE DEF T
  <2> QED  BY <1>1, <2>1
<1> HIDE DEF T
<1>3. T = << << t, l >> >>
  BY <1>2 DEF PickSeq
<1>4. /\ From(l, T) = minimum(1, Len(<< t >>))
      /\ \A l2 \in Lists : l2 # l => From(l2, T) = 0
  <2>1. PICK s : s = << t >>
    OBVIOUS
  <2>2. s \in Seq(Tuple) /\ T = Tagged(s, l, 1)
    BY <1>1, <2>1 DEF T
  <2>3. /\ From(l, Tagged(s, l, 1)) = minimum(1, Len(s))
        /\ \A l2 \in Lists : l2 # l => From(l2, Tagged(s, l, 1)) = 0
    BY ONLY <2>2, FromTagged, l \in Lists
  <2> QED  BY <2>1, <2>2, <2>3
<1> QED  BY <1>1, <1>2, <1>3, <1>4

(* What is left of a list when its first k are gone. *)
LEMMA DropIs ==
  ASSUME NEW s \in Seq(Tuple), NEW k \in 0 .. Len(s)
  PROVE  /\ Drop(s, k) \in Seq(Tuple)
         /\ Len(Drop(s, k)) = Len(s) - k
         /\ \A x \in 1 .. Len(s) - k : Drop(s, k)[x] = s[x + k]
<1>1. \A x \in 1 .. Len(s) : s[x] \in Tuple
  OBVIOUS
<1> QED  BY <1>1 DEF Drop

(* Two sorted lists, and positions in them. *)
SortedLists(S) ==
  /\ S \in [Lists -> Seq(Tuple)]
  /\ \A l \in Lists : \A x, y \in 1 .. Len(S[l]) : x <= y => S[l][x][1] <= S[l][y][1]
Offsets(S, o) == o \in [Lists -> Nat] /\ \A l \in Lists : o[l] <= Len(S[l])

(* Taking nothing is always allowed. *)
LEMMA TakenEmpty ==
  ASSUME NEW S, NEW o, SortedLists(S), Offsets(S, o)
  PROVE  Taken(S, o, << >>)
<1>1. \A l \in Lists : From(l, << >>) = 0
  BY FromEmpty
<1>2. \A l \in Lists : o[l] + From(l, << >>) <= Len(S[l]) /\ o[l] + 1 .. o[l] + From(l, << >>) = {}
  BY <1>1 DEF SortedLists, Offsets
<1> QED  BY <1>2, FromEmpty DEF Taken

(* Copying is in order once the other list is used up. *)
LEMMA TakenTagged ==
  ASSUME NEW S, NEW o, SortedLists(S), Offsets(S, o), NEW l \in Lists, NEW n \in Nat,
         n = 0 \/ \A l2 \in Lists : l2 # l => o[l2] = Len(S[l2])
  PROVE  Taken(S, o, Tagged(Drop(S[l], o[l]), l, n))
<1> DEFINE s == Drop(S[l], o[l])
           c == minimum(n, Len(s))
           T == Tagged(s, l, n)
<1>1. /\ s \in Seq(Tuple) /\ Len(s) = Len(S[l]) - o[l] /\ Len(s) \in Nat
      /\ S[l] \in Seq(Tuple) /\ o[l] \in 0 .. Len(S[l]) /\ Len(S[l]) \in Nat
      /\ \A x \in 1 .. Len(s) : s[x] = S[l][x + o[l]]
  BY DropIs DEF SortedLists, Offsets
<1> HIDE DEF s
<1>2. c \in 0 .. Len(s) /\ c <= n
  BY <1>1 DEF minimum
<1>3. /\ T \in PickSeq /\ Len(T) = c /\ From(l, T) = c /\ \A k \in 1 .. c : T[k] = << s[k], l >>
      /\ \A l2 \in Lists : l2 # l => From(l2, T) = 0
  BY <1>1, FromTagged
<1> HIDE DEF T, c
<1>4. DOMAIN T = 1 .. c
  BY <1>3 DEF PickSeq
<1>5. \A k \in 1 .. c : T[k][1] = S[l][k + o[l]] /\ T[k][2] = l /\ k + o[l] \in 1 .. Len(S[l])
  BY <1>1, <1>2, <1>3
<1>6. \A x \in o[l] + 1 .. o[l] + c : x - o[l] \in 1 .. c /\ (x - o[l]) + o[l] = x
  BY <1>1, <1>2
<1>7. T \in PickSeq /\ \A m2 \in Lists : o[m2] + From(m2, T) <= Len(S[m2])
  <2> SUFFICES ASSUME NEW m2 \in Lists PROVE o[m2] + From(m2, T) <= Len(S[m2])
    BY <1>3
  <2>1. o[m2] \in Nat /\ o[m2] <= Len(S[m2])
    BY DEF Offsets
  <2> QED  BY <1>1, <1>2, <1>3, <2>1
<1>8. \A k \in DOMAIN T :
        \E x \in o[T[k][2]] + 1 .. o[T[k][2]] + From(T[k][2], T) : T[k][1] = S[T[k][2]][x]
  <2> SUFFICES ASSUME NEW k \in DOMAIN T
               PROVE  \E x \in o[T[k][2]] + 1 .. o[T[k][2]] + From(T[k][2], T) :
                        T[k][1] = S[T[k][2]][x]
    OBVIOUS
  <2>1. k \in 1 .. c /\ T[k][2] = l /\ From(T[k][2], T) = c /\ k + o[l] \in o[l] + 1 .. o[l] + c
    BY <1>1, <1>2, <1>3, <1>4, <1>5
  <2> QED  BY <1>5, <2>1
<1>9. \A m2 \in Lists : \A x \in o[m2] + 1 .. o[m2] + From(m2, T) :
        \E k \in DOMAIN T : T[k] = << S[m2][x], m2 >>
  <2> SUFFICES ASSUME NEW m2 \in Lists, NEW x \in o[m2] + 1 .. o[m2] + From(m2, T)
               PROVE  \E k \in DOMAIN T : T[k] = << S[m2][x], m2 >>
    OBVIOUS
  <2>1. CASE m2 = l
    <3>1. x - o[l] \in 1 .. c /\ (x - o[l]) + o[l] = x
      BY <1>3, <1>6, <2>1
    <3>2. T[x - o[l]] = << S[l][x], l >>
      BY <1>1, <1>2, <1>3, <3>1
    <3> QED  BY <1>4, <2>1, <3>1, <3>2
  <2>2. CASE m2 # l
    <3>1. o[m2] \in Nat /\ From(m2, T) = 0
      BY <1>3, <2>2 DEF Offsets
    <3> QED  BY <3>1
  <2> QED  BY <2>1, <2>2
<1>10. \A x, y \in 1 .. Len(S[l]) : x <= y => S[l][x][1] <= S[l][y][1]
  BY DEF SortedLists
<1>11. \A j, k \in DOMAIN T : j <= k => T[j][1][1] <= T[k][1][1]
  <2> SUFFICES ASSUME NEW j \in 1 .. c, NEW k \in 1 .. c, j <= k PROVE T[j][1][1] <= T[k][1][1]
    BY <1>4
  <2>1. j + o[l] <= k + o[l]
    BY <1>1, <1>2
  <2> QED  BY <1>5, <1>10, <2>1
<1>12. \A k \in DOMAIN T : \A m2 \in Lists : \A x \in o[m2] + From(m2, T) + 1 .. Len(S[m2]) :
         T[k][1][1] <= S[m2][x][1]
  <2> SUFFICES ASSUME NEW k \in 1 .. c, NEW m2 \in Lists,
                      NEW x \in o[m2] + From(m2, T) + 1 .. Len(S[m2])
               PROVE  T[k][1][1] <= S[m2][x][1]
    BY <1>4
  <2>1. CASE m2 = l
    <3>1. x \in 1 .. Len(S[l]) /\ k + o[l] <= x
      BY <1>1, <1>2, <1>3, <2>1
    <3> QED  BY <1>5, <1>10, <2>1, <3>1
  <2>2. CASE m2 # l
    <3>1. From(m2, T) = 0 /\ o[m2] = Len(S[m2]) /\ o[m2] \in Nat
      BY <1>2, <1>3, <2>2 DEF Offsets
    <3> QED  BY <3>1
  <2> QED  BY <2>1, <2>2
<1>13. (\A m2 \in Lists : \A x, y \in DOMAIN S[m2] : S[m2][x] = S[m2][y] => x = y) =>
         \A j, k \in DOMAIN T : T[j] = T[k] => j = k
  <2> SUFFICES ASSUME \A x, y \in 1 .. Len(S[l]) : S[l][x] = S[l][y] => x = y,
                      NEW j \in 1 .. c, NEW k \in 1 .. c, T[j] = T[k]
               PROVE  j = k
    BY <1>1, <1>4
  <2>1. j + o[l] = k + o[l]
    BY <1>5
  <2> QED  BY <1>1, <1>2, <2>1
<1> QED  BY <1>7, <1>8, <1>9, <1>11, <1>12, <1>13 DEF Taken, T, s

(* One pick, the smallest of the two next ones. *)
LEMMA TakenOne ==
  ASSUME NEW S, NEW o, SortedLists(S), Offsets(S, o), NEW l \in Lists,
         o[l] < Len(S[l]),
         \A l2 \in Lists : o[l2] < Len(S[l2]) => S[l][o[l] + 1][1] <= S[l2][o[l2] + 1][1]
  PROVE  Taken(S, o, << << S[l][o[l] + 1], l >> >>)
<1> DEFINE t == S[l][o[l] + 1]
           T == << << t, l >> >>
<1>1. /\ o \in [Lists -> Nat] /\ \A l2 \in Lists : Len(S[l2]) \in Nat /\ o[l2] <= Len(S[l2])
      /\ t \in Tuple /\ \A l2 \in Lists : \A x \in 1 .. Len(S[l2]) : S[l2][x][1] \in Nat
  <2>1. \A l2 \in Lists : /\ S[l2] \in Seq(Tuple) /\ Len(S[l2]) \in Nat
                          /\ \A x \in 1 .. Len(S[l2]) : S[l2][x] \in Tuple
    BY DEF SortedLists
  <2>2. o \in [Lists -> Nat] /\ \A l2 \in Lists : o[l2] <= Len(S[l2])
    BY DEF Offsets
  <2>3. o[l] + 1 \in 1 .. Len(S[l])
    BY <2>1, <2>2
  <2> QED  BY <2>1, <2>2, <2>3 DEF Tuple
<1>2. T \in PickSeq /\ From(l, T) = 1 /\ \A l2 \in Lists : l2 # l => From(l2, T) = 0
  BY <1>1, FromOne
<1>3. Len(T) = 1 /\ T[1] = << t, l >> /\ DOMAIN T = {1}
  OBVIOUS
<1> HIDE DEF T
<1>4. \A m2 \in Lists : \A x \in o[m2] + From(m2, T) + 1 .. Len(S[m2]) : t[1] <= S[m2][x][1]
  <2> SUFFICES ASSUME NEW m2 \in Lists, NEW x \in o[m2] + From(m2, T) + 1 .. Len(S[m2])
               PROVE  t[1] <= S[m2][x][1]
    OBVIOUS
  <2>1. o[m2] + 1 \in 1 .. Len(S[m2]) /\ x \in 1 .. Len(S[m2]) /\ o[m2] + 1 <= x
    BY <1>1, <1>2
  <2>2. S[m2][o[m2] + 1][1] <= S[m2][x][1]
    BY <2>1 DEF SortedLists
  <2>3. t[1] <= S[m2][o[m2] + 1][1]
    BY <1>1, <2>1
  <2>4. t[1] \in Nat /\ S[m2][o[m2] + 1][1] \in Nat /\ S[m2][x][1] \in Nat
    BY <1>1, <2>1 DEF Tuple
  <2> HIDE DEF t
  <2> QED  BY <2>2, <2>3, <2>4
<1>5. \A m2 \in Lists : \A x \in o[m2] + 1 .. o[m2] + From(m2, T) : m2 = l /\ x = o[l] + 1
  BY <1>1, <1>2
<1>6. \A m2 \in Lists : o[m2] + From(m2, T) <= Len(S[m2])
  BY <1>1, <1>2
<1>7. o[l] + 1 \in o[l] + 1 .. o[l] + From(l, T) /\ t[1] <= t[1]
  BY <1>1, <1>2 DEF Tuple
<1>8. \A k \in DOMAIN T : T[k] = << t, l >> /\ T[k][1] = t /\ T[k][2] = l /\ k = 1
  BY <1>3
<1>9. \A k \in DOMAIN T :
        \E x \in o[T[k][2]] + 1 .. o[T[k][2]] + From(T[k][2], T) : T[k][1] = S[T[k][2]][x]
  BY <1>7, <1>8
<1>10. \A m2 \in Lists : \A x \in o[m2] + 1 .. o[m2] + From(m2, T) :
         \E k \in DOMAIN T : T[k] = << S[m2][x], m2 >>
  BY <1>3, <1>5
<1> HIDE DEF t
<1>11. \A j, k \in DOMAIN T : j = k /\ T[j][1][1] <= T[k][1][1]
  BY ONLY <1>7, <1>8
<1>12. \A k \in DOMAIN T : \A m2 \in Lists : \A x \in o[m2] + From(m2, T) + 1 .. Len(S[m2]) :
         T[k][1][1] <= S[m2][x][1]
  BY ONLY <1>4, <1>8
<1>13. Taken(S, o, T)
  BY ONLY <1>2, <1>6, <1>9, <1>10, <1>11, <1>12 DEF Taken
<1> QED  BY <1>2, <1>13 DEF T, t

(* Picks that go on where others stop. *)
LEMMA TakenConcat ==
  ASSUME NEW S, NEW o, SortedLists(S), Offsets(S, o), NEW P, Taken(S, o, P),
         NEW o2, o2 = [l \in Lists |-> o[l] + From(l, P)], NEW Q, Taken(S, o2, Q)
  PROVE  /\ Taken(S, o, P \o Q)
         /\ \A l \in Lists : From(l, P \o Q) = From(l, P) + From(l, Q)
<1> DEFINE R == P \o Q
<1>1. /\ P \in PickSeq /\ Q \in PickSeq /\ R \in PickSeq
      /\ Len(P) \in Nat /\ Len(Q) \in Nat /\ Len(R) = Len(P) + Len(Q)
      /\ DOMAIN P = 1 .. Len(P) /\ DOMAIN Q = 1 .. Len(Q) /\ DOMAIN R = 1 .. Len(R)
      /\ \A k \in 1 .. Len(P) : R[k] = P[k]
      /\ \A k \in 1 .. Len(Q) : R[k + Len(P)] = Q[k]
  BY DEF PickSeq, Taken
<1> HIDE DEF R
<1>2. \A k \in DOMAIN R : \/ k \in 1 .. Len(P) /\ R[k] = P[k]
                          \/ /\ k > Len(P) /\ k - Len(P) \in 1 .. Len(Q) /\ R[k] = Q[k - Len(P)]
  <2> SUFFICES ASSUME NEW k \in DOMAIN R, ~(k \in 1 .. Len(P))
               PROVE  k > Len(P) /\ k - Len(P) \in 1 .. Len(Q) /\ R[k] = Q[k - Len(P)]
    BY <1>1
  <2>1. k > Len(P) /\ k - Len(P) \in 1 .. Len(Q) /\ (k - Len(P)) + Len(P) = k
    BY <1>1
  <2> QED  BY <1>1, <2>1
<1>3. \A l \in Lists : /\ From(l, R) = From(l, P) + From(l, Q) /\ From(l, P) \in Nat
                       /\ From(l, Q) \in Nat /\ o[l] \in Nat /\ o2[l] = o[l] + From(l, P)
                       /\ Len(S[l]) \in Nat
  BY <1>1, FromConcat, FromType DEF R, Offsets, SortedLists
<1>4. /\ \A k \in DOMAIN P : P[k][2] \in Lists /\ P[k][1] \in Tuple
      /\ \A k \in DOMAIN Q : Q[k][2] \in Lists /\ Q[k][1] \in Tuple
      /\ \A l \in Lists : \A x \in 1 .. Len(S[l]) : S[l][x] \in Tuple
  <2>1. \A k \in DOMAIN P : P[k] \in Tuple \X Lists
    BY ONLY <1>1 DEF PickSeq
  <2>2. \A k \in DOMAIN Q : Q[k] \in Tuple \X Lists
    BY ONLY <1>1 DEF PickSeq
  <2>3. S \in [Lists -> Seq(Tuple)]
    BY DEF SortedLists
  <2>4. \A l \in Lists : \A x \in 1 .. Len(S[l]) : S[l][x] \in Tuple
    BY ONLY <2>3
  <2> QED  BY <2>1, <2>2, <2>4
<1>5. \A l \in Lists : o[l] + From(l, R) <= Len(S[l])
  BY <1>3 DEF Taken
<1>0. \A k \in DOMAIN Q :
        \E x \in o2[Q[k][2]] + 1 .. o2[Q[k][2]] + From(Q[k][2], Q) : Q[k][1] = S[Q[k][2]][x]
  BY ONLY Taken(S, o2, Q) DEF Taken
<1>13. \A k \in DOMAIN P :
        \E x \in o[P[k][2]] + 1 .. o[P[k][2]] + From(P[k][2], P) : P[k][1] = S[P[k][2]][x]
  BY ONLY Taken(S, o, P) DEF Taken
<1>6. \A k \in DOMAIN R :
        \E x \in o[R[k][2]] + 1 .. o[R[k][2]] + From(R[k][2], R) : R[k][1] = S[R[k][2]][x]
  <2> SUFFICES ASSUME NEW k \in DOMAIN R
               PROVE  \E x \in o[R[k][2]] + 1 .. o[R[k][2]] + From(R[k][2], R) :
                        R[k][1] = S[R[k][2]][x]
    OBVIOUS
  <2>1. CASE k \in 1 .. Len(P) /\ R[k] = P[k]
    <3>1. PICK l \in Lists : l = P[k][2]
      BY <1>1, <1>4, <2>1
    <3>2. PICK x \in o[l] + 1 .. o[l] + From(l, P) : P[k][1] = S[l][x]
      <4>1. k \in DOMAIN P
        BY <1>1, <2>1
      <4>2. \A j \in DOMAIN P :
              \E x \in o[P[j][2]] + 1 .. o[P[j][2]] + From(P[j][2], P) : P[j][1] = S[P[j][2]][x]
        BY ONLY Taken(S, o, P) DEF Taken
      <4> QED  BY ONLY <3>1, <4>1, <4>2
    <3>3. x \in o[l] + 1 .. o[l] + From(l, R)
      BY <1>3, <3>2
    <3> QED  BY <2>1, <3>1, <3>2, <3>3
  <2>2. CASE k - Len(P) \in 1 .. Len(Q) /\ R[k] = Q[k - Len(P)]
    <3> DEFINE j == k - Len(P)
    <3>1. PICK l \in Lists : l = Q[j][2]
      BY <1>1, <1>4, <2>2
    <3>2. PICK x \in o2[l] + 1 .. o2[l] + From(l, Q) : Q[j][1] = S[l][x]
      BY ONLY <1>0, <1>1, <2>2, <3>1
    <3>3. x \in o[l] + 1 .. o[l] + From(l, R)
      BY <1>3, <3>2
    <3> QED  BY <2>2, <3>1, <3>2, <3>3
  <2> QED  BY <1>2, <2>1, <2>2
<1>7. \A l \in Lists : \A x \in o[l] + 1 .. o[l] + From(l, R) :
        \E k \in DOMAIN R : R[k] = << S[l][x], l >>
  <2> SUFFICES ASSUME NEW l \in Lists, NEW x \in o[l] + 1 .. o[l] + From(l, R)
               PROVE  \E k \in DOMAIN R : R[k] = << S[l][x], l >>
    OBVIOUS
  <2>1. CASE x <= o[l] + From(l, P)
    <3>1. x \in o[l] + 1 .. o[l] + From(l, P)
      BY <1>3, <2>1
    <3>2. PICK k \in DOMAIN P : P[k] = << S[l][x], l >>
      BY <3>1 DEF Taken
    <3>3. k \in DOMAIN R /\ R[k] = P[k]
      BY <1>1, <3>2
    <3> QED  BY <3>2, <3>3
  <2>2. CASE x > o[l] + From(l, P)
    <3>1. x \in o2[l] + 1 .. o2[l] + From(l, Q)
      BY <1>3, <2>2
    <3>2. PICK k \in DOMAIN Q : Q[k] = << S[l][x], l >>
      BY <3>1 DEF Taken
    <3>3. k + Len(P) \in DOMAIN R /\ R[k + Len(P)] = Q[k]
      BY <1>1, <3>2
    <3> QED  BY <3>2, <3>3
  <2> QED  BY <1>3, <2>1, <2>2
<1>8. ASSUME NEW j \in DOMAIN P, NEW k \in DOMAIN Q PROVE P[j][1][1] <= Q[k][1][1]
  <2>1. PICK l \in Lists : l = Q[k][2]
    BY <1>4
  <2>2. PICK x \in o2[l] + 1 .. o2[l] + From(l, Q) : Q[k][1] = S[l][x]
    BY <1>0, <2>1
  <2>3. x \in o[l] + From(l, P) + 1 .. Len(S[l])
    BY <1>3, <1>5, <2>2
  <2> QED  BY <2>2, <2>3 DEF Taken
<1>9. \A j, k \in DOMAIN R : j <= k => R[j][1][1] <= R[k][1][1]
  <2> SUFFICES ASSUME NEW j \in DOMAIN R, NEW k \in DOMAIN R, j <= k
               PROVE  R[j][1][1] <= R[k][1][1]
    OBVIOUS
  <2>1. CASE k \in 1 .. Len(P)
    <3>1. j \in 1 .. Len(P) /\ R[j] = P[j] /\ R[k] = P[k]
      BY <1>1, <2>1
    <3> QED  BY <1>1, <2>1, <3>1 DEF Taken
  <2>2. CASE k \notin 1 .. Len(P) /\ j \in 1 .. Len(P)
    <3>1. R[j] = P[j] /\ k - Len(P) \in DOMAIN Q /\ R[k] = Q[k - Len(P)]
      BY <1>1, <1>2, <2>2
    <3> QED  BY <1>1, <1>8, <2>2, <3>1
  <2>3. CASE k \notin 1 .. Len(P) /\ j \notin 1 .. Len(P)
    <3>1. /\ j - Len(P) \in DOMAIN Q /\ R[j] = Q[j - Len(P)]
          /\ k - Len(P) \in DOMAIN Q /\ R[k] = Q[k - Len(P)]
          /\ j - Len(P) <= k - Len(P)
      BY <1>1, <1>2, <2>3
    <3> QED  BY <3>1 DEF Taken
  <2> QED  BY <2>1, <2>2, <2>3
<1>10. \A k \in DOMAIN R : \A l \in Lists : \A x \in o[l] + From(l, R) + 1 .. Len(S[l]) :
         R[k][1][1] <= S[l][x][1]
  <2> SUFFICES ASSUME NEW k \in DOMAIN R, NEW l \in Lists,
                      NEW x \in o[l] + From(l, R) + 1 .. Len(S[l])
               PROVE  R[k][1][1] <= S[l][x][1]
    OBVIOUS
  <2>1. /\ x \in o[l] + From(l, P) + 1 .. Len(S[l])
        /\ x \in o2[l] + From(l, Q) + 1 .. Len(S[l])
    BY <1>3
  <2>2. \/ k \in DOMAIN P /\ R[k] = P[k]
        \/ k - Len(P) \in DOMAIN Q /\ R[k] = Q[k - Len(P)]
    BY <1>1, <1>2
  <2> QED  BY <2>1, <2>2 DEF Taken
<1>11. ASSUME \A l \in Lists : \A x, y \in DOMAIN S[l] : S[l][x] = S[l][y] => x = y,
              NEW j \in DOMAIN P, NEW k \in DOMAIN Q
       PROVE  P[j] # Q[k]
  <2> SUFFICES ASSUME P[j] = Q[k] PROVE FALSE
    OBVIOUS
  <2>1. PICK l \in Lists : l = Q[k][2] /\ l = P[j][2]
    BY <1>4
  <2>2. PICK x \in o2[l] + 1 .. o2[l] + From(l, Q) : Q[k][1] = S[l][x]
    BY <1>0, <2>1
  <2>3. PICK y \in o[l] + 1 .. o[l] + From(l, P) : P[j][1] = S[l][y]
    BY <2>1 DEF Taken
  <2>4. x \in 1 .. Len(S[l]) /\ y \in 1 .. Len(S[l]) /\ y < x /\ DOMAIN S[l] = 1 .. Len(S[l])
    <3>1. /\ o[l] + (From(l, P) + From(l, Q)) <= Len(S[l]) /\ o2[l] = o[l] + From(l, P)
          /\ o[l] \in Nat /\ From(l, P) \in Nat /\ From(l, Q) \in Nat /\ Len(S[l]) \in Nat
      BY <1>3, <1>5
    <3>2. x \in 1 .. Len(S[l]) /\ y \in 1 .. Len(S[l]) /\ y < x
      <4>1. PICK ol, fp, fq, ls : ol = o[l] /\ fp = From(l, P) /\ fq = From(l, Q) /\ ls = Len(S[l])
        OBVIOUS
      <4>2. /\ ol + (fp + fq) <= ls /\ ol \in Nat /\ fp \in Nat /\ fq \in Nat /\ ls \in Nat
            /\ x \in (ol + fp) + 1 .. (ol + fp) + fq /\ y \in ol + 1 .. ol + fp
        BY ONLY <2>2, <2>3, <3>1, <4>1
      <4>3. x \in 1 .. ls /\ y \in 1 .. ls /\ y < x
        BY ONLY <4>2
      <4> QED  BY ONLY <4>1, <4>3
    <3>3. S[l] \in Seq(Tuple)
      BY DEF SortedLists
    <3> QED  BY <3>2, <3>3
  <2>5. x = y
    BY <1>11, <2>2, <2>3, <2>4
  <2> QED  BY <2>4, <2>5
<1>12. ASSUME \A l \in Lists : \A x, y \in DOMAIN S[l] : S[l][x] = S[l][y] => x = y
       PROVE  \A j, k \in DOMAIN R : R[j] = R[k] => j = k
  <2>1. /\ \A j, k \in DOMAIN P : P[j] = P[k] => j = k
        /\ \A j, k \in DOMAIN Q : Q[j] = Q[k] => j = k
        /\ \A j \in DOMAIN P : \A k \in DOMAIN Q : P[j] # Q[k]
    BY <1>11, <1>12 DEF Taken
  <2> SUFFICES ASSUME NEW j \in DOMAIN R, NEW k \in DOMAIN R, R[j] = R[k] PROVE j = k
    OBVIOUS
  <2>2. \/ j \in DOMAIN P /\ R[j] = P[j]
        \/ j - Len(P) \in DOMAIN Q /\ R[j] = Q[j - Len(P)]
    BY <1>1, <1>2
  <2>3. \/ k \in DOMAIN P /\ R[k] = P[k]
        \/ k - Len(P) \in DOMAIN Q /\ R[k] = Q[k - Len(P)]
    BY <1>1, <1>2
  <2>4. j \in Nat /\ k \in Nat /\ (j - Len(P) = k - Len(P) => j = k)
    BY <1>1
  <2> QED  BY <2>1, <2>2, <2>3, <2>4
<1> QED  BY <1>1, <1>3, <1>5, <1>6, <1>7, <1>9, <1>10, <1>12 DEF Taken, R

(* Kernel's recursion, from where at[1] and at[2] elements are taken. *)
Step(A, B, slots, g, at) ==
  IF at[1] = Len(A) \/ at[2] = Len(B) \/ at[1] + at[2] >= slots THEN << >>
  ELSE IF A[at[1] + 1][1] < B[at[2] + 1][1]
  THEN << << A[at[1] + 1], "A" >> >> \o g[<< at[1] + 1, at[2] >>]
  ELSE << << B[at[2] + 1], "B" >> >> \o g[<< at[1], at[2] + 1 >>]
Ats(A, B) == (0 .. Len(A)) \X (0 .. Len(B))
IsKernel(A, B, slots, g) == g = [at \in Ats(A, B) |-> Step(A, B, slots, g, at)]
(* What is left of both lists there. *)
Left(A, B, at) == (Len(A) - at[1]) + (Len(B) - at[2])

(* The recursion has a solution. *)
LEMMA KernelExists ==
  ASSUME NEW A \in Seq(Tuple), NEW B \in Seq(Tuple), NEW slots \in Nat
  PROVE  \E g : IsKernel(A, B, slots, g)
<1> DEFINE Dom == Ats(A, B)
           Good(g, n) == \A at \in Dom : Left(A, B, at) < n => g[at] = Step(A, B, slots, g, at)
           N == {n \in Nat : \E g : g = [at \in Dom |-> g[at]] /\ Good(g, n)}
<1>0. /\ Len(A) \in Nat /\ Len(B) \in Nat
      /\ \A at \in Dom : /\ at = << at[1], at[2] >> /\ at[1] \in 0 .. Len(A) /\ at[2] \in 0 .. Len(B)
                         /\ Left(A, B, at) \in Nat /\ Left(A, B, at) < Len(A) + Len(B) + 1
  BY DEF Ats, Left
<1>1. 0 \in N
  <2> DEFINE g == [at \in Dom |-> << >>]
  <2>1. g = [at \in Dom |-> g[at]] /\ Good(g, 0)
    BY <1>0
  <2> QED  BY <2>1
<1>2. ASSUME NEW n \in Nat, n \in N PROVE n + 1 \in N
  <2>1. PICK g : g = [at \in Dom |-> g[at]] /\ Good(g, n)
    BY <1>2
  <2> DEFINE h == [at \in Dom |-> Step(A, B, slots, g, at)]
  <2>2. ASSUME NEW at \in Dom, Left(A, B, at) < n + 1 PROVE h[at] = Step(A, B, slots, h, at)
    <3>1. h[at] = Step(A, B, slots, g, at)
      OBVIOUS
    <3>2. CASE at[1] = Len(A) \/ at[2] = Len(B) \/ at[1] + at[2] >= slots
      BY <3>1, <3>2 DEF Step
    <3>3. CASE ~(at[1] = Len(A) \/ at[2] = Len(B) \/ at[1] + at[2] >= slots)
      <4> DEFINE u == << at[1] + 1, at[2] >>
                 v == << at[1], at[2] + 1 >>
      <4>1. /\ u \in Dom /\ Left(A, B, u) < n
            /\ v \in Dom /\ Left(A, B, v) < n
        <5>1. at[1] \in 0 .. Len(A) - 1 /\ at[2] \in 0 .. Len(B) - 1
          BY <1>0, <3>3
        <5>2. u \in Dom /\ v \in Dom
          BY <1>0, <5>1 DEF Ats
        <5>3. Left(A, B, u) = Left(A, B, at) - 1 /\ Left(A, B, v) = Left(A, B, at) - 1
          <6>1. u[1] = at[1] + 1 /\ u[2] = at[2] /\ v[1] = at[1] /\ v[2] = at[2] + 1
            OBVIOUS
          <6> HIDE DEF u, v
          <6>2. PICK i, j, p, q : i = at[1] /\ j = at[2] /\ p = Len(A) /\ q = Len(B)
            OBVIOUS
          <6>3. i \in Nat /\ j \in Nat /\ p \in Nat /\ q \in Nat
            BY <5>1, <6>2
          <6>4. /\ Left(A, B, at) = (p - i) + (q - j)
                /\ Left(A, B, u) = (p - (i + 1)) + (q - j)
                /\ Left(A, B, v) = (p - i) + (q - (j + 1))
            BY ONLY <6>1, <6>2 DEF Left
          <6> QED  BY ONLY <6>3, <6>4
        <5>4. Left(A, B, at) \in Nat
          BY <1>0
        <5> QED  BY <2>2, <5>2, <5>3, <5>4
      <4>2. h[u] = g[u] /\ h[v] = g[v]
        BY <2>1, <4>1
      <4> HIDE DEF h, u, v
      <4>3. Step(A, B, slots, g, at) = Step(A, B, slots, h, at)
        BY <4>2 DEF Step, u, v
      <4> QED  BY <3>1, <4>3
    <3> QED  BY <3>2, <3>3
  <2>3. h = [at \in Dom |-> h[at]] /\ Good(h, n + 1)
    BY <2>2
  <2> HIDE DEF h, Good
  <2> QED  BY <2>3
<1> HIDE DEF N
<1>3. Len(A) + Len(B) + 1 \in N
  <2>1. Len(A) + Len(B) + 1 \in Nat
    BY <1>0
  <2> QED  BY <1>1, <1>2, <2>1, Induction
<1>4. PICK g : g = [at \in Dom |-> g[at]] /\ Good(g, Len(A) + Len(B) + 1)
  BY <1>3 DEF N
<1>5. \A at \in Dom : g[at] = Step(A, B, slots, g, at)
  BY <1>0, <1>4
<1>6. g = [at \in Dom |-> Step(A, B, slots, g, at)]
  BY <1>4, <1>5
<1> QED  BY <1>6 DEF IsKernel

(* Kernel is such a solution, from the start. *)
LEMMA KernelSolves ==
  ASSUME NEW A \in Seq(Tuple), NEW B \in Seq(Tuple), NEW slots \in Nat
  PROVE  \E g : IsKernel(A, B, slots, g) /\ Kernel(A, B, slots) = g[<< 0, 0 >>]
<1> DEFINE h == CHOOSE g : IsKernel(A, B, slots, g)
<1>1. IsKernel(A, B, slots, h)
  BY KernelExists
<1>2. Kernel(A, B, slots) = h[<< 0, 0 >>]
  BY DEF Kernel, IsKernel, Step, Ats
<1> QED  BY <1>1, <1>2

(* Merging takes the lists in order, not more than the slots, and stops    *)
(* for one of three reasons; no pick is beyond the last of either list.    *)
Merged(S, o, slots, P) ==
  /\ Taken(S, o, P)
  /\ o["A"] + o["B"] <= slots => o["A"] + o["B"] + Len(P) <= slots
  /\ \/ \E l \in Lists : o[l] + From(l, P) = Len(S[l])
     \/ o["A"] + o["B"] + Len(P) >= slots
  /\ \A k \in DOMAIN P : \A l \in Lists : Len(S[l]) > 0 /\ P[k][1][1] <= S[l][Len(S[l])][1]

(* One more pick in front. *)
LEMMA MergedStep ==
  ASSUME NEW S, NEW o, SortedLists(S), Offsets(S, o), NEW l \in Lists, NEW slots \in Nat,
         \A l2 \in Lists : o[l2] < Len(S[l2]),
         \A l2 \in Lists : S[l][o[l] + 1][1] <= S[l2][o[l2] + 1][1],
         o["A"] + o["B"] < slots,
         NEW o2, o2 = [o EXCEPT ![l] = @ + 1],
         NEW Q, Merged(S, o2, slots, Q)
  PROVE  Merged(S, o, slots, << << S[l][o[l] + 1], l >> >> \o Q)
<1> DEFINE t == S[l][o[l] + 1]
           P == << << t, l >> >>
           R == P \o Q
<1>1. /\ o \in [Lists -> Nat] /\ "A" \in Lists /\ "B" \in Lists
      /\ \A l2 \in Lists : /\ Len(S[l2]) \in Nat
                           /\ \A x \in 1 .. Len(S[l2]) : S[l2][x] \in Tuple /\ S[l2][x][1] \in Nat
  <2>1. \A l2 \in Lists : /\ S[l2] \in Seq(Tuple) /\ Len(S[l2]) \in Nat
                          /\ \A x \in 1 .. Len(S[l2]) : S[l2][x] \in Tuple
    BY DEF SortedLists
  <2> QED  BY <2>1 DEF Tuple, Offsets, Lists
<1>2. o[l] + 1 \in 1 .. Len(S[l]) /\ t \in Tuple /\ t[1] \in Nat
  BY <1>1
<1>3. P \in PickSeq /\ From(l, P) = 1 /\ \A l2 \in Lists : l2 # l => From(l2, P) = 0
  BY <1>2, FromOne
<1>4. Len(P) = 1 /\ P[1] = << t, l >> /\ DOMAIN P = {1}
  OBVIOUS
<1>5. Taken(S, o, P)
  BY <1>1, TakenOne
<1>6. Taken(S, o2, Q) /\ Q \in PickSeq
  BY DEF Merged, Taken
<1> HIDE DEF P, t
<1>7. o2 = [l2 \in Lists |-> o[l2] + From(l2, P)] /\ o2 \in [Lists -> Nat]
      /\ o2["A"] + o2["B"] = o["A"] + o["B"] + 1
  <2>1. \A l2 \in Lists : o2[l2] = o[l2] + From(l2, P) /\ o2[l2] \in Nat
    BY <1>1, <1>3
  <2>2. DOMAIN o2 = Lists
    BY <1>1
  <2>3. o2 = [l2 \in Lists |-> o2[l2]]
    BY <1>1
  <2>4. o2["A"] + o2["B"] = o["A"] + o["B"] + 1
    BY <1>1 DEF Lists
  <2> QED  BY <2>1, <2>3, <2>4
<1>8. Taken(S, o, R) /\ \A l2 \in Lists : From(l2, R) = From(l2, P) + From(l2, Q)
  <2>1. o2 = [l2 \in Lists |-> o[l2] + From(l2, P)]
    BY <1>7
  <2> QED  BY ONLY SortedLists(S), Offsets(S, o), <1>5, <1>6, <2>1, TakenConcat
<1>9. /\ Len(Q) \in Nat /\ Len(R) = Len(Q) + 1 /\ DOMAIN R = 1 .. Len(R) /\ DOMAIN Q = 1 .. Len(Q)
      /\ R[1] = << t, l >> /\ \A k \in 1 .. Len(Q) : R[k + 1] = Q[k]
  <2>1. P \in Seq(Tuple \X Lists) /\ Q \in Seq(Tuple \X Lists)
    BY <1>3, <1>6 DEF PickSeq
  <2>2. /\ Len(Q) \in Nat /\ Len(R) = Len(P) + Len(Q) /\ DOMAIN R = 1 .. Len(R)
        /\ DOMAIN Q = 1 .. Len(Q) /\ \A k \in 1 .. Len(P) : R[k] = P[k]
        /\ \A k \in 1 .. Len(Q) : R[k + Len(P)] = Q[k]
    BY ONLY <2>1
  <2> HIDE DEF R
  <2> QED  BY <1>4, <2>1, <2>2
<1> HIDE DEF R
<1>10. o["A"] + o["B"] + Len(R) <= slots
  BY <1>1, <1>7, <1>9 DEF Merged
<1>11. \/ \E l2 \in Lists : o[l2] + From(l2, R) = Len(S[l2])
       \/ o["A"] + o["B"] + Len(R) >= slots
  <2>1. CASE o2["A"] + o2["B"] + Len(Q) >= slots
    BY <1>1, <1>7, <1>9, <2>1
  <2>2. ASSUME NEW l2 \in Lists, o2[l2] + From(l2, Q) = Len(S[l2])
        PROVE  o[l2] + From(l2, R) = Len(S[l2])
    <3>1. From(l2, P) \in Nat /\ From(l2, Q) \in Nat /\ o[l2] \in Nat
      BY <1>1, <1>3, <1>6, FromType
    <3>2. o2[l2] = o[l2] + From(l2, P) /\ From(l2, R) = From(l2, P) + From(l2, Q)
      BY <1>7, <1>8
    <3> QED  BY <2>2, <3>1, <3>2
  <2> QED  BY <2>1, <2>2 DEF Merged
<1>12. ASSUME NEW l2 \in Lists PROVE Len(S[l2]) > 0 /\ t[1] <= S[l2][Len(S[l2])][1]
  <2>1. o[l2] + 1 \in 1 .. Len(S[l2]) /\ Len(S[l2]) \in 1 .. Len(S[l2]) /\ o[l2] + 1 <= Len(S[l2])
    BY <1>1
  <2>2. S[l2][o[l2] + 1][1] <= S[l2][Len(S[l2])][1] /\ t[1] <= S[l2][o[l2] + 1][1]
    BY <2>1 DEF SortedLists, t
  <2>3. S[l2][o[l2] + 1][1] \in Nat /\ S[l2][Len(S[l2])][1] \in Nat
    BY <1>1, <2>1
  <2>4. Len(S[l2]) > 0
    BY <1>1
  <2> QED  BY <1>2, <2>2, <2>3, <2>4
<1>13. \A k \in DOMAIN R : \A l2 \in Lists :
         Len(S[l2]) > 0 /\ R[k][1][1] <= S[l2][Len(S[l2])][1]
  <2> SUFFICES ASSUME NEW k \in DOMAIN R, NEW l2 \in Lists
               PROVE  Len(S[l2]) > 0 /\ R[k][1][1] <= S[l2][Len(S[l2])][1]
    OBVIOUS
  <2>1. CASE k = 1
    BY <1>9, <1>12, <2>1
  <2>2. CASE k # 1
    <3>1. k - 1 \in DOMAIN Q /\ R[k] = Q[k - 1]
      BY <1>9, <2>2
    <3> QED  BY <3>1 DEF Merged
  <2> QED  BY <2>1, <2>2
<1> QED  BY <1>8, <1>10, <1>11, <1>13 DEF Merged, R, P, t

(* The kernel takes from both lists in order, until one of them is empty   *)
(* or its slots are used up.                                               *)
LEMMA KernelMerged ==
  ASSUME NEW A \in Seq(Tuple), NEW B \in Seq(Tuple), NEW slots \in Nat,
         SortedLists(Two(A, B))
  PROVE  Merged(Two(A, B), [l \in Lists |-> 0], slots, Kernel(A, B, slots))
<1> DEFINE S == Two(A, B)
           off(at) == [l \in Lists |-> IF l = "A" THEN at[1] ELSE at[2]]
<1>1. PICK g : IsKernel(A, B, slots, g) /\ Kernel(A, B, slots) = g[<< 0, 0 >>]
  BY KernelSolves
<1> DEFINE N == {n \in Nat : \A at \in Ats(A, B) : Left(A, B, at) = n =>
                               Merged(S, off(at), slots, g[at])}
<1>2. /\ S["A"] = A /\ S["B"] = B /\ Len(A) \in Nat /\ Len(B) \in Nat /\ SortedLists(S)
      /\ "A" \in Lists /\ "B" \in Lists /\ \A l \in Lists : l = "A" \/ l = "B"
  BY TwoIs DEF Lists
<1> HIDE DEF S
<1>3. ASSUME NEW at \in Ats(A, B)
      PROVE  /\ at = << at[1], at[2] >> /\ at[1] \in 0 .. Len(A) /\ at[2] \in 0 .. Len(B)
             /\ Left(A, B, at) \in Nat
             /\ off(at)["A"] = at[1] /\ off(at)["B"] = at[2] /\ Offsets(S, off(at))
  <2>1. at = << at[1], at[2] >> /\ at[1] \in 0 .. Len(A) /\ at[2] \in 0 .. Len(B)
    BY DEF Ats
  <2>2. Left(A, B, at) \in Nat
    BY <1>2, <2>1 DEF Left
  <2>3. off(at)["A"] = at[1] /\ off(at)["B"] = at[2] /\ off(at) \in [Lists -> Nat]
    BY <1>2, <2>1
  <2> QED  BY <1>2, <2>1, <2>2, <2>3 DEF Offsets
<1>4. ASSUME NEW at \in Ats(A, B),
             at[1] = Len(A) \/ at[2] = Len(B) \/ at[1] + at[2] >= slots
      PROVE  Merged(S, off(at), slots, g[at])
  <2>1. g[at] = << >>
    BY <1>1, <1>4 DEF IsKernel, Step
  <2>2. Taken(S, off(at), << >>)
    BY <1>2, <1>3, TakenEmpty
  <2>3. Len(<< >>) = 0 /\ DOMAIN << >> = {} /\ \A l \in Lists : From(l, << >>) = 0
    BY FromEmpty
  <2> HIDE DEF off
  <2>4. \/ \E l \in Lists : off(at)[l] + From(l, << >>) = Len(S[l])
        \/ off(at)["A"] + off(at)["B"] + Len(<< >>) >= slots
    BY <1>2, <1>3, <1>4, <2>3
  <2>5. off(at)["A"] + off(at)["B"] <= slots => off(at)["A"] + off(at)["B"] + Len(<< >>) <= slots
    BY <1>3, <2>3
  <2> QED  BY <2>1, <2>2, <2>3, <2>4, <2>5 DEF Merged
<1>5. ASSUME NEW at \in Ats(A, B),
             ~(at[1] = Len(A) \/ at[2] = Len(B) \/ at[1] + at[2] >= slots),
             \A u \in Ats(A, B) : Left(A, B, u) + 1 = Left(A, B, at) =>
                                    Merged(S, off(u), slots, g[u])
      PROVE  Merged(S, off(at), slots, g[at])
  <2> DEFINE u == << at[1] + 1, at[2] >>
             v == << at[1], at[2] + 1 >>
  <2>1. at[1] \in 0 .. Len(A) - 1 /\ at[2] \in 0 .. Len(B) - 1 /\ at[1] + at[2] < slots
    <3>1. at[1] \in 0 .. Len(A) /\ at[2] \in 0 .. Len(B)
      BY <1>3
    <3> QED  BY <1>2, <1>5, <3>1
  <2>2. /\ u \in Ats(A, B) /\ Left(A, B, u) + 1 = Left(A, B, at)
        /\ v \in Ats(A, B) /\ Left(A, B, v) + 1 = Left(A, B, at)
    <3>1. u \in Ats(A, B) /\ v \in Ats(A, B)
      BY <1>2, <2>1 DEF Ats
    <3>2. Left(A, B, u) + 1 = Left(A, B, at) /\ Left(A, B, v) + 1 = Left(A, B, at)
      <4>1. u[1] = at[1] + 1 /\ u[2] = at[2] /\ v[1] = at[1] /\ v[2] = at[2] + 1
        OBVIOUS
      <4> HIDE DEF u, v
      <4>2. PICK i, j, p, q : i = at[1] /\ j = at[2] /\ p = Len(A) /\ q = Len(B)
        OBVIOUS
      <4>3. i \in Nat /\ j \in Nat /\ p \in Nat /\ q \in Nat
        BY <1>2, <2>1, <4>2
      <4>4. /\ Left(A, B, at) = (p - i) + (q - j)
            /\ Left(A, B, u) = (p - (i + 1)) + (q - j)
            /\ Left(A, B, v) = (p - i) + (q - (j + 1))
        BY <4>1, <4>2 DEF Left
      <4> QED  BY ONLY <4>3, <4>4
    <3> QED  BY <3>1, <3>2
  <2>3. /\ A[at[1] + 1] \in Tuple /\ A[at[1] + 1][1] \in Nat
        /\ B[at[2] + 1] \in Tuple /\ B[at[2] + 1][1] \in Nat
    <3>1. at[1] + 1 \in 1 .. Len(A) /\ at[2] + 1 \in 1 .. Len(B)
      BY <1>2, <2>1
    <3>2. A[at[1] + 1] \in Tuple /\ B[at[2] + 1] \in Tuple
      BY <3>1
    <3> QED  BY <3>2 DEF Tuple
  <2>4. Merged(S, off(u), slots, g[u]) /\ Merged(S, off(v), slots, g[v])
    BY <1>5, <2>2
  <2>5. /\ off(u) = [off(at) EXCEPT !["A"] = @ + 1] /\ off(v) = [off(at) EXCEPT !["B"] = @ + 1]
    BY <1>2
  <2>6. /\ Offsets(S, off(at)) /\ \A l \in Lists : off(at)[l] < Len(S[l])
        /\ off(at)["A"] + off(at)["B"] < slots
        /\ off(at)["A"] = at[1] /\ off(at)["B"] = at[2]
    BY <1>2, <1>3, <2>1
  <2>7. CASE A[at[1] + 1][1] < B[at[2] + 1][1]
    <3>1. g[at] = << << A[at[1] + 1], "A" >> >> \o g[u]
      BY <1>1, <1>5, <2>7 DEF IsKernel, Step
    <3> HIDE DEF off, u
    <3>2. \A l \in Lists : S["A"][off(at)["A"] + 1][1] <= S[l][off(at)[l] + 1][1]
      <4> PICK i, j : i = at[1] + 1 /\ j = at[2] + 1
        OBVIOUS
      <4>1. /\ S["A"] = A /\ S["B"] = B /\ \A l \in Lists : l = "A" \/ l = "B"
            /\ off(at)["A"] + 1 = i /\ off(at)["B"] + 1 = j
        BY <1>2, <2>6 DEF Lists
      <4>2. A[i][1] \in Nat /\ B[j][1] \in Nat /\ A[i][1] < B[j][1]
        BY <2>3, <2>7
      <4>3. A[i][1] <= A[i][1] /\ A[i][1] <= B[j][1]
        BY ONLY <4>2
      <4> QED  BY ONLY <4>1, <4>3
    <3>3. Merged(S, off(at), slots, << << S["A"][off(at)["A"] + 1], "A" >> >> \o g[u])
      BY <1>2, <2>4, <2>5, <2>6, <3>2, MergedStep
    <3> QED  BY <1>2, <2>6, <3>1, <3>3
  <2>8. CASE ~(A[at[1] + 1][1] < B[at[2] + 1][1])
    <3>1. g[at] = << << B[at[2] + 1], "B" >> >> \o g[v]
      BY <1>1, <1>5, <2>8 DEF IsKernel, Step
    <3> HIDE DEF off, v
    <3>2. \A l \in Lists : S["B"][off(at)["B"] + 1][1] <= S[l][off(at)[l] + 1][1]
      <4>1. S["B"][off(at)["B"] + 1][1] <= S["A"][off(at)["A"] + 1][1]
        BY <1>2, <2>3, <2>6, <2>8
      <4>2. S["B"][off(at)["B"] + 1][1] <= S["B"][off(at)["B"] + 1][1]
        BY <1>2, <2>3, <2>6
      <4> QED  BY <1>2, <4>1, <4>2
    <3>3. Merged(S, off(at), slots, << << S["B"][off(at)["B"] + 1], "B" >> >> \o g[v])
      BY <1>2, <2>4, <2>5, <2>6, <3>2, MergedStep
    <3> QED  BY <1>2, <2>6, <3>1, <3>3
  <2> QED  BY <2>7, <2>8
<1> HIDE DEF off
<1>6. 0 \in N
  <2> SUFFICES ASSUME NEW at \in Ats(A, B), Left(A, B, at) = 0
               PROVE  Merged(S, off(at), slots, g[at])
    OBVIOUS
  <2>1. at[1] = Len(A)
    BY <1>2, <1>3 DEF Left
  <2> QED  BY <1>4, <2>1
<1>7. ASSUME NEW n \in Nat, n \in N PROVE n + 1 \in N
  <2> SUFFICES ASSUME NEW at \in Ats(A, B), Left(A, B, at) = n + 1
               PROVE  Merged(S, off(at), slots, g[at])
    BY <1>7
  <2>1. ASSUME NEW u \in Ats(A, B), Left(A, B, u) + 1 = Left(A, B, at)
        PROVE  Merged(S, off(u), slots, g[u])
    <3>1. Left(A, B, u) = n
      BY <1>3, <2>1
    <3> QED  BY <1>7, <3>1
  <2> QED  BY <1>4, <1>5, <2>1
<1>8. Nat \subseteq N
  BY <1>6, <1>7, Induction
<1> DEFINE start == << 0, 0 >>
<1>9. start \in Ats(A, B) /\ Left(A, B, start) \in Nat
  <2>1. start \in Ats(A, B)
    BY <1>2 DEF Ats
  <2> QED  BY <1>3, <2>1
<1>10. off(start) = [l \in Lists |-> 0]
  BY DEF off
<1> HIDE DEF start
<1>11. Merged(S, off(start), slots, g[start])
  BY <1>8, <1>9
<1> QED  BY <1>1, <1>10, <1>11 DEF S, start

(* What a ring of F slots holds that starts at h and has c tuples, and the *)
(* slots after a block was written from slot t on.                         *)
Ring(F, b, h, c) == [k \in 1 .. c |-> b[(h + k - 1) % F]]
Filled(F, b, t, T) ==
  [slot \in 0 .. F - 1 |->
     IF \E k \in DOMAIN T : (t + k - 1) % F = slot
     THEN T[CHOOSE k \in DOMAIN T : (t + k - 1) % F = slot]
     ELSE b[slot]]

(* The elements of a concatenation. *)
LEMMA ConcatIs ==
  ASSUME NEW s \in Seq(Tuple), NEW T \in Seq(Tuple)
  PROVE  /\ s \o T \in Seq(Tuple) /\ Len(s \o T) = Len(s) + Len(T)
         /\ \A k \in 1 .. Len(s) : (s \o T)[k] = s[k]
         /\ \A k \in 1 .. Len(T) : (s \o T)[Len(s) + k] = T[k]
<1>1. s \o T \in Seq(Tuple) /\ Len(s \o T) = Len(s) + Len(T)
  OBVIOUS
<1>2. \A k \in 1 .. Len(s) : (s \o T)[k] = s[k]
  OBVIOUS
<1>3. \A k \in 1 .. Len(T) : (s \o T)[Len(s) + k] = T[k]
  OBVIOUS
<1> QED  BY ONLY <1>1, <1>2, <1>3

(* Around the end of a ring at most once. *)
LEMMA ModRing ==
  ASSUME NEW F \in Nat \ {0}, NEW x \in 0 .. 2 * F - 1
  PROVE  /\ x < F => x % F = x
         /\ x >= F => x % F = x - F
         /\ x % F \in 0 .. F - 1
<1>1. ASSUME x < F PROVE x % F = x
  <2>1. x \in Nat /\ 0 \in Nat /\ x \in 0 .. F - 1 /\ x = F * 0 + x
    BY <1>1
  <2> QED  BY ONLY F \in Nat \ {0}, <2>1, ModUnique
<1>2. ASSUME x >= F PROVE x % F = x - F
  <2> DEFINE r == x - F
  <2>1. x \in Nat /\ 1 \in Nat /\ r \in 0 .. F - 1 /\ x = F * 1 + r
    BY <1>2
  <2> HIDE DEF r
  <2>2. x % F = r
    BY ONLY F \in Nat \ {0}, <2>1, ModUnique
  <2> QED  BY <2>2 DEF r
<1>3. x < F \/ x >= F
  OBVIOUS
<1> QED  BY <1>1, <1>2, <1>3

(* The slots of a ring follow one another and none is used twice. *)
LEMMA RingSlots ==
  ASSUME NEW F \in Nat \ {0}, NEW h \in 0 .. F - 1
  PROVE  /\ \A k \in 1 .. F : (h + k - 1) % F \in 0 .. F - 1
         /\ \A j, k \in 1 .. F : (h + j - 1) % F = (h + k - 1) % F => j = k
         /\ \A c \in 0 .. F : (h + c) % F \in 0 .. F - 1
         /\ \A c \in 0 .. F : \A k \in 1 .. F - c :
              (((h + c) % F) + k - 1) % F = (h + (c + k) - 1) % F
<1>1. \A x \in 0 .. 2 * F - 1 : /\ x < F => x % F = x
                                /\ x >= F => x % F = x - F
                                /\ x % F \in 0 .. F - 1
  BY ModRing
<1>2. \A k \in 1 .. F : h + k - 1 \in 0 .. 2 * F - 1
  OBVIOUS
<1>3. \A c \in 0 .. F : h + c \in 0 .. 2 * F - 1
  OBVIOUS
<1>4. ASSUME NEW j \in 1 .. F, NEW k \in 1 .. F, (h + j - 1) % F = (h + k - 1) % F PROVE j = k
  <2>1. PICK x, y : x = (h + j - 1) % F /\ y = (h + k - 1) % F
    OBVIOUS
  <2>2. /\ h + j - 1 < F => x = h + j - 1
        /\ h + j - 1 >= F => x = h + j - 1 - F
        /\ h + k - 1 < F => y = h + k - 1
        /\ h + k - 1 >= F => y = h + k - 1 - F
    <3>1. PICK v, w : v = h + j - 1 /\ w = h + k - 1
      OBVIOUS
    <3>2. v \in 0 .. 2 * F - 1 /\ w \in 0 .. 2 * F - 1 /\ x = v % F /\ y = w % F
      BY <1>2, <2>1, <3>1
    <3>3. /\ v < F => x = v
          /\ v >= F => x = v - F
          /\ w < F => y = w
          /\ w >= F => y = w - F
      BY ONLY <1>1, <3>2
    <3> QED  BY ONLY <3>1, <3>3
  <2>3. x = y
    BY <1>4, <2>1
  <2> QED  BY <2>2, <2>3
<1>5. ASSUME NEW c \in 0 .. F, NEW k \in 1 .. F - c
      PROVE  (((h + c) % F) + k - 1) % F = (h + (c + k) - 1) % F
  <2>1. PICK x : x = (h + c) % F
    OBVIOUS
  <2>2. /\ x \in 0 .. F - 1
        /\ h + c < F => x = h + c
        /\ h + c >= F => x = h + c - F
    BY <1>1, <1>3, <2>1
  <2>3. k \in 1 .. F /\ c + k \in 1 .. F
    OBVIOUS
  <2>4. PICK y, z : y = (x + k - 1) % F /\ z = (h + (c + k) - 1) % F
    OBVIOUS
  <2>5. /\ x + k - 1 < F => y = x + k - 1
        /\ x + k - 1 >= F => y = x + k - 1 - F
    <3>1. x + k - 1 \in 0 .. 2 * F - 1
      BY <2>2, <2>3
    <3>2. PICK w : w = x + k - 1
      OBVIOUS
    <3>3. (w < F => w % F = w) /\ (w >= F => w % F = w - F)
      BY <1>1, <3>1, <3>2
    <3>4. y = w % F
      BY <2>4, <3>2
    <3> QED  BY <2>2, <3>2, <3>3, <3>4
  <2>6. /\ h + (c + k) - 1 < F => z = h + (c + k) - 1
        /\ h + (c + k) - 1 >= F => z = h + (c + k) - 1 - F
    <3>1. PICK w : w = h + (c + k) - 1
      OBVIOUS
    <3>2. w \in 0 .. 2 * F - 1 /\ z = w % F
      <4>1. PICK i : i = c + k
        OBVIOUS
      <4>2. h + i - 1 \in 0 .. 2 * F - 1
        BY <1>2, <2>3, <4>1
      <4> QED  BY <2>4, <3>1, <4>1, <4>2
    <3>3. (w < F => z = w) /\ (w >= F => z = w - F)
      BY ONLY <1>1, <3>2
    <3> QED  BY ONLY <3>1, <3>3
  <2>7. y = z
    BY <2>2, <2>3, <2>5, <2>6
  <2> QED  BY <2>1, <2>4, <2>7
<1> QED  BY <1>1, <1>2, <1>3, <1>4, <1>5

(* A ring holds a list of as many tuples as it counts. *)
LEMMA RingType ==
  ASSUME NEW F \in Nat \ {0}, NEW h \in 0 .. F - 1, NEW c \in 0 .. F,
         NEW b \in [0 .. F - 1 -> Tuple]
  PROVE  /\ Ring(F, b, h, c) \in Seq(Tuple) /\ Len(Ring(F, b, h, c)) = c
         /\ \A k \in 1 .. c : Ring(F, b, h, c)[k] = b[(h + k - 1) % F]
<1>1. \A k \in 1 .. c : k \in 1 .. F /\ b[(h + k - 1) % F] \in Tuple
  <2>1. \A k \in 1 .. c : k \in 1 .. F
    OBVIOUS
  <2> QED  BY <2>1, RingSlots
<1>2. Ring(F, b, h, c) \in [1 .. c -> Tuple] /\ c \in Nat
  BY <1>1 DEF Ring
<1> QED  BY <1>2 DEF Ring

(* Moving the head on drops the first tuples. *)
LEMMA RingDrop ==
  ASSUME NEW F \in Nat \ {0}, NEW h \in 0 .. F - 1, NEW c \in 0 .. F,
         NEW b \in [0 .. F - 1 -> Tuple], NEW p \in 0 .. c
  PROVE  Ring(F, b, (h + p) % F, c - p) = Drop(Ring(F, b, h, c), p)
<1> DEFINE s == Ring(F, b, h, c)
           r == Ring(F, b, (h + p) % F, c - p)
           d == Drop(s, p)
<1>1. s \in Seq(Tuple) /\ Len(s) = c /\ \A k \in 1 .. c : s[k] = b[(h + k - 1) % F]
  BY RingType
<1>2. (h + p) % F \in 0 .. F - 1 /\ c - p \in 0 .. F
  <2>1. p \in 0 .. F
    OBVIOUS
  <2> QED  BY <2>1, RingSlots
<1>3. /\ r \in Seq(Tuple) /\ Len(r) = c - p
      /\ \A k \in 1 .. c - p : r[k] = b[(((h + p) % F) + k - 1) % F]
  BY <1>2, RingType
<1> HIDE DEF s, r
<1>4. d \in Seq(Tuple) /\ Len(d) = c - p /\ \A k \in 1 .. c - p : d[k] = s[k + p]
  BY <1>1, DropIs
<1>5. ASSUME NEW k \in 1 .. c - p PROVE r[k] = d[k]
  <2>1. k \in 1 .. F - p /\ p \in 0 .. F /\ k + p \in 1 .. c /\ p + k = k + p
    OBVIOUS
  <2>2. (((h + p) % F) + k - 1) % F = (h + (p + k) - 1) % F
    BY <2>1, RingSlots
  <2>3. r[k] = b[(h + (k + p) - 1) % F]
    BY <1>3, <2>1, <2>2
  <2> QED  BY <1>1, <1>4, <2>1, <2>3
<1> HIDE DEF d
<1>6. r = d
  BY <1>3, <1>4, <1>5
<1> QED  BY <1>6 DEF r, d, s

(* T fits behind the c elements that a ring of F slots holds from slot h on. *)
RoomFor(F, h, c, b, T) ==
  /\ F \in Nat \ {0} /\ h \in 0 .. F - 1 /\ c \in 0 .. F /\ b \in [0 .. F - 1 -> Tuple]
  /\ T \in Seq(Tuple) /\ c + Len(T) <= F

(* What is written behind the tail follows what the ring held. *)
LEMMA RingFilled ==
  ASSUME NEW F, NEW h, NEW c, NEW b, NEW T, RoomFor(F, h, c, b, T)
  PROVE  /\ Filled(F, b, (h + c) % F, T) \in [0 .. F - 1 -> Tuple]
         /\ Ring(F, Filled(F, b, (h + c) % F, T), h, c + Len(T)) = Ring(F, b, h, c) \o T
<1> DEFINE t == (h + c) % F
           f == Filled(F, b, t, T)
           n == Len(T)
           idx(k) == (h + k - 1) % F
           s == Ring(F, b, h, c)
           r == Ring(F, f, h, c + n)
<1>0. /\ F \in Nat \ {0} /\ h \in 0 .. F - 1 /\ c \in 0 .. F /\ b \in [0 .. F - 1 -> Tuple]
      /\ T \in Seq(Tuple) /\ c + Len(T) <= F
  BY DEF RoomFor
<1> USE <1>0
<1>1. n \in Nat /\ DOMAIN T = 1 .. n /\ c + n \in 0 .. F /\ \A k \in 1 .. n : T[k] \in Tuple
  OBVIOUS
<1> HIDE DEF n
<1>2. \A k \in 1 .. n : k \in 1 .. F - c /\ c + k \in 1 .. F /\ (t + k - 1) % F = idx(c + k)
  <2>1. \A k \in 1 .. n : k \in 1 .. F - c /\ c + k \in 1 .. F
    BY <1>1
  <2>2. \A k \in 1 .. F - c : (((h + c) % F) + k - 1) % F = (h + (c + k) - 1) % F
    BY RingSlots
  <2> QED  BY <2>1, <2>2
<1>3. \A j, k \in 1 .. F : idx(j) = idx(k) => j = k
  BY RingSlots
<1>4. \A k \in 1 .. F : idx(k) \in 0 .. F - 1
  BY RingSlots
<1> HIDE DEF t, idx
<1>5. \A slot \in 0 .. F - 1 :
        f[slot] = IF \E k \in 1 .. n : idx(c + k) = slot
                  THEN T[CHOOSE k \in 1 .. n : (t + k - 1) % F = slot] ELSE b[slot]
  BY <1>1, <1>2 DEF Filled
<1>6. ASSUME NEW k \in 1 .. n PROVE f[idx(c + k)] = T[k]
  <2> DEFINE j == CHOOSE j \in 1 .. n : (t + j - 1) % F = idx(c + k)
  <2>1. j \in 1 .. n /\ (t + j - 1) % F = idx(c + k)
    BY <1>2
  <2>2. f[idx(c + k)] = T[j]
    BY <1>2, <1>4, <1>5
  <2> HIDE DEF j
  <2>3. idx(c + j) = idx(c + k) /\ c + j \in 1 .. F /\ c + k \in 1 .. F
    BY <1>2, <2>1
  <2>4. c + j = c + k
    BY <1>3, <2>3
  <2>5. j = k
    BY <1>1, <2>1, <2>4
  <2> QED  BY <2>2, <2>5
<1>7. ASSUME NEW k \in 1 .. c PROVE f[idx(k)] = b[idx(k)]
  <2>1. k \in 1 .. F /\ \A j \in 1 .. n : c + j \in 1 .. F /\ c + j # k
    BY <1>1
  <2>2. \A j \in 1 .. n : idx(c + j) # idx(k)
    BY <1>3, <2>1
  <2> QED  BY <1>4, <1>5, <2>1, <2>2
<1>8. f \in [0 .. F - 1 -> Tuple]
  <2>1. ASSUME NEW slot \in 0 .. F - 1 PROVE f[slot] \in Tuple
    <3>1. CASE \E k \in 1 .. n : idx(c + k) = slot
      <4>1. PICK k \in 1 .. n : idx(c + k) = slot
        BY <3>1
      <4>2. f[slot] = T[k]
        BY <1>6, <4>1
      <4> QED  BY <1>1, <4>2
    <3>2. CASE ~\E k \in 1 .. n : idx(c + k) = slot
      BY <1>5, <3>2
    <3> QED  BY <3>1, <3>2
  <2>2. f = [slot \in 0 .. F - 1 |-> f[slot]]
    BY DEF Filled
  <2> HIDE DEF f
  <2> QED  BY <2>1, <2>2
<1> HIDE DEF f
<1>9. r \in Seq(Tuple) /\ Len(r) = c + n /\ \A k \in 1 .. c + n : r[k] = f[idx(k)]
  BY <1>1, <1>8, RingType DEF idx
<1>10. s \in Seq(Tuple) /\ Len(s) = c /\ \A k \in 1 .. c : s[k] = b[idx(k)]
  BY RingType DEF idx
<1> HIDE DEF s, r
<1> DEFINE q == s \o T
<1>11. /\ q \in Seq(Tuple) /\ Len(q) = c + n
       /\ \A k \in 1 .. c : q[k] = s[k]
       /\ \A k \in 1 .. n : q[c + k] = T[k]
  <2>1. s \in Seq(Tuple) /\ T \in Seq(Tuple) /\ Len(s) = c /\ Len(T) = n /\ q = s \o T
    BY <1>10 DEF n
  <2> HIDE DEF q
  <2>2. /\ q \in Seq(Tuple) /\ Len(q) = Len(s) + Len(T)
        /\ \A k \in 1 .. Len(s) : q[k] = s[k]
        /\ \A k \in 1 .. Len(T) : q[Len(s) + k] = T[k]
    <3>1. /\ s \o T \in Seq(Tuple) /\ Len(s \o T) = Len(s) + Len(T)
          /\ \A k \in 1 .. Len(s) : (s \o T)[k] = s[k]
          /\ \A k \in 1 .. Len(T) : (s \o T)[Len(s) + k] = T[k]
      BY ONLY <2>1, ConcatIs, Zenon
    <3> QED  BY ONLY <2>1, <3>1
  <2> QED  BY ONLY <2>1, <2>2
<1> HIDE DEF q
<1>12. ASSUME NEW k \in 1 .. c + n PROVE r[k] = q[k]
  <2>1. CASE k \in 1 .. c
    BY <1>1, <1>7, <1>9, <1>10, <1>11, <2>1
  <2>2. CASE k \notin 1 .. c
    <3>1. k - c \in 1 .. n /\ c + (k - c) = k
      BY <1>1, <2>2
    <3>2. q[k] = T[k - c] /\ f[idx(k)] = T[k - c]
      BY <1>6, <1>11, <3>1
    <3> QED  BY <1>9, <3>2
  <2> QED  BY <2>1, <2>2
<1>13. r = q
  BY <1>1, <1>9, <1>11, <1>12
<1> QED  BY <1>8, <1>13 DEF r, q, s, f, n, t

(* The tree of boxes that tuples move through, for 2 * k runs: the nodes,  *)
(* the output as -1, and run c as - c - 1.                                 *)
Boxes(k) == - 2 * k - 1 .. 2 * k - 3
Parents(k) == - 1 .. 2 * k - 3
KidR(k, n) == IF n < k - 2 THEN 2 * n + 2 ELSE 2 * n + 4 - 4 * k
KidL(k, n) == IF n < k - 2 THEN 2 * n + 3 ELSE 2 * n + 3 - 4 * k
Kids(k, n) == {KidR(k, n), KidL(k, n)}

(* The boxes are a binary tree: kids are boxes, and each has one parent. *)
LEMMA KidsIs ==
  ASSUME NEW k \in Nat, k >= 4
  PROVE  /\ Parents(k) \subseteq Boxes(k)
         /\ \A n \in Parents(k) :
              /\ KidR(k, n) \in Boxes(k) /\ KidL(k, n) \in Boxes(k)
              /\ KidR(k, n) # KidL(k, n)
              /\ n \notin Kids(k, n) /\ -1 \notin Kids(k, n)
         /\ \A n, p \in Parents(k) : Kids(k, n) \cap Kids(k, p) # {} => n = p
         /\ \A n, p \in Parents(k) : p \in Kids(k, n) => n \notin Kids(k, p)
<1>1. Parents(k) \subseteq Boxes(k)
  BY DEF Parents, Boxes
<1>2. ASSUME NEW n \in Parents(k)
      PROVE  /\ KidR(k, n) \in Boxes(k) /\ KidL(k, n) \in Boxes(k)
             /\ KidR(k, n) # KidL(k, n)
             /\ n \notin Kids(k, n) /\ -1 \notin Kids(k, n)
  BY DEF Parents, Boxes, KidR, KidL, Kids
<1>3. ASSUME NEW n \in Parents(k), NEW p \in Parents(k), Kids(k, n) \cap Kids(k, p) # {}
      PROVE  n = p
  BY <1>3 DEF Parents, KidR, KidL, Kids
<1>4. ASSUME NEW n \in Parents(k), NEW p \in Parents(k), p \in Kids(k, n)
      PROVE  n \notin Kids(k, p)
  BY <1>4 DEF Parents, KidR, KidL, Kids
<1> QED  BY <1>1, <1>2, <1>3, <1>4

Ascending(s) == \A x, y \in 1 .. Len(s) : x <= y => s[x][1] <= s[y][1]
(* Box b holds nothing and will receive nothing. *)
Dead(H, D, b) == D[b] /\ H[b] = << >>

(* H are the tuples in the boxes, D says which receive no more, and low    *)
(* bounds what each box holds and will ever hold from below: every box is  *)
(* sorted, and what it holds is not above what may still come from a kid.  *)
Tree(k, H, D, low) ==
  /\ H \in [Boxes(k) -> Seq(Tuple)] /\ D \in [Boxes(k) -> BOOLEAN] /\ low \in [Boxes(k) -> Nat]
  /\ \A b \in Boxes(k) : Ascending(H[b]) /\ \A x \in 1 .. Len(H[b]) : low[b] <= H[b][x][1]
  /\ \A n \in Parents(k) : \A c \in Kids(k, n) :
       ~Dead(H, D, c) => low[n] <= low[c] /\ \A x \in 1 .. Len(H[n]) : H[n][x][1] <= low[c]
  /\ \A n \in Parents(k) : D[n] => \A c \in Kids(k, n) : Dead(H, D, c)

(* s is the end of t. *)
Rest(s, t) ==
  /\ s \in Seq(Tuple) /\ Len(s) <= Len(t)
  /\ \A x \in 1 .. Len(s) : s[x] = t[x + (Len(t) - Len(s))]

(* The tuples T may move from the two kids r and l of n to n and leave G   *)
(* there, whereupon n is done or not (e): they are the smallest of both,   *)
(* and a kid that others may still fill does not fall behind.              *)
Movable(k, H, D, n, r, l, T, G, e) ==
  /\ n \in Parents(k) /\ r = KidR(k, n) /\ l = KidL(k, n)
  /\ T \in Seq(Tuple) /\ Ascending(T) /\ Rest(G[r], H[r]) /\ Rest(G[l], H[l])
  /\ \A x \in 1 .. Len(T) : \E c \in Kids(k, n) : \E y \in 1 .. Len(H[c]) : T[x] = H[c][y]
  /\ \A x \in 1 .. Len(T) : \A c \in Kids(k, n) : \A y \in 1 .. Len(G[c]) :
       T[x][1] <= G[c][y][1]
  /\ T # << >> =>
       /\ ~D[n]
       /\ \A c \in Kids(k, n) : D[c] \/ (/\ Len(H[c]) > 0
                                       /\ \A x \in 1 .. Len(T) : T[x][1] <= H[c][Len(H[c])][1])
  /\ T = << >> => G[r] = H[r] /\ G[l] = H[l]
  /\ e \in BOOLEAN /\ (D[n] => e)
  /\ e => \A c \in Kids(k, n) : D[c] /\ G[c] = << >>

(* Such a move keeps the tree in order. *)
LEMMA Move ==
  ASSUME NEW k \in Nat, k >= 4, NEW H, NEW D, NEW low, Tree(k, H, D, low),
         NEW n, NEW r, NEW l, NEW T, NEW G, NEW e, Movable(k, H, D, n, r, l, T, G, e)
  PROVE  \E low2 : Tree(k, [H EXCEPT ![n] = @ \o T, ![r] = G[r], ![l] = G[l]],
                        [D EXCEPT ![n] = e], low2)
<1> USE DEF Movable
<1> DEFINE H2 == [H EXCEPT ![n] = @ \o T, ![r] = G[r], ![l] = G[l]]
           D2 == [D EXCEPT ![n] = e]
<1>0. /\ H \in [Boxes(k) -> Seq(Tuple)] /\ D \in [Boxes(k) -> BOOLEAN]
      /\ low \in [Boxes(k) -> Nat] /\ Kids(k, n) = {r, l}
  BY DEF Tree, Kids
<1>1. /\ n \in Boxes(k) /\ r \in Boxes(k) /\ l \in Boxes(k) /\ Parents(k) \subseteq Boxes(k)
      /\ n # r /\ n # l /\ r # l
      /\ \A p \in Parents(k) : Kids(k, p) \subseteq Boxes(k)
      /\ \A p \in Parents(k) : r \in Kids(k, p) \/ l \in Kids(k, p) => p = n
      /\ \A p \in Parents(k) : p \in {r, l} => n \notin Kids(k, p)
      /\ n \notin Kids(k, n)
  BY KidsIs DEF Kids
<1>2. /\ H2 \in [Boxes(k) -> Seq(Tuple)] /\ D2 \in [Boxes(k) -> BOOLEAN]
      /\ H2[n] = H[n] \o T /\ H2[r] = G[r] /\ H2[l] = G[l]
      /\ \A b \in Boxes(k) : b \notin {n, r, l} => H2[b] = H[b]
      /\ D2[n] = e /\ \A b \in Boxes(k) : b # n => D2[b] = D[b]
  <2>1. G[r] \in Seq(Tuple) /\ G[l] \in Seq(Tuple) /\ H[n] \o T \in Seq(Tuple)
    BY <1>0, <1>1 DEF Rest
  <2> QED  BY <1>0, <1>1, <2>1
<1> HIDE DEF H2, D2
<1>3. CASE T = << >>
  <2>1. H2[n] = H[n]
    BY <1>0, <1>1, <1>2, <1>3
  <2>2. \A b \in Boxes(k) : H2[b] = H[b]
    BY <1>2, <1>3, <2>1
  <2>3. \A b \in Boxes(k) : Dead(H, D, b) => Dead(H2, D2, b)
    BY <1>2, <2>2 DEF Dead
  <2>4. e => \A c \in Kids(k, n) : Dead(H2, D2, c)
    BY <1>0, <1>1, <1>2, <1>3, <2>2 DEF Dead
  <2>5. \A p \in Parents(k) : D2[p] => \A c \in Kids(k, p) : Dead(H2, D2, c)
    BY <1>1, <1>2, <2>3, <2>4 DEF Tree
  <2>6. \A p \in Parents(k) : \A c \in Kids(k, p) : ~Dead(H2, D2, c) =>
          low[p] <= low[c] /\ \A x \in 1 .. Len(H2[p]) : H2[p][x][1] <= low[c]
    BY <1>1, <2>2, <2>3 DEF Tree
  <2>7. \A b \in Boxes(k) :
          Ascending(H2[b]) /\ \A x \in 1 .. Len(H2[b]) : low[b] <= H2[b][x][1]
    BY <2>2 DEF Tree
  <2>8. Tree(k, H2, D2, low)
    BY <1>0, <1>2, <2>5, <2>6, <2>7 DEF Tree
  <2> QED  BY <2>8 DEF H2, D2
<1>4. CASE T # << >>
  <2> DEFINE z == T[Len(T)][1]
             low2 == [b \in Boxes(k) |-> IF b \in {r, l} THEN z ELSE low[b]]
  <2>1. /\ Len(T) \in Nat /\ Len(T) \in 1 .. Len(T) /\ z \in Nat
        /\ \A x \in 1 .. Len(T) : T[x] \in Tuple /\ T[x][1] \in Nat /\ T[x][1] <= z
    <3>1. Len(T) \in 1 .. Len(T) /\ Len(T) \in Nat
      BY <1>4
    <3>2. \A x \in 1 .. Len(T) : T[x] \in Tuple
      OBVIOUS
    <3>3. \A x \in 1 .. Len(T) : T[x][1] \in Nat
      BY <3>2 DEF Tuple
    <3> QED  BY <3>1, <3>2, <3>3 DEF Ascending
  <2>2. \A b \in Boxes(k) : /\ low[b] \in Nat /\ Len(H[b]) \in Nat
                            /\ \A x \in 1 .. Len(H[b]) : H[b][x] \in Tuple /\ H[b][x][1] \in Nat
    <3>1. \A b \in Boxes(k) : /\ low[b] \in Nat /\ H[b] \in Seq(Tuple) /\ Len(H[b]) \in Nat
                              /\ \A x \in 1 .. Len(H[b]) : H[b][x] \in Tuple
      BY <1>0
    <3> QED  BY <3>1 DEF Tuple
  <2> HIDE DEF z
  <2>3. ASSUME NEW x \in 1 .. Len(T)
        PROVE  low[n] <= T[x][1] /\ \A y \in 1 .. Len(H[n]) : H[n][y][1] <= T[x][1]
    <3>0. PICK c \in Kids(k, n) : \E y \in 1 .. Len(H[c]) : T[x] = H[c][y]
      OBVIOUS
    <3>1. PICK y \in 1 .. Len(H[c]) : T[x] = H[c][y]
      BY <3>0
    <3>2. ~Dead(H, D, c) /\ c \in Boxes(k)
      BY <1>1, <2>2, <3>1 DEF Dead
    <3>3. low[n] <= low[c] /\ low[c] <= T[x][1] /\ \A u \in 1 .. Len(H[n]) : H[n][u][1] <= low[c]
      BY <3>1, <3>2 DEF Tree
    <3>4. low[n] \in Nat /\ low[c] \in Nat /\ T[x][1] \in Nat
          /\ \A y2 \in 1 .. Len(H[n]) : H[n][y2][1] \in Nat
      BY <1>1, <2>1, <2>2, <3>2
    <3> QED  BY ONLY <3>3, <3>4
  <2>4. low2 \in [Boxes(k) -> Nat] /\ low2[r] = z /\ low2[l] = z
        /\ \A b \in Boxes(k) : b \notin {r, l} => low2[b] = low[b]
    BY <1>1, <2>1, <2>2
  <2> HIDE DEF low2
  <2>5. ASSUME NEW c \in {r, l}
        PROVE  /\ Rest(H2[c], H[c]) /\ Ascending(H2[c])
               /\ \A x \in 1 .. Len(H2[c]) : z <= H2[c][x][1]
               /\ \A x \in 1 .. Len(H2[c]) : \E y \in 1 .. Len(H[c]) : H2[c][x] = H[c][y]
    <3>1. Rest(H2[c], H[c]) /\ H2[c] = G[c] /\ c \in Boxes(k)
      BY <1>1, <1>2
    <3>2. Len(H2[c]) \in Nat /\ Len(H[c]) \in Nat /\ Len(H2[c]) <= Len(H[c])
      BY <1>2, <2>2, <3>1 DEF Rest
    <3> DEFINE d == Len(H[c]) - Len(H2[c])
    <3>7. d \in Nat /\ Len(H[c]) = Len(H2[c]) + d
      BY <3>2
    <3>8. \A x \in 1 .. Len(H2[c]) : H2[c][x] = H[c][x + d]
      BY <3>1 DEF Rest
    <3> HIDE DEF d
    <3>3. \A x \in 1 .. Len(H2[c]) : x + d \in 1 .. Len(H[c]) /\ H2[c][x] = H[c][x + d]
      BY <3>2, <3>7, <3>8
    <3>4. \A x, y \in 1 .. Len(H[c]) : x <= y => H[c][x][1] <= H[c][y][1]
      BY <3>1 DEF Tree, Ascending
    <3>5. Ascending(H2[c])
      <4> SUFFICES ASSUME NEW x \in 1 .. Len(H2[c]), NEW y \in 1 .. Len(H2[c]), x <= y
                   PROVE  H2[c][x][1] <= H2[c][y][1]
        BY DEF Ascending
      <4>1. x + d <= y + d
        BY <3>2, <3>7
      <4> QED  BY <3>3, <3>4, <4>1
    <3>6. \A x \in 1 .. Len(H2[c]) : z <= H2[c][x][1]
      BY <1>0, <2>1, <3>1 DEF z
    <3> QED  BY <3>1, <3>3, <3>5, <3>6
  <2>6. /\ Ascending(H2[n]) /\ \A x \in 1 .. Len(H2[n]) : low[n] <= H2[n][x][1] /\ H2[n][x][1] <= z
    <3>1. /\ Len(H2[n]) = Len(H[n]) + Len(T)
          /\ \A x \in 1 .. Len(H[n]) : H2[n][x] = H[n][x]
          /\ \A x \in 1 .. Len(H2[n]) : x \notin 1 .. Len(H[n]) =>
               x - Len(H[n]) \in 1 .. Len(T) /\ H2[n][x] = T[x - Len(H[n])]
      <4>1. H[n] \in Seq(Tuple) /\ T \in Seq(Tuple) /\ H2[n] = H[n] \o T
        BY <1>0, <1>1, <1>2
      <4> QED  BY ONLY <4>1
    <3>2. Ascending(H[n]) /\ \A x \in 1 .. Len(H[n]) : low[n] <= H[n][x][1]
      BY <1>1 DEF Tree
    <3>3. \A x \in 1 .. Len(H[n]) : H[n][x][1] \in Nat /\ H[n][x][1] <= z /\ H[n][x][1] <= T[1][1]
      BY <1>1, <2>1, <2>2, <2>3 DEF z
    <3>4. \A x \in 1 .. Len(H2[n]) : low[n] <= H2[n][x][1] /\ H2[n][x][1] <= z
      BY <2>1, <2>3, <3>1, <3>2, <3>3
    <3>5. ASSUME NEW x \in 1 .. Len(H2[n]), NEW y \in 1 .. Len(H2[n]), x <= y
          PROVE  H2[n][x][1] <= H2[n][y][1]
      <4>1. CASE y \in 1 .. Len(H[n])
        <5>1. x \in 1 .. Len(H[n])
          BY <3>5, <4>1
        <5> QED  BY <3>1, <3>2, <3>5, <4>1, <5>1 DEF Ascending
      <4>2. CASE y \notin 1 .. Len(H[n]) /\ x \in 1 .. Len(H[n])
        BY <2>3, <3>1, <4>2
      <4>3. CASE y \notin 1 .. Len(H[n]) /\ x \notin 1 .. Len(H[n])
        <5>1. /\ x - Len(H[n]) \in 1 .. Len(T) /\ H2[n][x] = T[x - Len(H[n])]
              /\ y - Len(H[n]) \in 1 .. Len(T) /\ H2[n][y] = T[y - Len(H[n])]
              /\ x - Len(H[n]) <= y - Len(H[n])
          BY <1>1, <2>2, <3>1, <3>5, <4>3
        <5> QED  BY <5>1 DEF Ascending
      <4> QED  BY <4>1, <4>2, <4>3
    <3> QED  BY <3>4, <3>5 DEF Ascending
  <2>7. \A b \in Boxes(k) :
          Ascending(H2[b]) /\ \A x \in 1 .. Len(H2[b]) : low2[b] <= H2[b][x][1]
    <3> SUFFICES ASSUME NEW b \in Boxes(k)
                 PROVE  Ascending(H2[b]) /\ \A x \in 1 .. Len(H2[b]) : low2[b] <= H2[b][x][1]
      OBVIOUS
    <3>1. CASE b = n
      BY <1>1, <2>4, <2>6, <3>1
    <3>2. CASE b \in {r, l}
      BY <2>4, <2>5, <3>2
    <3>3. CASE b \notin {n, r, l}
      BY <1>2, <2>4, <3>3 DEF Tree
    <3> QED  BY <3>1, <3>2, <3>3
  <2>8. ASSUME NEW p \in Parents(k), NEW c \in Kids(k, p), ~Dead(H2, D2, c)
        PROVE  low2[p] <= low2[c] /\ \A x \in 1 .. Len(H2[p]) : H2[p][x][1] <= low2[c]
    <3>1. CASE c \in {r, l}
      <4>1. p = n /\ low2[p] = low[n] /\ low2[c] = z
        BY <1>1, <2>4, <2>8, <3>1
      <4>2. low[n] <= z
        BY <2>1, <2>3 DEF z
      <4> QED  BY <2>6, <4>1, <4>2
    <3>2. CASE c \notin {r, l}
      <4>1. p # n /\ c \in Boxes(k) /\ p \in Boxes(k) /\ low2[c] = low[c]
        BY <1>0, <1>1, <2>4, <3>2
      <4>2. ~Dead(H, D, c)
        BY <1>2, <1>4, <2>8, <3>2, <4>1 DEF Dead
      <4>3. low[p] <= low[c] /\ \A x \in 1 .. Len(H[p]) : H[p][x][1] <= low[c]
        BY <4>2 DEF Tree
      <4>4. CASE p \in {r, l}
        <5>1. ~D[p]
          BY <4>2 DEF Tree
        <5>2. Len(H[p]) > 0 /\ z <= H[p][Len(H[p])][1]
          BY <1>0, <1>4, <2>1, <4>4, <5>1 DEF z
        <5>3. Len(H[p]) \in 1 .. Len(H[p]) /\ H[p][Len(H[p])][1] \in Nat
          BY <2>2, <4>1, <5>2
        <5>4. z <= low[c]
          <6>1. H[p][Len(H[p])][1] <= low[c]
            BY <4>3, <5>3
          <6> QED  BY <2>1, <2>2, <4>1, <5>2, <5>3, <6>1
        <5>5. low2[p] = z
          BY <2>4, <4>4
        <5>6. \A x \in 1 .. Len(H2[p]) : H2[p][x][1] <= low[c]
          BY <2>5, <4>3, <4>4
        <5> QED  BY <4>1, <5>4, <5>5, <5>6
      <4>5. CASE p \notin {r, l}
        BY <1>2, <2>4, <4>1, <4>3, <4>5
      <4> QED  BY <4>4, <4>5
    <3> QED  BY <3>1, <3>2
  <2>9. ASSUME NEW p \in Parents(k), D2[p], NEW c \in Kids(k, p) PROVE Dead(H2, D2, c)
    <3>1. CASE p = n
      BY <1>0, <1>1, <1>2, <2>9, <3>1 DEF Dead
    <3>2. CASE p # n
      <4>1. D[p] /\ Dead(H, D, c) /\ c \in Boxes(k)
        BY <1>1, <1>2, <2>9, <3>2 DEF Tree
      <4>2. c # n /\ c \notin {r, l}
        BY <1>0, <1>1, <1>4, <3>2, <4>1 DEF Dead
      <4> QED  BY <1>2, <4>1, <4>2 DEF Dead
    <3> QED  BY <3>1, <3>2
  <2>10. Tree(k, H2, D2, low2)
    BY <1>2, <2>4, <2>7, <2>8, <2>9 DEF Tree
  <2> QED  BY <2>10 DEF H2, D2
<1> QED  BY <1>3, <1>4

Zero == [l \in Lists |-> 0]
(* Picks that may move up the tree: the smallest, and none beyond the last *)
(* of a list that may still grow (g tells which lists will not).           *)
Allowed(A, B, g, P) ==
  /\ Taken(Two(A, B), Zero, P)
  /\ P # << >> =>
       \A l \in Lists : g[l] \/ (/\ Len(Two(A, B)[l]) > 0
                                 /\ \A k \in DOMAIN P :
                                      P[k][1][1] <= Two(A, B)[l][Len(Two(A, B)[l])][1])

(* The tuples of picks. *)
LEMMA TuplesIs ==
  ASSUME NEW P \in PickSeq
  PROVE  /\ Tuples(P) \in Seq(Tuple) /\ Len(Tuples(P)) = Len(P) /\ Len(P) \in Nat
         /\ DOMAIN P = 1 .. Len(P)
         /\ \A k \in 1 .. Len(P) : Tuples(P)[k] = P[k][1] /\ P[k][2] \in Lists
<1>1. Len(P) \in Nat /\ DOMAIN P = 1 .. Len(P) /\ \A k \in 1 .. Len(P) : P[k] \in Tuple \X Lists
  BY DEF PickSeq
<1> QED  BY <1>1 DEF Tuples

(* Two ascending lists, nothing taken of either. *)
LEMMA SortedTwo ==
  ASSUME NEW A \in Seq(Tuple), NEW B \in Seq(Tuple), Ascending(A), Ascending(B)
  PROVE  SortedLists(Two(A, B)) /\ Offsets(Two(A, B), Zero)
<1>1. \A l \in Lists : /\ Two(A, B)[l] \in Seq(Tuple) /\ Len(Two(A, B)[l]) \in Nat
                       /\ Ascending(Two(A, B)[l])
  BY DEF Two, Lists
<1>2. Two(A, B) \in [Lists -> Seq(Tuple)]
  BY <1>1 DEF Two
<1> QED  BY <1>1, <1>2 DEF SortedLists, Offsets, Zero, Ascending

(* Dropping nothing; what is dropped leaves the end of a list. *)
LEMMA DropRest ==
  ASSUME NEW s \in Seq(Tuple), NEW k \in 0 .. Len(s)
  PROVE  Rest(Drop(s, k), s) /\ Drop(s, 0) = s
<1>1. /\ Drop(s, k) \in Seq(Tuple) /\ Len(Drop(s, k)) = Len(s) - k
      /\ \A x \in 1 .. Len(s) - k : Drop(s, k)[x] = s[x + k]
  BY DropIs
<1>2. Len(s) - (Len(s) - k) = k /\ Len(s) - k <= Len(s)
  OBVIOUS
<1>3. Rest(Drop(s, k), s)
  BY <1>1, <1>2 DEF Rest
<1>4. /\ Drop(s, 0) \in Seq(Tuple) /\ Len(Drop(s, 0)) = Len(s) - 0
      /\ \A x \in 1 .. Len(s) - 0 : Drop(s, 0)[x] = s[x + 0]
  <2>1. s \in Seq(Tuple) /\ 0 \in 0 .. Len(s)
    OBVIOUS
  <2> QED  BY ONLY <2>1, DropIs
<1>5. Len(Drop(s, 0)) = Len(s) /\ \A x \in 1 .. Len(s) : Drop(s, 0)[x] = s[x]
  BY <1>4
<1>6. Drop(s, 0) = s
  BY <1>4, <1>5
<1> QED  BY <1>3, <1>6

(* What is taken and what stays of the two lists. *)
LEMMA TakenParts ==
  ASSUME NEW A \in Seq(Tuple), NEW B \in Seq(Tuple), NEW P, Taken(Two(A, B), Zero, P)
  PROVE  /\ P \in PickSeq
         /\ From("A", P) \in 0 .. Len(A) /\ From("B", P) \in 0 .. Len(B)
         /\ Len(P) = From("A", P) + From("B", P)
         /\ \A k \in DOMAIN P :
              \/ P[k][2] = "A" /\ \E x \in 1 .. From("A", P) : P[k][1] = A[x]
              \/ P[k][2] = "B" /\ \E x \in 1 .. From("B", P) : P[k][1] = B[x]
         /\ \A x \in 1 .. From("A", P) : \E k \in DOMAIN P : P[k][1] = A[x]
         /\ \A x \in 1 .. From("B", P) : \E k \in DOMAIN P : P[k][1] = B[x]
         /\ \A k \in DOMAIN P :
              /\ \A x \in From("A", P) + 1 .. Len(A) : P[k][1][1] <= A[x][1]
              /\ \A x \in From("B", P) + 1 .. Len(B) : P[k][1][1] <= B[x][1]
<1> DEFINE S == Two(A, B)
<1>1. /\ S["A"] = A /\ S["B"] = B /\ Zero["A"] = 0 /\ Zero["B"] = 0
      /\ "A" \in Lists /\ "B" \in Lists /\ \A l \in Lists : l = "A" \/ l = "B"
  BY DEF Two, Zero, Lists
<1> HIDE DEF S
<1>2. P \in PickSeq /\ Taken(S, Zero, P)
  BY DEF Taken, S
<1>3. /\ From("A", P) \in Nat /\ From("B", P) \in Nat /\ Len(P) = From("A", P) + From("B", P)
      /\ DOMAIN P = 1 .. Len(P) /\ \A k \in DOMAIN P : P[k][2] \in Lists
  BY <1>1, <1>2, FromType, TuplesIs
<1>4. From("A", P) <= Len(A) /\ From("B", P) <= Len(B)
  BY <1>1, <1>2, <1>3 DEF Taken
<1>5. ASSUME NEW k \in DOMAIN P
      PROVE  \/ P[k][2] = "A" /\ \E x \in 1 .. From("A", P) : P[k][1] = A[x]
             \/ P[k][2] = "B" /\ \E x \in 1 .. From("B", P) : P[k][1] = B[x]
  <2>1. PICK l \in Lists : l = P[k][2]
    BY <1>3
  <2>2. PICK x \in Zero[l] + 1 .. Zero[l] + From(l, P) : P[k][1] = S[l][x]
    BY <1>2, <2>1 DEF Taken
  <2> QED  BY <1>1, <1>3, <2>1, <2>2
<1>6. ASSUME NEW l \in Lists, NEW x \in 1 .. From(l, P)
      PROVE  \E k \in DOMAIN P : P[k][1] = S[l][x]
  <2>1. x \in Zero[l] + 1 .. Zero[l] + From(l, P)
    BY <1>1, <1>3
  <2>2. PICK k \in DOMAIN P : P[k] = << S[l][x], l >>
    BY <1>2, <2>1 DEF Taken
  <2> QED  BY <2>2
<1>7. ASSUME NEW k \in DOMAIN P, NEW l \in Lists, NEW x \in From(l, P) + 1 .. Len(S[l])
      PROVE  P[k][1][1] <= S[l][x][1]
  <2>1. x \in Zero[l] + From(l, P) + 1 .. Len(S[l])
    BY <1>1, <1>3
  <2> QED  BY <1>2, <2>1 DEF Taken
<1>8. /\ \A x \in 1 .. From("A", P) : \E k \in DOMAIN P : P[k][1] = A[x]
      /\ \A x \in 1 .. From("B", P) : \E k \in DOMAIN P : P[k][1] = B[x]
  BY <1>1, <1>6
<1>9. \A k \in DOMAIN P :
        /\ \A x \in From("A", P) + 1 .. Len(A) : P[k][1][1] <= A[x][1]
        /\ \A x \in From("B", P) + 1 .. Len(B) : P[k][1][1] <= B[x][1]
  BY <1>1, <1>7
<1>10. From("A", P) \in 0 .. Len(A) /\ From("B", P) \in 0 .. Len(B)
  BY <1>3, <1>4
<1> QED  BY <1>2, <1>3, <1>5, <1>8, <1>9, <1>10

(* The boxes after the picks P moved from r and l to n, and who is done.   *)
Moved(H, n, r, l, P) ==
  [H EXCEPT ![n] = @ \o Tuples(P), ![r] = Drop(@, From("A", P)), ![l] = Drop(@, From("B", P))]
DoneAt(D, n, e) == [D EXCEPT ![n] = e]

(* Allowed picks may move. *)
LEMMA MovePicks ==
  ASSUME NEW k \in Nat, k >= 4, NEW H, NEW D, NEW low, Tree(k, H, D, low),
         NEW n \in Parents(k), NEW r, NEW l, r = KidR(k, n), l = KidL(k, n),
         NEW g, g["A"] = D[r], g["B"] = D[l], NEW P, Allowed(H[r], H[l], g, P),
         P # << >> => ~D[n],
         NEW e \in BOOLEAN, D[n] => e,
         e => /\ D[r] /\ Drop(H[r], From("A", P)) = << >>
              /\ D[l] /\ Drop(H[l], From("B", P)) = << >>
  PROVE  \E low2 : Tree(k, Moved(H, n, r, l, P), DoneAt(D, n, e), low2)
<1> DEFINE A == H[r]
           B == H[l]
           a == From("A", P)
           b == From("B", P)
           T == Tuples(P)
           G == [c \in {r, l} |-> IF c = r THEN Drop(A, a) ELSE Drop(B, b)]
<1>1. r # l /\ n # r /\ n # l /\ r \in Boxes(k) /\ l \in Boxes(k) /\ n \in Boxes(k)
      /\ Kids(k, n) = {r, l}
  BY KidsIs DEF Kids
<1>2. A \in Seq(Tuple) /\ B \in Seq(Tuple) /\ DOMAIN H = Boxes(k) /\ Len(A) \in Nat /\ Len(B) \in Nat
  BY <1>1 DEF Tree
<1> HIDE DEF A, B
<1>3. /\ P \in PickSeq /\ a \in 0 .. Len(A) /\ b \in 0 .. Len(B) /\ Len(P) = a + b
      /\ \A x \in DOMAIN P : \/ \E y \in 1 .. a : P[x][1] = A[y]
                             \/ \E y \in 1 .. b : P[x][1] = B[y]
      /\ \A x \in DOMAIN P : /\ \A y \in a + 1 .. Len(A) : P[x][1][1] <= A[y][1]
                             /\ \A y \in b + 1 .. Len(B) : P[x][1][1] <= B[y][1]
  <2>1. Taken(Two(A, B), Zero, P)
    BY DEF Allowed, A, B
  <2>2. /\ P \in PickSeq
        /\ From("A", P) \in 0 .. Len(A) /\ From("B", P) \in 0 .. Len(B)
        /\ Len(P) = From("A", P) + From("B", P)
        /\ \A x \in DOMAIN P :
             \/ P[x][2] = "A" /\ \E y \in 1 .. From("A", P) : P[x][1] = A[y]
             \/ P[x][2] = "B" /\ \E y \in 1 .. From("B", P) : P[x][1] = B[y]
        /\ \A x \in DOMAIN P :
             /\ \A y \in From("A", P) + 1 .. Len(A) : P[x][1][1] <= A[y][1]
             /\ \A y \in From("B", P) + 1 .. Len(B) : P[x][1][1] <= B[y][1]
    BY ONLY <1>2, <2>1, TakenParts
  <2> HIDE DEF a, b
  <2> QED  BY <2>2 DEF a, b
<1>4. /\ T \in Seq(Tuple) /\ Len(T) = Len(P) /\ DOMAIN P = 1 .. Len(P)
      /\ \A x \in 1 .. Len(P) : T[x] = P[x][1]
  BY <1>3, TuplesIs
<1>5. P = << >> <=> T = << >>
  BY <1>3, <1>4 DEF PickSeq
<1>6. /\ Rest(Drop(A, a), A) /\ Rest(Drop(B, b), B)
      /\ Drop(A, 0) = A /\ Drop(B, 0) = B
      /\ Len(Drop(A, a)) = Len(A) - a /\ \A x \in 1 .. Len(A) - a : Drop(A, a)[x] = A[x + a]
      /\ Len(Drop(B, b)) = Len(B) - b /\ \A x \in 1 .. Len(B) - b : Drop(B, b)[x] = B[x + b]
  BY <1>2, <1>3, DropRest, DropIs
<1> HIDE DEF a, b, T
<1>7. G[r] = Drop(A, a) /\ G[l] = Drop(B, b)
  BY <1>1
<1> HIDE DEF G
<1>8. Ascending(T)
  <2>1. \A x, y \in DOMAIN P : x <= y => P[x][1][1] <= P[y][1][1]
    BY DEF Allowed, Taken
  <2> QED  BY <1>4, <2>1 DEF Ascending
<1>9. \A x \in 1 .. Len(T) : \E c \in Kids(k, n) : \E y \in 1 .. Len(H[c]) : T[x] = H[c][y]
  <2> SUFFICES ASSUME NEW x \in 1 .. Len(T)
               PROVE  \E c \in Kids(k, n) : \E y \in 1 .. Len(H[c]) : T[x] = H[c][y]
    OBVIOUS
  <2>1. CASE \E y \in 1 .. a : P[x][1] = A[y]
    <3>1. PICK y \in 1 .. a : T[x] = A[y]
      BY <1>4, <2>1
    <3>2. y \in 1 .. Len(A)
      BY <1>2, <1>3
    <3> QED  BY <1>1, <3>1, <3>2 DEF A
  <2>2. CASE \E y \in 1 .. b : P[x][1] = B[y]
    <3>1. PICK y \in 1 .. b : T[x] = B[y]
      BY <1>4, <2>2
    <3>2. y \in 1 .. Len(B)
      BY <1>2, <1>3
    <3> QED  BY <1>1, <3>1, <3>2 DEF B
  <2> QED  BY <1>3, <1>4, <2>1, <2>2
<1>10. \A x \in 1 .. Len(T) : \A c \in Kids(k, n) : \A y \in 1 .. Len(G[c]) :
         T[x][1] <= G[c][y][1]
  <2> SUFFICES ASSUME NEW x \in 1 .. Len(T), NEW c \in {r, l}, NEW y \in 1 .. Len(G[c])
               PROVE  T[x][1] <= G[c][y][1]
    BY <1>1
  <2>1. CASE c = r
    <3>1. y \in 1 .. Len(A) - a /\ G[c][y] = A[y + a] /\ y + a \in a + 1 .. Len(A)
      <4>1. y \in 1 .. Len(A) - a /\ G[c][y] = A[y + a]
        BY ONLY <1>6, <1>7, <2>1, y \in 1 .. Len(G[c])
      <4>2. a \in Nat /\ Len(A) \in Nat
        BY <1>2, <1>3
      <4> QED  BY ONLY <4>1, <4>2
    <3> QED  BY <1>3, <1>4, <3>1
  <2>2. CASE c = l
    <3>1. y \in 1 .. Len(B) - b /\ G[c][y] = B[y + b] /\ y + b \in b + 1 .. Len(B)
      <4>1. y \in 1 .. Len(B) - b /\ G[c][y] = B[y + b]
        BY ONLY <1>6, <1>7, <2>2, y \in 1 .. Len(G[c])
      <4>2. b \in Nat /\ Len(B) \in Nat
        BY <1>2, <1>3
      <4> QED  BY ONLY <4>1, <4>2
    <3> QED  BY <1>3, <1>4, <3>1
  <2> QED  BY <2>1, <2>2
<1>11. T # << >> =>
         /\ ~D[n]
         /\ \A c \in Kids(k, n) : D[c] \/ (/\ Len(H[c]) > 0
                                         /\ \A x \in 1 .. Len(T) : T[x][1] <= H[c][Len(H[c])][1])
  <2> SUFFICES ASSUME T # << >>
               PROVE  \A c \in {r, l} : D[c] \/ (/\ Len(H[c]) > 0
                                         /\ \A x \in 1 .. Len(T) : T[x][1] <= H[c][Len(H[c])][1])
    BY <1>1, <1>5
  <2>1. g["A"] = D[r] /\ g["B"] = D[l] /\ "A" \in Lists /\ "B" \in Lists
    BY DEF Lists
  <2>2. \A q \in Lists : g[q] \/ (/\ Len(Two(A, B)[q]) > 0
                                 /\ \A x \in DOMAIN P :
                                      P[x][1][1] <= Two(A, B)[q][Len(Two(A, B)[q])][1])
    BY <1>5 DEF Allowed, A, B
  <2>3. Two(A, B)["A"] = A /\ Two(A, B)["B"] = B
    BY TwoIs
  <2>4. /\ D[r] \/ (Len(A) > 0 /\ \A x \in DOMAIN P : P[x][1][1] <= A[Len(A)][1])
        /\ D[l] \/ (Len(B) > 0 /\ \A x \in DOMAIN P : P[x][1][1] <= B[Len(B)][1])
    BY <2>1, <2>2, <2>3
  <2> QED  BY <1>4, <2>4 DEF A, B
<1>12. T = << >> => G[r] = H[r] /\ G[l] = H[l]
  <2> SUFFICES ASSUME T = << >> PROVE a = 0 /\ b = 0
    BY <1>6, <1>7 DEF A, B
  <2>1. Len(P) = 0
    BY <1>4
  <2> QED  BY <1>3, <2>1
<1>13. e => \A c \in Kids(k, n) : D[c] /\ G[c] = << >>
  BY <1>1, <1>7 DEF a, b, A, B
<1>14. Rest(G[r], H[r]) /\ Rest(G[l], H[l])
  BY <1>6, <1>7 DEF A, B
<1>15. \E low2 : Tree(k, [H EXCEPT ![n] = @ \o T, ![r] = G[r], ![l] = G[l]],
                      [D EXCEPT ![n] = e], low2)
  <2>1. Movable(k, H, D, n, r, l, T, G, e)
    BY <1>4, <1>8, <1>9, <1>10, <1>11, <1>12, <1>13, <1>14 DEF Movable
  <2> QED  BY <2>1, Move
<1>16. [H EXCEPT ![n] = @ \o T, ![r] = G[r], ![l] = G[l]] =
         [H EXCEPT ![n] = @ \o T, ![r] = Drop(@, a), ![l] = Drop(@, b)]
  BY <1>1, <1>2, <1>7 DEF A, B
<1> QED  BY <1>15, <1>16 DEF T, a, b, Moved, DoneAt

(* Merging until the slots are used up or a list ends, then copying at     *)
(* most q of the other.                                                    *)
Fill(A, B, slots, q) ==
  LET merged == Kernel(A, B, slots)
      restA == Drop(A, From("A", merged))
      restB == Drop(B, From("B", merged))
  IN merged \o IF restA # << >> THEN Tagged(restA, "A", q) ELSE Tagged(restB, "B", q)

(* The smaller of two numbers. *)
LEMMA MinimumIs ==
  ASSUME NEW x \in Nat, NEW y \in Nat
  PROVE  /\ minimum(x, y) \in Nat /\ minimum(x, y) <= x /\ minimum(x, y) <= y
         /\ minimum(x, y) = x \/ minimum(x, y) = y
BY DEF minimum

(* Merging alone is always allowed.                                        *)
LEMMA KernelAllowed ==
  ASSUME NEW A \in Seq(Tuple), NEW B \in Seq(Tuple), Ascending(A), Ascending(B),
         NEW slots \in Nat, NEW g
  PROVE  /\ Allowed(A, B, g, Kernel(A, B, slots))
         /\ Len(Kernel(A, B, slots)) <= slots
         /\ \/ From("A", Kernel(A, B, slots)) = Len(A)
            \/ From("B", Kernel(A, B, slots)) = Len(B)
            \/ Len(Kernel(A, B, slots)) = slots
<1> DEFINE S == Two(A, B)
           P == Kernel(A, B, slots)
<1>1. SortedLists(S) /\ Offsets(S, Zero)
  BY SortedTwo
<1>2. Merged(S, Zero, slots, P)
  BY <1>1, KernelMerged DEF Zero
<1>3. /\ S["A"] = A /\ S["B"] = B /\ Zero["A"] = 0 /\ Zero["B"] = 0
      /\ "A" \in Lists /\ "B" \in Lists /\ \A l \in Lists : l = "A" \/ l = "B"
  BY DEF Two, Zero, Lists
<1>4. Taken(S, Zero, P) /\ P \in PickSeq
  BY <1>2 DEF Merged, Taken
<1> HIDE DEF P, S
<1>5. Len(P) \in Nat /\ From("A", P) \in Nat /\ From("B", P) \in Nat
  BY <1>3, <1>4, FromType, TuplesIs
<1>6. /\ Zero["A"] + Zero["B"] <= slots => Zero["A"] + Zero["B"] + Len(P) <= slots
      /\ \/ \E l \in Lists : Zero[l] + From(l, P) = Len(S[l])
         \/ Zero["A"] + Zero["B"] + Len(P) >= slots
      /\ \A k \in DOMAIN P : \A l \in Lists : Len(S[l]) > 0 /\ P[k][1][1] <= S[l][Len(S[l])][1]
  BY <1>2 DEF Merged
<1>7. Len(P) <= slots
  BY <1>3, <1>5, <1>6
<1>8. From("A", P) = Len(A) \/ From("B", P) = Len(B) \/ Len(P) = slots
  <2>1. CASE Zero["A"] + Zero["B"] + Len(P) >= slots
    BY <1>3, <1>5, <1>7, <2>1
  <2>2. CASE \E l \in Lists : Zero[l] + From(l, P) = Len(S[l])
    <3>1. 0 + From("A", P) = Len(A) \/ 0 + From("B", P) = Len(B)
      BY <1>3, <2>2
    <3> QED  BY <1>5, <3>1
  <2> QED  BY <1>6, <2>1, <2>2
<1>9. Allowed(A, B, g, P)
  <2>1. P # << >> => 1 \in DOMAIN P
    BY <1>4 DEF PickSeq
  <2> QED  BY <1>4, <1>6, <2>1 DEF Allowed, S
<1> QED  BY <1>7, <1>8, <1>9 DEF P

(* Tagged copies at most k tuples, and all there are if there are not more. *)
LEMMA TaggedLength ==
  ASSUME NEW s \in Seq(Tuple), NEW l \in Lists, NEW k \in Nat
  PROVE  /\ Tagged(s, l, k) \in PickSeq /\ Len(Tagged(s, l, k)) \in Nat
         /\ Len(Tagged(s, l, k)) <= k /\ Len(Tagged(s, l, k)) <= Len(s)
         /\ Len(Tagged(s, l, k)) = k \/ Len(Tagged(s, l, k)) = Len(s)
<1>1. Tagged(s, l, k) \in PickSeq /\ Len(Tagged(s, l, k)) = minimum(k, Len(s))
  BY FromTagged
<1>2. Len(s) \in Nat
  OBVIOUS
<1>3. /\ minimum(k, Len(s)) \in Nat /\ minimum(k, Len(s)) <= k /\ minimum(k, Len(s)) <= Len(s)
      /\ minimum(k, Len(s)) = k \/ minimum(k, Len(s)) = Len(s)
  BY <1>2, MinimumIs
<1> QED  BY <1>1, <1>3

(* Copying what merging left is allowed when both lists are complete.      *)
LEMMA FillAllowed ==
  ASSUME NEW A \in Seq(Tuple), NEW B \in Seq(Tuple), Ascending(A), Ascending(B),
         NEW slots \in Nat, NEW q \in Nat, NEW g, g["A"], g["B"],
         Len(Kernel(A, B, slots)) = slots => q = 0 \/ slots >= Len(A) + Len(B)
  PROVE  /\ Allowed(A, B, g, Fill(A, B, slots, q))
         /\ Len(Fill(A, B, slots, q)) <= Len(Kernel(A, B, slots)) + q
         /\ Len(Fill(A, B, slots, q)) <= Len(A) + Len(B)
         /\ \/ Len(Fill(A, B, slots, q)) >= Len(Kernel(A, B, slots)) + q
            \/ Len(Fill(A, B, slots, q)) = Len(A) + Len(B)
<1> DEFINE S == Two(A, B)
           M == Kernel(A, B, slots)
           a == From("A", M)
           b == From("B", M)
           restA == Drop(A, a)
           restB == Drop(B, b)
           o == [l \in Lists |-> Zero[l] + From(l, M)]
           Q == IF restA # << >> THEN Tagged(restA, "A", q) ELSE Tagged(restB, "B", q)
<1>1. SortedLists(S) /\ Offsets(S, Zero)
  BY SortedTwo
<1>2. Taken(S, Zero, M) /\ Len(M) <= slots /\ (a = Len(A) \/ b = Len(B) \/ Len(M) = slots)
  BY KernelAllowed DEF Allowed
<1>3. /\ S["A"] = A /\ S["B"] = B /\ Zero["A"] = 0 /\ Zero["B"] = 0
      /\ "A" \in Lists /\ "B" \in Lists /\ \A l \in Lists : l = "A" \/ l = "B"
      /\ Len(A) \in Nat /\ Len(B) \in Nat
  BY DEF Two, Zero, Lists
<1> HIDE DEF M, S
<1>4. M \in PickSeq /\ a \in 0 .. Len(A) /\ b \in 0 .. Len(B) /\ Len(M) = a + b /\ Len(M) \in Nat
  BY <1>2, TakenParts, TuplesIs DEF S
<1> HIDE DEF a, b
<1>5. /\ restA \in Seq(Tuple) /\ Len(restA) = Len(A) - a /\ (restA = << >> <=> a = Len(A))
      /\ restB \in Seq(Tuple) /\ Len(restB) = Len(B) - b /\ (restB = << >> <=> b = Len(B))
  <2>1. /\ restA \in Seq(Tuple) /\ Len(restA) = Len(A) - a
        /\ restB \in Seq(Tuple) /\ Len(restB) = Len(B) - b
    BY <1>4, DropIs
  <2> HIDE DEF restA, restB
  <2>2. (restA = << >> <=> Len(restA) = 0) /\ (restB = << >> <=> Len(restB) = 0)
    BY <2>1
  <2> QED  BY <1>3, <1>4, <2>1, <2>2
<1>6. o["A"] = a /\ o["B"] = b /\ o \in [Lists -> Nat] /\ Offsets(S, o)
  <2>1. o["A"] = a /\ o["B"] = b
    BY <1>3, <1>4 DEF a, b
  <2>2. \A l \in Lists : Zero[l] + From(l, M) \in Nat
    BY <1>3, <1>4 DEF a, b
  <2> QED  BY <1>3, <1>4, <2>1, <2>2 DEF Offsets
<1> HIDE DEF o
<1>7. q = 0 \/ a = Len(A) \/ b = Len(B)
  <2>1. CASE Len(M) = slots /\ slots >= Len(A) + Len(B)
    BY <1>3, <1>4, <2>1
  <2>2. CASE ~(Len(M) = slots /\ slots >= Len(A) + Len(B))
    BY <1>2, <2>2 DEF M
  <2> QED  BY <2>1, <2>2
<1>8. Taken(S, o, Q) /\ Q \in PickSeq /\ Len(Q) \in Nat
      /\ Len(Q) <= q /\ Len(Q) <= (Len(A) - a) + (Len(B) - b)
      /\ (Len(Q) >= q \/ Len(Q) = (Len(A) - a) + (Len(B) - b))
  <2>1. CASE restA # << >>
    <3>1. Q = Tagged(restA, "A", q) /\ (q = 0 \/ b = Len(B))
      BY <1>5, <1>7, <2>1
    <3>2. q = 0 \/ \A l2 \in Lists : l2 # "A" => o[l2] = Len(S[l2])
      BY <1>3, <1>6, <3>1
    <3>3. Taken(S, o, Tagged(Drop(S["A"], o["A"]), "A", q))
      BY <1>1, <1>3, <1>6, <3>2, TakenTagged
    <3>4. restA \in Seq(Tuple) /\ Len(restA) = Len(A) - a
      BY <1>5
    <3>5. Drop(S["A"], o["A"]) = restA
      BY <1>3, <1>6
    <3> HIDE DEF Q, restA, restB
    <3>6. /\ Q \in PickSeq /\ Len(Q) \in Nat /\ Len(Q) <= q /\ Len(Q) <= Len(restA)
          /\ Len(Q) = q \/ Len(Q) = Len(restA)
      BY ONLY <1>3, <3>1, <3>4, TaggedLength, q \in Nat
    <3>7. Taken(S, o, Q)
      BY ONLY <3>1, <3>3, <3>5
    <3>8. b <= Len(B) /\ b \in Nat /\ a \in Nat /\ a <= Len(A)
      BY <1>3, <1>4
    <3>9. /\ Len(Q) <= (Len(A) - a) + (Len(B) - b)
          /\ Len(Q) >= q \/ Len(Q) = (Len(A) - a) + (Len(B) - b)
      <4>1. CASE q = 0
        BY ONLY <1>3, <3>4, <3>6, <3>8, <4>1
      <4>2. CASE b = Len(B)
        BY ONLY <1>3, <3>4, <3>6, <3>8, <4>2, q \in Nat
      <4> QED  BY ONLY <3>1, <4>1, <4>2
    <3> QED  BY ONLY <3>6, <3>7, <3>9
  <2>2. CASE restA = << >>
    <3>1. Q = Tagged(restB, "B", q) /\ (q = 0 \/ a = Len(A))
      BY <1>5, <1>7, <2>2
    <3>2. q = 0 \/ \A l2 \in Lists : l2 # "B" => o[l2] = Len(S[l2])
      BY <1>3, <1>6, <3>1
    <3>3. Taken(S, o, Tagged(Drop(S["B"], o["B"]), "B", q))
      BY <1>1, <1>3, <1>6, <3>2, TakenTagged
    <3>4. restB \in Seq(Tuple) /\ Len(restB) = Len(B) - b
      BY <1>5
    <3>5. Drop(S["B"], o["B"]) = restB
      BY <1>3, <1>6
    <3> HIDE DEF Q, restA, restB
    <3>6. /\ Q \in PickSeq /\ Len(Q) \in Nat /\ Len(Q) <= q /\ Len(Q) <= Len(restB)
          /\ Len(Q) = q \/ Len(Q) = Len(restB)
      BY ONLY <1>3, <3>1, <3>4, TaggedLength, q \in Nat
    <3>7. Taken(S, o, Q)
      BY ONLY <3>1, <3>3, <3>5
    <3>8. a <= Len(A) /\ a \in Nat /\ b \in Nat /\ b <= Len(B)
      BY <1>3, <1>4
    <3>9. /\ Len(Q) <= (Len(A) - a) + (Len(B) - b)
          /\ Len(Q) >= q \/ Len(Q) = (Len(A) - a) + (Len(B) - b)
      <4>1. CASE q = 0
        BY ONLY <1>3, <3>4, <3>6, <3>8, <4>1
      <4>2. CASE a = Len(A)
        BY ONLY <1>3, <3>4, <3>6, <3>8, <4>2, q \in Nat
      <4> QED  BY ONLY <3>1, <4>1, <4>2
    <3> QED  BY ONLY <3>6, <3>7, <3>9
  <2> QED  BY <2>1, <2>2
<1> HIDE DEF Q
<1>9. Taken(S, Zero, M \o Q)
  <2>1. o = [l \in Lists |-> Zero[l] + From(l, M)]
    BY DEF o
  <2> QED  BY ONLY <1>1, <1>2, <1>8, <2>1, TakenConcat
<1>10. Len(M \o Q) = Len(M) + Len(Q)
  <2>1. M \in Seq(Tuple \X Lists) /\ Q \in Seq(Tuple \X Lists)
    BY ONLY <1>4, <1>8 DEF PickSeq
  <2> QED  BY ONLY <2>1
<1>11. Fill(A, B, slots, q) = M \o Q
  BY DEF Fill, M, Q, restA, restB, a, b
<1>12. Allowed(A, B, g, M \o Q)
  <2>1. \A l \in Lists : g[l]
    BY <1>3
  <2> QED  BY <1>9, <2>1 DEF Allowed, S
<1>13. /\ Len(M \o Q) <= Len(M) + q /\ Len(M \o Q) <= Len(A) + Len(B)
       /\ Len(M \o Q) >= Len(M) + q \/ Len(M \o Q) = Len(A) + Len(B)
  BY <1>3, <1>4, <1>8, <1>10
<1> QED  BY <1>11, <1>12, <1>13 DEF M

(* Copying from one list while the other is empty and complete.            *)
LEMMA CopyAllowed ==
  ASSUME NEW A \in Seq(Tuple), NEW B \in Seq(Tuple), Ascending(A), Ascending(B),
         NEW l \in Lists, NEW q \in Nat, NEW g,
         \A l2 \in Lists : l2 # l => g[l2] /\ Two(A, B)[l2] = << >>
  PROVE  /\ Allowed(A, B, g, Tagged(Two(A, B)[l], l, q))
         /\ Len(Tagged(Two(A, B)[l], l, q)) <= q
<1> DEFINE S == Two(A, B)
           s == S[l]
           P == Tagged(s, l, q)
<1>1. SortedLists(S) /\ Offsets(S, Zero)
  BY SortedTwo
<1>2. s \in Seq(Tuple) /\ Zero[l] = 0 /\ Len(s) \in Nat
  BY <1>1 DEF SortedLists, Zero
<1>3. Drop(s, 0) = s
  BY <1>2, DropRest
<1>4. \A l2 \in Lists : l2 # l => Zero[l2] = Len(S[l2])
  BY DEF Zero
<1>5. Taken(S, Zero, P)
  <2>1. Taken(S, Zero, Tagged(Drop(S[l], Zero[l]), l, q))
    BY <1>1, <1>4, TakenTagged
  <2> QED  BY <1>2, <1>3, <2>1
<1> HIDE DEF S
<1>6. /\ P \in PickSeq /\ Len(P) = minimum(q, Len(s))
      /\ \A k \in 1 .. minimum(q, Len(s)) : P[k] = << s[k], l >>
  <2>1. s \in Seq(Tuple)
    BY <1>2
  <2> HIDE DEF s
  <2>2. /\ Tagged(s, l, q) \in PickSeq /\ Len(Tagged(s, l, q)) = minimum(q, Len(s))
        /\ \A k \in 1 .. minimum(q, Len(s)) : Tagged(s, l, q)[k] = << s[k], l >>
    BY ONLY <2>1, FromTagged, l \in Lists, q \in Nat
  <2> HIDE DEF P
  <2> QED  BY ONLY <2>2 DEF P
<1>7. minimum(q, Len(s)) \in Nat /\ minimum(q, Len(s)) <= q /\ minimum(q, Len(s)) <= Len(s)
  BY <1>2, MinimumIs
<1> HIDE DEF P, s
<1>8. \A k \in DOMAIN P : Len(s) > 0 /\ P[k][1][1] <= s[Len(s)][1]
  <2> SUFFICES ASSUME NEW k \in DOMAIN P PROVE Len(s) > 0 /\ P[k][1][1] <= s[Len(s)][1]
    OBVIOUS
  <2>1. k \in 1 .. Len(P)
    BY <1>6 DEF PickSeq
  <2>2. k \in 1 .. Len(s) /\ Len(s) \in 1 .. Len(s) /\ P[k][1] = s[k] /\ k <= Len(s)
    BY <1>2, <1>6, <1>7, <2>1
  <2>3. s[k][1] <= s[Len(s)][1]
    BY <1>1, <2>2 DEF SortedLists, s
  <2> QED  BY <1>2, <2>2, <2>3
<1>9. Allowed(A, B, g, P)
  <2> SUFFICES ASSUME P # << >>, NEW l2 \in Lists
               PROVE  g[l2] \/ (/\ Len(S[l2]) > 0
                                /\ \A k \in DOMAIN P : P[k][1][1] <= S[l2][Len(S[l2])][1])
    BY <1>5 DEF Allowed, S
  <2>1. 1 \in DOMAIN P
    BY <1>6 DEF PickSeq
  <2> QED  BY <1>8, <2>1 DEF s, S
<1> QED  BY <1>6, <1>7, <1>9 DEF P, s, S

(* A ring's tail stays where it is when the head moves on by p, and moves  *)
(* by as much as the ring grows.                                           *)
LEMMA RingTail ==
  ASSUME NEW F \in Nat \ {0}, NEW h \in 0 .. F - 1, NEW c \in 0 .. F, NEW p \in 0 .. c
  PROVE  (((h + p) % F) + (c - p)) % F = (h + c) % F /\ (h + p) % F \in 0 .. F - 1
<1>1. \A x \in 0 .. 2 * F - 1 : /\ x < F => x % F = x
                                /\ x >= F => x % F = x - F
                                /\ x % F \in 0 .. F - 1
  BY ModRing
<1>2. h + p \in 0 .. 2 * F - 1 /\ h + c \in 0 .. 2 * F - 1
  OBVIOUS
<1>3. PICK x, z : x = (h + p) % F /\ z = (h + c) % F
  OBVIOUS
<1>4. /\ x \in 0 .. F - 1
      /\ h + p < F => x = h + p
      /\ h + p >= F => x = h + p - F
      /\ h + c < F => z = h + c
      /\ h + c >= F => z = h + c - F
  <2>1. PICK v, w : v = h + p /\ w = h + c
    OBVIOUS
  <2>2. v \in 0 .. 2 * F - 1 /\ w \in 0 .. 2 * F - 1 /\ x = v % F /\ z = w % F
    BY <1>2, <1>3, <2>1
  <2>3. /\ x \in 0 .. F - 1 /\ (v < F => x = v) /\ (v >= F => x = v - F)
        /\ (w < F => z = w) /\ (w >= F => z = w - F)
    BY ONLY <1>1, <2>2
  <2> QED  BY ONLY <2>1, <2>3
<1>5. PICK y : y = x + (c - p)
  OBVIOUS
<1>6. y \in 0 .. 2 * F - 1
  BY <1>4, <1>5
<1>7. (y < F => y % F = y) /\ (y >= F => y % F = y - F)
  BY <1>1, <1>6
<1>8. y % F = z
  BY <1>4, <1>5, <1>7
<1> QED  BY <1>3, <1>4, <1>5, <1>8

-----------------------------------------------------------------------------
K == nparts \div 2
Held(n) == Ring(fifosize, buffer[n], head[n], count[n])
Hold == [b \in Boxes(K) |-> IF b = -1 THEN output ELSE IF b < -1 THEN parts[- b - 1] ELSE Held(b)]
Done == [b \in Boxes(K) |-> IF b = -1 THEN FALSE ELSE IF b < -1 THEN TRUE ELSE done[b]]

TypeOK ==
  /\ parts \in Seq(Seq(Tuple)) /\ Len(parts) \in {8, 16, 32, 64, 128}
  /\ fifosize \in Nat \ {0, 1}
  /\ buffer \in [Nodes -> [0 .. fifosize - 1 -> Tuple]]
  /\ head \in [Nodes -> 0 .. fifosize - 1]
  /\ count \in [Nodes -> 0 .. fifosize]
  /\ tail = [n \in Nodes |-> Advanced(head[n], count[n])]
  /\ done \in [Nodes -> BOOLEAN]
  /\ output \in Seq(Tuple) /\ m \in -2 .. nfifos - 1

(* The inductive invariant: the rings are rings, and the tree is in order. *)
IInv ==
  /\ TypeOK
  /\ \E low : Tree(K, Hold, Done, low)

(* The numbers of boxes. *)
LEMMA Sizes ==
  ASSUME TypeOK
  PROVE  /\ K \in Nat /\ K >= 4 /\ nparts = 2 * K /\ nfifos = 2 * K - 2
         /\ FirstLeaf = K - 2 /\ Nodes = 0 .. 2 * K - 3
         /\ readthreshold \in Nat /\ readthreshold < fifosize /\ fifosize \in Nat \ {0}
<1>1. nparts \in {8, 16, 32, 64, 128}
  BY DEF TypeOK, nparts
<1>2. K \in Nat /\ K >= 4 /\ nparts = 2 * K /\ FirstLeaf = K - 2
  BY <1>1 DEF K, FirstLeaf
<1>3. nfifos = 2 * K - 2 /\ Nodes = 0 .. 2 * K - 3
  <2>1. nfifos = 2 * K - 2
    BY <1>2 DEF nfifos
  <2>2. nfifos - 1 = 2 * K - 3
    BY <1>2, <2>1
  <2> QED  BY <2>1, <2>2 DEF Nodes
<1>4. readthreshold \in Nat /\ readthreshold < fifosize /\ fifosize \in Nat \ {0}
  BY DEF TypeOK, readthreshold
<1> QED  BY <1>2, <1>3, <1>4

(* The slots between two indices of a ring. *)
LEMMA SpanIs ==
  ASSUME fifosize \in Nat \ {0}, NEW from \in 0 .. fifosize - 1, NEW to \in 0 .. fifosize - 1
  PROVE  /\ Len(Span(from, to)) = IF from < to THEN to - from ELSE fifosize - from + to
         /\ Len(Span(from, to)) \in Nat /\ DOMAIN Span(from, to) = 1 .. Len(Span(from, to))
         /\ \A k \in 1 .. Len(Span(from, to)) : Span(from, to)[k] = (from + k - 1) % fifosize
<1> DEFINE n == IF from < to THEN to - from ELSE fifosize - from + to
           f == [k \in 1 .. n |-> (from + k - 1) % fifosize]
<1>1. n \in Nat
  OBVIOUS
<1> HIDE DEF n
<1>2. Len(f) = n /\ DOMAIN f = 1 .. n /\ \A k \in 1 .. n : f[k] = (from + k - 1) % fifosize
  BY <1>1
<1>3. Span(from, to) = f
  BY DEF Span, n
<1> HIDE DEF f
<1>4. Len(Span(from, to)) = n
  BY <1>2, <1>3
<1> QED  BY <1>1, <1>2, <1>3, <1>4 DEF n

(* How many slots lie behind the tail of a ring, and how many are taken.   *)
LEMMA SpanLen ==
  ASSUME TypeOK, NEW n \in Nodes
  PROVE  /\ head[n] \in 0 .. fifosize - 1 /\ tail[n] \in 0 .. fifosize - 1
         /\ count[n] \in 0 .. fifosize /\ tail[n] = (head[n] + count[n]) % fifosize
         /\ buffer[n] \in [0 .. fifosize - 1 -> Tuple]
         /\ count[n] > 0 => Len(Span(head[n], tail[n])) = count[n]
         /\ count[n] < fifosize => Len(Span(tail[n], head[n])) = fifosize - count[n]
<1>1. /\ head[n] \in 0 .. fifosize - 1 /\ count[n] \in 0 .. fifosize
      /\ tail[n] = (head[n] + count[n]) % fifosize /\ buffer[n] \in [0 .. fifosize - 1 -> Tuple]
      /\ fifosize \in Nat \ {0}
  BY DEF TypeOK, Advanced
<1> DEFINE F == fifosize
           h == head[n]
           c == count[n]
           t == tail[n]
<1> HIDE DEF F, h, c, t
<1>0. F \in Nat \ {0} /\ h \in 0 .. F - 1 /\ c \in 0 .. F /\ t = (h + c) % F
  BY <1>1 DEF F, h, c, t
<1>2. h + c \in 0 .. 2 * F - 1
  BY ONLY <1>0
<1>3. t \in 0 .. F - 1 /\ (h + c < F => t = h + c) /\ (h + c >= F => t = h + c - F)
  <2>1. PICK x : x = h + c
    OBVIOUS
  <2>2. (x < F => x % F = x) /\ (x >= F => x % F = x - F) /\ x % F \in 0 .. F - 1
    BY ONLY <1>0, <1>2, <2>1, ModRing
  <2> QED  BY ONLY <1>0, <2>1, <2>2
<1>4. /\ Len(Span(h, t)) = IF h < t THEN t - h ELSE F - h + t
      /\ Len(Span(t, h)) = IF t < h THEN h - t ELSE F - t + h
  BY <1>0, <1>3, SpanIs DEF F
<1>5. F \in Nat /\ h \in 0 .. F - 1 /\ c \in 0 .. F
  BY <1>0
<1>6. c > 0 => Len(Span(h, t)) = c
  BY <1>3, <1>4, <1>5
<1>7. c < F => Len(Span(t, h)) = F - c
  BY <1>3, <1>4, <1>5
<1> QED  BY <1>1, <1>3, <1>6, <1>7 DEF F, h, c, t

(* What a node holds lies in its ring from the head on. *)
LEMMA ContentIs ==
  ASSUME TypeOK, NEW n \in Nodes
  PROVE  /\ Content(n) = Held(n) /\ Held(n) \in Seq(Tuple) /\ Len(Held(n)) = count[n]
<1>1. /\ head[n] \in 0 .. fifosize - 1 /\ tail[n] \in 0 .. fifosize - 1 /\ fifosize \in Nat \ {0}
      /\ count[n] \in 0 .. fifosize /\ buffer[n] \in [0 .. fifosize - 1 -> Tuple]
      /\ count[n] > 0 => Len(Span(head[n], tail[n])) = count[n]
  BY SpanLen, Sizes
<1>2. /\ Held(n) \in Seq(Tuple) /\ Len(Held(n)) = count[n]
  BY <1>1, RingType DEF Held
<1>3. CASE count[n] = 0
  <2>1. Held(n) = << >>
    BY <1>2, <1>3
  <2> QED  BY <1>2, <1>3, <2>1 DEF Content
<1>4. CASE count[n] > 0
  <2> DEFINE slots == Span(head[n], tail[n])
  <2>0. /\ DOMAIN slots = 1 .. Len(slots)
        /\ \A k \in 1 .. Len(slots) : slots[k] = (head[n] + k - 1) % fifosize
    BY ONLY <1>1, SpanIs
  <2>1. DOMAIN slots = 1 .. count[n] /\ \A k \in 1 .. count[n] : slots[k] = (head[n] + k - 1) % fifosize
    BY <1>1, <1>4, <2>0
  <2>2. Content(n) = [k \in DOMAIN slots |-> buffer[n][slots[k]]]
    BY <1>4 DEF Content
  <2> HIDE DEF slots
  <2>3. Content(n) = [k \in 1 .. count[n] |-> buffer[n][(head[n] + k - 1) % fifosize]]
    BY <2>1, <2>2
  <2> QED  BY <1>2, <2>3 DEF Held, Ring
<1> QED  BY <1>1, <1>2, <1>3, <1>4

(* Writing fits behind the tail. *)
LEMMA WrittenIs ==
  ASSUME TypeOK, NEW n \in Nodes, NEW T \in Seq(Tuple), count[n] + Len(T) <= fifosize
  PROVE  Written(n, T) = Filled(fifosize, buffer[n], tail[n], T)
<1>1. /\ head[n] \in 0 .. fifosize - 1 /\ tail[n] \in 0 .. fifosize - 1 /\ fifosize \in Nat \ {0}
      /\ count[n] \in 0 .. fifosize /\ DOMAIN buffer[n] = 0 .. fifosize - 1
      /\ count[n] < fifosize => Len(Span(tail[n], head[n])) = fifosize - count[n]
  BY SpanLen, Sizes
<1> DEFINE free == Span(tail[n], head[n])
<1>2. Len(T) \in Nat /\ DOMAIN T = 1 .. Len(T)
  OBVIOUS
<1>3. \A k \in DOMAIN T : free[k] = (tail[n] + k - 1) % fifosize
  <2> SUFFICES ASSUME NEW k \in DOMAIN T PROVE free[k] = (tail[n] + k - 1) % fifosize
    OBVIOUS
  <2>1. k \in 1 .. Len(free)
    BY <1>1, <1>2
  <2> QED  BY <1>1, <2>1, SpanIs
<1> HIDE DEF free
<1>4. \A slot : (CHOOSE k \in DOMAIN T : free[k] = slot) =
                (CHOOSE k \in DOMAIN T : (tail[n] + k - 1) % fifosize = slot)
  BY <1>3
<1>5. \A slot : (\E k \in DOMAIN T : free[k] = slot) <=>
                (\E k \in DOMAIN T : (tail[n] + k - 1) % fifosize = slot)
  BY <1>3
<1> DEFINE old(slot) == CHOOSE k \in DOMAIN T : free[k] = slot
           new(slot) == CHOOSE k \in DOMAIN T : (tail[n] + k - 1) % fifosize = slot
           was(slot) == \E k \in DOMAIN T : free[k] = slot
           is(slot) == \E k \in DOMAIN T : (tail[n] + k - 1) % fifosize = slot
<1>6. Written(n, T) = [slot \in 0 .. fifosize - 1 |->
                         IF was(slot) THEN T[old(slot)] ELSE buffer[n][slot]]
  BY <1>1 DEF Written, free
<1>7. Filled(fifosize, buffer[n], tail[n], T) =
        [slot \in 0 .. fifosize - 1 |-> IF is(slot) THEN T[new(slot)] ELSE buffer[n][slot]]
  BY DEF Filled
<1>8. \A slot : old(slot) = new(slot) /\ (was(slot) <=> is(slot))
  BY <1>4, <1>5
<1> HIDE DEF old, new, was, is
<1> QED  BY <1>6, <1>7, <1>8

(* A ring grows behind its tail ...                                        *)
LEMMA RingGrow ==
  ASSUME TypeOK, NEW n \in Nodes, NEW T \in Seq(Tuple), count[n] + Len(T) <= fifosize
  PROVE  /\ Written(n, T) \in [0 .. fifosize - 1 -> Tuple]
         /\ Ring(fifosize, Written(n, T), head[n], count[n] + Len(T)) = Held(n) \o T
         /\ Advanced(tail[n], Len(T)) = Advanced(head[n], count[n] + Len(T))
         /\ count[n] + Len(T) \in 0 .. fifosize
<1>1. /\ head[n] \in 0 .. fifosize - 1 /\ fifosize \in Nat \ {0} /\ Len(T) \in Nat
      /\ count[n] \in 0 .. fifosize /\ buffer[n] \in [0 .. fifosize - 1 -> Tuple]
      /\ tail[n] = (head[n] + count[n]) % fifosize
  <2>1. /\ head[n] \in 0 .. fifosize - 1 /\ count[n] \in 0 .. fifosize
        /\ buffer[n] \in [0 .. fifosize - 1 -> Tuple]
        /\ tail[n] = (head[n] + count[n]) % fifosize
    BY SpanLen
  <2>2. fifosize \in Nat \ {0}
    BY Sizes
  <2>3. Len(T) \in Nat
    OBVIOUS
  <2> QED  BY ONLY <2>1, <2>2, <2>3
<1>2. Written(n, T) = Filled(fifosize, buffer[n], (head[n] + count[n]) % fifosize, T)
  BY <1>1, WrittenIs
<1>3. count[n] + Len(T) \in 0 .. fifosize /\ count[n] \in 0 .. count[n] + Len(T)
      /\ (count[n] + Len(T)) - count[n] = Len(T)
  BY <1>1
<1>4. (((head[n] + count[n]) % fifosize) + Len(T)) % fifosize =
        (head[n] + (count[n] + Len(T))) % fifosize
  <2> DEFINE F == fifosize
             h == head[n]
             p == count[n]
             c == count[n] + Len(T)
  <2>1. F \in Nat \ {0} /\ h \in 0 .. F - 1 /\ c \in 0 .. F /\ p \in 0 .. c /\ c - p = Len(T)
    BY <1>1, <1>3
  <2> HIDE DEF F, h, p, c
  <2>2. (((h + p) % F) + (c - p)) % F = (h + c) % F
    BY ONLY <2>1, RingTail
  <2>3. (((h + p) % F) + Len(T)) % F = (h + c) % F
    BY ONLY <2>1, <2>2
  <2> QED  BY <2>3 DEF F, h, p, c
<1>5. /\ Filled(fifosize, buffer[n], (head[n] + count[n]) % fifosize, T) \in [0 .. fifosize - 1 -> Tuple]
      /\ Ring(fifosize, Filled(fifosize, buffer[n], (head[n] + count[n]) % fifosize, T), head[n],
              count[n] + Len(T)) = Ring(fifosize, buffer[n], head[n], count[n]) \o T
  <2> DEFINE F == fifosize
             h == head[n]
             c == count[n]
             b == buffer[n]
  <2>1. /\ F \in Nat \ {0} /\ h \in 0 .. F - 1 /\ c \in 0 .. F /\ b \in [0 .. F - 1 -> Tuple]
        /\ T \in Seq(Tuple) /\ c + Len(T) <= F
    BY <1>1
  <2> HIDE DEF F, h, c, b
  <2>2. /\ Filled(F, b, (h + c) % F, T) \in [0 .. F - 1 -> Tuple]
        /\ Ring(F, Filled(F, b, (h + c) % F, T), h, c + Len(T)) = Ring(F, b, h, c) \o T
    <3>1. RoomFor(F, h, c, b, T)
      BY ONLY <2>1 DEF RoomFor
    <3> QED  BY ONLY <3>1, RingFilled
  <2> QED  BY <2>2 DEF F, h, c, b
<1> QED  BY <1>1, <1>2, <1>3, <1>4, <1>5 DEF Advanced, Held

(* ... and shrinks at its head.                                            *)
LEMMA RingShrink ==
  ASSUME TypeOK, NEW n \in Nodes, NEW p \in 0 .. count[n]
  PROVE  /\ Ring(fifosize, buffer[n], Advanced(head[n], p), count[n] - p) = Drop(Held(n), p)
         /\ Advanced(head[n], p) \in 0 .. fifosize - 1
         /\ tail[n] = Advanced(Advanced(head[n], p), count[n] - p)
         /\ count[n] - p \in 0 .. fifosize
<1>1. /\ head[n] \in 0 .. fifosize - 1 /\ fifosize \in Nat \ {0}
      /\ count[n] \in 0 .. fifosize /\ buffer[n] \in [0 .. fifosize - 1 -> Tuple]
      /\ tail[n] = (head[n] + count[n]) % fifosize
  BY SpanLen, Sizes
<1>2. /\ (((head[n] + p) % fifosize) + (count[n] - p)) % fifosize = (head[n] + count[n]) % fifosize
      /\ (head[n] + p) % fifosize \in 0 .. fifosize - 1
  BY ONLY <1>1, p \in 0 .. count[n], RingTail
<1>3. Ring(fifosize, buffer[n], (head[n] + p) % fifosize, count[n] - p) =
        Drop(Ring(fifosize, buffer[n], head[n], count[n]), p)
  BY ONLY <1>1, p \in 0 .. count[n], RingDrop
<1>4. count[n] - p \in 0 .. fifosize
  BY <1>1
<1> QED  BY <1>1, <1>2, <1>3, <1>4 DEF Advanced, Held

(* What the boxes hold.                                                    *)
LEMMA HoldIs ==
  ASSUME TypeOK
  PROVE  /\ -1 \in Boxes(K) /\ Hold[-1] = output /\ Done[-1] = FALSE
         /\ \A n \in Nodes : /\ n \in Boxes(K) /\ n \in Parents(K)
                             /\ Hold[n] = Held(n) /\ Done[n] = done[n]
         /\ \A c \in 1 .. nparts : /\ - c - 1 \in Boxes(K)
                                   /\ Hold[- c - 1] = parts[c] /\ Done[- c - 1] = TRUE
         /\ Hold \in [Boxes(K) -> Seq(Tuple)] /\ Done \in [Boxes(K) -> BOOLEAN]
         /\ \A b \in Boxes(K) : b = -1 \/ b \in Nodes \/ (b < -1 /\ - b - 1 \in 1 .. nparts)
<1>1. K \in Nat /\ K >= 4 /\ nparts = 2 * K /\ Nodes = 0 .. 2 * K - 3
  BY Sizes
<1>2. /\ -1 \in Boxes(K) /\ \A n \in Nodes : n \in Boxes(K) /\ n \in Parents(K) /\ n >= 0
      /\ \A c \in 1 .. nparts : - c - 1 \in Boxes(K) /\ - c - 1 < -1 /\ - (- c - 1) - 1 = c
      /\ \A b \in Boxes(K) : b = -1 \/ b \in Nodes \/ (b < -1 /\ - b - 1 \in 1 .. nparts)
  BY <1>1 DEF Boxes, Parents
<1>3. \A n \in Nodes : Held(n) \in Seq(Tuple) /\ done[n] \in BOOLEAN
  BY ContentIs DEF TypeOK
<1>4. \A c \in 1 .. nparts : parts[c] \in Seq(Tuple)
  BY DEF TypeOK, nparts
<1>5. output \in Seq(Tuple)
  BY DEF TypeOK
<1> HIDE DEF K
<1>6. \A b \in Boxes(K) :
        (IF b = -1 THEN output ELSE IF b < -1 THEN parts[- b - 1] ELSE Held(b)) \in Seq(Tuple)
  <2> SUFFICES ASSUME NEW b \in Boxes(K)
               PROVE  (IF b = -1 THEN output ELSE IF b < -1 THEN parts[- b - 1] ELSE Held(b))
                        \in Seq(Tuple)
    OBVIOUS
  <2>1. CASE b = -1
    BY <1>5, <2>1
  <2>2. CASE b < -1 /\ - b - 1 \in 1 .. nparts
    <3>1. parts[- b - 1] \in Seq(Tuple)
      BY <1>4, <2>2
    <3> QED  BY <2>2, <3>1
  <2>3. CASE b \in Nodes
    <3>1. b # -1 /\ ~(b < -1)
      BY <1>1, <2>3
    <3> QED  BY <1>3, <2>3, <3>1
  <2> QED  BY <1>2, <2>1, <2>2, <2>3
<1>7. \A b \in Boxes(K) : (IF b = -1 THEN FALSE ELSE IF b < -1 THEN TRUE ELSE done[b]) \in BOOLEAN
  BY <1>2, <1>3
<1>8. Hold \in [Boxes(K) -> Seq(Tuple)]
  BY <1>6 DEF Hold
<1>9. Done \in [Boxes(K) -> BOOLEAN]
  BY <1>7 DEF Done
<1>10. Hold[-1] = output /\ Done[-1] = FALSE
  BY <1>2 DEF Hold, Done
<1>11. ASSUME NEW n \in Nodes PROVE Hold[n] = Held(n) /\ Done[n] = done[n]
  <2>1. n \in Boxes(K) /\ n # -1 /\ ~(n < -1)
    BY <1>1, <1>2
  <2> QED  BY <2>1 DEF Hold, Done
<1>12. ASSUME NEW c \in 1 .. nparts PROVE Hold[- c - 1] = parts[c] /\ Done[- c - 1] = TRUE
  <2>1. PICK b : b = - c - 1
    OBVIOUS
  <2>2. b \in Boxes(K) /\ b # -1 /\ b < -1 /\ - b - 1 = c
    BY <1>1, <1>2, <2>1
  <2>3. Hold[b] = parts[c] /\ Done[b] = TRUE
    BY <2>2 DEF Hold, Done
  <2> QED  BY <2>1, <2>3
<1> QED  BY <1>2, <1>8, <1>9, <1>10, <1>11, <1>12

(* The step moves picks from the kids of n to n. *)
Moves(n) ==
  \E P : /\ Taken(Two(Hold[KidR(K, n)], Hold[KidL(K, n)]), Zero, P)
         /\ Hold' = Moved(Hold, n, KidR(K, n), KidL(K, n), P)

(* A step that touches nothing but the control. *)
LEMMA SameInductive ==
  ASSUME IInv, UNCHANGED << parts, fifosize, buffer, head, tail, count, done, output >>,
         m' \in -2 .. nfifos - 1
  PROVE  IInv' /\ K' = K /\ Hold' = Hold
<1>1. /\ TypeOK' /\ K' = K
  BY DEF IInv, TypeOK, Nodes, nfifos, nparts, K, Advanced
<1>2. Hold' = Hold /\ Done' = Done
  BY <1>1 DEF Hold, Done, Held
<1> QED  BY <1>1, <1>2 DEF IInv

(* A leaf reads the runs after those of the next. *)
LEMMA LeafRuns ==
  ASSUME TypeOK, m \in Nodes, m >= FirstLeaf
  PROVE  LET c == 2 * (nfifos - m) - 1
         IN /\ c \in 1 .. nparts /\ c + 1 \in 1 .. nparts
            /\ KidR(K, m) = - c - 1 /\ KidL(K, m) = - (c + 1) - 1
<1>1. /\ K \in Nat /\ K >= 4 /\ nparts = 2 * K /\ nfifos = 2 * K - 2 /\ FirstLeaf = K - 2
      /\ Nodes = 0 .. 2 * K - 3
  BY Sizes
<1> QED  BY ONLY <1>1, m \in Nodes, m >= FirstLeaf DEF KidR, KidL

(* What a leaf reads fits behind its tail, is the smallest of both runs,   *)
(* and nothing only if nothing is left.                                    *)
LEMMA ReadPicksAllowed ==
  ASSUME TypeOK, NEW n \in Nodes, count[n] < readthreshold,
         NEW A \in Seq(Tuple), NEW B \in Seq(Tuple), Ascending(A), Ascending(B),
         NEW g, g["A"], g["B"]
  PROVE  LET P == ReadPicks(n, A, B)
         IN /\ Allowed(A, B, g, P) /\ P \in PickSeq
            /\ count[n] + Len(P) <= fifosize
            /\ P = << >> => A = << >> /\ B = << >>
<1> DEFINE slots == fifosize - count[n]
           M == Kernel(A, B, slots)
           q == slots - Len(M)
           P == ReadPicks(n, A, B)
<1>1. /\ count[n] \in 0 .. fifosize /\ fifosize \in Nat /\ count[n] < fifosize
      /\ Len(Span(tail[n], head[n])) = slots
  BY SpanLen, Sizes
<1>2. slots \in Nat /\ slots > 0
  BY <1>1
<1> HIDE DEF slots
<1>3. Len(M) <= slots /\ Taken(Two(A, B), Zero, M)
  BY <1>2, KernelAllowed DEF Allowed
<1> HIDE DEF M
<1>4. Len(M) \in Nat
  BY <1>3, TuplesIs DEF Taken
<1>5. q \in Nat /\ (Len(M) = slots => q = 0) /\ Len(M) + q = slots
  BY <1>2, <1>3, <1>4
<1>6. P = Fill(A, B, slots, q)
  BY <1>1 DEF ReadPicks, Fill, M, slots
<1> HIDE DEF q, P
<1>7. /\ Allowed(A, B, g, P) /\ Len(P) <= slots
      /\ Len(P) >= slots \/ Len(P) = Len(A) + Len(B)
  <2>1. Len(Kernel(A, B, slots)) = slots => q = 0 \/ slots >= Len(A) + Len(B)
    BY <1>5 DEF M
  <2>2. /\ Allowed(A, B, g, Fill(A, B, slots, q))
        /\ Len(Fill(A, B, slots, q)) <= Len(Kernel(A, B, slots)) + q
        /\ \/ Len(Fill(A, B, slots, q)) >= Len(Kernel(A, B, slots)) + q
           \/ Len(Fill(A, B, slots, q)) = Len(A) + Len(B)
    BY <1>2, <1>5, <2>1, FillAllowed
  <2> QED  BY <1>5, <1>6, <2>2 DEF M
<1>8. P \in PickSeq /\ Len(P) \in Nat
  BY <1>7, TuplesIs DEF Allowed, Taken
<1>9. P = << >> => A = << >> /\ B = << >>
  <2> SUFFICES ASSUME P = << >> PROVE A = << >> /\ B = << >>
    OBVIOUS
  <2>1. Len(P) = 0
    OBVIOUS
  <2>2. Len(A) \in Nat /\ Len(B) \in Nat /\ Len(A) + Len(B) = 0
    BY <1>2, <1>7, <2>1
  <2> QED  BY <2>2
<1>10. count[n] + Len(P) <= fifosize
  BY <1>1, <1>7, <1>8 DEF slots
<1> QED  BY <1>7, <1>8, <1>9, <1>10 DEF P

(* Reading runs into a leaf keeps the tree in order. *)
LEMMA ReadLeafInductive ==
  ASSUME IInv, ReadLeaf
  PROVE  IInv' /\ K' = K /\ (Hold' = Hold \/ Moves(m))
<1> DEFINE c == 2 * (nfifos - m) - 1
           picks == ReadPicks(m, parts[c], parts[c + 1])
           a == From("A", picks)
           b == From("B", picks)
           A == Drop(parts[c], a)
           B == Drop(parts[c + 1], b)
           T == Tuples(picks)
           r == - c - 1
           l == - (c + 1) - 1
           e == picks = << >> \/ (A = << >> /\ B = << >>)
<1>1. /\ TypeOK /\ K \in Nat /\ K >= 4 /\ nfifos = 2 * K - 2 /\ FirstLeaf = K - 2
      /\ Nodes = 0 .. 2 * K - 3 /\ nparts = 2 * K /\ m >= FirstLeaf /\ m \in Nodes
      /\ fifosize \in Nat \ {0}
  <2>1. TypeOK /\ m >= FirstLeaf /\ m \in -2 .. nfifos - 1
    BY DEF IInv, TypeOK, ReadLeaf
  <2>2. /\ K \in Nat /\ K >= 4 /\ nfifos = 2 * K - 2 /\ FirstLeaf = K - 2
        /\ Nodes = 0 .. 2 * K - 3 /\ nparts = 2 * K /\ fifosize \in Nat \ {0}
    BY <2>1, Sizes
  <2> QED  BY ONLY <2>1, <2>2
<1>2. m' \in -2 .. nfifos - 1 /\ m' = m - 1
  <2>1. m' = m - 1
    BY DEF ReadLeaf
  <2> QED  BY ONLY <1>1, <2>1
<1>3. CASE ~(~done[m] /\ count[m] < readthreshold)
  <2>1. UNCHANGED << parts, fifosize, buffer, head, tail, count, done, output >>
    BY <1>3 DEF ReadLeaf
  <2> QED  BY <1>2, <2>1, SameInductive
<1>4. CASE ~done[m] /\ count[m] < readthreshold
  <2>1. /\ parts' = [parts EXCEPT ![c] = A, ![c + 1] = B]
        /\ buffer' = [buffer EXCEPT ![m] = Written(m, T)]
        /\ tail' = [tail EXCEPT ![m] = Advanced(@, Len(picks))]
        /\ count' = [count EXCEPT ![m] = @ + Len(picks)]
        /\ done' = [done EXCEPT ![m] = e]
        /\ head' = head /\ fifosize' = fifosize /\ output' = output
    BY <1>4 DEF ReadLeaf
  <2>2. c \in 1 .. nparts /\ c + 1 \in 1 .. nparts /\ KidR(K, m) = r /\ KidL(K, m) = l
    BY <1>1, LeafRuns
  <2> HIDE DEF c, picks
  <2>3. /\ parts[c] \in Seq(Tuple) /\ parts[c + 1] \in Seq(Tuple)
        /\ parts \in Seq(Seq(Tuple)) /\ Len(parts) = nparts
    <3>1. parts \in Seq(Seq(Tuple)) /\ Len(parts) = nparts
      BY <1>1 DEF TypeOK, nparts
    <3> QED  BY ONLY <2>2, <3>1
  <2>4. PICK low : Tree(K, Hold, Done, low)
    BY DEF IInv
  <2>5. /\ r \in Boxes(K) /\ l \in Boxes(K) /\ m \in Boxes(K) /\ m \in Parents(K)
        /\ Hold[r] = parts[c] /\ Hold[l] = parts[c + 1] /\ Hold[m] = Held(m)
        /\ Done[r] = TRUE /\ Done[l] = TRUE /\ Done[m] = done[m]
        /\ r # l /\ m # r /\ m # l /\ Hold \in [Boxes(K) -> Seq(Tuple)]
        /\ Done \in [Boxes(K) -> BOOLEAN]
    <3>1. r # l /\ m # r /\ m # l
      BY <1>1, <2>2
    <3> QED  BY <1>1, <2>2, <3>1, HoldIs
  <2>6. Ascending(parts[c]) /\ Ascending(parts[c + 1])
    BY <2>4, <2>5 DEF Tree
  <2> DEFINE g == [q \in Lists |-> IF q = "A" THEN Done[r] ELSE Done[l]]
  <2>7. g["A"] = Done[r] /\ g["B"] = Done[l] /\ g["A"] /\ g["B"]
    BY <2>5 DEF Lists
  <2> HIDE DEF g
  <2>8. /\ Allowed(parts[c], parts[c + 1], g, picks) /\ picks \in PickSeq
        /\ count[m] + Len(picks) <= fifosize
        /\ picks = << >> => parts[c] = << >> /\ parts[c + 1] = << >>
    BY <1>1, <1>4, <2>3, <2>6, <2>7, ReadPicksAllowed DEF picks
  <2>9. a \in 0 .. Len(parts[c]) /\ b \in 0 .. Len(parts[c + 1])
    <3>1. Taken(Two(parts[c], parts[c + 1]), Zero, picks)
      BY <2>8 DEF Allowed
    <3> QED  BY <2>3, <3>1, TakenParts
  <2>10. T \in Seq(Tuple) /\ Len(T) = Len(picks) /\ Len(picks) \in Nat
    BY <2>8, TuplesIs
  <2>11. A \in Seq(Tuple) /\ B \in Seq(Tuple)
    BY <2>3, <2>9, DropIs
  <2>12. e => A = << >> /\ B = << >>
    <3> SUFFICES ASSUME picks = << >> PROVE A = << >> /\ B = << >>
      OBVIOUS
    <3>1. parts[c] = << >> /\ parts[c + 1] = << >>
      BY <2>8
    <3>2. a = 0 /\ b = 0
      BY <2>9, <3>1
    <3>3. Drop(parts[c], 0) = parts[c] /\ Drop(parts[c + 1], 0) = parts[c + 1]
      BY <2>3, <2>9, DropRest
    <3> QED  BY <3>1, <3>2, <3>3
  <2>13. /\ Written(m, T) \in [0 .. fifosize - 1 -> Tuple]
         /\ Ring(fifosize, Written(m, T), head[m], count[m] + Len(T)) = Held(m) \o T
         /\ Advanced(tail[m], Len(T)) = Advanced(head[m], count[m] + Len(T))
         /\ count[m] + Len(T) \in 0 .. fifosize
    BY <1>1, <2>8, <2>10, RingGrow
  <2> HIDE DEF a, b, T, A, B, e
  <2>18. Moved(Hold, m, r, l, picks) = [Hold EXCEPT ![m] = @ \o T, ![r] = A, ![l] = B]
    BY <2>5 DEF A, B, T, a, b, Moved
  <2>14. \E low2 : Tree(K, [Hold EXCEPT ![m] = @ \o T, ![r] = A, ![l] = B],
                          [Done EXCEPT ![m] = e], low2)
    <3>1. e \in BOOLEAN
      BY DEF e
    <3>2. Allowed(Hold[r], Hold[l], g, picks)
      BY <2>5, <2>8
    <3>3. picks # << >> => ~Done[m]
      BY <1>4, <2>5
    <3>4. Done[m] => e
      BY <1>4, <2>5
    <3>5. e => /\ Done[r] /\ Drop(Hold[r], From("A", picks)) = << >>
               /\ Done[l] /\ Drop(Hold[l], From("B", picks)) = << >>
      BY <2>5, <2>12 DEF A, B, a, b
    <3> HIDE DEF r, l
    <3>6. \E low2 : Tree(K, Moved(Hold, m, r, l, picks), DoneAt(Done, m, e), low2)
      BY ONLY <1>1, <2>2, <2>4, <2>5, <2>7, <3>1, <3>2, <3>3, <3>4, <3>5, MovePicks
    <3> QED  BY <2>18, <3>6 DEF DoneAt
  <2>15. TypeOK' /\ K' = K /\ nparts' = nparts
    <3>1. parts' \in Seq(Seq(Tuple)) /\ Len(parts') = Len(parts)
      BY <2>1, <2>2, <2>3, <2>11
    <3>2. nparts' = nparts /\ K' = K /\ nfifos' = nfifos /\ Nodes' = Nodes
      BY <3>1 DEF nparts, K, nfifos, Nodes
    <3>3. /\ buffer' \in [Nodes -> [0 .. fifosize - 1 -> Tuple]]
          /\ count' \in [Nodes -> 0 .. fifosize]
          /\ done' \in [Nodes -> BOOLEAN]
      BY <1>1, <2>1, <2>10, <2>13 DEF TypeOK, e
    <3>4. tail' = [n \in Nodes |-> Advanced(head[n], count'[n])]
      <4>1. /\ tail = [n \in Nodes |-> Advanced(head[n], count[n])]
            /\ count \in [Nodes -> 0 .. fifosize]
        BY <1>1 DEF TypeOK
      <4>2. tail' = [n \in Nodes |-> IF n = m THEN Advanced(tail[m], Len(picks)) ELSE tail[n]]
        BY <2>1, <4>1
      <4>3. \A n \in Nodes : (n = m => count'[n] = count[m] + Len(picks)) /\ (n # m => count'[n] = count[n])
        BY <2>1, <4>1
      <4>4. \A n \in Nodes : (IF n = m THEN Advanced(tail[m], Len(picks)) ELSE tail[n]) =
                             Advanced(head[n], count'[n])
        BY <2>10, <2>13, <4>1, <4>3
      <4> QED  BY <4>2, <4>4
    <3>5. tail' = [n \in Nodes |-> (head'[n] + count'[n]) % fifosize']
      BY <2>1, <3>4 DEF Advanced
    <3>6. m' \in -2 .. nfifos' - 1 /\ Len(parts') \in {8, 16, 32, 64, 128}
      BY <1>1, <1>2, <3>1, <3>2 DEF TypeOK
    <3>7. head' \in [Nodes -> 0 .. fifosize - 1] /\ fifosize' \in Nat \ {0, 1} /\ output' \in Seq(Tuple)
      BY <1>1, <2>1 DEF TypeOK
    <3> QED  BY ONLY <2>1, <3>1, <3>2, <3>3, <3>5, <3>6, <3>7 DEF TypeOK, Advanced
  <2>16. Hold' = [Hold EXCEPT ![m] = @ \o T, ![r] = A, ![l] = B]
    <3> DEFINE H2 == [Hold EXCEPT ![m] = @ \o T, ![r] = A, ![l] = B]
    <3>1. /\ DOMAIN Hold' = Boxes(K) /\ DOMAIN H2 = Boxes(K)
          /\ H2[m] = Held(m) \o T /\ H2[r] = A /\ H2[l] = B
          /\ \A x \in Boxes(K) \ {m, r, l} : H2[x] = Hold[x]
      BY <2>5, <2>15 DEF Hold
    <3> HIDE DEF H2
    <3>2. \A x \in Boxes(K) : Hold'[x] = IF x = -1 THEN output ELSE IF x < -1 THEN parts'[- x - 1]
                              ELSE Ring(fifosize, buffer'[x], head[x], count'[x])
      BY <2>1, <2>15 DEF Hold, Held
    <3>3. ASSUME NEW x \in Boxes(K) PROVE Hold'[x] = H2[x]
      <4>1. CASE x = -1
        <5>1. x \notin {m, r, l}
          BY <1>1, <2>2, <4>1
        <5> QED  BY <1>1, <3>1, <3>2, <4>1, <5>1, HoldIs
      <4>2. CASE x \in Nodes
        <5>1. Hold'[x] = Ring(fifosize, buffer'[x], head[x], count'[x]) /\ x \notin {r, l}
          <6>1. x >= 0 /\ r < -1 /\ l < -1 /\ x \in Boxes(K)
            BY ONLY <1>1, <2>2, <4>2, x \in Boxes(K)
          <6>2. x # -1 /\ ~(x < -1) /\ x # r /\ x # l
            BY ONLY <1>1, <2>2, <4>2, <6>1
          <6> QED  BY <3>2, <6>1, <6>2
        <5>2. CASE x = m
          <6>1. buffer'[x] = Written(m, T) /\ count'[x] = count[m] + Len(T)
            BY <1>1, <2>1, <2>10, <5>2 DEF TypeOK
          <6> QED  BY <2>13, <3>1, <5>1, <5>2, <6>1
        <5>3. CASE x # m
          <6>1. buffer'[x] = buffer[x] /\ count'[x] = count[x]
            BY <1>1, <2>1, <5>3 DEF TypeOK
          <6>2. H2[x] = Held(x)
            BY <1>1, <3>1, <4>2, <5>1, <5>3, HoldIs
          <6> QED  BY <5>1, <6>1, <6>2 DEF Held
        <5> QED  BY <5>2, <5>3
      <4>3. CASE x < -1 /\ - x - 1 \in 1 .. nparts
        <5>1. PICK y : y = - x - 1
          OBVIOUS
        <5>2. /\ Hold'[x] = parts'[y] /\ y \in 1 .. nparts /\ (x = r <=> y = c)
              /\ (x = l <=> y = c + 1) /\ x = - y - 1 /\ x # m
          <6>0. K \in Nat /\ nparts \in Nat /\ x \in Int
            BY ONLY <1>1, x \in Boxes(K) DEF Boxes
          <6>1. y \in 1 .. nparts /\ x = - y - 1 /\ y \in Int
            BY ONLY <4>3, <5>1, <6>0
          <6>2. (x = r <=> y = c) /\ (x = l <=> y = c + 1) /\ x # m
            BY ONLY <1>1, <2>2, <6>1
          <6>3. Hold'[x] = parts'[y]
            <7>1. x # -1 /\ x < -1
              BY ONLY <4>3, <6>0
            <7>2. Hold'[x] = IF x = -1 THEN output ELSE IF x < -1 THEN parts'[- x - 1]
                              ELSE Ring(fifosize, buffer'[x], head[x], count'[x])
              BY ONLY <3>2, x \in Boxes(K)
            <7>3. Hold'[x] = parts'[- x - 1]
              BY ONLY <7>1, <7>2, Zenon
            <7> QED  BY ONLY <5>1, <7>3
          <6> QED  BY <6>1, <6>2, <6>3
        <5>3. parts'[y] = IF y = c THEN A ELSE IF y = c + 1 THEN B ELSE parts[y]
          <6>1. parts \in Seq(Seq(Tuple)) /\ c \in 1 .. Len(parts) /\ c + 1 \in 1 .. Len(parts)
                /\ y \in 1 .. Len(parts)
            BY ONLY <2>2, <2>3, <5>2
          <6>2. DOMAIN parts = 1 .. Len(parts) /\ c # c + 1
            BY ONLY <6>1
          <6>3. parts' = [parts EXCEPT ![c] = A, ![c + 1] = B]
            BY ONLY <2>1
          <6> QED  BY ONLY <6>1, <6>2, <6>3
        <5>4. Hold[x] = parts[y]
          BY <1>1, <5>2, HoldIs
        <5> QED  BY <2>5, <3>1, <5>2, <5>3, <5>4
      <4> QED  BY <1>1, <4>1, <4>2, <4>3, HoldIs
    <3>4. Hold' = [x \in Boxes(K) |-> Hold'[x]]
      BY <2>15 DEF Hold
    <3>5. H2 = [x \in Boxes(K) |-> H2[x]]
      BY <2>5 DEF H2
    <3>6. Hold' = H2
      BY ONLY <3>3, <3>4, <3>5
    <3> QED  BY <3>6 DEF H2
  <2>17. Done' = [Done EXCEPT ![m] = e]
    <3>1. \A x \in Boxes(K) : x = -1 \/ x < -1 \/ x \in Nodes
      BY <1>1, HoldIs
    <3>2. \A x \in Nodes : done'[x] = IF x = m THEN e ELSE done[x]
      BY <1>1, <2>1 DEF TypeOK
    <3>3. m # -1 /\ ~(m < -1)
      BY <1>1
    <3>4. Done' = [x \in Boxes(K) |-> IF x = -1 THEN FALSE ELSE IF x < -1 THEN TRUE ELSE done'[x]]
      BY <2>15 DEF Done
    <3>5. [Done EXCEPT ![m] = e] = [x \in Boxes(K) |-> IF x = m THEN e ELSE Done[x]]
      BY <2>5
    <3>6. \A x \in Boxes(K) : (IF x = -1 THEN FALSE ELSE IF x < -1 THEN TRUE ELSE done'[x]) =
                              IF x = m THEN e ELSE Done[x]
      BY <3>1, <3>2, <3>3 DEF Done
    <3> QED  BY ONLY <3>4, <3>5, <3>6
  <2>19. Moves(m)
    <3>1. Taken(Two(Hold[r], Hold[l]), Zero, picks)
      BY <2>5, <2>8 DEF Allowed
    <3>2. Hold' = Moved(Hold, m, r, l, picks)
      BY <2>16, <2>18
    <3> HIDE DEF r, l
    <3> QED  BY <2>2, <3>1, <3>2 DEF Moves
  <2> QED  BY <2>14, <2>15, <2>16, <2>17, <2>19 DEF IInv
<1> QED  BY <1>3, <1>4

(* No picks are always allowed.                                            *)
LEMMA NothingAllowed ==
  ASSUME NEW A \in Seq(Tuple), NEW B \in Seq(Tuple), Ascending(A), Ascending(B), NEW g
  PROVE  Allowed(A, B, g, << >>)
<1>1. SortedLists(Two(A, B)) /\ Offsets(Two(A, B), Zero)
  BY SortedTwo
<1>2. Taken(Two(A, B), Zero, << >>)
  BY <1>1, TakenEmpty
<1> QED  BY <1>2 DEF Allowed

(* What a node merges from its children fits behind its tail.              *)
LEMMA MergePicksAllowed ==
  ASSUME TypeOK, NEW n \in Nodes, NEW r \in Nodes, NEW l \in Nodes,
         Ascending(Held(r)), Ascending(Held(l)), NEW g, g["A"] = done[r], g["B"] = done[l]
  PROVE  LET P == MergePicks(n, r, l)
         IN /\ Allowed(Held(r), Held(l), g, P) /\ P \in PickSeq
            /\ count[n] + Len(P) <= fifosize
<1> DEFINE A == Held(r)
           B == Held(l)
           room == fifosize - count[n]
           M == Kernel(A, B, room)
           wrap == fifosize - Advanced(tail[n], Len(M))
           block == minimum(room - Len(M), wrap)
           P == MergePicks(n, r, l)
<1>1. /\ A = Content(r) /\ A \in Seq(Tuple) /\ Len(A) = count[r] /\ Len(A) \in Nat
      /\ B = Content(l) /\ B \in Seq(Tuple) /\ Len(B) = count[l] /\ Len(B) \in Nat
  BY ContentIs
<1>2. count[n] \in 0 .. fifosize /\ tail[n] \in 0 .. fifosize - 1 /\ fifosize \in Nat \ {0}
  BY SpanLen, Sizes
<1>3. Ascending(A) /\ Ascending(B)
  OBVIOUS
<1> HIDE DEF A, B
<1>4. room \in Nat /\ count[n] + room = fifosize
  BY <1>2
<1> HIDE DEF room
<1>5. Allowed(A, B, g, M) /\ Len(M) <= room /\ M \in PickSeq /\ Len(M) \in Nat
  <2>1. Allowed(A, B, g, M) /\ Len(M) <= room
    BY <1>1, <1>3, <1>4, KernelAllowed
  <2> HIDE DEF M
  <2> QED  BY <2>1, TuplesIs DEF Allowed, Taken
<1> HIDE DEF M
<1>6. block \in Nat /\ block <= room - Len(M) /\ (Len(M) = room => block = 0)
  <2>1. tail[n] + Len(M) \in Nat
    BY <1>2, <1>5
  <2>2. Advanced(tail[n], Len(M)) \in 0 .. fifosize - 1
    BY <1>2, <2>1, DivMod DEF Advanced
  <2>3. wrap \in Nat /\ room - Len(M) \in Nat
    BY <1>2, <1>4, <1>5, <2>2
  <2> HIDE DEF wrap
  <2>4. minimum(room - Len(M), wrap) \in Nat /\ minimum(room - Len(M), wrap) <= room - Len(M)
    BY <2>3, MinimumIs
  <2> QED  BY <1>4, <1>5, <2>4
<1> HIDE DEF block
<1>7. CASE OnlyLeft(r, l)
  <2>1. P = Tagged(B, "B", room)
    BY <1>1, <1>7 DEF MergePicks, room
  <2>2. \A l2 \in Lists : l2 # "B" => g[l2] /\ Two(A, B)[l2] = << >>
    <3>1. g["A"] /\ A = << >>
      BY <1>1, <1>7 DEF OnlyLeft
    <3> QED  BY <3>1, TwoIs DEF Lists
  <2>3. Allowed(A, B, g, Tagged(Two(A, B)["B"], "B", room)) /\ Len(Tagged(Two(A, B)["B"], "B", room)) <= room
    <3>1. "B" \in Lists
      BY DEF Lists
    <3> QED  BY ONLY <1>1, <1>3, <1>4, <2>2, <3>1, CopyAllowed
  <2>4. Allowed(A, B, g, P) /\ Len(P) <= room
    BY <2>1, <2>3, TwoIs
  <2> QED  BY <1>2, <1>4, <2>4, TuplesIs DEF Allowed, Taken, A, B
<1>8. CASE ~OnlyLeft(r, l) /\ OnlyRight(r, l)
  <2>1. P = Tagged(A, "A", room)
    BY <1>1, <1>8 DEF MergePicks, room
  <2>2. \A l2 \in Lists : l2 # "A" => g[l2] /\ Two(A, B)[l2] = << >>
    <3>1. g["B"] /\ B = << >>
      BY <1>1, <1>8 DEF OnlyRight
    <3> QED  BY <3>1, TwoIs DEF Lists
  <2>3. Allowed(A, B, g, Tagged(Two(A, B)["A"], "A", room)) /\ Len(Tagged(Two(A, B)["A"], "A", room)) <= room
    <3>1. "A" \in Lists
      BY DEF Lists
    <3> QED  BY ONLY <1>1, <1>3, <1>4, <2>2, <3>1, CopyAllowed
  <2>4. Allowed(A, B, g, P) /\ Len(P) <= room
    BY <2>1, <2>3, TwoIs
  <2> QED  BY <1>2, <1>4, <2>4, TuplesIs DEF Allowed, Taken, A, B
<1>9. CASE ~OnlyLeft(r, l) /\ ~OnlyRight(r, l) /\ ~BothDone(r, l)
  <2>1. P = M \o << >>
    BY <1>1, <1>9 DEF MergePicks, room, M
  <2>2. P = M
    BY <1>5, <2>1 DEF PickSeq
  <2> QED  BY <1>2, <1>4, <1>5, <2>2 DEF A, B
<1>10. CASE ~OnlyLeft(r, l) /\ ~OnlyRight(r, l) /\ BothDone(r, l)
  <2>1. P = Fill(A, B, room, block)
    BY <1>1, <1>10 DEF MergePicks, Fill, room, M, block
  <2>2. g["A"] /\ g["B"]
    BY <1>10 DEF BothDone
  <2>3. Len(Kernel(A, B, room)) = room => block = 0 \/ room >= Len(A) + Len(B)
    BY <1>6 DEF M
  <2>4. /\ Allowed(A, B, g, Fill(A, B, room, block))
        /\ Len(Fill(A, B, room, block)) <= Len(Kernel(A, B, room)) + block
    BY ONLY <1>1, <1>3, <1>4, <1>6, <2>2, <2>3, FillAllowed
  <2>5. Allowed(A, B, g, P) /\ Len(P) <= Len(M) + block
    BY <2>1, <2>4 DEF M
  <2>6. P \in PickSeq /\ Len(P) \in Nat
    BY <2>5, TuplesIs DEF Allowed, Taken
  <2> HIDE DEF P
  <2>7. count[n] + Len(P) <= fifosize
    BY <1>2, <1>4, <1>5, <1>6, <2>5, <2>6
  <2> QED  BY <2>5, <2>6, <2>7 DEF A, B, P
<1> QED  BY <1>7, <1>8, <1>9, <1>10

(* Merging children into an inner node keeps the tree in order. *)
LEMMA MergeInnerInductive ==
  ASSUME IInv, MergeInner
  PROVE  IInv' /\ K' = K /\ Moves(m)
<1> DEFINE r == right(m)
           l == left(m)
           wanted == ~done[m] /\ (done[r] \/ done[l] \/ ~HalfFull(m)) /\ ~Full(m)
           P == IF wanted /\ Ready(r, l) THEN MergePicks(m, r, l) ELSE << >>
           a == From("A", P)
           b == From("B", P)
           T == Tuples(P)
           e == IF wanted THEN Drained(r, l) ELSE done[m]
           A == Drop(Held(r), a)
           B == Drop(Held(l), b)
<1>1. /\ TypeOK /\ K \in Nat /\ K >= 4 /\ nfifos = 2 * K - 2 /\ FirstLeaf = K - 2
      /\ Nodes = 0 .. 2 * K - 3 /\ nparts = 2 * K /\ m \in 0 .. K - 3 /\ m \in Nodes
      /\ fifosize \in Nat \ {0}
  <2>1. TypeOK /\ m \in 0 .. FirstLeaf - 1
    BY DEF IInv, MergeInner
  <2>2. /\ K \in Nat /\ K >= 4 /\ nfifos = 2 * K - 2 /\ FirstLeaf = K - 2
        /\ Nodes = 0 .. 2 * K - 3 /\ nparts = 2 * K /\ fifosize \in Nat \ {0}
    BY <2>1, Sizes
  <2> QED  BY ONLY <2>1, <2>2
<1>2. /\ r = KidR(K, m) /\ l = KidL(K, m) /\ r \in Nodes /\ l \in Nodes
      /\ r # l /\ m # r /\ m # l /\ r >= 0 /\ l >= 0 /\ m >= 0
  BY ONLY <1>1 DEF KidR, KidL, right, left
<1>3. /\ buffer' = [buffer EXCEPT ![m] = Written(m, T)]
      /\ tail' = [tail EXCEPT ![m] = Advanced(@, Len(P))]
      /\ head' = [head EXCEPT ![r] = Advanced(@, a), ![l] = Advanced(@, b)]
      /\ count' = [count EXCEPT ![m] = @ + Len(P), ![r] = @ - a, ![l] = @ - b]
      /\ done' = [done EXCEPT ![m] = e]
      /\ fifosize' = fifosize /\ output' = output /\ parts' = parts /\ m' = m - 1
  BY DEF MergeInner
<1>4. PICK low : Tree(K, Hold, Done, low)
  BY DEF IInv
<1>5. /\ r \in Boxes(K) /\ l \in Boxes(K) /\ m \in Boxes(K) /\ m \in Parents(K)
      /\ Hold[r] = Held(r) /\ Hold[l] = Held(l) /\ Hold[m] = Held(m)
      /\ Done[r] = done[r] /\ Done[l] = done[l] /\ Done[m] = done[m]
      /\ Hold \in [Boxes(K) -> Seq(Tuple)] /\ Done \in [Boxes(K) -> BOOLEAN]
  BY <1>1, <1>2, HoldIs
<1>6. /\ Ascending(Held(r)) /\ Ascending(Held(l))
      /\ Held(r) \in Seq(Tuple) /\ Held(l) \in Seq(Tuple)
      /\ Len(Held(r)) = count[r] /\ Len(Held(l)) = count[l]
      /\ count[m] \in 0 .. fifosize /\ count[r] \in Nat /\ count[l] \in Nat
  <2>1. Ascending(Held(r)) /\ Ascending(Held(l))
    BY <1>4, <1>5 DEF Tree
  <2>2. count \in [Nodes -> 0 .. fifosize]
    BY <1>1 DEF TypeOK
  <2> QED  BY <1>1, <1>2, <2>1, <2>2, ContentIs
<1> DEFINE g == [q \in Lists |-> IF q = "A" THEN done[r] ELSE done[l]]
<1>7. g["A"] = done[r] /\ g["B"] = done[l]
  BY DEF Lists
<1> HIDE DEF r, l, g
<1>8. /\ Allowed(Held(r), Held(l), g, P) /\ P \in PickSeq /\ count[m] + Len(P) <= fifosize
      /\ P # << >> => ~done[m]
  <2>1. CASE wanted /\ Ready(r, l)
    <3>1. /\ Allowed(Held(r), Held(l), g, MergePicks(m, r, l)) /\ MergePicks(m, r, l) \in PickSeq
          /\ count[m] + Len(MergePicks(m, r, l)) <= fifosize
      BY ONLY <1>1, <1>2, <1>6, <1>7, MergePicksAllowed
    <3> QED  BY <2>1, <3>1
  <2>2. CASE ~(wanted /\ Ready(r, l))
    <3>1. P = << >>
      BY <2>2
    <3>2. Allowed(Held(r), Held(l), g, << >>)
      BY <1>6, NothingAllowed
    <3> HIDE DEF P
    <3>3. Len(P) = 0 /\ P \in PickSeq
      BY <3>1, FromEmpty
    <3> QED  BY <1>1, <1>6, <3>1, <3>2, <3>3
  <2> QED  BY <2>1, <2>2
<1> HIDE DEF P
<1>9. a \in 0 .. count[r] /\ b \in 0 .. count[l]
  <2>1. Taken(Two(Held(r), Held(l)), Zero, P)
    BY <1>8 DEF Allowed
  <2> QED  BY <1>6, <2>1, TakenParts
<1>10. T \in Seq(Tuple) /\ Len(T) = Len(P) /\ Len(P) \in Nat
  BY <1>8, TuplesIs
<1>11. /\ Written(m, T) \in [0 .. fifosize - 1 -> Tuple]
       /\ Ring(fifosize, Written(m, T), head[m], count[m] + Len(T)) = Held(m) \o T
       /\ Advanced(tail[m], Len(T)) = Advanced(head[m], count[m] + Len(T))
       /\ count[m] + Len(T) \in 0 .. fifosize
  BY <1>1, <1>8, <1>10, RingGrow
<1>12. /\ Ring(fifosize, buffer[r], Advanced(head[r], a), count[r] - a) = A
       /\ Advanced(head[r], a) \in 0 .. fifosize - 1
       /\ tail[r] = Advanced(Advanced(head[r], a), count[r] - a) /\ count[r] - a \in 0 .. fifosize
       /\ Ring(fifosize, buffer[l], Advanced(head[l], b), count[l] - b) = B
       /\ Advanced(head[l], b) \in 0 .. fifosize - 1
       /\ tail[l] = Advanced(Advanced(head[l], b), count[l] - b) /\ count[l] - b \in 0 .. fifosize
  BY <1>1, <1>2, <1>9, RingShrink
<1>13. /\ count'[m] = count[m] + Len(T) /\ count'[r] = count[r] - a /\ count'[l] = count[l] - b
       /\ \A x \in Nodes \ {m, r, l} : count'[x] = count[x]
       /\ head'[r] = Advanced(head[r], a) /\ head'[l] = Advanced(head[l], b)
       /\ \A x \in Nodes \ {r, l} : head'[x] = head[x]
       /\ tail'[m] = Advanced(tail[m], Len(T)) /\ \A x \in Nodes \ {m} : tail'[x] = tail[x]
       /\ buffer'[m] = Written(m, T) /\ \A x \in Nodes \ {m} : buffer'[x] = buffer[x]
       /\ DOMAIN count' = Nodes /\ DOMAIN head' = Nodes /\ DOMAIN tail' = Nodes /\ DOMAIN buffer' = Nodes
  <2>1. DOMAIN count = Nodes /\ DOMAIN head = Nodes /\ DOMAIN tail = Nodes /\ DOMAIN buffer = Nodes
    BY <1>1 DEF TypeOK
  <2> HIDE DEF T, a, b
  <2> QED  BY ONLY <1>1, <1>2, <1>3, <1>10, <2>1
<1> HIDE DEF wanted, T, a, b, A, B
<1>14. e \in BOOLEAN /\ (Done[m] => e)
       /\ (e => /\ Done[r] /\ Drop(Hold[r], From("A", P)) = << >>
                /\ Done[l] /\ Drop(Hold[l], From("B", P)) = << >>)
  <2>1. /\ Drop(Held(r), a) \in Seq(Tuple) /\ Len(Drop(Held(r), a)) = count[r] - a
        /\ Drop(Held(l), b) \in Seq(Tuple) /\ Len(Drop(Held(l), b)) = count[l] - b
    BY <1>6, <1>9, DropIs
  <2>2. done[m] \in BOOLEAN /\ done[r] \in BOOLEAN /\ done[l] \in BOOLEAN
    BY <1>1, <1>2 DEF TypeOK
  <2>3. CASE wanted
    <3>1. e = (done[r] /\ done[l] /\ count'[r] = 0 /\ count'[l] = 0) /\ ~done[m]
      BY <2>2, <2>3 DEF wanted, Drained, BothDone
    <3>2. e => Drop(Held(r), a) = << >> /\ Drop(Held(l), b) = << >>
      <4> SUFFICES ASSUME e PROVE Drop(Held(r), a) = << >> /\ Drop(Held(l), b) = << >>
        OBVIOUS
      <4>1. count[r] - a = 0 /\ count[l] - b = 0
        BY <1>13, <3>1
      <4>2. Len(Drop(Held(r), a)) = 0 /\ Len(Drop(Held(l), b)) = 0
        BY ONLY <2>1, <4>1
      <4> QED  BY ONLY <2>1, <4>2
    <3> QED  BY <1>5, <3>1, <3>2 DEF a, b
  <2>4. CASE ~wanted
    <3>1. e = done[m]
      BY <2>4
    <3>2. ASSUME done[m]
          PROVE  /\ Done[r] /\ Drop(Hold[r], From("A", P)) = << >>
                 /\ Done[l] /\ Drop(Hold[l], From("B", P)) = << >>
      <4>1. Dead(Hold, Done, r) /\ Dead(Hold, Done, l)
        BY <1>2, <1>4, <1>5, <3>2 DEF Tree, Kids
      <4>2. Held(r) = << >> /\ Held(l) = << >> /\ Done[r] /\ Done[l]
        BY <1>5, <4>1 DEF Dead
      <4>3. count[r] = 0 /\ count[l] = 0
        BY <1>6, <4>2
      <4>4. Len(Drop(Held(r), a)) = 0 /\ Len(Drop(Held(l), b)) = 0
        <5>1. count[r] - a = 0 /\ count[l] - b = 0
          <6>1. a \in 0 .. 0 /\ b \in 0 .. 0
            BY ONLY <1>9, <4>3
          <6>2. a = 0 /\ b = 0
            BY ONLY <6>1
          <6> QED  BY ONLY <4>3, <6>2
        <5> QED  BY ONLY <2>1, <5>1
      <4>5. Drop(Held(r), a) = << >> /\ Drop(Held(l), b) = << >>
        BY <2>1, <4>4
      <4> QED  BY <1>5, <4>2, <4>5 DEF a, b
    <3> QED  BY <1>5, <2>2, <3>1, <3>2
  <2> QED  BY <2>3, <2>4
<1> HIDE DEF e
<1>15. \E low2 : Tree(K, Moved(Hold, m, r, l, P), DoneAt(Done, m, e), low2)
  <2>1. Allowed(Hold[r], Hold[l], g, P) /\ (P # << >> => ~Done[m]) /\ g["A"] = Done[r] /\ g["B"] = Done[l]
    BY <1>5, <1>7, <1>8
  <2> QED  BY ONLY <1>1, <1>2, <1>4, <1>5, <1>14, <2>1, MovePicks
<1>16. TypeOK' /\ K' = K /\ Nodes' = Nodes
  <2>1. nparts' = nparts /\ K' = K /\ nfifos' = nfifos /\ Nodes' = Nodes
    BY <1>3 DEF nparts, K, nfifos, Nodes
  <2>2. /\ buffer' \in [Nodes -> [0 .. fifosize - 1 -> Tuple]]
        /\ count' \in [Nodes -> 0 .. fifosize]
        /\ head' \in [Nodes -> 0 .. fifosize - 1]
        /\ done' \in [Nodes -> BOOLEAN]
    <3>1. /\ buffer \in [Nodes -> [0 .. fifosize - 1 -> Tuple]]
          /\ count \in [Nodes -> 0 .. fifosize]
          /\ head \in [Nodes -> 0 .. fifosize - 1]
          /\ done \in [Nodes -> BOOLEAN]
      BY <1>1 DEF TypeOK
    <3>2. buffer' \in [Nodes -> [0 .. fifosize - 1 -> Tuple]]
      BY ONLY <1>3, <1>11, <3>1
    <3>3. count' \in [Nodes -> 0 .. fifosize]
      BY ONLY <1>3, <1>10, <1>11, <1>12, <1>2, <1>1, <3>1
    <3>4. head' \in [Nodes -> 0 .. fifosize - 1]
      BY ONLY <1>3, <1>12, <1>2, <3>1
    <3>5. done' \in [Nodes -> BOOLEAN]
      BY ONLY <1>3, <1>14, <3>1
    <3> QED  BY ONLY <3>2, <3>3, <3>4, <3>5
  <2>3. \A n \in Nodes : tail'[n] = Advanced(head'[n], count'[n])
    <3>1. \A n \in Nodes : tail[n] = Advanced(head[n], count[n])
      BY <1>1 DEF TypeOK
    <3>2. tail'[m] = Advanced(head'[m], count'[m])
      BY ONLY <1>1, <1>2, <1>11, <1>13
    <3>3. tail'[r] = Advanced(head'[r], count'[r]) /\ tail'[l] = Advanced(head'[l], count'[l])
      BY ONLY <1>1, <1>2, <1>12, <1>13
    <3>4. \A n \in Nodes \ {m, r, l} : tail'[n] = Advanced(head'[n], count'[n])
      BY ONLY <1>13, <3>1
    <3> QED  BY ONLY <3>2, <3>3, <3>4
  <2>4. tail' = [n \in Nodes |-> tail'[n]]
    <3>1. tail = [n \in Nodes |-> Advanced(head[n], count[n])]
      BY <1>1 DEF TypeOK
    <3> QED  BY ONLY <1>3, <3>1
  <2>5. tail' = [n \in Nodes |-> (head'[n] + count'[n]) % fifosize']
    BY <1>3, <2>3, <2>4 DEF Advanced
  <2>6. /\ m' \in -2 .. nfifos - 1 /\ Len(parts) \in {8, 16, 32, 64, 128}
        /\ fifosize \in Nat \ {0, 1} /\ output \in Seq(Tuple) /\ parts \in Seq(Seq(Tuple))
    BY <1>1, <1>3 DEF TypeOK
  <2> QED  BY ONLY <1>3, <2>1, <2>2, <2>5, <2>6 DEF TypeOK, Advanced
<1>17. Hold' = Moved(Hold, m, r, l, P)
  <2> DEFINE H2 == Moved(Hold, m, r, l, P)
  <2>1. /\ H2 = [x \in Boxes(K) |-> H2[x]] /\ Hold' = [x \in Boxes(K) |-> Hold'[x]]
        /\ H2[m] = Held(m) \o T /\ H2[r] = A /\ H2[l] = B
        /\ \A x \in Boxes(K) \ {m, r, l} : H2[x] = Hold[x]
    BY <1>2, <1>5, <1>16 DEF Hold, Moved, T, A, B, a, b
  <2> HIDE DEF H2
  <2>2. \A x \in Boxes(K) : Hold'[x] = IF x = -1 THEN output ELSE IF x < -1 THEN parts[- x - 1]
                            ELSE Ring(fifosize, buffer'[x], head'[x], count'[x])
    BY <1>3, <1>16 DEF Hold, Held
  <2>3. \A x \in Nodes : Hold'[x] = Ring(fifosize, buffer'[x], head'[x], count'[x])
    <3> SUFFICES ASSUME NEW x \in Nodes
                 PROVE  Hold'[x] = Ring(fifosize, buffer'[x], head'[x], count'[x])
      OBVIOUS
    <3>1. x # -1 /\ ~(x < -1)
      BY <1>1
    <3>2. x \in Boxes(K)
      BY <1>1, HoldIs
    <3> QED  BY <2>2, <3>1, <3>2
  <2>4. ASSUME NEW x \in Boxes(K) PROVE Hold'[x] = H2[x]
    <3>1. CASE x \in Nodes /\ x \notin {m, r, l}
      <4>1. Hold[x] = Held(x)
        BY <1>1, <3>1, HoldIs
      <4> QED  BY <1>13, <2>1, <2>3, <3>1, <4>1 DEF Held
    <3>2. CASE x = m
      BY <1>1, <1>2, <1>11, <1>13, <2>1, <2>3, <3>2
    <3>3. CASE x = r
      BY <1>2, <1>12, <1>13, <2>1, <2>3, <3>3
    <3>4. CASE x = l
      BY <1>2, <1>12, <1>13, <2>1, <2>3, <3>4
    <3>5. CASE x = -1 \/ x < -1
      <4>1. x \notin {m, r, l}
        BY ONLY <1>2, <1>1, <3>5
      <4>2. Hold'[x] = IF x = -1 THEN output ELSE parts[- x - 1]
        BY <2>2, <3>5
      <4>3. Hold[x] = IF x = -1 THEN output ELSE parts[- x - 1]
        BY <3>5 DEF Hold
      <4> QED  BY <2>1, <4>1, <4>2, <4>3
    <3> QED  BY <1>1, <3>1, <3>2, <3>3, <3>4, <3>5, HoldIs
  <2> QED  BY ONLY <2>1, <2>4 DEF H2
<1>18. Done' = DoneAt(Done, m, e)
  <2>1. \A x \in Boxes(K) : x = -1 \/ x < -1 \/ x \in Nodes
    BY <1>1, HoldIs
  <2>2. \A x \in Nodes : done'[x] = IF x = m THEN e ELSE done[x]
    BY <1>1, <1>3 DEF TypeOK
  <2>3. m # -1 /\ ~(m < -1)
    BY <1>1
  <2>4. Done' = [x \in Boxes(K) |-> IF x = -1 THEN FALSE ELSE IF x < -1 THEN TRUE ELSE done'[x]]
    BY <1>16 DEF Done
  <2>5. DoneAt(Done, m, e) = [x \in Boxes(K) |-> IF x = m THEN e ELSE Done[x]]
    BY <1>5 DEF DoneAt
  <2>6. \A x \in Boxes(K) : (IF x = -1 THEN FALSE ELSE IF x < -1 THEN TRUE ELSE done'[x]) =
                            IF x = m THEN e ELSE Done[x]
    BY <2>1, <2>2, <2>3 DEF Done
  <2> QED  BY ONLY <2>4, <2>5, <2>6
<1>19. Moves(m)
  <2>1. Taken(Two(Hold[r], Hold[l]), Zero, P)
    BY <1>5, <1>8 DEF Allowed
  <2> QED  BY <1>2, <1>17, <2>1 DEF Moves
<1> QED  BY <1>15, <1>16, <1>17, <1>18, <1>19 DEF IInv

(* What leaves the tree are the smallest of both nodes at its top, and all *)
(* of them once both are done.                                             *)
LEMMA StorePicksAllowed ==
  ASSUME TypeOK, Ascending(Held(0)), Ascending(Held(1)), NEW g, g["A"] = done[0], g["B"] = done[1]
  PROVE  /\ Allowed(Held(0), Held(1), g, StorePicks) /\ StorePicks \in PickSeq
         /\ BothDone(0, 1) => Len(StorePicks) = count[0] + count[1]
<1> DEFINE A == Held(0)
           B == Held(1)
           slots == count[0] + count[1]
           M == Kernel(A, B, slots)
           a == From("A", M)
           b == From("B", M)
           restA == Drop(A, a)
           restB == Drop(B, b)
           q == IF restA # << >> THEN count[0] ELSE count[1]
           P == StorePicks
<1>0. 0 \in Nodes /\ 1 \in Nodes
  BY Sizes
<1>1. /\ A = Content(0) /\ A \in Seq(Tuple) /\ Len(A) = count[0] /\ count[0] \in Nat
      /\ B = Content(1) /\ B \in Seq(Tuple) /\ Len(B) = count[1] /\ count[1] \in Nat
      /\ "A" \in Lists /\ "B" \in Lists
  BY <1>0, ContentIs DEF Lists
<1>2. Ascending(A) /\ Ascending(B) /\ slots \in Nat
  BY <1>1
<1> HIDE DEF A, B, slots
<1>3. /\ Allowed(A, B, g, M) /\ (a = Len(A) \/ b = Len(B) \/ Len(M) = slots)
      /\ a \in 0 .. Len(A) /\ b \in 0 .. Len(B) /\ Len(M) = a + b /\ M \in PickSeq
  <2>1. Allowed(A, B, g, M) /\ (a = Len(A) \/ b = Len(B) \/ Len(M) = slots)
    BY <1>1, <1>2, KernelAllowed
  <2> HIDE DEF M
  <2>2. Taken(Two(A, B), Zero, M)
    BY <2>1 DEF Allowed
  <2>3. a \in 0 .. Len(A) /\ b \in 0 .. Len(B) /\ Len(M) = a + b /\ M \in PickSeq
    BY <1>1, <2>2, TakenParts
  <2> QED  BY <2>1, <2>3
<1> HIDE DEF M, a, b
<1>4. a = Len(A) \/ b = Len(B)
  BY <1>1, <1>3 DEF slots
<1>5. /\ restA \in Seq(Tuple) /\ Len(restA) = Len(A) - a /\ (restA = << >> <=> a = Len(A))
      /\ restB \in Seq(Tuple) /\ Len(restB) = Len(B) - b /\ (restB = << >> <=> b = Len(B))
  <2>1. /\ restA \in Seq(Tuple) /\ Len(restA) = Len(A) - a
        /\ restB \in Seq(Tuple) /\ Len(restB) = Len(B) - b
    BY <1>1, <1>3, DropIs
  <2> HIDE DEF restA, restB
  <2>2. (restA = << >> <=> Len(restA) = 0) /\ (restB = << >> <=> Len(restB) = 0)
    BY <2>1
  <2>3. (Len(A) - a = 0 <=> a = Len(A)) /\ (Len(B) - b = 0 <=> b = Len(B))
    BY ONLY <1>1, <1>3
  <2> QED  BY ONLY <2>1, <2>2, <2>3
<1> HIDE DEF restA, restB
<1>6. CASE OnlyLeft(0, 1)
  <2>1. P = Tagged(B, "B", count[1]) /\ ~BothDone(0, 1)
    BY <1>1, <1>6 DEF StorePicks, OnlyLeft, BothDone
  <2>2. \A l2 \in Lists : l2 # "B" => g[l2] /\ Two(A, B)[l2] = << >>
    <3>1. g["A"] /\ A = << >>
      BY <1>1, <1>6 DEF OnlyLeft
    <3> QED  BY <3>1, TwoIs DEF Lists
  <2>3. Allowed(A, B, g, Tagged(Two(A, B)["B"], "B", count[1]))
    BY ONLY <1>1, <1>2, <2>2, CopyAllowed
  <2>4. Allowed(A, B, g, P)
    BY <2>1, <2>3, TwoIs
  <2> QED  BY <2>1, <2>4 DEF Allowed, Taken, A, B
<1>7. CASE ~OnlyLeft(0, 1) /\ OnlyRight(0, 1)
  <2>1. P = Tagged(A, "A", count[0]) /\ ~BothDone(0, 1)
    BY <1>1, <1>7 DEF StorePicks, OnlyRight, BothDone
  <2>2. \A l2 \in Lists : l2 # "A" => g[l2] /\ Two(A, B)[l2] = << >>
    <3>1. g["B"] /\ B = << >>
      BY <1>1, <1>7 DEF OnlyRight
    <3> QED  BY <3>1, TwoIs DEF Lists
  <2>3. Allowed(A, B, g, Tagged(Two(A, B)["A"], "A", count[0]))
    BY ONLY <1>1, <1>2, <2>2, CopyAllowed
  <2>4. Allowed(A, B, g, P)
    BY <2>1, <2>3, TwoIs
  <2> QED  BY <2>1, <2>4 DEF Allowed, Taken, A, B
<1>8. CASE ~OnlyLeft(0, 1) /\ ~OnlyRight(0, 1) /\ ~BothDone(0, 1)
  <2>1. P = M \o << >>
    BY <1>1, <1>8 DEF StorePicks, M, slots
  <2>2. P = M
    BY <1>3, <2>1 DEF PickSeq
  <2> QED  BY <1>3, <1>8, <2>2 DEF A, B
<1>9. CASE ~OnlyLeft(0, 1) /\ ~OnlyRight(0, 1) /\ BothDone(0, 1)
  <2> DEFINE C == Tagged(restA, "A", count[0])
             E == Tagged(restB, "B", count[1])
  <2>1. P = M \o (C \o E)
    BY <1>1, <1>9 DEF StorePicks, M, slots, restA, restB, a, b
  <2>2. C \in PickSeq /\ Len(C) \in Nat /\ Len(C) <= Len(restA)
        /\ E \in PickSeq /\ Len(E) \in Nat /\ Len(E) <= Len(restB)
    BY ONLY <1>1, <1>5, TaggedLength
  <2>3. P = Fill(A, B, slots, q) /\ q \in Nat /\ ((b = Len(B) /\ q = Len(A)) \/ (a = Len(A) /\ q = Len(B)))
    <3>1. CASE restA # << >>
      <4>1. restB = << >>
        BY <1>4, <1>5, <3>1
      <4>2. Len(restB) = 0
        BY ONLY <4>1
      <4> HIDE DEF C, E
      <4>3. Len(E) = 0
        BY ONLY <2>2, <4>2
      <4>4. C \o E = C
        <5>1. C \in Seq(Tuple \X Lists) /\ E \in Seq(Tuple \X Lists)
          BY ONLY <2>2 DEF PickSeq
        <5>2. E = << >>
          BY ONLY <5>1, <4>3
        <5> QED  BY ONLY <5>1, <5>2
      <4>5. q = count[0]
        BY <3>1
      <4>6. Fill(A, B, slots, q) = M \o C
        BY <3>1, <4>5 DEF Fill, M, a, b, restA, restB, C
      <4> QED  BY <1>1, <1>5, <2>1, <4>1, <4>4, <4>5, <4>6
    <3>2. CASE restA = << >>
      <4>1. Len(restA) = 0 /\ a = Len(A)
        BY <1>5, <3>2
      <4> HIDE DEF C, E
      <4>3. Len(C) = 0
        BY ONLY <2>2, <4>1
      <4>4. C \o E = E
        <5>1. C \in Seq(Tuple \X Lists) /\ E \in Seq(Tuple \X Lists)
          BY ONLY <2>2 DEF PickSeq
        <5>2. C = << >>
          BY ONLY <5>1, <4>3
        <5> QED  BY ONLY <5>1, <5>2
      <4>5. q = count[1]
        BY <3>2
      <4>6. Fill(A, B, slots, q) = M \o E
        BY <3>2, <4>5 DEF Fill, M, a, b, restA, restB, E
      <4> QED  BY <1>1, <2>1, <4>1, <4>4, <4>5, <4>6
    <3> QED  BY <3>1, <3>2
  <2> HIDE DEF C, E, q
  <2>4. g["A"] /\ g["B"]
    BY <1>9 DEF BothDone
  <2>5. Len(Kernel(A, B, slots)) = slots => q = 0 \/ slots >= Len(A) + Len(B)
    BY <1>1 DEF slots
  <2>6. /\ Allowed(A, B, g, Fill(A, B, slots, q))
        /\ Len(Fill(A, B, slots, q)) <= Len(A) + Len(B)
        /\ \/ Len(Fill(A, B, slots, q)) >= Len(Kernel(A, B, slots)) + q
           \/ Len(Fill(A, B, slots, q)) = Len(A) + Len(B)
    BY ONLY <1>1, <1>2, <2>3, <2>4, <2>5, FillAllowed
  <2>7. /\ Allowed(A, B, g, P) /\ Len(P) <= Len(A) + Len(B)
        /\ Len(P) >= Len(M) + q \/ Len(P) = Len(A) + Len(B)
    BY <2>3, <2>6 DEF M
  <2>8. P \in PickSeq /\ Len(P) \in Nat
    BY <2>7, TuplesIs DEF Allowed, Taken
  <2> HIDE DEF P
  <2>9. Len(P) = count[0] + count[1]
    <3>1. Len(M) + q >= Len(A) + Len(B)
      <4>1. Len(A) \in Nat /\ Len(B) \in Nat /\ a \in Nat /\ b \in Nat /\ Len(M) = a + b
        BY ONLY <1>1, <1>3
      <4> QED  BY ONLY <2>3, <4>1
    <3>2. Len(M) + q \in Nat /\ Len(A) + Len(B) \in Nat
      BY ONLY <1>1, <1>3, <2>3
    <3>3. Len(P) = Len(A) + Len(B)
      BY ONLY <2>7, <2>8, <3>1, <3>2
    <3> QED  BY <1>1, <3>3
  <2> QED  BY <2>7, <2>8, <2>9 DEF A, B, P
<1> QED  BY <1>6, <1>7, <1>8, <1>9

(* Storing what leaves the tree keeps it in order. *)
LEMMA StoreRootInductive ==
  ASSUME IInv, StoreRoot
  PROVE  /\ IInv' /\ K' = K /\ Moves(-1)
         /\ BothDone(0, 1) => Hold'[0] = << >> /\ Hold'[1] = << >>
<1> DEFINE P == StorePicks
           a == From("A", P)
           b == From("B", P)
           T == Tuples(P)
           A == Drop(Held(0), a)
           B == Drop(Held(1), b)
           taken(n) == IF n = 0 THEN a ELSE IF n = 1 THEN b ELSE 0
<1>1. /\ TypeOK /\ K \in Nat /\ K >= 4 /\ nfifos = 2 * K - 2
      /\ Nodes = 0 .. 2 * K - 3 /\ nparts = 2 * K /\ 0 \in Nodes /\ 1 \in Nodes /\ -1 \in Parents(K)
      /\ fifosize \in Nat \ {0}
  <2>1. TypeOK
    BY DEF IInv
  <2>2. /\ K \in Nat /\ K >= 4 /\ nfifos = 2 * K - 2
        /\ Nodes = 0 .. 2 * K - 3 /\ nparts = 2 * K /\ fifosize \in Nat \ {0}
    BY <2>1, Sizes
  <2> QED  BY ONLY <2>1, <2>2 DEF Parents
<1>2. KidR(K, -1) = 0 /\ KidL(K, -1) = 1
  BY <1>1 DEF KidR, KidL
<1>3. /\ output' = output \o T
      /\ head' = [n \in Nodes |-> Advanced(head[n], taken(n))]
      /\ count' = [n \in Nodes |-> count[n] - taken(n)]
      /\ m' = (IF ending THEN -2 ELSE nfifos - 1)
      /\ fifosize' = fifosize /\ parts' = parts /\ buffer' = buffer /\ tail' = tail /\ done' = done
  BY DEF StoreRoot
<1>4. PICK low : Tree(K, Hold, Done, low)
  BY DEF IInv
<1>5. /\ 0 \in Boxes(K) /\ 1 \in Boxes(K) /\ -1 \in Boxes(K)
      /\ Hold[0] = Held(0) /\ Hold[1] = Held(1) /\ Hold[-1] = output
      /\ Done[0] = done[0] /\ Done[1] = done[1] /\ Done[-1] = FALSE
      /\ Hold \in [Boxes(K) -> Seq(Tuple)] /\ Done \in [Boxes(K) -> BOOLEAN]
  BY <1>1, HoldIs
<1>6. /\ Ascending(Held(0)) /\ Ascending(Held(1))
      /\ Held(0) \in Seq(Tuple) /\ Held(1) \in Seq(Tuple)
      /\ Len(Held(0)) = count[0] /\ Len(Held(1)) = count[1]
      /\ \A n \in Nodes : count[n] \in 0 .. fifosize
  <2>1. Ascending(Held(0)) /\ Ascending(Held(1))
    BY <1>4, <1>5 DEF Tree
  <2>2. count \in [Nodes -> 0 .. fifosize]
    BY <1>1 DEF TypeOK
  <2> QED  BY <1>1, <2>1, <2>2, ContentIs
<1> DEFINE g == [q \in Lists |-> IF q = "A" THEN done[0] ELSE done[1]]
<1>7. g["A"] = done[0] /\ g["B"] = done[1]
  BY DEF Lists
<1> HIDE DEF g
<1>8. Allowed(Held(0), Held(1), g, P) /\ P \in PickSeq
      /\ (BothDone(0, 1) => Len(P) = count[0] + count[1])
  BY <1>1, <1>6, <1>7, StorePicksAllowed
<1> HIDE DEF P
<1>9. a \in 0 .. count[0] /\ b \in 0 .. count[1] /\ Len(P) = a + b
  <2>1. Taken(Two(Held(0), Held(1)), Zero, P)
    BY <1>8 DEF Allowed
  <2> QED  BY <1>6, <2>1, TakenParts
<1>10. T \in Seq(Tuple)
  BY <1>8, TuplesIs
<1> HIDE DEF a, b, T
<1>11. ASSUME NEW n \in Nodes
       PROVE  /\ taken(n) \in 0 .. count[n]
              /\ Ring(fifosize, buffer[n], Advanced(head[n], taken(n)), count[n] - taken(n)) =
                   Drop(Held(n), taken(n))
              /\ Advanced(head[n], taken(n)) \in 0 .. fifosize - 1
              /\ tail[n] = Advanced(Advanced(head[n], taken(n)), count[n] - taken(n))
              /\ count[n] - taken(n) \in 0 .. fifosize
              /\ Drop(Held(n), 0) = Held(n)
  <2>1. taken(n) \in 0 .. count[n]
    <3>1. count[n] \in 0 .. fifosize
      BY <1>6
    <3> QED  BY <1>1, <1>9, <3>1
  <2>2. Held(n) \in Seq(Tuple) /\ Len(Held(n)) = count[n] /\ count[n] \in Nat
    BY <1>1, <1>6, ContentIs
  <2> HIDE DEF taken
  <2>3. Drop(Held(n), 0) = Held(n)
    BY <2>1, <2>2, DropRest
  <2> QED  BY <1>1, <2>1, <2>3, RingShrink
<1>12. \E low2 : Tree(K, Moved(Hold, -1, 0, 1, P), DoneAt(Done, -1, FALSE), low2)
  <2>1. Allowed(Hold[0], Hold[1], g, P) /\ g["A"] = Done[0] /\ g["B"] = Done[1] /\ ~Done[-1]
    BY <1>5, <1>7, <1>8
  <2> DEFINE n == -1
             e == FALSE
  <2>2. n \in Parents(K) /\ 0 = KidR(K, n) /\ 1 = KidL(K, n) /\ e \in BOOLEAN /\ ~e /\ ~Done[n]
    BY <1>1, <1>2, <2>1
  <2> HIDE DEF n, e
  <2>3. \E low2 : Tree(K, Moved(Hold, n, 0, 1, P), DoneAt(Done, n, e), low2)
    BY ONLY <1>1, <1>4, <2>1, <2>2, MovePicks
  <2> QED  BY <2>3 DEF n, e
<1> HIDE DEF taken
<1>13. TypeOK' /\ K' = K /\ Nodes' = Nodes
  <2>1. nparts' = nparts /\ K' = K /\ nfifos' = nfifos /\ Nodes' = Nodes
    BY <1>3 DEF nparts, K, nfifos, Nodes
  <2>2. count' \in [Nodes -> 0 .. fifosize] /\ head' \in [Nodes -> 0 .. fifosize - 1]
    BY ONLY <1>3, <1>11
  <2>3. \A n \in Nodes : tail'[n] = Advanced(head'[n], count'[n])
    BY ONLY <1>3, <1>11
  <2>4. tail' = [n \in Nodes |-> tail'[n]]
    <3>1. tail = [n \in Nodes |-> Advanced(head[n], count[n])]
      BY <1>1 DEF TypeOK
    <3> QED  BY ONLY <1>3, <3>1
  <2>5. tail' = [n \in Nodes |-> (head'[n] + count'[n]) % fifosize']
    BY <1>3, <2>3, <2>4 DEF Advanced
  <2>6. /\ Len(parts) \in {8, 16, 32, 64, 128}
        /\ fifosize \in Nat \ {0, 1} /\ output \in Seq(Tuple) /\ parts \in Seq(Seq(Tuple))
        /\ buffer \in [Nodes -> [0 .. fifosize - 1 -> Tuple]] /\ done \in [Nodes -> BOOLEAN]
    BY <1>1 DEF TypeOK
  <2>7. m' \in -2 .. nfifos - 1
    BY ONLY <1>1, <1>3
  <2>8. output' \in Seq(Tuple)
    BY ONLY <1>3, <1>10, <2>6
  <2> QED  BY ONLY <1>3, <2>1, <2>2, <2>5, <2>6, <2>7, <2>8 DEF TypeOK, Advanced
<1>14. Hold' = Moved(Hold, -1, 0, 1, P) /\ Hold'[0] = A /\ Hold'[1] = B
  <2> DEFINE H2 == Moved(Hold, -1, 0, 1, P)
  <2>1. /\ H2 = [x \in Boxes(K) |-> H2[x]] /\ Hold' = [x \in Boxes(K) |-> Hold'[x]]
        /\ H2[-1] = output \o T /\ H2[0] = A /\ H2[1] = B
        /\ \A x \in Boxes(K) \ {-1, 0, 1} : H2[x] = Hold[x]
    <3>1. PICK n : n = -1
      OBVIOUS
    <3>2. /\ H2 = Moved(Hold, n, 0, 1, P) /\ n \in Boxes(K) /\ n # 0 /\ n # 1 /\ Hold[n] = output
          /\ Hold' = [x \in Boxes(K) |-> Hold'[x]]
      BY <1>5, <1>13, <3>1 DEF Hold
    <3> HIDE DEF H2
    <3>3. /\ H2 = [x \in Boxes(K) |-> H2[x]] /\ H2[n] = output \o T /\ H2[0] = A /\ H2[1] = B
          /\ \A x \in Boxes(K) \ {n, 0, 1} : H2[x] = Hold[x]
      <4>1. /\ Hold \in [Boxes(K) -> Seq(Tuple)] /\ 0 \in Boxes(K) /\ 1 \in Boxes(K)
            /\ Hold[0] = Held(0) /\ Hold[1] = Held(1)
        BY ONLY <1>5
      <4>2. H2 = [Hold EXCEPT ![n] = @ \o T, ![0] = Drop(@, a), ![1] = Drop(@, b)]
        BY ONLY <3>2 DEF Moved, T, a, b
      <4> QED  BY ONLY <3>2, <4>1, <4>2
    <3> QED  BY ONLY <3>1, <3>2, <3>3
  <2> HIDE DEF H2
  <2>2. \A x \in Boxes(K) : Hold'[x] = IF x = -1 THEN output' ELSE IF x < -1 THEN parts[- x - 1]
                            ELSE Ring(fifosize, buffer[x], head'[x], count'[x])
    BY <1>3, <1>13 DEF Hold, Held
  <2>3. ASSUME NEW x \in Nodes PROVE Hold'[x] = Drop(Held(x), taken(x)) /\ Hold[x] = Held(x)
    <3>1. x # -1 /\ ~(x < -1) /\ x \in Boxes(K) /\ Hold[x] = Held(x)
      <4>1. x # -1 /\ ~(x < -1)
        BY <1>1
      <4> QED  BY <1>1, <4>1, HoldIs
    <3>2. Hold'[x] = Ring(fifosize, buffer[x], head'[x], count'[x])
      BY <2>2, <3>1
    <3>3. head'[x] = Advanced(head[x], taken(x)) /\ count'[x] = count[x] - taken(x)
      BY <1>3
    <3> QED  BY <1>11, <3>1, <3>2, <3>3
  <2>4. ASSUME NEW x \in Boxes(K) PROVE Hold'[x] = H2[x]
    <3>1. CASE x \in Nodes /\ x # 0 /\ x # 1
      <4>1. taken(x) = 0 /\ x # -1
        BY <1>1, <3>1 DEF taken
      <4> QED  BY <1>11, <2>1, <2>3, <3>1, <4>1
    <3>2. CASE x = 0
      <4>1. taken(x) = a
        BY <3>2 DEF taken
      <4> QED  BY <1>1, <2>1, <2>3, <3>2, <4>1
    <3>3. CASE x = 1
      <4>1. taken(x) = b
        BY <3>3 DEF taken
      <4> QED  BY <1>1, <2>1, <2>3, <3>3, <4>1
    <3>4. CASE x = -1
      BY <1>3, <2>1, <2>2, <3>4
    <3>5. CASE x < -1
      <4>1. x \notin {-1, 0, 1}
        BY <3>5 DEF Boxes
      <4>2. Hold'[x] = parts[- x - 1]
        BY <2>2, <3>5, <4>1
      <4>3. Hold[x] = parts[- x - 1]
        BY <3>5, <4>1 DEF Hold
      <4> QED  BY <2>1, <4>1, <4>2, <4>3
    <3> QED  BY <1>1, <3>1, <3>2, <3>3, <3>4, <3>5, HoldIs
  <2> QED  BY ONLY <2>1, <2>4 DEF H2
<1>15. Done' = DoneAt(Done, -1, FALSE)
  <2>1. Done' = Done
    BY <1>3, <1>13 DEF Done
  <2>2. DoneAt(Done, -1, FALSE) = Done
    BY <1>5 DEF DoneAt
  <2> QED  BY <2>1, <2>2
<1>16. Moves(-1)
  <2>1. Taken(Two(Hold[0], Hold[1]), Zero, P)
    BY <1>5, <1>8 DEF Allowed
  <2> QED  BY <1>2, <1>14, <2>1 DEF Moves
<1>17. ASSUME BothDone(0, 1) PROVE Hold'[0] = << >> /\ Hold'[1] = << >>
  <2>1. a + b = count[0] + count[1]
    BY <1>8, <1>9, <1>17
  <2>2. count[0] \in Nat /\ count[1] \in Nat
    BY <1>1, <1>6
  <2>3. count[0] - a = 0 /\ count[1] - b = 0
    BY ONLY <1>9, <2>1, <2>2
  <2>4. /\ A \in Seq(Tuple) /\ Len(A) = count[0] - a
        /\ B \in Seq(Tuple) /\ Len(B) = count[1] - b
    BY <1>6, <1>9, DropIs
  <2> HIDE DEF A, B
  <2>5. A = << >> /\ B = << >>
    BY ONLY <2>3, <2>4
  <2> QED  BY <1>14, <2>5
<1> QED  BY <1>12, <1>13, <1>14, <1>15, <1>16, <1>17 DEF IInv

(* The tree is in order from the start: nothing is below the runs. *)
LEMMA InitInductive == ASSUME Init PROVE IInv
<1>1. /\ parts \in Runs /\ fifosize \in FifoSizes
      /\ buffer = [n \in Nodes |-> [slot \in 0 .. fifosize - 1 |-> << 0, 0 >>]]
      /\ head = [n \in Nodes |-> 0] /\ tail = [n \in Nodes |-> 0]
      /\ count = [n \in Nodes |-> 0] /\ done = [n \in Nodes |-> FALSE]
      /\ m = nfifos - 1 /\ output = << >>
  BY DEF Init
<1>2. /\ parts \in Seq(Seq(Tuple)) /\ Len(parts) \in {8, 16, 32, 64, 128}
      /\ fifosize \in Nat \ {0, 1} /\ \A c \in DOMAIN parts : Sorted(parts[c])
  BY <1>1, MergeAssumption DEF Tuple
<1>3. TypeOK
  <2>1. 0 % fifosize = 0 /\ 0 \in 0 .. fifosize - 1 /\ 0 \in 0 .. fifosize
    <3>1. fifosize \in Nat \ {0} /\ 0 \in 0 .. 2 * fifosize - 1 /\ 0 < fifosize
      BY <1>2
    <3>2. 0 % fifosize = 0
      BY ONLY <3>1, ModRing
    <3> QED  BY <1>2, <3>2
  <2>2. tail = [n \in Nodes |-> Advanced(head[n], count[n])]
    <3>1. \A n \in Nodes : Advanced(head[n], count[n]) = 0
      BY <1>1, <2>1 DEF Advanced
    <3> QED  BY <1>1, <3>1
  <2>3. m \in -2 .. nfifos - 1
    BY <1>1, <1>2 DEF nfifos, nparts
  <2>4. << 0, 0 >> \in Tuple /\ output \in Seq(Tuple)
    BY <1>1 DEF Tuple
  <2>5. buffer \in [Nodes -> [0 .. fifosize - 1 -> Tuple]]
    BY <1>1, <2>4
  <2>6. /\ head \in [Nodes -> 0 .. fifosize - 1] /\ count \in [Nodes -> 0 .. fifosize]
        /\ done \in [Nodes -> BOOLEAN]
    BY <1>1, <2>1
  <2> QED  BY <1>2, <2>2, <2>3, <2>4, <2>5, <2>6 DEF TypeOK
<1> DEFINE low == [b \in Boxes(K) |-> 0]
<1>4. /\ Hold \in [Boxes(K) -> Seq(Tuple)] /\ Done \in [Boxes(K) -> BOOLEAN]
      /\ low \in [Boxes(K) -> Nat]
  BY <1>3, HoldIs
<1>5. \A n \in Parents(K) : Hold[n] = << >> /\ Done[n] = FALSE
  <2>1. K \in Nat /\ K >= 4 /\ Nodes = 0 .. 2 * K - 3
    BY <1>3, Sizes
  <2>2. \A n \in Parents(K) : n = -1 \/ n \in Nodes
    BY ONLY <2>1 DEF Parents
  <2>3. ASSUME NEW n \in Nodes PROVE Hold[n] = << >> /\ Done[n] = FALSE
    <3>1. Held(n) \in Seq(Tuple) /\ Len(Held(n)) = 0
      BY <1>1, <1>3, ContentIs
    <3>2. Held(n) = << >>
      BY <3>1
    <3>3. done[n] = FALSE
      BY <1>1
    <3> QED  BY <1>3, <3>2, <3>3, HoldIs
  <2>4. Hold[-1] = << >> /\ Done[-1] = FALSE
    BY <1>1, <1>3, HoldIs
  <2> QED  BY <2>2, <2>3, <2>4
<1>6. \A b \in Boxes(K) : Ascending(Hold[b]) /\ \A x \in 1 .. Len(Hold[b]) : Hold[b][x][1] \in Nat
  <2> SUFFICES ASSUME NEW b \in Boxes(K)
               PROVE  Ascending(Hold[b]) /\ \A x \in 1 .. Len(Hold[b]) : Hold[b][x][1] \in Nat
    OBVIOUS
  <2>1. Hold[b] \in Seq(Tuple)
    BY <1>4
  <2>2. \A x \in 1 .. Len(Hold[b]) : Hold[b][x][1] \in Nat
    <3>1. \A x \in 1 .. Len(Hold[b]) : Hold[b][x] \in Tuple
      BY <2>1
    <3> QED  BY <3>1 DEF Tuple
  <2>3. CASE b \in Parents(K)
    <3>1. Hold[b] = << >>
      BY <1>5, <2>3
    <3> QED  BY <2>2, <3>1 DEF Ascending
  <2>4. CASE b < -1 /\ - b - 1 \in 1 .. nparts
    <3>1. PICK c : c = - b - 1
      OBVIOUS
    <3>2. c \in 1 .. nparts /\ Hold[b] = parts[c]
      BY <2>4, <3>1 DEF Hold
    <3>3. Sorted(parts[c]) /\ parts[c] \in Seq(Tuple)
      BY <1>2, <3>2 DEF nparts
    <3> QED  BY <2>2, <3>2, <3>3, SortedIs DEF Ascending
  <2>5. b \in Parents(K) \/ (b < -1 /\ - b - 1 \in 1 .. nparts)
    <3>1. K \in Nat /\ K >= 4
      BY <1>3, Sizes
    <3>2. -1 \in Parents(K)
      BY ONLY <3>1 DEF Parents
    <3> QED  BY <1>3, <3>2, HoldIs
  <2> QED  BY <2>3, <2>4, <2>5
<1>7. Tree(K, Hold, Done, low)
  <2>1. \A n \in Parents(K) : Kids(K, n) \subseteq Boxes(K)
    <3>1. K \in Nat /\ K >= 4
      BY <1>3, Sizes
    <3> QED  BY ONLY <3>1, KidsIs DEF Kids
  <2>2. \A b \in Boxes(K) : low[b] = 0
    OBVIOUS
  <2>3. \A b \in Boxes(K) : \A x \in 1 .. Len(Hold[b]) : low[b] <= Hold[b][x][1]
    BY <1>6, <2>2
  <2> HIDE DEF low
  <2>4. \A n \in Parents(K) : n \in Boxes(K)
    BY <1>3, Sizes, KidsIs
  <2>5. \A n \in Parents(K) : \A c \in Kids(K, n) :
          low[n] <= low[c] /\ \A x \in 1 .. Len(Hold[n]) : Hold[n][x][1] <= low[c]
    <3> SUFFICES ASSUME NEW n \in Parents(K), NEW c \in Kids(K, n)
                 PROVE  low[n] <= low[c] /\ \A x \in 1 .. Len(Hold[n]) : Hold[n][x][1] <= low[c]
      OBVIOUS
    <3>1. low[n] = 0 /\ low[c] = 0
      BY <2>1, <2>2, <2>4
    <3>2. Hold[n] = << >>
      BY <1>5
    <3> QED  BY <3>1, <3>2
  <2> QED  BY <1>4, <1>5, <1>6, <2>3, <2>5 DEF Tree
<1> QED  BY <1>3, <1>7 DEF IInv

(* In a tree in order the rings are. *)
LEMMA InvariantImplies == IInv => RingsSound
<1> SUFFICES ASSUME IInv, NEW n \in Nodes
             PROVE  /\ count[n] \in 0 .. fifosize
                    /\ tail[n] = Advanced(head[n], count[n])
                    /\ Sorted(Content(n))
                    /\ \A x \in ToSet(Content(n)), later \in Below(n) : x[1] <= later[1]
  BY DEF RingsSound
<1>1. /\ TypeOK /\ K \in Nat /\ K >= 4 /\ nfifos = 2 * K - 2 /\ FirstLeaf = K - 2
      /\ Nodes = 0 .. 2 * K - 3 /\ nparts = 2 * K
  <2>1. TypeOK
    BY DEF IInv
  <2> QED  BY <2>1, Sizes
<1>2. PICK low : Tree(K, Hold, Done, low)
  BY DEF IInv
<1>3. n \in Boxes(K) /\ n \in Parents(K) /\ Hold[n] = Held(n) /\ Content(n) = Held(n)
      /\ Held(n) \in Seq(Tuple)
  BY <1>1, HoldIs, ContentIs
<1>4. Sorted(Content(n))
  BY <1>2, <1>3, SortedIs DEF Tree, Ascending
<1>5. PICK r, l : /\ r \in Kids(K, n) /\ l \in Kids(K, n) /\ r \in Boxes(K) /\ l \in Boxes(K)
                  /\ Below(n) = ToSet(Hold[r]) \cup ToSet(Hold[l])
  <2>1. KidR(K, n) \in Boxes(K) /\ KidL(K, n) \in Boxes(K)
    BY <1>1, <1>3, KidsIs
  <2>2. CASE n < FirstLeaf
    <3>1. /\ right(n) = KidR(K, n) /\ left(n) = KidL(K, n)
          /\ right(n) \in Nodes /\ left(n) \in Nodes
      BY ONLY <1>1, <2>2, n \in Nodes DEF right, left, KidR, KidL
    <3>2. Content(right(n)) = Hold[right(n)] /\ Content(left(n)) = Hold[left(n)]
      BY <1>1, <3>1, HoldIs, ContentIs
    <3> QED  BY <2>1, <2>2, <3>1, <3>2 DEF Below, Kids
  <2>3. CASE ~(n < FirstLeaf)
    <3> DEFINE c == 2 * (nfifos - n) - 1
    <3>1. /\ c \in 1 .. nparts /\ c + 1 \in 1 .. nparts
          /\ KidR(K, n) = - c - 1 /\ KidL(K, n) = - (c + 1) - 1
      BY ONLY <1>1, <2>3, n \in Nodes DEF KidR, KidL
    <3>2. Below(n) = ToSet(parts[c]) \cup ToSet(parts[c + 1])
      BY <2>3 DEF Below
    <3> HIDE DEF c
    <3>3. Hold[KidR(K, n)] = parts[c] /\ Hold[KidL(K, n)] = parts[c + 1]
      BY <1>1, <3>1, HoldIs
    <3> QED  BY <2>1, <3>2, <3>3 DEF Kids
  <2> QED  BY <2>2, <2>3
<1>6. ASSUME NEW c \in Kids(K, n), c \in Boxes(K), NEW x \in ToSet(Content(n)), NEW y \in ToSet(Hold[c])
      PROVE  x[1] <= y[1]
  <2>1. Hold[c] \in Seq(Tuple) /\ low \in [Boxes(K) -> Nat]
    BY <1>2, <1>6 DEF Tree
  <2>2. PICK i \in 1 .. Len(Hold[n]) : x = Hold[n][i]
    BY <1>3 DEF ToSet
  <2>3. PICK j \in 1 .. Len(Hold[c]) : y = Hold[c][j]
    BY <2>1 DEF ToSet
  <2>4. ~Dead(Hold, Done, c)
    BY <2>1, <2>3 DEF Dead
  <2>5. Hold[n][i][1] <= low[c] /\ low[c] <= Hold[c][j][1]
    BY <1>2, <1>3, <1>6, <2>2, <2>3, <2>4 DEF Tree
  <2>6. Hold[n][i] \in Tuple /\ Hold[c][j] \in Tuple /\ low[c] \in Nat
    BY <1>3, <1>6, <2>1, <2>2, <2>3
  <2>7. Hold[n][i][1] \in Nat /\ Hold[c][j][1] \in Nat
    BY ONLY <2>6 DEF Tuple
  <2> QED  BY <2>2, <2>3, <2>5, <2>6, <2>7
<1>7. \A x \in ToSet(Content(n)), later \in Below(n) : x[1] <= later[1]
  BY <1>5, <1>6
<1>8. count[n] \in 0 .. fifosize /\ tail[n] = Advanced(head[n], count[n])
  BY <1>1 DEF TypeOK
<1> QED  BY <1>4, <1>7, <1>8

(* Every step keeps the invariant. *)
LEMMA NextInductive == IInv /\ [Next]_vars => IInv'
<1> SUFFICES ASSUME IInv, [Next]_vars PROVE IInv'
  OBVIOUS
<1>1. CASE ReadLeaf
  BY <1>1, ReadLeafInductive
<1>2. CASE MergeInner
  BY <1>2, MergeInnerInductive
<1>3. CASE StoreRoot
  BY <1>3, StoreRootInductive
<1>4. CASE Return \/ UNCHANGED vars
  <2>1. UNCHANGED << parts, fifosize, buffer, head, tail, count, done, output >> /\ m' = m
    BY <1>4 DEF Return, vars, rings
  <2>2. m \in -2 .. nfifos - 1
    BY DEF IInv, TypeOK
  <2> QED  BY <2>1, <2>2, SameInductive
<1> QED  BY <1>1, <1>2, <1>3, <1>4 DEF Next, Terminated

(* Every ring always holds, between its head and its tail, as many tuples  *)
(* as its count says, in ascending order, and none above one that its      *)
(* children still hold: for any number of runs the code allows, of any     *)
(* lengths and keys, and any size of the rings.                            *)
THEOREM RingsAreSound == Spec => []RingsSound
<1>1. Init => IInv
  BY InitInductive
<1>2. IInv /\ [Next]_vars => IInv'
  BY NextInductive
<1>3. IInv => RingsSound
  BY InvariantImplies
<1> QED  BY <1>1, <1>2, <1>3, PTL DEF Spec
-----------------------------------------------------------------------------
(* No tuple is in two places. *)
Distinct(k, H) ==
  \A b, c \in Boxes(k) : \A x \in 1 .. Len(H[b]), y \in 1 .. Len(H[c]) :
    H[b][x] = H[c][y] => b = c /\ x = y
(* Some box holds t. *)
Holds(k, H, t) == \E b \in Boxes(k) : \E x \in 1 .. Len(H[b]) : t = H[b][x]

(* No position of a list is taken twice. *)
LEMMA TakenOnce ==
  ASSUME NEW A \in Seq(Tuple), NEW B \in Seq(Tuple), NEW P, Taken(Two(A, B), Zero, P),
         \A x, y \in 1 .. Len(A) : A[x] = A[y] => x = y,
         \A x, y \in 1 .. Len(B) : B[x] = B[y] => x = y
  PROVE  \A j, k \in 1 .. Len(P) : P[j][1] = P[k][1] /\ P[j][2] = P[k][2] => j = k
<1>1. \A l \in Lists : \A x, y \in DOMAIN Two(A, B)[l] : Two(A, B)[l][x] = Two(A, B)[l][y] => x = y
  <2> SUFFICES ASSUME NEW l \in Lists
               PROVE  \A x, y \in DOMAIN Two(A, B)[l] : Two(A, B)[l][x] = Two(A, B)[l][y] => x = y
    OBVIOUS
  <2>1. l = "A" \/ l = "B"
    BY DEF Lists
  <2> QED  BY <2>1, TwoIs
<1>2. \A j, k \in DOMAIN P : P[j] = P[k] => j = k
  BY <1>1 DEF Taken
<1>3. P \in PickSeq
  BY DEF Taken
<1>4. DOMAIN P = 1 .. Len(P) /\ \A k \in 1 .. Len(P) : P[k] = << P[k][1], P[k][2] >>
  BY ONLY <1>3 DEF PickSeq
<1>5. ASSUME NEW j \in 1 .. Len(P), NEW k \in 1 .. Len(P), P[j][1] = P[k][1], P[j][2] = P[k][2]
      PROVE  j = k
  <2>1. << P[j][1], P[j][2] >> = << P[k][1], P[k][2] >>
    BY <1>5
  <2>2. P[j] = P[k]
    BY ONLY <1>4, <2>1, j \in 1 .. Len(P), k \in 1 .. Len(P)
  <2> QED  BY <1>2, <1>4, <2>2
<1> QED  BY <1>5

(* Where each tuple is once picks moved. *)
MovedTo(k, H, n, r, l, P, H2, a, b) ==
  /\ r # l /\ n # r /\ n # l /\ r \in Boxes(k) /\ l \in Boxes(k) /\ n \in Boxes(k)
  /\ H[r] \in Seq(Tuple) /\ H[l] \in Seq(Tuple) /\ P \in PickSeq /\ Len(P) \in Nat
  /\ a \in 0 .. Len(H[r]) /\ b \in 0 .. Len(H[l])
  /\ H2 \in [Boxes(k) -> Seq(Tuple)]
  /\ \A c \in Boxes(k) \ {n, r, l} : H2[c] = H[c]
  /\ Len(H2[r]) = Len(H[r]) - a /\ \A x \in 1 .. Len(H[r]) - a : H2[r][x] = H[r][x + a]
  /\ Len(H2[l]) = Len(H[l]) - b /\ \A x \in 1 .. Len(H[l]) - b : H2[l][x] = H[l][x + b]
  /\ H2[n] = H[n] \o Tuples(P) /\ Len(H2[n]) = Len(H[n]) + Len(P)
  /\ \A x \in 1 .. Len(H[n]) : H2[n][x] = H[n][x]
  /\ \A x \in 1 .. Len(P) : H2[n][Len(H[n]) + x] = P[x][1]

(* Moving picks only shortens the two kids and lengthens their parent. *)
LEMMA MovedIs ==
  ASSUME NEW k \in Nat, k >= 4, NEW H \in [Boxes(k) -> Seq(Tuple)],
         NEW n \in Parents(k), NEW r, NEW l, r = KidR(k, n), l = KidL(k, n),
         NEW P, Taken(Two(H[r], H[l]), Zero, P)
  PROVE  MovedTo(k, H, n, r, l, P, Moved(H, n, r, l, P), From("A", P), From("B", P))
<1> DEFINE H2 == Moved(H, n, r, l, P)
           A == H[r]
           B == H[l]
           a == From("A", P)
           b == From("B", P)
           T == Tuples(P)
<1>1. r # l /\ n # r /\ n # l /\ r \in Boxes(k) /\ l \in Boxes(k) /\ n \in Boxes(k)
  BY KidsIs DEF Kids
<1>2. A \in Seq(Tuple) /\ B \in Seq(Tuple) /\ H[n] \in Seq(Tuple)
  BY <1>1
<1> HIDE DEF A, B
<1>3. P \in PickSeq /\ a \in 0 .. Len(A) /\ b \in 0 .. Len(B)
  BY <1>2, TakenParts DEF A, B
<1>4. /\ T \in Seq(Tuple) /\ Len(T) = Len(P) /\ Len(P) \in Nat
      /\ \A x \in 1 .. Len(P) : T[x] = P[x][1]
  BY <1>3, TuplesIs
<1>5. /\ Drop(A, a) \in Seq(Tuple) /\ Len(Drop(A, a)) = Len(A) - a
      /\ \A x \in 1 .. Len(A) - a : Drop(A, a)[x] = A[x + a]
      /\ Drop(B, b) \in Seq(Tuple) /\ Len(Drop(B, b)) = Len(B) - b
      /\ \A x \in 1 .. Len(B) - b : Drop(B, b)[x] = B[x + b]
  BY <1>2, <1>3, DropIs
<1>6. H2 = [H EXCEPT ![n] = @ \o T, ![r] = Drop(@, a), ![l] = Drop(@, b)]
  BY DEF Moved
<1> HIDE DEF H2, a, b, T
<1>7. /\ H2[n] = H[n] \o T /\ H2[r] = Drop(A, a) /\ H2[l] = Drop(B, b)
      /\ \A c \in Boxes(k) \ {n, r, l} : H2[c] = H[c]
      /\ H2 = [c \in Boxes(k) |-> H2[c]]
  BY ONLY <1>1, <1>6, H \in [Boxes(k) -> Seq(Tuple)] DEF A, B
<1> DEFINE Z == H[n] \o T
<1>8. /\ Z \in Seq(Tuple) /\ Len(Z) = Len(H[n]) + Len(T)
      /\ \A x \in 1 .. Len(H[n]) : Z[x] = H[n][x]
      /\ \A x \in 1 .. Len(T) : Z[Len(H[n]) + x] = T[x]
  <2>1. PICK s : s = H[n]
    OBVIOUS
  <2>2. s \in Seq(Tuple) /\ T \in Seq(Tuple) /\ Z = s \o T
    BY <1>2, <1>4, <2>1
  <2> HIDE DEF Z
  <2>3. /\ Z \in Seq(Tuple) /\ Len(Z) = Len(s) + Len(T)
        /\ \A x \in 1 .. Len(s) : Z[x] = s[x]
        /\ \A x \in 1 .. Len(T) : Z[Len(s) + x] = T[x]
    BY ONLY <2>2
  <2> QED  BY <2>1, <2>3
<1>9. H2 \in [Boxes(k) -> Seq(Tuple)]
  <2>1. \A c \in Boxes(k) : H2[c] \in Seq(Tuple)
    BY <1>5, <1>7, <1>8
  <2> QED  BY <1>7, <2>1
<1>10. /\ Len(H2[n]) = Len(H[n]) + Len(P)
       /\ \A x \in 1 .. Len(H[n]) : H2[n][x] = H[n][x]
       /\ \A x \in 1 .. Len(P) : H2[n][Len(H[n]) + x] = P[x][1]
  BY ONLY <1>4, <1>7, <1>8
<1>11. Len(H2[r]) = Len(A) - a /\ \A x \in 1 .. Len(A) - a : H2[r][x] = A[x + a]
  BY ONLY <1>5, <1>7
<1>12. Len(H2[l]) = Len(B) - b /\ \A x \in 1 .. Len(B) - b : H2[l][x] = B[x + b]
  BY ONLY <1>5, <1>7
<1>13. MovedTo(k, H, n, r, l, P, H2, a, b)
  BY ONLY <1>1, <1>2, <1>3, <1>4, <1>7, <1>9, <1>10, <1>11, <1>12 DEF MovedTo, A, B, T
<1> QED  BY <1>13 DEF H2, a, b

(* Moving picks keeps what the boxes hold together, and no tuple gets into *)
(* two places.                                                             *)
LEMMA MovedSame ==
  ASSUME NEW k \in Nat, k >= 4, NEW H \in [Boxes(k) -> Seq(Tuple)],
         NEW n \in Parents(k), NEW r, NEW l, r = KidR(k, n), l = KidL(k, n),
         NEW P, Taken(Two(H[r], H[l]), Zero, P)
  PROVE  /\ \A t : Holds(k, Moved(H, n, r, l, P), t) <=> Holds(k, H, t)
         /\ Distinct(k, H) => Distinct(k, Moved(H, n, r, l, P))
<1> DEFINE H2 == Moved(H, n, r, l, P)
           A == H[r]
           B == H[l]
           a == From("A", P)
           b == From("B", P)
           L == Len(H[n])
           (* The tuple at place x of box c was at place y of box d. *)
           Was(c, x, d, y) ==
             \/ c \notin {n, r, l} /\ d = c /\ y = x
             \/ c = r /\ d = r /\ y = x + a
             \/ c = l /\ d = l /\ y = x + b
             \/ c = n /\ d = n /\ x <= L /\ y = x
             \/ c = n /\ d = r /\ x > L /\ P[x - L][2] = "A" /\ y <= a /\ P[x - L][1] = A[y]
             \/ c = n /\ d = l /\ x > L /\ P[x - L][2] = "B" /\ y <= b /\ P[x - L][1] = B[y]
<1>0. Taken(Two(A, B), Zero, P)
  OBVIOUS
<1>1. /\ r # l /\ n # r /\ n # l /\ r \in Boxes(k) /\ l \in Boxes(k) /\ n \in Boxes(k)
      /\ A \in Seq(Tuple) /\ B \in Seq(Tuple) /\ P \in PickSeq /\ Len(P) \in Nat
      /\ a \in 0 .. Len(A) /\ b \in 0 .. Len(B) /\ Len(A) \in Nat /\ Len(B) \in Nat
      /\ H2 \in [Boxes(k) -> Seq(Tuple)] /\ L \in Nat
      /\ \A c \in Boxes(k) \ {n, r, l} : H2[c] = H[c]
      /\ Len(H2[r]) = Len(A) - a /\ \A x \in 1 .. Len(A) - a : H2[r][x] = A[x + a]
      /\ Len(H2[l]) = Len(B) - b /\ \A x \in 1 .. Len(B) - b : H2[l][x] = B[x + b]
      /\ Len(H2[n]) = L + Len(P) /\ \A x \in 1 .. L : H2[n][x] = H[n][x]
      /\ \A x \in 1 .. Len(P) : H2[n][L + x] = P[x][1]
      /\ \A c \in Boxes(k) : Len(H[c]) \in Nat
  <2>1. \A c \in Boxes(k) : Len(H[c]) \in Nat
    OBVIOUS
  <2>2. MovedTo(k, H, n, r, l, P, H2, a, b)
    BY MovedIs
  <2> HIDE DEF H2, a, b
  <2> QED  BY ONLY <2>1, <2>2 DEF MovedTo
<1>2. /\ \A x \in 1 .. Len(P) : \/ P[x][2] = "A" /\ \E y \in 1 .. a : P[x][1] = A[y]
                                \/ P[x][2] = "B" /\ \E y \in 1 .. b : P[x][1] = B[y]
      /\ \A y \in 1 .. a : \E x \in 1 .. Len(P) : P[x][1] = A[y] /\ P[x][2] = "A"
      /\ \A y \in 1 .. b : \E x \in 1 .. Len(P) : P[x][1] = B[y] /\ P[x][2] = "B"
  <2>1. DOMAIN P = 1 .. Len(P)
    BY <1>1, TuplesIs
  <2>2. \A x \in DOMAIN P : \/ P[x][2] = "A" /\ \E y \in 1 .. a : P[x][1] = A[y]
                            \/ P[x][2] = "B" /\ \E y \in 1 .. b : P[x][1] = B[y]
    <3> HIDE DEF A, B
    <3>1. A \in Seq(Tuple) /\ B \in Seq(Tuple) /\ Taken(Two(A, B), Zero, P)
      BY ONLY <1>0, <1>1
    <3> QED  BY ONLY <3>1, TakenParts
  <2>3. ASSUME NEW q \in Lists, NEW y \in 1 .. From(q, P)
        PROVE  \E x \in DOMAIN P : P[x] = << Two(A, B)[q][y], q >>
    <3>1. Zero[q] = 0 /\ From(q, P) \in Nat
      BY <1>1, FromType DEF Zero
    <3>2. y \in Zero[q] + 1 .. Zero[q] + From(q, P)
      BY <3>1
    <3> QED  BY <3>2 DEF Taken
  <2>4. "A" \in Lists /\ "B" \in Lists /\ Two(A, B)["A"] = A /\ Two(A, B)["B"] = B
    BY TwoIs DEF Lists
  <2>5. \A y \in 1 .. a : \E x \in 1 .. Len(P) : P[x][1] = A[y] /\ P[x][2] = "A"
    <3> SUFFICES ASSUME NEW y \in 1 .. a PROVE \E x \in 1 .. Len(P) : P[x][1] = A[y] /\ P[x][2] = "A"
      OBVIOUS
    <3>1. PICK x \in DOMAIN P : P[x] = << Two(A, B)["A"][y], "A" >>
      BY <2>3, <2>4
    <3> QED  BY <2>1, <2>4, <3>1
  <2>6. \A y \in 1 .. b : \E x \in 1 .. Len(P) : P[x][1] = B[y] /\ P[x][2] = "B"
    <3> SUFFICES ASSUME NEW y \in 1 .. b PROVE \E x \in 1 .. Len(P) : P[x][1] = B[y] /\ P[x][2] = "B"
      OBVIOUS
    <3>1. PICK x \in DOMAIN P : P[x] = << Two(A, B)["B"][y], "B" >>
      BY <2>3, <2>4
    <3> QED  BY <2>1, <2>4, <3>1
  <2> QED  BY ONLY <2>1, <2>2, <2>5, <2>6
<1> HIDE DEF H2, a, b, L
<1>3. ASSUME NEW c \in Boxes(k), NEW x \in 1 .. Len(H2[c])
      PROVE  \E d \in Boxes(k) : \E y \in 1 .. Len(H[d]) : Was(c, x, d, y)
  <2>1. CASE c \notin {n, r, l}
    <3>1. x \in 1 .. Len(H[c]) /\ Was(c, x, c, x)
      BY <1>1, <2>1
    <3> QED  BY <3>1
  <2>2. CASE c = r
    <3>1. x + a \in 1 .. Len(A)
      <4>1. Len(H2[r]) = Len(A) - a /\ a \in 0 .. Len(A) /\ Len(A) \in Nat
        BY ONLY <1>1
      <4>2. x \in 1 .. Len(H2[r])
        BY ONLY <2>2, x \in 1 .. Len(H2[c])
      <4> QED  BY ONLY <4>1, <4>2
    <3>2. Was(c, x, r, x + a)
      BY ONLY <2>2
    <3> QED  BY ONLY <1>1, <2>2, <3>1, <3>2
  <2>3. CASE c = l
    <3>1. x + b \in 1 .. Len(B)
      <4>1. Len(H2[l]) = Len(B) - b /\ b \in 0 .. Len(B) /\ Len(B) \in Nat
        BY ONLY <1>1
      <4>2. x \in 1 .. Len(H2[l])
        BY ONLY <2>3, x \in 1 .. Len(H2[c])
      <4> QED  BY ONLY <4>1, <4>2
    <3>2. Was(c, x, l, x + b)
      BY ONLY <2>3
    <3> QED  BY ONLY <1>1, <2>3, <3>1, <3>2
  <2>4. CASE c = n /\ x <= L
    <3>1. x \in 1 .. Len(H[n]) /\ Was(c, x, n, x)
      BY <1>1, <2>4 DEF L
    <3> QED  BY <1>1, <3>1
  <2>5. CASE c = n /\ ~(x <= L)
    <3>1. x - L \in 1 .. Len(P) /\ x > L
      <4>1. Len(H2[n]) = L + Len(P) /\ L \in Nat /\ Len(P) \in Nat
        BY ONLY <1>1
      <4>2. x \in 1 .. Len(H2[n]) /\ ~(x <= L)
        BY ONLY <2>5, x \in 1 .. Len(H2[c])
      <4> QED  BY ONLY <4>1, <4>2
    <3>2. CASE P[x - L][2] = "A" /\ \E y \in 1 .. a : P[x - L][1] = A[y]
      <4>1. PICK y \in 1 .. a : P[x - L][1] = A[y]
        BY <3>2
      <4>2. y \in 1 .. Len(A) /\ y <= a /\ Was(c, x, r, y)
        BY <1>1, <2>5, <3>1, <3>2, <4>1
      <4> QED  BY <1>1, <4>2
    <3>3. CASE P[x - L][2] = "B" /\ \E y \in 1 .. b : P[x - L][1] = B[y]
      <4>1. PICK y \in 1 .. b : P[x - L][1] = B[y]
        BY <3>3
      <4>2. y \in 1 .. Len(B) /\ y <= b /\ Was(c, x, l, y)
        BY <1>1, <2>5, <3>1, <3>3, <4>1
      <4> QED  BY <1>1, <4>2
    <3> QED  BY <1>2, <3>1, <3>2, <3>3
  <2> QED  BY <2>1, <2>2, <2>3, <2>4, <2>5
<1>4. ASSUME NEW c \in Boxes(k), NEW x \in 1 .. Len(H2[c]), NEW d \in Boxes(k),
             NEW y \in 1 .. Len(H[d]), Was(c, x, d, y)
      PROVE  H2[c][x] = H[d][y]
  <2>1. CASE c \notin {n, r, l}
    BY <1>1, <1>4, <2>1
  <2>2. CASE c = r
    <3>1. x \in 1 .. Len(A) - a /\ d = r /\ y = x + a
      BY <1>1, <1>4, <2>2
    <3> QED  BY <1>1, <2>2, <3>1
  <2>3. CASE c = l
    <3>1. x \in 1 .. Len(B) - b /\ d = l /\ y = x + b
      BY <1>1, <1>4, <2>3
    <3> QED  BY <1>1, <2>3, <3>1
  <2>4. CASE c = n /\ x <= L
    <3>1. x \in 1 .. L /\ d = n /\ y = x
      BY <1>1, <1>4, <2>4
    <3> QED  BY <1>1, <2>4, <3>1
  <2>5. CASE c = n /\ ~(x <= L)
    <3>1. x - L \in 1 .. Len(P) /\ L + (x - L) = x
      BY <1>1, <2>5
    <3>2. H2[n][x] = P[x - L][1]
      BY <1>1, <3>1
    <3> QED  BY <1>1, <1>4, <2>5, <3>2
  <2> QED  BY <2>1, <2>2, <2>3, <2>4, <2>5
<1>5. ASSUME NEW d \in Boxes(k), NEW y \in 1 .. Len(H[d])
      PROVE  \E c \in Boxes(k) : \E x \in 1 .. Len(H2[c]) : Was(c, x, d, y)
  <2>1. CASE d \notin {n, r, l}
    <3>1. y \in 1 .. Len(H2[d]) /\ Was(d, y, d, y)
      BY <1>1, <2>1
    <3> QED  BY <3>1
  <2>2. CASE d = n
    <3>1. y \in 1 .. Len(H2[n]) /\ Was(n, y, d, y)
      BY <1>1, <2>2 DEF L
    <3> QED  BY <1>1, <3>1
  <2>3. CASE d = r /\ y > a
    <3>1. y - a \in 1 .. Len(H2[r]) /\ y = (y - a) + a
      BY <1>1, <2>3
    <3>2. Was(r, y - a, d, y)
      BY <2>3, <3>1
    <3> QED  BY <1>1, <3>1, <3>2
  <2>4. CASE d = r /\ ~(y > a)
    <3>1. y \in 1 .. a
      <4>1. a \in 0 .. Len(A) /\ Len(A) \in Nat
        BY ONLY <1>1
      <4>2. y \in 1 .. Len(A)
        <5>1. y \in 1 .. Len(H[r])
          BY ONLY <2>4, y \in 1 .. Len(H[d])
        <5> QED  BY ONLY <5>1
      <4>3. ~(y > a)
        BY ONLY <2>4
      <4> QED  BY ONLY <4>1, <4>2, <4>3
    <3>2. PICK x \in 1 .. Len(P) : P[x][1] = A[y] /\ P[x][2] = "A"
      BY <1>2, <3>1
    <3>3. L + x \in 1 .. Len(H2[n]) /\ L + x > L /\ (L + x) - L = x /\ y <= a
      <4>1. Len(H2[n]) = L + Len(P) /\ L \in Nat /\ Len(P) \in Nat /\ x \in 1 .. Len(P)
        BY ONLY <1>1, x \in 1 .. Len(P)
      <4>2. y <= a
        BY ONLY <1>1, <3>1
      <4> QED  BY ONLY <4>1, <4>2
    <3>4. Was(n, L + x, d, y)
      BY <2>4, <3>2, <3>3
    <3> QED  BY <1>1, <3>3, <3>4
  <2>5. CASE d = l /\ y > b
    <3>1. y - b \in 1 .. Len(H2[l]) /\ y = (y - b) + b
      BY <1>1, <2>5
    <3>2. Was(l, y - b, d, y)
      BY <2>5, <3>1
    <3> QED  BY <1>1, <3>1, <3>2
  <2>6. CASE d = l /\ ~(y > b)
    <3>1. y \in 1 .. b
      <4>1. b \in 0 .. Len(B) /\ Len(B) \in Nat
        BY ONLY <1>1
      <4>2. y \in 1 .. Len(B)
        <5>1. y \in 1 .. Len(H[l])
          BY ONLY <2>6, y \in 1 .. Len(H[d])
        <5> QED  BY ONLY <5>1
      <4>3. ~(y > b)
        BY ONLY <2>6
      <4> QED  BY ONLY <4>1, <4>2, <4>3
    <3>2. PICK x \in 1 .. Len(P) : P[x][1] = B[y] /\ P[x][2] = "B"
      BY <1>2, <3>1
    <3>3. L + x \in 1 .. Len(H2[n]) /\ L + x > L /\ (L + x) - L = x /\ y <= b
      <4>1. Len(H2[n]) = L + Len(P) /\ L \in Nat /\ Len(P) \in Nat /\ x \in 1 .. Len(P)
        BY ONLY <1>1, x \in 1 .. Len(P)
      <4>2. y <= b
        BY ONLY <1>1, <3>1
      <4> QED  BY ONLY <4>1, <4>2
    <3>4. Was(n, L + x, d, y)
      BY <2>6, <3>2, <3>3
    <3> QED  BY <1>1, <3>3, <3>4
  <2> QED  BY <2>1, <2>2, <2>3, <2>4, <2>5, <2>6
<1>6. ASSUME Distinct(k, H),
             NEW c \in Boxes(k), NEW x \in 1 .. Len(H2[c]),
             NEW d \in Boxes(k), NEW y \in 1 .. Len(H2[d]),
             NEW o \in Boxes(k), NEW z \in 1 .. Len(H[o]), Was(c, x, o, z), Was(d, y, o, z)
      PROVE  c = d /\ x = y
  <2>1. \A i, j \in 1 .. Len(P) : P[i][1] = P[j][1] /\ P[i][2] = P[j][2] => i = j
    <3>1. /\ \A i, j \in 1 .. Len(A) : A[i] = A[j] => i = j
          /\ \A i, j \in 1 .. Len(B) : B[i] = B[j] => i = j
      <4>1. \A c2 \in Boxes(k) : \A i, j \in 1 .. Len(H[c2]) : H[c2][i] = H[c2][j] => i = j
        <5>1. Distinct(k, H)
          BY <1>6
        <5> QED  BY ONLY <5>1 DEF Distinct
      <4> QED  BY ONLY <1>1, <4>1
    <3> HIDE DEF A, B
    <3>2. A \in Seq(Tuple) /\ B \in Seq(Tuple) /\ P \in PickSeq /\ Taken(Two(A, B), Zero, P)
      BY ONLY <1>0, <1>1
    <3> QED  BY ONLY <3>1, <3>2, TakenOnce
  <2>2. CASE o \notin {n, r, l}
    BY ONLY <1>1, <1>6, <2>2
  <2>3. CASE o = n
    BY ONLY <1>1, <1>6, <2>3
  <2>4. CASE o = r
    <3>1. CASE z > a
      <4>1. c = r /\ z = x + a /\ d = r /\ z = y + a
        <5>1. ~(z <= a)
          <6>1. z \in Int /\ a \in Int
            BY <1>1
          <6> QED  BY ONLY <3>1, <6>1
        <5> QED  BY ONLY <1>1, <1>6, <2>4, <5>1
      <4>2. x \in Nat /\ y \in Nat /\ a \in Nat
        BY <1>1, <4>1
      <4> QED  BY ONLY <4>1, <4>2
    <3>2. CASE ~(z > a)
      <4>1. c = n /\ x > L /\ P[x - L][2] = "A" /\ P[x - L][1] = A[z]
        <5>1. c # r
          <6> SUFFICES ASSUME c = r PROVE FALSE
            OBVIOUS
          <6>0. z = x + a
            <7>1. Was(c, x, r, z)
              BY ONLY <1>6, <2>4
            <7>2. r # l /\ n # r /\ n # l
              BY ONLY <1>1
            <7> QED  BY ONLY <7>1, <7>2, c = r
          <6>1. a \in Nat
            BY ONLY <1>1
          <6>2. x \in Nat /\ x >= 1
            BY ONLY x \in 1 .. Len(H2[c])
          <6> QED  BY ONLY <3>2, <6>0, <6>1, <6>2
        <5> QED  BY ONLY <1>1, <1>6, <2>4, <5>1
      <4>2. d = n /\ y > L /\ P[y - L][2] = "A" /\ P[y - L][1] = A[z]
        <5>1. d # r
          <6> SUFFICES ASSUME d = r PROVE FALSE
            OBVIOUS
          <6>0. z = y + a
            <7>1. Was(d, y, r, z)
              BY ONLY <1>6, <2>4
            <7>2. r # l /\ n # r /\ n # l
              BY ONLY <1>1
            <7> QED  BY ONLY <7>1, <7>2, d = r
          <6>1. a \in Nat
            BY ONLY <1>1
          <6>2. y \in Nat /\ y >= 1
            BY ONLY y \in 1 .. Len(H2[d])
          <6> QED  BY ONLY <3>2, <6>0, <6>1, <6>2
        <5> QED  BY ONLY <1>1, <1>6, <2>4, <5>1
      <4>3. x \in 1 .. L + Len(P) /\ y \in 1 .. L + Len(P)
        BY <1>1, <4>1, <4>2
      <4>4. x - L \in 1 .. Len(P) /\ y - L \in 1 .. Len(P)
        <5>1. L \in Nat /\ Len(P) \in Nat
          BY ONLY <1>1
        <5>2. x > L /\ y > L
          BY ONLY <4>1, <4>2
        <5> QED  BY ONLY <4>3, <5>1, <5>2
      <4>5. x - L = y - L
        BY <2>1, <4>1, <4>2, <4>4
      <4>6. x = y
        <5>1. L \in Int /\ x \in Int /\ y \in Int
          BY ONLY <1>1, <4>3
        <5> QED  BY ONLY <4>5, <5>1
      <4> QED  BY <4>1, <4>2, <4>6
    <3> QED  BY <3>1, <3>2
  <2>5. CASE o = l
    <3>1. CASE z > b
      <4>1. c = l /\ z = x + b /\ d = l /\ z = y + b
        <5>1. ~(z <= b)
          <6>1. z \in Int /\ b \in Int
            BY <1>1
          <6> QED  BY ONLY <3>1, <6>1
        <5> QED  BY ONLY <1>1, <1>6, <2>5, <5>1
      <4>2. x \in Nat /\ y \in Nat /\ b \in Nat
        BY <1>1, <4>1
      <4> QED  BY ONLY <4>1, <4>2
    <3>2. CASE ~(z > b)
      <4>1. c = n /\ x > L /\ P[x - L][2] = "B" /\ P[x - L][1] = B[z]
        <5>1. c # l
          <6> SUFFICES ASSUME c = l PROVE FALSE
            OBVIOUS
          <6>0. z = x + b
            <7>1. Was(c, x, l, z)
              BY ONLY <1>6, <2>5
            <7>2. r # l /\ n # r /\ n # l
              BY ONLY <1>1
            <7> QED  BY ONLY <7>1, <7>2, c = l
          <6>1. b \in Nat
            BY ONLY <1>1
          <6>2. x \in Nat /\ x >= 1
            BY ONLY x \in 1 .. Len(H2[c])
          <6> QED  BY ONLY <3>2, <6>0, <6>1, <6>2
        <5> QED  BY ONLY <1>1, <1>6, <2>5, <5>1
      <4>2. d = n /\ y > L /\ P[y - L][2] = "B" /\ P[y - L][1] = B[z]
        <5>1. d # l
          <6> SUFFICES ASSUME d = l PROVE FALSE
            OBVIOUS
          <6>0. z = y + b
            <7>1. Was(d, y, l, z)
              BY ONLY <1>6, <2>5
            <7>2. r # l /\ n # r /\ n # l
              BY ONLY <1>1
            <7> QED  BY ONLY <7>1, <7>2, d = l
          <6>1. b \in Nat
            BY ONLY <1>1
          <6>2. y \in Nat /\ y >= 1
            BY ONLY y \in 1 .. Len(H2[d])
          <6> QED  BY ONLY <3>2, <6>0, <6>1, <6>2
        <5> QED  BY ONLY <1>1, <1>6, <2>5, <5>1
      <4>3. x \in 1 .. L + Len(P) /\ y \in 1 .. L + Len(P)
        BY <1>1, <4>1, <4>2
      <4>4. x - L \in 1 .. Len(P) /\ y - L \in 1 .. Len(P)
        <5>1. L \in Nat /\ Len(P) \in Nat
          BY ONLY <1>1
        <5>2. x > L /\ y > L
          BY ONLY <4>1, <4>2
        <5> QED  BY ONLY <4>3, <5>1, <5>2
      <4>5. x - L = y - L
        BY <2>1, <4>1, <4>2, <4>4
      <4>6. x = y
        <5>1. L \in Int /\ x \in Int /\ y \in Int
          BY ONLY <1>1, <4>3
        <5> QED  BY ONLY <4>5, <5>1
      <4> QED  BY <4>1, <4>2, <4>6
    <3> QED  BY <3>1, <3>2
  <2> QED  BY <2>2, <2>3, <2>4, <2>5
<1> HIDE DEF Was
<1>7. ASSUME NEW t PROVE Holds(k, H2, t) <=> Holds(k, H, t)
  <2>1. ASSUME Holds(k, H2, t) PROVE Holds(k, H, t)
    <3>1. PICK c \in Boxes(k) : \E x \in 1 .. Len(H2[c]) : t = H2[c][x]
      BY <2>1 DEF Holds
    <3>2. PICK x \in 1 .. Len(H2[c]) : t = H2[c][x]
      BY <3>1
    <3>3. PICK d \in Boxes(k) : \E y \in 1 .. Len(H[d]) : Was(c, x, d, y)
      BY <1>3
    <3>4. PICK y \in 1 .. Len(H[d]) : Was(c, x, d, y)
      BY <3>3
    <3>5. t = H[d][y]
      BY <1>4, <3>2, <3>4
    <3> QED  BY <3>5 DEF Holds
  <2>2. ASSUME Holds(k, H, t) PROVE Holds(k, H2, t)
    <3>1. PICK d \in Boxes(k) : \E y \in 1 .. Len(H[d]) : t = H[d][y]
      BY <2>2 DEF Holds
    <3>2. PICK y \in 1 .. Len(H[d]) : t = H[d][y]
      BY <3>1
    <3>3. PICK c \in Boxes(k) : \E x \in 1 .. Len(H2[c]) : Was(c, x, d, y)
      BY <1>5
    <3>4. PICK x \in 1 .. Len(H2[c]) : Was(c, x, d, y)
      BY <3>3
    <3>5. t = H2[c][x]
      BY <1>4, <3>2, <3>4
    <3> QED  BY <3>5 DEF Holds
  <2> QED  BY <2>1, <2>2
<1>8. ASSUME Distinct(k, H) PROVE Distinct(k, H2)
  <2> SUFFICES ASSUME NEW c \in Boxes(k), NEW d \in Boxes(k),
                      NEW x \in 1 .. Len(H2[c]), NEW y \in 1 .. Len(H2[d]), H2[c][x] = H2[d][y]
               PROVE  c = d /\ x = y
    BY DEF Distinct
  <2>1. PICK o \in Boxes(k) : \E z \in 1 .. Len(H[o]) : Was(c, x, o, z)
    BY <1>3
  <2>2. PICK z \in 1 .. Len(H[o]) : Was(c, x, o, z)
    BY <2>1
  <2>3. PICK p \in Boxes(k) : \E w \in 1 .. Len(H[p]) : Was(d, y, p, w)
    BY <1>3
  <2>4. PICK w \in 1 .. Len(H[p]) : Was(d, y, p, w)
    BY <2>3
  <2>5. H[o][z] = H[p][w]
    BY <1>4, <2>2, <2>4
  <2>6. o = p /\ z = w
    BY <1>8, <2>5 DEF Distinct
  <2> QED  BY <1>6, <1>8, <2>2, <2>4, <2>6
<1> QED  BY <1>7, <1>8 DEF H2

(* Every box but the output is the kid of one that is nearer to the output. *)
LEMMA ParentIs ==
  ASSUME NEW k \in Nat, k >= 4, NEW b \in Boxes(k), b # -1
  PROVE  \E p \in Parents(k) : /\ b \in Kids(k, p)
                               /\ b \notin {0, 1} => p \in 0 .. 2 * k - 3
                               /\ b >= 2 => p \in 0 .. k - 3
                               /\ b >= 0 => p < b
<1>1. b \in Int /\ - 2 * k - 1 <= b /\ b <= 2 * k - 3
  BY DEF Boxes
<1>2. PICK q \in Int : b = 2 * q \/ b = 2 * q + 1
  <2>1. b \div 2 \in Int /\ (b = 2 * (b \div 2) \/ b = 2 * (b \div 2) + 1)
    BY ONLY <1>1
  <2> QED  BY ONLY <2>1
<1>3. CASE b >= 0
  <2>1. q - 1 \in Int /\ q - 1 >= -1 /\ q - 1 <= k - 3 /\ q - 1 < b /\ q - 1 < k - 2
    BY ONLY <1>1, <1>2, <1>3, k \in Nat
  <2>2. b = 2 * (q - 1) + 2 \/ b = 2 * (q - 1) + 3
    BY ONLY <1>2
  <2>3. b \notin {0, 1} => q - 1 >= 0
    BY ONLY <1>1, <1>2, <1>3
  <2>4. b \in Kids(k, q - 1)
    BY ONLY <2>1, <2>2 DEF Kids, KidR, KidL
  <2>5. q - 1 \in Parents(k) /\ (b \notin {0, 1} => q - 1 \in 0 .. 2 * k - 3 /\ q - 1 \in 0 .. k - 3)
    BY ONLY <2>1, <2>3, k \in Nat, k >= 4 DEF Parents
  <2>6. b >= 2 => b \notin {0, 1}
    OBVIOUS
  <2> QED  BY ONLY <2>1, <2>4, <2>5, <2>6
<1>4. CASE ~(b >= 0)
  <2>1. b <= -2
    BY ONLY <1>1, <1>4, b # -1
  <2>2. PICK p \in Int : p >= k - 2 /\ p <= 2 * k - 3 /\ (b = 2 * p + 4 - 4 * k \/ b = 2 * p + 3 - 4 * k)
    <3>1. CASE b = 2 * q
      <4>1. PICK p \in Int : p = q - 2 + 2 * k
        BY ONLY k \in Nat
      <4>2. p >= k - 2 /\ p <= 2 * k - 3 /\ b = 2 * p + 4 - 4 * k
        BY ONLY <1>1, <2>1, <3>1, <4>1, k \in Nat
      <4> QED  BY ONLY <4>2
    <3>2. CASE b = 2 * q + 1
      <4>1. PICK p \in Int : p = q - 1 + 2 * k
        BY ONLY k \in Nat
      <4>2. p >= k - 2 /\ p <= 2 * k - 3 /\ b = 2 * p + 3 - 4 * k
        BY ONLY <1>1, <2>1, <3>2, <4>1, k \in Nat
      <4> QED  BY ONLY <4>2
    <3> QED  BY ONLY <1>2, <3>1, <3>2
  <2>3. ~(p < k - 2) /\ p \in Parents(k) /\ p \in 0 .. 2 * k - 3
    BY ONLY <2>2, k \in Nat, k >= 4 DEF Parents
  <2>4. b \in Kids(k, p)
    BY ONLY <2>2, <2>3 DEF Kids, KidR, KidL
  <2> QED  BY ONLY <2>3, <2>4, <1>4, <1>1
<1> QED  BY ONLY <1>3, <1>4

(* What has left the tree is not above anything that has not.  If it were  *)
(* above what a ring holds or may receive, take the ring of least number:  *)
(* its parent would be another.                                            *)
LEMMA OutputLow ==
  ASSUME NEW k \in Nat, k >= 4, NEW H, NEW D, NEW low, Tree(k, H, D, low),
         NEW b \in Boxes(k), b # -1, ~Dead(H, D, b), NEW x \in 1 .. Len(H[-1])
  PROVE  H[-1][x][1] <= low[b]
<1> DEFINE o == -1
           v == H[o][x][1]
           Bad == {n \in Nat : n \in Boxes(k) /\ ~Dead(H, D, n) /\ ~(v <= low[n])}
<1>1. o \in Boxes(k) /\ \A n \in Parents(k) : n \in Boxes(k)
  <2>1. Parents(k) \subseteq Boxes(k) /\ -1 \in Parents(k)
    BY KidsIs DEF Parents
  <2> QED  BY <2>1
<1>2. v \in Nat
  <2>1. H[o] \in Seq(Tuple)
    BY <1>1 DEF Tree
  <2>2. x \in 1 .. Len(H[o])
    OBVIOUS
  <2> HIDE DEF o
  <2>3. H[o][x] \in Tuple
    BY ONLY <2>1, <2>2
  <2> QED  BY ONLY <2>3 DEF Tuple
<1>3. /\ \A c \in Boxes(k) : low[c] \in Nat
      /\ \A n \in Parents(k) : \A c \in Kids(k, n) : ~Dead(H, D, c) => low[n] <= low[c]
      /\ \A c \in Kids(k, o) : ~Dead(H, D, c) => v <= low[c]
      /\ \A n \in Parents(k) : D[n] => \A c \in Kids(k, n) : Dead(H, D, c)
      /\ \A c : Dead(H, D, c) => D[c]
  <2>1. o \in Parents(k) /\ x \in 1 .. Len(H[o])
    BY DEF Parents
  <2>2. \A c : Dead(H, D, c) => D[c]
    BY DEF Dead
  <2> HIDE DEF o
  <2> QED  BY ONLY Tree(k, H, D, low), <2>1, <2>2 DEF Tree
<1> HIDE DEF v
<1>4. ASSUME NEW c \in Boxes(k), c # o, ~Dead(H, D, c)
      PROVE  \E p \in Parents(k) : /\ c \in Kids(k, p) /\ (c >= 0 => p < c)
                                   /\ \/ p = o /\ v <= low[c]
                                      \/ p \in Nat /\ ~Dead(H, D, p) /\ low[p] <= low[c]
  <2>1. PICK p \in Parents(k) : c \in Kids(k, p) /\ (c >= 0 => p < c)
    BY <1>4, ParentIs
  <2>2. p = o \/ p \in Nat
    BY DEF Parents
  <2>3. ~D[p] /\ low[p] <= low[c]
    BY ONLY <1>3, <1>4, <2>1
  <2>4. p = o => v <= low[c]
    BY ONLY <1>3, <1>4, <2>1
  <2>5. ~Dead(H, D, p)
    BY ONLY <1>3, <2>3
  <2> QED  BY ONLY <2>1, <2>2, <2>3, <2>4, <2>5
<1>5. Bad = {}
  <2> SUFFICES ASSUME Bad # {} PROVE FALSE
    OBVIOUS
  <2>1. PICK n \in Bad : \A i \in Bad : n <= i
    BY LeastElement
  <2>2. n \in Nat /\ n \in Boxes(k) /\ ~Dead(H, D, n) /\ ~(v <= low[n]) /\ n # o
    OBVIOUS
  <2>3. PICK p \in Parents(k) : /\ n \in Kids(k, p) /\ (n >= 0 => p < n)
                                /\ \/ p = o /\ v <= low[n]
                                   \/ p \in Nat /\ ~Dead(H, D, p) /\ low[p] <= low[n]
    BY <1>4, <2>2
  <2>4. p \in Nat /\ ~Dead(H, D, p) /\ low[p] <= low[n] /\ p < n /\ p \in Boxes(k)
    BY ONLY <1>1, <2>2, <2>3
  <2>5. ~(v <= low[p])
    BY ONLY <1>2, <1>3, <2>2, <2>4
  <2>6. p \in Bad
    BY <2>4, <2>5
  <2>7. n <= p
    BY ONLY <2>1, <2>6
  <2> QED  BY ONLY <2>2, <2>4, <2>7
<1>6. PICK p \in Parents(k) : \/ p = o /\ v <= low[b]
                              \/ p \in Nat /\ ~Dead(H, D, p) /\ low[p] <= low[b]
  BY <1>4
<1>7. CASE p \in Nat /\ ~Dead(H, D, p) /\ low[p] <= low[b]
  <2>1. v <= low[p]
    BY <1>1, <1>5, <1>7
  <2>2. low[p] \in Nat /\ low[b] \in Nat
    BY <1>1, <1>3
  <2> QED  BY <1>2, <1>7, <2>1, <2>2 DEF v
<1> QED  BY <1>6, <1>7 DEF v

(* Once all inner nodes are done, only the two topmost rings hold tuples    *)
(* that have not left.                                                      *)
LEMMA DeadAll ==
  ASSUME NEW k \in Nat, k >= 4, NEW H, NEW D, NEW low, Tree(k, H, D, low),
         \A n \in 0 .. k - 3 : D[n], NEW b \in Boxes(k), b \notin {-1, 0, 1}
  PROVE  H[b] = << >>
<1>1. \A n \in Parents(k) : D[n] => \A c \in Kids(k, n) : D[c] /\ H[c] = << >>
  BY DEF Tree, Dead
<1>2. PICK p \in Parents(k) : b \in Kids(k, p) /\ p \in 0 .. 2 * k - 3
  BY ParentIs
<1>3. CASE p <= k - 3
  BY <1>1, <1>2, <1>3
<1>4. CASE ~(p <= k - 3)
  <2>1. p \in Boxes(k) /\ p # -1 /\ p >= 2
    BY <1>2, <1>4 DEF Boxes
  <2>2. CASE p \in Parents(k)
    <3>1. PICK q \in Parents(k) : p \in Kids(k, q) /\ q \in 0 .. k - 3
      BY <2>1, ParentIs
    <3> QED  BY <1>1, <1>2, <3>1
  <2> QED  BY <2>2
<1> QED  BY <1>3, <1>4

(* The tuples that have not left. *)
RestOf(k, H) ==
  {t \in Tuple : \E b \in Boxes(k) : b # -1 /\ \E x \in 1 .. Len(H[b]) : t = H[b][x]}

(* A tuple that has not left is in a box, and not among those that have. *)
LEMMA RestIs ==
  ASSUME NEW k \in Nat, k >= 4, NEW H \in [Boxes(k) -> Seq(Tuple)], Distinct(k, H)
  PROVE  \A t : t \in RestOf(k, H) <=> Holds(k, H, t) /\ \A x \in 1 .. Len(H[-1]) : t # H[-1][x]
<1> DEFINE o == -1
<1>1. o \in Boxes(k)
  BY DEF Boxes
<1> HIDE DEF o
<1>2. \A b \in Boxes(k) : \A x \in 1 .. Len(H[b]) : H[b][x] \in Tuple
  OBVIOUS
<1>3. RestOf(k, H) =
        {t \in Tuple : \E b \in Boxes(k) : b # o /\ \E x \in 1 .. Len(H[b]) : t = H[b][x]}
  BY DEF RestOf, o
<1>4. ASSUME NEW t
      PROVE  t \in RestOf(k, H) <=> Holds(k, H, t) /\ \A x \in 1 .. Len(H[o]) : t # H[o][x]
  <2>1. ASSUME t \in RestOf(k, H) PROVE Holds(k, H, t) /\ \A x \in 1 .. Len(H[o]) : t # H[o][x]
    <3>1. PICK b \in Boxes(k) : b # o /\ \E x \in 1 .. Len(H[b]) : t = H[b][x]
      BY ONLY <1>3, <2>1
    <3>2. PICK y \in 1 .. Len(H[b]) : t = H[b][y]
      BY <3>1
    <3>3. Holds(k, H, t)
      BY <3>2 DEF Holds
    <3>4. ASSUME NEW x \in 1 .. Len(H[o]), t = H[o][x] PROVE FALSE
      <4>1. H[b][y] = H[o][x]
        BY <3>2, <3>4
      <4> QED  BY ONLY Distinct(k, H), <1>1, <3>1, <4>1 DEF Distinct
    <3> QED  BY <3>3, <3>4
  <2>2. ASSUME Holds(k, H, t), \A x \in 1 .. Len(H[o]) : t # H[o][x] PROVE t \in RestOf(k, H)
    <3>1. PICK b \in Boxes(k) : \E x \in 1 .. Len(H[b]) : t = H[b][x]
      BY <2>2 DEF Holds
    <3>2. b # o /\ t \in Tuple
      BY <1>2, <2>2, <3>1
    <3> QED  BY ONLY <1>3, <3>1, <3>2
  <2> QED  BY <2>1, <2>2
<1> QED  BY <1>4 DEF o

(* There are finitely many. *)
LEMMA RestFinite ==
  ASSUME NEW k \in Nat, NEW H \in [Boxes(k) -> Seq(Tuple)]
  PROVE  IsFiniteSet(RestOf(k, H))
<1> DEFINE B == Boxes(k)
           in(S) == {t \in Tuple : \E b \in S : \E x \in 1 .. Len(H[b]) : t = H[b][x]}
           P == {S \in SUBSET B : IsFiniteSet(in(S))}
<1>1. IsFiniteSet(B)
  <2>1. - 2 * k - 1 \in Int /\ 2 * k - 3 \in Int
    OBVIOUS
  <2> QED  BY <2>1, FS_Interval DEF Boxes
<1>2. {} \in P
  <2>1. in({}) = {}
    OBVIOUS
  <2> QED  BY <2>1, FS_EmptySet
<1>3. ASSUME NEW S \in SUBSET B, NEW b \in B \ S, S \in P PROVE S \cup {b} \in P
  <2> DEFINE I == {t \in Tuple : \E x \in 1 .. Len(H[b]) : t = H[b][x]}
             s == H[b]
  <2>1. IsFiniteSet(I)
    <3>1. IsFiniteSet(1 .. Len(s))
      <4>1. Len(s) \in Int
        OBVIOUS
      <4> QED  BY <4>1, FS_Interval
    <3>2. I \subseteq {s[x] : x \in 1 .. Len(s)}
      OBVIOUS
    <3> HIDE DEF I, s
    <3> QED  BY ONLY <3>1, <3>2, ImageBound
  <2>2. in(S \cup {b}) = in(S) \cup I
    OBVIOUS
  <2>3. IsFiniteSet(in(S))
    BY <1>3
  <2> HIDE DEF I, in
  <2>4. IsFiniteSet(in(S) \cup I)
    BY ONLY <2>1, <2>3, FS_Union
  <2>5. S \cup {b} \in SUBSET B
    OBVIOUS
  <2> QED  BY <2>2, <2>4, <2>5
<1> HIDE DEF P
<1>4. SUBSET B \subseteq P
  <2> HIDE DEF B
  <2>1. \A S \in SUBSET B : \A b \in B \ S : S \in P => S \cup {b} \in P
    BY <1>3
  <2> QED  BY ONLY <1>1, <1>2, <2>1, SubsetInduction
<1>5. IsFiniteSet(in(B))
  BY <1>4 DEF P
<1>6. RestOf(k, H) \in SUBSET in(B)
  BY DEF RestOf
<1> HIDE DEF in
<1> QED  BY ONLY <1>5, <1>6, FS_Subset

(* What the model calls remaining is what the boxes but the output hold. *)
LEMMA RemainingIs == TypeOK => Remaining = RestOf(K, Hold)
<1> SUFFICES ASSUME TypeOK PROVE Remaining = RestOf(K, Hold)
  OBVIOUS
<1>1. DOMAIN parts = 1 .. nparts /\ \A c \in 1 .. nparts : parts[c] \in Seq(Tuple)
  BY DEF TypeOK, nparts
<1>2. \A s : s \in Seq(Tuple) => ToSet(s) = {t \in Tuple : \E x \in 1 .. Len(s) : t = s[x]}
  BY DEF ToSet
<1>3. /\ \A c \in 1 .. nparts : /\ - c - 1 \in Boxes(K) /\ - c - 1 # -1 /\ Hold[- c - 1] = parts[c]
      /\ \A n \in Nodes : /\ n \in Boxes(K) /\ n # -1 /\ Hold[n] = Content(n) /\ Content(n) \in Seq(Tuple)
      /\ \A b \in Boxes(K) : b = -1 \/ b \in Nodes \/ - b - 1 \in 1 .. nparts
  <2>1. \A n \in Nodes : n # -1
    BY Sizes
  <2>2. \A n \in Nodes : Hold[n] = Content(n) /\ Content(n) \in Seq(Tuple) /\ n \in Boxes(K)
    BY HoldIs, ContentIs
  <2>3. \A c \in 1 .. nparts : - c - 1 # -1
    BY Sizes
  <2> QED  BY <2>1, <2>2, <2>3, HoldIs
<1>4. ASSUME NEW t PROVE t \in Remaining <=>
        \/ \E c \in 1 .. nparts : t \in ToSet(parts[c])
        \/ \E n \in Nodes : t \in ToSet(Content(n))
  BY ONLY <1>1 DEF Remaining
<1>5. ASSUME NEW t, t \in Remaining PROVE t \in RestOf(K, Hold)
  <2>1. CASE \E c \in 1 .. nparts : t \in ToSet(parts[c])
    <3>1. PICK c \in 1 .. nparts : t \in ToSet(parts[c])
      BY <2>1
    <3>2. PICK b : b = - c - 1
      OBVIOUS
    <3>3. b \in Boxes(K) /\ b # -1 /\ Hold[b] = parts[c] /\ parts[c] \in Seq(Tuple)
      BY ONLY <1>1, <1>3, <3>2, c \in 1 .. nparts
    <3>4. t \in Tuple /\ \E x \in 1 .. Len(Hold[b]) : t = Hold[b][x]
      BY <1>2, <3>1, <3>3
    <3> QED  BY ONLY <3>3, <3>4 DEF RestOf
  <2>2. CASE \E n \in Nodes : t \in ToSet(Content(n))
    <3>1. PICK n \in Nodes : t \in ToSet(Content(n))
      BY <2>2
    <3>2. t \in Tuple /\ \E x \in 1 .. Len(Hold[n]) : t = Hold[n][x]
      BY <1>2, <1>3, <3>1
    <3> QED  BY ONLY <1>3, <3>2, n \in Nodes DEF RestOf
  <2> QED  BY <1>4, <1>5, <2>1, <2>2
<1>6. ASSUME NEW t, t \in RestOf(K, Hold) PROVE t \in Remaining
  <2>1. PICK b \in Boxes(K) : t \in Tuple /\ b # -1 /\ \E x \in 1 .. Len(Hold[b]) : t = Hold[b][x]
    BY ONLY <1>6 DEF RestOf
  <2>2. CASE b \in Nodes
    <3>1. t \in ToSet(Content(b))
      BY ONLY <1>2, <1>3, <2>1, <2>2
    <3> QED  BY <1>4, <2>2, <3>1
  <2>3. CASE - b - 1 \in 1 .. nparts
    <3>1. PICK c : c = - b - 1
      OBVIOUS
    <3>2. c \in 1 .. nparts /\ b = - c - 1
      BY <2>3, <3>1 DEF Boxes
    <3>3. Hold[b] = parts[c]
      BY <1>3, <3>2
    <3>4. t \in ToSet(parts[c])
      BY ONLY <1>1, <1>2, <2>1, <3>2, <3>3
    <3> QED  BY <1>4, <3>2, <3>4
  <2> QED  BY <1>3, <2>1, <2>2, <2>3
<1> QED  BY <1>5, <1>6

(* Picks that move within the tree leave the tuples that have not left.    *)
LEMMA SameRest ==
  ASSUME NEW k \in Nat, k >= 4, NEW H \in [Boxes(k) -> Seq(Tuple)], Distinct(k, H),
         NEW n \in Parents(k), n # -1,
         NEW P, Taken(Two(H[KidR(k, n)], H[KidL(k, n)]), Zero, P),
         NEW H2, H2 = Moved(H, n, KidR(k, n), KidL(k, n), P)
  PROVE  H2[-1] = H[-1] /\ RestOf(k, H2) = RestOf(k, H) /\ Distinct(k, H2)
<1> DEFINE o == -1
           r == KidR(k, n)
           l == KidL(k, n)
<1>1. o \in Boxes(k) /\ o # n /\ o # r /\ o # l
  <2>1. -1 \notin Kids(k, n) /\ -1 \in Boxes(k)
    BY KidsIs DEF Boxes
  <2> QED  BY <2>1 DEF Kids
<1>2. MovedTo(k, H, n, r, l, P, H2, From("A", P), From("B", P))
  BY MovedIs
<1>3. (\A t : Holds(k, H2, t) <=> Holds(k, H, t)) /\ Distinct(k, H2)
  BY MovedSame
<1> HIDE DEF r, l, o
<1>4. H2[o] = H[o] /\ H2 \in [Boxes(k) -> Seq(Tuple)]
  BY ONLY <1>1, <1>2 DEF MovedTo
<1>5. \A t : t \in RestOf(k, H) <=> Holds(k, H, t) /\ \A x \in 1 .. Len(H[o]) : t # H[o][x]
  BY RestIs DEF o
<1>6. \A t : t \in RestOf(k, H2) <=> Holds(k, H2, t) /\ \A x \in 1 .. Len(H2[o]) : t # H2[o][x]
  <2>1. H2 \in [Boxes(k) -> Seq(Tuple)] /\ Distinct(k, H2)
    BY <1>3, <1>4
  <2> QED  BY ONLY k \in Nat, k >= 4, <2>1, RestIs DEF o
<1>7. RestOf(k, H2) = RestOf(k, H)
  <2>1. \A t : (\A x \in 1 .. Len(H2[o]) : t # H2[o][x]) <=> \A x \in 1 .. Len(H[o]) : t # H[o][x]
    BY ONLY <1>4
  <2>2. \A t : t \in RestOf(k, H2) <=> t \in RestOf(k, H)
    BY ONLY <1>3, <1>5, <1>6, <2>1
  <2> QED  BY ONLY <2>2
<1> QED  BY <1>3, <1>4, <1>7 DEF o

(* T leaves the boxes H for the output: each of it is one that had not left,*)
(* none leaves twice, and none is above one that stays.                    *)
Leaves(k, H, H2, T) ==
  /\ RestOf(k, H2) = RestOf(k, H) \ ToSet(T)
  /\ Cardinality(RestOf(k, H2)) = Cardinality(RestOf(k, H)) - Len(T)
  /\ \A x, y \in DOMAIN T : x < y => T[x][1] <= T[y][1]
  /\ \A x \in ToSet(T), later \in RestOf(k, H2) : x[1] <= later[1]

(* H2 is H after the picks P have moved to the output, box o. *)
MovesOut(k, H, o, P, H2, D, low) ==
  /\ k \in Nat /\ k >= 4 /\ H \in [Boxes(k) -> Seq(Tuple)] /\ Distinct(k, H) /\ o = -1
  /\ Taken(Two(H[KidR(k, o)], H[KidL(k, o)]), Zero, P)
  /\ H2 = Moved(H, o, KidR(k, o), KidL(k, o), P) /\ Tree(k, H2, D, low)

(* Picks that move to the output leave in order.                           *)
LEMMA RootRest ==
  ASSUME NEW k, NEW H, NEW o, NEW P, NEW H2, NEW D, NEW low, MovesOut(k, H, o, P, H2, D, low)
  PROVE  /\ Tuples(P) \in Seq(Tuple) /\ H2[o] = H[o] \o Tuples(P) /\ Distinct(k, H2)
         /\ Leaves(k, H, H2, Tuples(P))
<1> DEFINE r == KidR(k, o)
           l == KidL(k, o)
           T == Tuples(P)
           L == Len(H[o])
<1>0. /\ k \in Nat /\ k >= 4 /\ H \in [Boxes(k) -> Seq(Tuple)] /\ Distinct(k, H) /\ o = -1
      /\ Taken(Two(H[r], H[l]), Zero, P) /\ H2 = Moved(H, o, r, l, P) /\ Tree(k, H2, D, low)
  BY DEF MovesOut
<1> USE <1>0
<1>1. o \in Boxes(k) /\ o \in Parents(k)
  BY DEF Boxes, Parents
<1>2. MovedTo(k, H, o, r, l, P, H2, From("A", P), From("B", P))
  BY <1>1, MovedIs
<1>3. (\A t : Holds(k, H2, t) <=> Holds(k, H, t)) /\ Distinct(k, H2)
  BY <1>1, MovedSame
<1> HIDE DEF r, l
<1>4. /\ H2[o] = H[o] \o T /\ H2 \in [Boxes(k) -> Seq(Tuple)] /\ P \in PickSeq
      /\ Len(H2[o]) = L + Len(P) /\ Len(P) \in Nat /\ L \in Nat
      /\ \A x \in 1 .. L : H2[o][x] = H[o][x]
      /\ \A x \in 1 .. Len(P) : H2[o][L + x] = P[x][1]
  <2>1. L \in Nat
    BY <1>1
  <2> QED  BY ONLY <1>2, <2>1 DEF MovedTo, T, L
<1>5. /\ T \in Seq(Tuple) /\ Len(T) = Len(P) /\ DOMAIN T = 1 .. Len(P)
      /\ \A x \in 1 .. Len(P) : T[x] = H2[o][L + x] /\ T[x] \in Tuple
  <2>1. T \in Seq(Tuple) /\ Len(T) = Len(P) /\ \A x \in 1 .. Len(P) : T[x] = P[x][1]
    BY <1>4, TuplesIs
  <2> HIDE DEF T, L
  <2>2. DOMAIN T = 1 .. Len(P) /\ \A x \in 1 .. Len(P) : T[x] \in Tuple
    BY ONLY <2>1
  <2> QED  BY ONLY <1>4, <2>1, <2>2
<1> HIDE DEF T, L
<1>6. ToSet(T) = {T[x] : x \in 1 .. Len(P)}
  BY ONLY <1>5 DEF ToSet
<1>7. \A t : t \in RestOf(k, H) <=> Holds(k, H, t) /\ \A x \in 1 .. Len(H[o]) : t # H[o][x]
  BY RestIs
<1>8. \A t : t \in RestOf(k, H2) <=> Holds(k, H2, t) /\ \A x \in 1 .. Len(H2[o]) : t # H2[o][x]
  <2>1. H2 \in [Boxes(k) -> Seq(Tuple)] /\ Distinct(k, H2)
    BY <1>3, <1>4
  <2>2. \A t : t \in RestOf(k, H2) <=> Holds(k, H2, t) /\ \A x \in 1 .. Len(H2[-1]) : t # H2[-1][x]
    BY ONLY k \in Nat, k >= 4, <2>1, RestIs
  <2> QED  BY ONLY <2>2, o = -1
<1>9. \A t : (\A x \in 1 .. Len(H2[o]) : t # H2[o][x]) <=>
               (\A x \in 1 .. L : t # H[o][x]) /\ t \notin ToSet(T)
  <2> SUFFICES ASSUME NEW t
               PROVE  (\A x \in 1 .. Len(H2[o]) : t # H2[o][x]) <=>
                        (\A x \in 1 .. L : t # H[o][x]) /\ t \notin ToSet(T)
    OBVIOUS
  <2>1. ASSUME NEW x \in 1 .. Len(H2[o]), t = H2[o][x]
        PROVE  (\E y \in 1 .. L : t = H[o][y]) \/ t \in ToSet(T)
    <3>1. CASE x <= L
      <4>1. x \in 1 .. L
        BY ONLY <1>4, <3>1, x \in 1 .. Len(H2[o])
      <4> QED  BY ONLY <1>4, <2>1, <4>1
    <3>2. CASE ~(x <= L)
      <4>1. x - L \in 1 .. Len(P) /\ L + (x - L) = x
        BY ONLY <1>4, <3>2, x \in 1 .. Len(H2[o])
      <4>2. T[x - L] = t
        BY ONLY <1>5, <2>1, <4>1
      <4> QED  BY ONLY <1>6, <4>1, <4>2
    <3> QED  BY <3>1, <3>2
  <2>2. ASSUME NEW y \in 1 .. L, t = H[o][y] PROVE \E x \in 1 .. Len(H2[o]) : t = H2[o][x]
    <3>1. y \in 1 .. Len(H2[o])
      BY ONLY <1>4, y \in 1 .. L
    <3> QED  BY ONLY <1>4, <2>2, <3>1
  <2>3. ASSUME t \in ToSet(T) PROVE \E x \in 1 .. Len(H2[o]) : t = H2[o][x]
    <3>1. PICK x \in 1 .. Len(P) : t = T[x]
      BY ONLY <1>6, <2>3
    <3>2. L + x \in 1 .. Len(H2[o])
      BY ONLY <1>4, x \in 1 .. Len(P)
    <3> QED  BY ONLY <1>5, <3>1, <3>2
  <2> QED  BY <2>1, <2>2, <2>3
<1>10. RestOf(k, H2) = RestOf(k, H) \ ToSet(T)
  BY ONLY <1>3, <1>7, <1>8, <1>9 DEF L
<1>11. ASSUME NEW x \in 1 .. Len(P), NEW y \in 1 .. Len(P), T[x] = T[y] PROVE x = y
  <2>1. L + x \in 1 .. Len(H2[o]) /\ L + y \in 1 .. Len(H2[o])
    BY ONLY <1>4, x \in 1 .. Len(P), y \in 1 .. Len(P)
  <2>2. H2[o][L + x] = H2[o][L + y]
    BY <1>5, <1>11
  <2>3. L + x = L + y
    BY ONLY <1>1, <1>3, <2>1, <2>2 DEF Distinct
  <2> QED  BY ONLY <1>4, <2>3, x \in 1 .. Len(P), y \in 1 .. Len(P)
<1>12. ToSet(T) \subseteq RestOf(k, H)
  <2> SUFFICES ASSUME NEW x \in 1 .. Len(P) PROVE T[x] \in RestOf(k, H)
    BY <1>6
  <2>1. L + x \in 1 .. Len(H2[o]) /\ T[x] = H2[o][L + x]
    <3>1. L + x \in 1 .. Len(H2[o])
      BY ONLY <1>4, x \in 1 .. Len(P)
    <3> QED  BY ONLY <1>5, <3>1, x \in 1 .. Len(P)
  <2>2. Holds(k, H, T[x])
    <3>1. Holds(k, H2, T[x])
      BY ONLY <1>1, <2>1 DEF Holds
    <3> QED  BY <1>3, <3>1
  <2>3. ASSUME NEW y \in 1 .. L, T[x] = H[o][y] PROVE FALSE
    <3>1. y \in 1 .. Len(H2[o]) /\ y # L + x
      BY ONLY <1>4, x \in 1 .. Len(P), y \in 1 .. L
    <3>2. H2[o][L + x] = H2[o][y]
      BY ONLY <1>4, <2>1, <2>3
    <3> QED  BY ONLY <1>1, <1>3, <2>1, <3>1, <3>2 DEF Distinct
  <2> QED  BY <1>7, <2>2, <2>3 DEF L
<1>13. Cardinality(RestOf(k, H2)) = Cardinality(RestOf(k, H)) - Len(T)
  <2> DEFINE g == [x \in 1 .. Len(P) |-> T[x]]
  <2>1. g \in Bijection(1 .. Len(P), ToSet(T))
    BY ONLY <1>6, <1>11 DEF Bijection, Injection, Surjection, IsInjective
  <2>2. ExistsBijection(1 .. Len(P), ToSet(T))
    BY <2>1 DEF ExistsBijection
  <2>3. IsFiniteSet(1 .. Len(P)) /\ Cardinality(1 .. Len(P)) = Len(P)
    <3>1. 1 \in Int /\ Len(P) \in Int
      BY <1>4
    <3>2. IsFiniteSet(1 .. Len(P)) /\ Cardinality(1 .. Len(P)) = IF 1 > Len(P) THEN 0 ELSE Len(P) - 1 + 1
      BY ONLY <3>1, FS_Interval
    <3> QED  BY ONLY <1>4, <3>2
  <2>4. Cardinality(ToSet(T)) = Len(P)
    BY ONLY <2>2, <2>3, FS_Bijection
  <2>5. IsFiniteSet(RestOf(k, H))
    BY RestFinite
  <2>6. RestOf(k, H) \cap ToSet(T) = ToSet(T)
    BY ONLY <1>12
  <2>7. Cardinality(RestOf(k, H) \ ToSet(T)) = Cardinality(RestOf(k, H)) - Cardinality(RestOf(k, H) \cap ToSet(T))
    BY ONLY <2>5, FS_Difference
  <2> QED  BY ONLY <1>5, <1>10, <2>4, <2>6, <2>7
<1>14. \A x, y \in DOMAIN T : x < y => T[x][1] <= T[y][1]
  <2> SUFFICES ASSUME NEW x \in 1 .. Len(P), NEW y \in 1 .. Len(P), x < y PROVE T[x][1] <= T[y][1]
    BY <1>5
  <2>1. L + x \in 1 .. Len(H2[o]) /\ L + y \in 1 .. Len(H2[o]) /\ L + x <= L + y
    BY ONLY <1>4, x \in 1 .. Len(P), y \in 1 .. Len(P), x < y
  <2>2. Ascending(H2[o])
    BY ONLY <1>1, Tree(k, H2, D, low) DEF Tree
  <2>3. H2[o][L + x][1] <= H2[o][L + y][1]
    BY ONLY <2>1, <2>2 DEF Ascending
  <2> QED  BY <1>5, <2>3
<1>15. ASSUME NEW x \in 1 .. Len(P), NEW later \in RestOf(k, H2) PROVE T[x][1] <= later[1]
  <2>1. PICK b \in Boxes(k) : b # -1 /\ \E y \in 1 .. Len(H2[b]) : later = H2[b][y]
    BY DEF RestOf
  <2>2. PICK y \in 1 .. Len(H2[b]) : later = H2[b][y]
    BY <2>1
  <2>3. ~Dead(H2, D, b)
    <3>1. H2[b] \in Seq(Tuple)
      BY <1>4
    <3>2. H2[b] # << >>
      BY ONLY <3>1, y \in 1 .. Len(H2[b])
    <3> QED  BY <3>2 DEF Dead
  <2>4. L + x \in 1 .. Len(H2[o])
    BY ONLY <1>4, x \in 1 .. Len(P)
  <2>5. H2[o][L + x][1] <= low[b]
    BY <2>1, <2>3, <2>4, OutputLow
  <2>6. low[b] <= H2[b][y][1] /\ low[b] \in Nat
    BY ONLY Tree(k, H2, D, low), y \in 1 .. Len(H2[b]), b \in Boxes(k) DEF Tree
  <2>7. H2[o][L + x] \in Tuple /\ H2[b][y] \in Tuple
    <3>1. H2[o] \in Seq(Tuple) /\ H2[b] \in Seq(Tuple)
      BY ONLY <1>1, <1>4, b \in Boxes(k)
    <3> QED  BY ONLY <2>4, <3>1, y \in 1 .. Len(H2[b])
  <2>8. H2[o][L + x][1] \in Nat /\ H2[b][y][1] \in Nat
    BY ONLY <2>7 DEF Tuple
  <2>9. H2[o][L + x][1] <= H2[b][y][1]
    BY ONLY <2>5, <2>6, <2>8
  <2> QED  BY <1>5, <2>2, <2>9
<1>16. \A x \in ToSet(T), later \in RestOf(k, H2) : x[1] <= later[1]
  BY ONLY <1>6, <1>15
<1>17. Leaves(k, H, H2, T)
  BY ONLY <1>10, <1>13, <1>14, <1>16 DEF Leaves
<1> QED  BY <1>3, <1>4, <1>5, <1>17 DEF T

(* What a longer output adds. *)
LEMMA Appended ==
  ASSUME NEW s \in Seq(Tuple), NEW T \in Seq(Tuple)
  PROVE  IsPrefix(s, s \o T) /\ SubSeq(s \o T, Len(s) + 1, Len(s \o T)) = T
<1> DEFINE Z == s \o T
<1>1. /\ Z \in Seq(Tuple) /\ Len(Z) = Len(s) + Len(T) /\ Len(s) \in Nat /\ Len(T) \in Nat
      /\ \A x \in 1 .. Len(s) : Z[x] = s[x]
      /\ \A x \in 1 .. Len(T) : Z[Len(s) + x] = T[x]
  BY ConcatIs
<1> HIDE DEF Z
<1>2. SubSeq(Z, Len(s) + 1, Len(Z)) = T
  <2> DEFINE U == SubSeq(Z, Len(s) + 1, Len(Z))
  <2>1. /\ U \in Seq(Tuple) /\ Len(U) = Len(T)
        /\ \A x \in 1 .. Len(T) : U[x] = Z[x + Len(s)]
    <3>1. U = Drop(Z, Len(s))
      BY DEF Drop
    <3>2. Len(s) \in 0 .. Len(Z)
      BY ONLY <1>1
    <3>3. /\ Drop(Z, Len(s)) \in Seq(Tuple) /\ Len(Drop(Z, Len(s))) = Len(Z) - Len(s)
          /\ \A x \in 1 .. Len(Z) - Len(s) : Drop(Z, Len(s))[x] = Z[x + Len(s)]
      BY ONLY <1>1, <3>2, DropIs
    <3>4. Len(Z) - Len(s) = Len(T)
      BY ONLY <1>1
    <3> HIDE DEF U
    <3> QED  BY ONLY <3>1, <3>3, <3>4
  <2> HIDE DEF U
  <2>2. \A x \in 1 .. Len(T) : x + Len(s) = Len(s) + x
    BY ONLY <1>1
  <2>3. \A x \in 1 .. Len(T) : U[x] = T[x]
    BY ONLY <1>1, <2>1, <2>2
  <2>4. U = T
    BY ONLY <2>1, <2>3, T \in Seq(Tuple)
  <2> QED  BY <2>4 DEF U
<1>3. IsPrefix(s, Z)
  <2> DEFINE V == SubSeq(s, 1, Len(s))
             W == SubSeq(Z, 1, Len(s))
  <2>1. \A x \in 1 .. Len(s) : s[x] \in Tuple /\ Z[x] \in Tuple
    <3>1. \A x \in 1 .. Len(s) : s[x] \in Tuple
      OBVIOUS
    <3> QED  BY ONLY <1>1, <3>1
  <2>2. /\ V \in Seq(Tuple) /\ Len(V) = Len(s) /\ \A x \in 1 .. Len(s) : V[x] = s[x]
        /\ W \in Seq(Tuple) /\ Len(W) = Len(s) /\ \A x \in 1 .. Len(s) : W[x] = Z[x]
    BY ONLY <1>1, <2>1
  <2> HIDE DEF V, W
  <2>3. V = W
    <3>1. \A x \in 1 .. Len(s) : V[x] = W[x]
      BY ONLY <1>1, <2>2
    <3>2. V \in Seq(Tuple) /\ W \in Seq(Tuple) /\ Len(V) = Len(W) /\ \A x \in 1 .. Len(V) : V[x] = W[x]
      BY ONLY <2>2, <3>1
    <3> QED  BY ONLY <3>2
  <2> QED  BY ONLY <1>1, <2>3 DEF IsPrefix, V, W
<1> QED  BY <1>2, <1>3 DEF Z

(* A round that is about to end has seen only done nodes, and once the loop *)
(* has ended nothing is left in the tree.                                   *)
EndInv ==
  /\ m # -2 /\ ending => \A n \in 0 .. K - 3 : n > m => done[n]
  /\ m = -2 => \A b \in Boxes(K) : b # -1 => Hold[b] = << >>

MergeInv == IInv /\ Distinct(K, Hold) /\ EndInv
RestInv == Remaining = RestOf(K, Hold)

(* In the beginning only the runs hold tuples, each in one place.           *)
LEMMA InitMerge == Init => MergeInv
<1> SUFFICES ASSUME Init PROVE MergeInv
  OBVIOUS
<1>1. IInv
  BY InitInductive
<1>2. TypeOK /\ K \in Nat /\ K >= 4 /\ nfifos = 2 * K - 2 /\ Nodes = 0 .. 2 * K - 3
  <2>1. TypeOK
    BY <1>1 DEF IInv
  <2> QED  BY <2>1, Sizes
<1>3. parts \in Runs /\ m = nfifos - 1 /\ count = [n \in Nodes |-> 0] /\ output = << >>
  BY DEF Init
<1>4. ASSUME NEW b \in Boxes(K), b >= -1 PROVE Hold[b] = << >>
  <2>1. CASE b = -1
    BY <1>2, <1>3, <2>1, HoldIs
  <2>2. CASE b \in Nodes
    <3>1. Hold[b] = Held(b) /\ Held(b) \in Seq(Tuple) /\ Len(Held(b)) = 0
      BY <1>2, <1>3, <2>2, HoldIs, ContentIs
    <3> QED  BY ONLY <3>1
  <2>3. ~(b < -1)
    BY <1>4 DEF Boxes
  <2> QED  BY <1>2, <2>1, <2>2, <2>3, HoldIs
<1>5. ASSUME NEW b \in Boxes(K), NEW c \in Boxes(K),
             NEW x \in 1 .. Len(Hold[b]), NEW y \in 1 .. Len(Hold[c]), Hold[b][x] = Hold[c][y]
      PROVE  b = c /\ x = y
  <2>1. b < -1 /\ c < -1
    <3>1. Hold[b] # << >> /\ Hold[c] # << >>
      OBVIOUS
    <3>2. ~(b >= -1) /\ ~(c >= -1)
      BY <1>4, <3>1
    <3> QED  BY ONLY <3>2, b \in Boxes(K), c \in Boxes(K), <1>2 DEF Boxes
  <2>2. PICK i, j : i = - b - 1 /\ j = - c - 1
    OBVIOUS
  <2>3. i \in 1 .. nparts /\ j \in 1 .. nparts /\ b = - i - 1 /\ c = - j - 1
    <3>1. b \notin Nodes /\ c \notin Nodes /\ b # -1 /\ c # -1
      BY ONLY <1>2, <2>1
    <3>2. - b - 1 \in 1 .. nparts /\ - c - 1 \in 1 .. nparts
      BY ONLY <1>2, <3>1, HoldIs, b \in Boxes(K), c \in Boxes(K)
    <3> QED  BY ONLY <1>2, <2>2, <3>2, b \in Boxes(K), c \in Boxes(K) DEF Boxes
  <2>4. Hold[b] = parts[i] /\ Hold[c] = parts[j]
    BY <1>2, <2>3, HoldIs
  <2>5. DOMAIN parts = 1 .. nparts /\ parts[i] \in Seq(Tuple) /\ parts[j] \in Seq(Tuple)
    <3>1. parts \in Seq(Seq(Tuple)) /\ nparts = Len(parts)
      BY <1>2 DEF TypeOK, nparts
    <3> QED  BY ONLY <2>3, <3>1
  <2>6. x \in DOMAIN parts[i] /\ y \in DOMAIN parts[j] /\ parts[i][x] = parts[j][y]
    <3>1. x \in 1 .. Len(parts[i]) /\ y \in 1 .. Len(parts[j])
      BY <2>4
    <3> QED  BY <1>5, <2>4, <2>5, <3>1
  <2>7. i = j /\ x = y
    <3>1. \A d, e \in DOMAIN parts : \A v \in DOMAIN parts[d], w \in DOMAIN parts[e] :
            parts[d][v] = parts[e][w] => d = e /\ v = w
      BY ONLY <1>3, Identified
    <3>2. i \in DOMAIN parts /\ j \in DOMAIN parts
      BY ONLY <2>3, <2>5
    <3> QED  BY ONLY <2>6, <3>1, <3>2
  <2> QED  BY ONLY <2>3, <2>7
<1>6. Distinct(K, Hold)
  BY <1>5 DEF Distinct
<1>7. EndInv
  <2>1. \A n \in 0 .. K - 3 : ~(n > m)
    BY ONLY <1>2, <1>3
  <2>2. m # -2
    BY ONLY <1>2, <1>3
  <2> QED  BY <2>1, <2>2 DEF EndInv
<1> QED  BY <1>1, <1>6, <1>7 DEF MergeInv

(* A step of the leaves or the inner nodes keeps the invariant and changes  *)
(* neither what has left nor what remains.                                  *)
LEMMA TreeStep ==
  ASSUME MergeInv, ReadLeaf \/ MergeInner
  PROVE  MergeInv' /\ output' = output /\ returned' = returned /\ RestOf(K', Hold') = RestOf(K, Hold)
<1>1. /\ IInv /\ TypeOK /\ K \in Nat /\ K >= 4 /\ nfifos = 2 * K - 2 /\ FirstLeaf = K - 2
      /\ Nodes = 0 .. 2 * K - 3 /\ Distinct(K, Hold) /\ EndInv
  <2>1. IInv /\ TypeOK /\ Distinct(K, Hold) /\ EndInv
    BY DEF MergeInv, IInv
  <2> QED  BY <2>1, Sizes
<1>2. m \in -2 .. nfifos - 1 /\ done \in [Nodes -> BOOLEAN]
  BY <1>1 DEF TypeOK
<1>3. /\ output' = output /\ returned' = returned /\ m' = m - 1 /\ m \in Nodes
  <2>1. output' = output /\ returned' = returned /\ m' = m - 1 /\ (m >= FirstLeaf \/ m \in 0 .. FirstLeaf - 1)
    BY DEF ReadLeaf, MergeInner
  <2> QED  BY ONLY <1>1, <1>2, <2>1
<1>4. IInv' /\ K' = K /\ (Hold' = Hold \/ Moves(m))
  BY <1>1, ReadLeafInductive, MergeInnerInductive
<1>5. Hold \in [Boxes(K) -> Seq(Tuple)] /\ m \in Parents(K) /\ m # -1
  BY <1>1, <1>3, HoldIs
<1>6. Distinct(K, Hold') /\ RestOf(K, Hold') = RestOf(K, Hold)
  <2>1. CASE Hold' = Hold
    BY <1>1, <2>1
  <2>2. CASE Moves(m)
    <3>1. PICK P : /\ Taken(Two(Hold[KidR(K, m)], Hold[KidL(K, m)]), Zero, P)
                   /\ Hold' = Moved(Hold, m, KidR(K, m), KidL(K, m), P)
      BY <2>2 DEF Moves
    <3> QED  BY ONLY <1>1, <1>5, <3>1, SameRest
  <2> QED  BY <1>4, <2>1, <2>2
<1>7. EndInv'
  <2>1. m' # -2
    BY ONLY <1>1, <1>3
  <2>2. ASSUME ending', NEW n \in 0 .. K - 3, n > m' PROVE done'[n]
    <3>1. CASE ReadLeaf
      <4>1. m >= K - 2
        BY <1>1, <3>1 DEF ReadLeaf
      <4> QED  BY ONLY <1>1, <1>3, <2>2, <4>1, n \in 0 .. K - 3
    <3>2. CASE MergeInner
      <4>1. PICK e : done' = [done EXCEPT ![m] = e]
        BY <3>2 DEF MergeInner
      <4>2. ending' = (ending /\ done'[m])
        BY <3>2 DEF MergeInner
      <4>3. n \in Nodes /\ (n = m \/ n > m)
        BY ONLY <1>1, <1>3, <2>2, n \in 0 .. K - 3
      <4>4. CASE n = m
        BY <2>2, <4>2, <4>4
      <4>5. CASE n # m /\ n > m
        <5>1. done[n]
          <6>1. ending /\ m # -2
            <7>1. ending
              BY ONLY <2>2, <4>2
            <7>2. m # -2
              BY ONLY <1>1, <1>3
            <7> QED  BY <7>1, <7>2
          <6> QED  BY <1>1, <4>5, <6>1 DEF EndInv
        <5>2. done'[n] = done[n]
          BY ONLY <1>2, <4>1, <4>3, <4>5
        <5> QED  BY <5>1, <5>2
      <4>6. n = m \/ (n # m /\ n > m)
        BY <4>3
      <4> QED  BY <4>4, <4>5, <4>6
    <3> QED  BY <3>1, <3>2
  <2> QED  BY <1>4, <2>1, <2>2 DEF EndInv
<1> QED  BY <1>3, <1>4, <1>6, <1>7 DEF MergeInv

(* A step of the root keeps the invariant and lets tuples leave in order.   *)
LEMMA RootStep ==
  ASSUME MergeInv, StoreRoot
  PROVE  /\ MergeInv' /\ returned' = returned
         /\ \E T : /\ T \in Seq(Tuple) /\ output' = output \o T
                   /\ K' = K /\ Leaves(K, Hold, Hold', T)
<1>1. /\ IInv /\ TypeOK /\ K \in Nat /\ K >= 4 /\ nfifos = 2 * K - 2
      /\ Nodes = 0 .. 2 * K - 3 /\ Distinct(K, Hold) /\ EndInv
  <2>1. IInv /\ TypeOK /\ Distinct(K, Hold) /\ EndInv
    BY DEF MergeInv, IInv
  <2> QED  BY <2>1, Sizes
<1>2. /\ m = -1 /\ m' = (IF ending THEN -2 ELSE nfifos - 1) /\ returned' = returned /\ done' = done
  BY DEF StoreRoot
<1>3. /\ IInv' /\ K' = K /\ Moves(-1) /\ (BothDone(0, 1) => Hold'[0] = << >> /\ Hold'[1] = << >>)
  BY <1>1, StoreRootInductive
<1>4. PICK low : Tree(K, Hold', Done', low)
  BY <1>3 DEF IInv
<1>5. PICK o : o = -1
  OBVIOUS
<1>6. PICK P : /\ Taken(Two(Hold[KidR(K, o)], Hold[KidL(K, o)]), Zero, P)
               /\ Hold' = Moved(Hold, o, KidR(K, o), KidL(K, o), P)
  BY <1>3, <1>5 DEF Moves
<1>7. Hold \in [Boxes(K) -> Seq(Tuple)] /\ Hold[o] = output /\ Hold'[o] = output'
  <2>1. Hold \in [Boxes(K) -> Seq(Tuple)] /\ Hold[o] = output
    BY <1>1, <1>5, HoldIs
  <2>2. Hold'[o] = output'
    <3>1. o \in Boxes(K')
      BY <1>1, <1>3, <1>5 DEF Boxes
    <3> QED  BY <1>5, <3>1 DEF Hold
  <2> QED  BY <2>1, <2>2
<1> DEFINE T == Tuples(P)
<1>8. /\ T \in Seq(Tuple) /\ Hold'[o] = Hold[o] \o T /\ Distinct(K, Hold')
      /\ Leaves(K, Hold, Hold', T)
  <2>1. PICK H2, D2 : H2 = Hold' /\ D2 = Done'
    OBVIOUS
  <2>2. PICK H, k : H = Hold /\ k = K
    OBVIOUS
  <2>3. /\ k \in Nat /\ k >= 4 /\ H \in [Boxes(k) -> Seq(Tuple)] /\ Distinct(k, H)
        /\ Taken(Two(H[KidR(k, o)], H[KidL(k, o)]), Zero, P)
        /\ H2 = Moved(H, o, KidR(k, o), KidL(k, o), P) /\ Tree(k, H2, D2, low)
    BY ONLY <1>1, <1>4, <1>6, <1>7, <2>1, <2>2
  <2>4. PICK T2 : T2 = Tuples(P)
    OBVIOUS
  <2>5. T2 \in Seq(Tuple) /\ H2[o] = H[o] \o T2 /\ Distinct(k, H2) /\ Leaves(k, H, H2, T2)
    <3>0. MovesOut(k, H, o, P, H2, D2, low)
      BY ONLY <1>5, <2>3 DEF MovesOut
    <3>1. Tuples(P) \in Seq(Tuple) /\ H2[o] = H[o] \o Tuples(P) /\ Distinct(k, H2)
          /\ Leaves(k, H, H2, Tuples(P))
      BY ONLY <3>0, RootRest
    <3> QED  BY ONLY <2>4, <3>1
  <2> QED  BY <2>1, <2>2, <2>4, <2>5 DEF T
<1>9. EndInv'
  <2>1. CASE ending
    <3>1. \A n \in 0 .. K - 3 : done[n]
      <4>1. m # -2 /\ \A n \in 0 .. K - 3 : n > m
        BY ONLY <1>1, <1>2
      <4> QED  BY <1>1, <2>1, <4>1 DEF EndInv
    <3>2. 0 \in 0 .. K - 3 /\ 1 \in 0 .. K - 3
      BY ONLY <1>1
    <3>3. Hold'[0] = << >> /\ Hold'[1] = << >>
      BY <1>3, <3>1, <3>2 DEF BothDone
    <3>4. \A n \in 0 .. K - 3 : Done'[n]
      <4> SUFFICES ASSUME NEW n \in 0 .. K - 3 PROVE Done'[n]
        OBVIOUS
      <4>1. n \in Boxes(K') /\ n # -1 /\ ~(n < -1)
        BY ONLY <1>1, <1>3, n \in 0 .. K - 3 DEF Boxes
      <4>2. Done'[n] = done'[n]
        BY <4>1 DEF Done
      <4> QED  BY <1>2, <3>1, <4>2
    <3>5. ASSUME NEW b \in Boxes(K), b # -1 PROVE Hold'[b] = << >>
      <4>1. CASE b \notin {-1, 0, 1}
        BY ONLY <1>1, <1>4, <3>4, <4>1, DeadAll, b \in Boxes(K)
      <4> QED  BY <3>3, <3>5, <4>1
    <3>6. m' = -2
      BY <1>2, <2>1
    <3> QED  BY <1>3, <3>5, <3>6 DEF EndInv
  <2>2. CASE ~ending
    <3>1. m' # -2 /\ \A n \in 0 .. K - 3 : ~(n > m')
      BY ONLY <1>1, <1>2, <2>2
    <3> QED  BY <1>3, <3>1 DEF EndInv
  <2> QED  BY <2>1, <2>2
<1> HIDE DEF T
<1>10. output' = output \o T
  BY <1>7, <1>8
<1>11. MergeInv'
  BY <1>3, <1>8, <1>9 DEF MergeInv
<1> QED  BY <1>2, <1>3, <1>8, <1>10, <1>11

(* The other steps touch neither the rings nor the output.                  *)
LEMMA QuietStep ==
  ASSUME MergeInv, Return \/ UNCHANGED vars
  PROVE  MergeInv' /\ output' = output /\ K' = K /\ Hold' = Hold
<1>1. IInv /\ Distinct(K, Hold) /\ EndInv /\ m \in -2 .. nfifos - 1
  BY DEF MergeInv, IInv, TypeOK
<1>2. UNCHANGED << parts, fifosize, buffer, head, tail, count, done, output, m, ending >>
  BY DEF Return, vars, rings
<1>3. IInv' /\ K' = K /\ Hold' = Hold
  BY <1>1, <1>2, SameInductive
<1>4. EndInv'
  BY <1>1, <1>2, <1>3 DEF EndInv
<1> QED  BY <1>1, <1>2, <1>3, <1>4 DEF MergeInv

(* Once the loop has ended nothing remains. *)
LEMMA NothingRemains ==
  ASSUME MergeInv, m = -2
  PROVE  RestOf(K, Hold) = {}
<1>1. \A b \in Boxes(K) : b # -1 => Hold[b] = << >>
  BY DEF MergeInv, EndInv
<1>2. ASSUME NEW t \in RestOf(K, Hold) PROVE FALSE
  <2>1. PICK b \in Boxes(K) : b # -1 /\ \E x \in 1 .. Len(Hold[b]) : t = Hold[b][x]
    BY DEF RestOf
  <2>2. Hold[b] = << >>
    BY <1>1, <2>1
  <2>3. Len(Hold[b]) = 0
    BY ONLY <2>2
  <2> QED  BY <2>1, <2>3
<1> QED  BY <1>2

(* The loop merges: whatever the runs, their tuples leave the tree in       *)
(* ascending order, each once, and when the loop ends all have left.        *)
THEOREM MergeIsImplemented == Spec => ImplementsMerge
<1>1. Init => MergeInv
  BY InitMerge
<1>2. MergeInv /\ [Next]_vars => MergeInv'
  <2> SUFFICES ASSUME MergeInv, [Next]_vars PROVE MergeInv'
    OBVIOUS
  <2>1. CASE ReadLeaf \/ MergeInner
    BY <2>1, TreeStep
  <2>2. CASE StoreRoot
    BY <2>2, RootStep
  <2>3. CASE Return \/ UNCHANGED vars
    BY <2>3, QuietStep
  <2> QED  BY <2>1, <2>2, <2>3 DEF Next, Terminated
<1>3. Init => Abstract!Init
  BY DEF Init, Abstract!Init
<1>4. MergeInv => RestInv
  BY RemainingIs DEF MergeInv, IInv, RestInv
<1>5. MergeInv /\ RestInv /\ RestInv' /\ [Next]_vars
      => [Abstract!Emit \/ Abstract!Finish]_(Abstract!mvars)
  <2> SUFFICES ASSUME MergeInv, Remaining = RestOf(K, Hold), Remaining' = RestOf(K', Hold'),
                      [Next]_vars
               PROVE  [Abstract!Emit \/ Abstract!Finish]_<< Remaining, output, returned >>
    BY DEF RestInv, Abstract!mvars
  <2>1. CASE ReadLeaf \/ MergeInner
    <3>1. Remaining' = Remaining /\ output' = output /\ returned' = returned
      BY <2>1, TreeStep
    <3> QED  BY <3>1
  <2>2. CASE StoreRoot
    <3>1. returned' = returned
      BY <2>2, RootStep
    <3>2. PICK T : /\ T \in Seq(Tuple) /\ output' = output \o T
                   /\ Remaining' = Remaining \ ToSet(T)
                   /\ Cardinality(Remaining') = Cardinality(Remaining) - Len(T)
                   /\ \A x, y \in DOMAIN T : x < y => T[x][1] <= T[y][1]
                   /\ \A x \in ToSet(T), later \in Remaining' : x[1] <= later[1]
      <4>1. PICK T : /\ T \in Seq(Tuple) /\ output' = output \o T
                     /\ K' = K /\ Leaves(K, Hold, Hold', T)
        BY <2>2, RootStep
      <4> QED  BY <4>1 DEF Leaves
    <3>3. output \in Seq(Tuple) /\ ~returned
      BY <2>2 DEF MergeInv, IInv, TypeOK, StoreRoot
    <3>4. IsPrefix(output, output') /\ SubSeq(output', Len(output) + 1, Len(output')) = T
      BY <3>2, <3>3, Appended
    <3>5. /\ Abstract!IsPrefix(output, output') /\ Abstract!ToSet(T) = ToSet(T)
          /\ Abstract!Cardinality(Remaining') = Cardinality(Remaining')
          /\ Abstract!Cardinality(Remaining) = Cardinality(Remaining)
      BY <3>4 DEF Abstract!IsPrefix, IsPrefix, Abstract!ToSet, ToSet, Abstract!Cardinality, Cardinality
    <3>6. Abstract!Emit
      BY ONLY <3>1, <3>2, <3>3, <3>4, <3>5 DEF Abstract!Emit
    <3> QED  BY <3>6
  <2>3. CASE Return
    <3>1. Remaining' = Remaining /\ output' = output
      BY <2>3, QuietStep
    <3>2. m = -2 /\ ~returned /\ returned'
      BY <2>3 DEF Return
    <3>3. Remaining = {}
      BY <3>2, NothingRemains
    <3> QED  BY <3>1, <3>2, <3>3 DEF Abstract!Finish
  <2>4. CASE UNCHANGED vars
    <3>1. Remaining' = Remaining /\ output' = output
      BY <2>4, QuietStep
    <3>2. returned' = returned
      BY <2>4 DEF vars
    <3> QED  BY <3>1, <3>2
  <2> QED  BY <2>1, <2>2, <2>3, <2>4 DEF Next, Terminated
<1> QED  BY <1>1, <1>2, <1>3, <1>4, <1>5, PTL DEF Spec, ImplementsMerge, Abstract!Spec
=============================================================================
