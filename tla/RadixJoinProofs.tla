--------------------------- MODULE RadixJoinProofs ---------------------------
(***************************************************************************)
(* The radix join is correct for any number of threads, any two relations  *)
(* and any layout parameters: its unsynchronised writes never meet, every  *)
(* cluster is complete when it is read, the queues hold only tasks the     *)
(* join functions can handle, no match is lost or doubled, and it          *)
(* implements the promise of a join. All this follows from one inductive   *)
(* invariant, and from the arithmetic of the layout in the first half of   *)
(* the module: where each tuple belongs in the padded buffer of the first  *)
(* pass, that the prefix sums over the histograms of all threads start     *)
(* each thread exactly there, how the chunks of the threads divide a       *)
(* relation, and what the radix bits of the two passes have to do with     *)
(* each other.                                                             *)
(***************************************************************************)
EXTENDS RadixJoin, CountingLemmas

(* The relations are sequences of keys. *)
Keys == rkeys \in Seq(Nat) /\ skeys \in Seq(Nat)
(* The tuples that go before position i of cluster j. *)
Lower(x, i, j) == {m \in Positions(x) : Radix(x, m) < j \/ (Radix(x, m) = j /\ m < i)}
(* The slot that the next tuple of cluster j gets when all positions      *)
(* below i are placed.                                                    *)
Pos(x, i, j) == Cardinality(Lower(x, i, j)) + j * Padding
(* The slot of tuple n. *)
Slot(x, n) == Pos(x, n, Radix(x, n))

(* Log2Ceil is well defined: some exponent up to n is large enough for n. *)
LEMMA Log2Type ==
  ASSUME NEW n \in Nat PROVE Log2Ceil(n) \in Nat
<1> DEFINE S == {b \in 0 .. n : 2 ^ b >= n}
<1>1. n \in S
  BY PowGreater, PowType
<1>2. \E b \in S : \A c \in S : b <= c
  <2>1. S \in SUBSET Nat /\ S # {}
    BY <1>1
  <2> HIDE DEF S
  <2> QED  BY <2>1, LeastElement
<1>3. \E b \in 0 .. n : 2 ^ b >= n /\ \A c \in 0 .. n : 2 ^ c >= n => b <= c
  BY <1>2
<1> QED  BY <1>3 DEF Log2Ceil

(* The numbers of radix bits, passes, clusters and padding tuples are     *)
(* natural, and the bits of the two passes add up to all of them.         *)
LEMMA Layout ==
  ASSUME Keys
  PROVE  /\ num_radix_bits \in Nat /\ num_passes \in {1, 2}
         /\ R \in Nat /\ D \in Nat /\ R + D = num_radix_bits
         /\ num_passes = 1 => D = 0
         /\ fanOut \in Nat \ {0} /\ 2 ^ D \in Nat \ {0}
         /\ Padding \in Nat
         /\ Len(rkeys) \in Nat /\ Len(skeys) \in Nat
<1>1. Len(rkeys) \in Nat /\ Len(skeys) \in Nat
  BY DEF Keys
<1>2. num_radix_bits \in Nat
  <2> DEFINE q == (Len(rkeys) + CacheTuples - 1) \div CacheTuples
  <2>1. CacheTuples \in Nat \ {0}
    BY LayoutAssumption
  <2>3. Len(rkeys) + CacheTuples - 1 \in Nat
    BY <1>1, <2>1
  <2>4. q \in Nat
    BY <2>1, <2>3, DivMod
  <2>2. (IF q > NThreads THEN q ELSE NThreads) \in Nat
    BY <2>4, JoinAssumption
  <2> QED  BY <2>2, Log2Type DEF num_radix_bits, calc_num_radix_bits
<1>3. num_passes \in {1, 2}
  BY DEF num_passes, calc_num_passes
<1>4. R = num_radix_bits \div num_passes /\ D = num_radix_bits - num_radix_bits \div num_passes
  BY DEF R, D, bits_pass_1, bits_pass_2
<1>5. R \in Nat /\ D \in Nat /\ R + D = num_radix_bits /\ (num_passes = 1 => D = 0)
  BY <1>2, <1>3, <1>4
<1>6. fanOut \in Nat \ {0} /\ 2 ^ D \in Nat \ {0}
  BY <1>5, PowType DEF fanOut
<1>7. Padding = SmallPadding * (2 ^ D + 1)
  BY DEF Padding, padding_tuples, fanout_pass_2, D, bits_pass_2
<1>8. Padding \in Nat
  BY <1>6, <1>7, LayoutAssumption
<1> QED  BY <1>1, <1>2, <1>3, <1>5, <1>6, <1>8

(* HashBits is a number of d bits. *)
LEMMA HashType ==
  ASSUME NEW v \in Nat, NEW r \in Nat, NEW d \in Nat
  PROVE  HashBits(v, r, d) \in 0 .. 2 ^ d - 1
<1>1. 2 ^ r \in Nat \ {0} /\ 2 ^ d \in Nat \ {0}
  BY PowType
<1> DEFINE a == 2 ^ r
           b == 2 ^ d
<1> HIDE DEF a, b
<1>2. (v \div a) \in Nat
  BY <1>1, DivMod DEF a
<1>3. (v \div a) % b \in 0 .. b - 1
  BY <1>1, <1>2, DivMod DEF b
<1> QED  BY <1>3 DEF HashBits, a, b

(* The r + d low bits of a key are the r low bits and the d bits above    *)
(* these.                                                                 *)
LEMMA HashSplit ==
  ASSUME NEW v \in Nat, NEW r \in Nat, NEW d \in Nat
  PROVE  HashBits(v, 0, r + d) = HashBits(v, 0, r) + 2 ^ r * HashBits(v, r, d)
<1> DEFINE a == 2 ^ r
           b == 2 ^ d
<1>1. a \in Nat \ {0} /\ b \in Nat \ {0} /\ 2 ^ (r + d) = a * b
  BY PowType, PowAdd
<1>2. 2 ^ 0 = 1 /\ v \div 1 = v
  OBVIOUS
<1>3. /\ HashBits(v, 0, r + d) = v % (a * b) /\ HashBits(v, 0, r) = v % a
      /\ HashBits(v, r, d) = (v \div a) % b
  BY <1>1, <1>2 DEF HashBits
<1> HIDE DEF a, b
<1>4. v % (a * b) = (v % a) + a * ((v \div a) % b)
  BY <1>1, ModSplit
<1> QED  BY <1>3, <1>4 DEF a

(* Each tuple has a key and belongs to one of the clusters. *)
LEMMA RadixType ==
  ASSUME Keys, NEW x \in Relations
  PROVE  /\ Len(Rel(x)) \in Nat /\ DOMAIN Rel(x) = Positions(x)
         /\ IsFiniteSet(Positions(x)) /\ Cardinality(Positions(x)) = Len(Rel(x))
         /\ \A n \in Positions(x) : Rel(x)[n] \in Nat /\ Radix(x, n) \in Clusters /\ n \in Nat
<1>1. Rel(x) \in Seq(Nat)
  BY DEF Keys, Rel
<1>2. /\ Len(Rel(x)) \in Nat /\ DOMAIN Rel(x) = Positions(x)
      /\ \A n \in Positions(x) : Rel(x)[n] \in Nat /\ n \in Nat
  BY <1>1 DEF Positions
<1>3. IsFiniteSet(Positions(x)) /\ Cardinality(Positions(x)) = Len(Rel(x))
  BY <1>2, FS_Interval DEF Positions
<1>4. ASSUME NEW n \in Positions(x) PROVE Radix(x, n) \in Clusters
  <2>1. 2 ^ 0 \in Nat \ {0} /\ fanOut \in Nat \ {0}
    BY Layout
  <2>2. Rel(x)[n] \div 2 ^ 0 \in Nat
    BY <1>2, <2>1, DivMod
  <2>3. (Rel(x)[n] \div 2 ^ 0) % fanOut \in 0 .. fanOut - 1
    BY <2>1, <2>2, DivMod
  <2> QED  BY <2>3 DEF Radix, HashBits, Clusters, fanOut
<1> QED  BY <1>2, <1>3, <1>4

(* No more tuples go before a position than the relation has. *)
LEMMA LowerFinite ==
  ASSUME Keys, NEW x \in Relations, NEW i, NEW j
  PROVE  IsFiniteSet(Lower(x, i, j)) /\ Cardinality(Lower(x, i, j)) \in 0 .. Len(Rel(x))
<1>1. Lower(x, i, j) \subseteq Positions(x)
  BY DEF Lower
<1> QED  BY <1>1, RadixType, FS_Subset, FS_CardinalityType

(* Placing a tuple moves the next slot of its own cluster on, and of no   *)
(* other.                                                                 *)
LEMMA PosNext ==
  ASSUME Keys, NEW x \in Relations, NEW n \in Positions(x), NEW j \in Clusters
  PROVE  /\ Pos(x, n + 1, j) = Pos(x, n, j) + (IF Radix(x, n) = j THEN 1 ELSE 0)
         /\ Pos(x, n, j) \in Nat
<1>1. Pos(x, n, j) \in Nat
  <2>1. j \in Nat /\ Padding \in Nat
    BY Layout DEF Clusters
  <2>2. j * Padding \in Nat
    BY <2>1
  <2> QED  BY <2>2, LowerFinite DEF Pos
<1>2. CASE Radix(x, n) = j
  <2>1. Lower(x, n + 1, j) = Lower(x, n, j) \cup {n} /\ n \notin Lower(x, n, j)
    BY <1>2, RadixType DEF Lower, Clusters
  <2>2. Cardinality(Lower(x, n + 1, j)) = Cardinality(Lower(x, n, j)) + 1
    BY <2>1, LowerFinite, FS_AddElement
  <2> DEFINE p == j * Padding
  <2>3. p \in Int /\ Cardinality(Lower(x, n, j)) \in Int
    BY LowerFinite, Layout DEF Clusters
  <2> HIDE DEF p
  <2>4. Cardinality(Lower(x, n + 1, j)) + p = (Cardinality(Lower(x, n, j)) + p) + 1
    BY <2>2, <2>3
  <2> QED  BY <1>1, <1>2, <2>4 DEF Pos, p
<1>3. CASE Radix(x, n) # j
  <2>1. Lower(x, n + 1, j) = Lower(x, n, j)
    BY <1>3, RadixType DEF Lower, Clusters
  <2> QED  BY <1>1, <1>3, <2>1 DEF Pos
<1> QED  BY <1>2, <1>3

(* The slots of the buffer for relation x. *)
Buffer(x) == 0 .. Len(Rel(x)) + fanOut * Padding - 1

(* Slots are natural numbers. *)
LEMMA PosType ==
  ASSUME Keys, NEW x \in Relations, NEW i, NEW j \in 0 .. fanOut
  PROVE  Pos(x, i, j) \in Nat
<1>1. j * Padding \in Nat
  BY Layout
<1> QED  BY <1>1, LowerFinite DEF Pos

(* The sizes that slots are computed from.                                *)
LEMMA Numbers ==
  ASSUME Keys, NEW x \in Relations
  PROVE  /\ Len(Rel(x)) \in Nat /\ fanOut \in Nat /\ Padding \in Nat
         /\ \A j \in Clusters : j \in 0 .. fanOut /\ j * Padding \in Nat
<1>1. Len(Rel(x)) \in Nat
  BY RadixType
<1>2. fanOut \in Nat /\ Padding \in Nat
  BY Layout
<1>3. \A j \in Clusters : j \in 0 .. fanOut
  BY <1>2 DEF Clusters
<1>4. \A j \in Clusters : j * Padding \in Nat
  BY ONLY <1>2, <1>3
<1> QED  BY <1>1, <1>2, <1>3, <1>4

(* Placing the tuples a .. b - 1 moves cluster j on by as many as belong  *)
(* to it.                                                                 *)
LEMMA PosSpan ==
  ASSUME Keys, NEW x \in Relations, NEW j \in Clusters,
         NEW a \in 1 .. Len(Rel(x)) + 1, NEW b \in a .. Len(Rel(x)) + 1
  PROVE  LET span == {n \in a .. b - 1 : Radix(x, n) = j}
         IN  /\ IsFiniteSet(span) /\ Cardinality(span) \in Nat
             /\ Pos(x, b, j) = Pos(x, a, j) + Cardinality(span)
<1> DEFINE span == {n \in a .. b - 1 : Radix(x, n) = j}
           p == j * Padding
<1>1. Len(Rel(x)) \in Nat /\ p \in Nat
  BY Numbers
<1>2. a .. b - 1 \subseteq Positions(x)
  BY <1>1 DEF Positions
<1>3. Lower(x, b, j) = Lower(x, a, j) \cup span
  BY <1>1, <1>2, RadixType DEF Lower, Clusters
<1>4. Lower(x, a, j) \cap span = {}
  BY <1>1, <1>2, RadixType DEF Lower, Clusters
<1>5. IsFiniteSet(span) /\ Cardinality(span) \in Nat
  BY <1>2, RadixType, FS_Subset, FS_CardinalityType
<1> HIDE DEF span, p
<1>6. Cardinality(Lower(x, b, j))
        = Cardinality(Lower(x, a, j)) + Cardinality(span) - Cardinality(Lower(x, a, j) \cap span)
  BY <1>3, <1>5, LowerFinite, FS_Union
<1>7. Cardinality(Lower(x, a, j) \cap span) = 0
  BY <1>4, FS_EmptySet
<1>8. Cardinality(Lower(x, b, j)) + p = (Cardinality(Lower(x, a, j)) + p) + Cardinality(span)
  BY <1>1, <1>5, <1>6, <1>7, LowerFinite
<1> QED  BY <1>5, <1>8 DEF Pos, span, p

(* Every slot between the two belongs to one of these tuples. *)
LEMMA SlotFind ==
  ASSUME Keys, NEW x \in Relations, NEW j \in Clusters,
         NEW a \in 1 .. Len(Rel(x)) + 1, NEW b \in a .. Len(Rel(x)) + 1,
         NEW s \in Pos(x, a, j) .. Pos(x, b, j) - 1
  PROVE  \E n \in a .. b - 1 : Radix(x, n) = j /\ Slot(x, n) = s
<1> DEFINE S == {i \in a .. b : Pos(x, i, j) > s}
<1>0. Len(Rel(x)) \in Nat /\ j \in 0 .. fanOut /\ fanOut \in Nat
  BY Numbers
<1>1. Pos(x, a, j) \in Nat /\ Pos(x, b, j) \in Nat /\ s \in Nat /\ a \in Nat /\ b \in Nat
  BY <1>0, PosType
<1>2. b \in S /\ S \in SUBSET Nat
  BY <1>0, <1>1
<1>3. PICK m \in S : \A i \in S : m <= i
  <2> HIDE DEF S
  <2> QED  BY <1>2, LeastElement
<1>4. m # a
  BY <1>1, <1>3
<1> DEFINE n == m - 1
<1>5. n \in a .. b - 1 /\ n + 1 = m /\ n \in Positions(x) /\ n \notin S
  BY <1>0, <1>1, <1>3, <1>4 DEF Positions
<1>6. Pos(x, n, j) \in Nat /\ Pos(x, n, j) <= s
  BY <1>0, <1>1, <1>5, PosType
<1>7. Pos(x, n + 1, j) > s
  BY <1>3, <1>5
<1> HIDE DEF n, S
<1>8. Pos(x, n + 1, j) = Pos(x, n, j) + (IF Radix(x, n) = j THEN 1 ELSE 0)
  BY <1>5, PosNext
<1>9. Radix(x, n) = j /\ Pos(x, n, j) = s
  BY <1>1, <1>6, <1>7, <1>8
<1> QED  BY <1>5, <1>9 DEF Slot

(* The order in which pass 1 lays out the tuples. *)
Less(x, n, m) == Radix(x, n) < Radix(x, m) \/ (Radix(x, n) = Radix(x, m) /\ n < m)

(* Slots are in layout order, whatever the padding. *)
LEMMA SlotMono ==
  ASSUME Keys, NEW x \in Relations, NEW n \in Positions(x), NEW m \in Positions(x),
         Less(x, n, m)
  PROVE  Slot(x, n) < Slot(x, m) /\ Slot(x, n) \in Nat /\ Slot(x, m) \in Nat
<1> DEFINE A == Lower(x, n, Radix(x, n))
           B1 == Lower(x, m, Radix(x, m))
           p == Radix(x, n) * Padding
           q == Radix(x, m) * Padding
<1>1. /\ Radix(x, n) \in Nat /\ Radix(x, m) \in Nat /\ Radix(x, n) <= Radix(x, m)
      /\ Padding \in Nat
  <2>1. Radix(x, n) \in Nat /\ Radix(x, m) \in Nat
    BY RadixType DEF Clusters
  <2> QED  BY <2>1, Layout DEF Less
<1>2. p <= q /\ p \in Nat /\ q \in Nat
  BY <1>1, TimesMono
<1>3. A \cup {n} \subseteq B1 /\ n \notin A
  BY <1>1, RadixType DEF Lower, Less, Clusters
<1>4. IsFiniteSet(A) /\ IsFiniteSet(B1) /\ Cardinality(A) \in Nat /\ Cardinality(B1) \in Nat
  BY LowerFinite, RadixType
<1> HIDE DEF A, B1, p, q
<1>5. Cardinality(A \cup {n}) = Cardinality(A) + 1 /\ Cardinality(A \cup {n}) <= Cardinality(B1)
  BY <1>3, <1>4, FS_AddElement, FS_Subset
<1>6. /\ Cardinality(A) + p < Cardinality(B1) + q /\ Cardinality(A) + p \in Nat
      /\ Cardinality(B1) + q \in Nat
  BY <1>2, <1>4, <1>5
<1> QED  BY <1>6 DEF Slot, Pos, A, B1, p, q

(* No two tuples of a relation share a slot. *)
LEMMA SlotInjective ==
  ASSUME Keys, NEW x \in Relations, NEW n \in Positions(x), NEW m \in Positions(x),
         Slot(x, n) = Slot(x, m)
  PROVE  n = m
<1> SUFFICES ASSUME n # m PROVE FALSE
  OBVIOUS
<1>1. Less(x, n, m) \/ Less(x, m, n)
  BY RadixType DEF Less, Clusters
<1>2. CASE Less(x, n, m)
  BY <1>2, SlotMono
<1>3. CASE Less(x, m, n)
  BY <1>3, SlotMono
<1> QED  BY <1>1, <1>2, <1>3

(* join_init_run has allocated the slot of every tuple. *)
LEMMA SlotType ==
  ASSUME Keys, NEW x \in Relations, NEW n \in Positions(x)
  PROVE  Slot(x, n) \in Buffer(x)
<1> DEFINE A == Lower(x, n, Radix(x, n))
           p == Radix(x, n) * Padding
           q == fanOut * Padding
<1>1. /\ Radix(x, n) \in Nat /\ fanOut \in Nat /\ Radix(x, n) <= fanOut /\ Padding \in Nat
      /\ Len(Rel(x)) \in Nat
  <2>1. Radix(x, n) \in Clusters
    BY RadixType
  <2> QED  BY <2>1, Numbers
<1>2. p <= q /\ p \in Nat /\ q \in Nat
  BY <1>1, TimesMono
<1>3. n \notin A /\ A \subseteq Positions(x) /\ A # Positions(x)
  BY <1>1, RadixType DEF Lower
<1>4. Cardinality(A) < Len(Rel(x)) /\ Cardinality(A) \in Nat
  <2> HIDE DEF A
  <2>1. IsFiniteSet(A)
    BY <1>3, RadixType, FS_Subset
  <2>2. /\ Cardinality(A) <= Cardinality(Positions(x))
        /\ Cardinality(A) # Cardinality(Positions(x))
    BY <1>3, RadixType, FS_Subset
  <2>3. Cardinality(A) \in Nat
    BY <2>1, FS_CardinalityType
  <2> QED  BY <1>1, <2>2, <2>3, RadixType
<1> HIDE DEF A, p, q
<1>5. Cardinality(A) + p \in 0 .. Len(Rel(x)) + q - 1
  BY <1>1, <1>2, <1>4
<1> QED  BY <1>5 DEF Slot, Pos, A, p, q, Buffer

(* A cluster ends, without its padding, where its last tuple does. *)
LEMMA ClusterEnd ==
  ASSUME Keys, NEW x \in Relations, NEW j \in Clusters
  PROVE  /\ Pos(x, 1, j + 1) - Padding = Pos(x, Len(Rel(x)) + 1, j)
         /\ Pos(x, 1, j) \in Nat
<1>1. j \in Nat /\ Padding \in Nat /\ j \in 0 .. fanOut
  BY Layout DEF Clusters
<1>2. Lower(x, 1, j + 1) = Lower(x, Len(Rel(x)) + 1, j)
  BY RadixType, <1>1 DEF Lower, Clusters, Positions
<1> DEFINE p == j * Padding
<1>3. (j + 1) * Padding = p + Padding /\ p \in Nat
  BY <1>1
<1> HIDE DEF p
<1> DEFINE c == Cardinality(Lower(x, 1, j + 1))
<1>4. c \in Nat
  BY LowerFinite
<1> HIDE DEF c
<1>5. (c + (p + Padding)) - Padding = c + p
  BY <1>1, <1>3, <1>4
<1>6. Pos(x, 1, j + 1) = c + (p + Padding) /\ Pos(x, Len(Rel(x)) + 1, j) = c + p
  BY <1>2, <1>3 DEF Pos, c, p
<1> QED  BY <1>1, <1>5, <1>6, PosType

(* The cluster behind the last would start at the end of the buffer. *)
LEMMA BufferEnd ==
  ASSUME Keys, NEW x \in Relations
  PROVE  Pos(x, 1, fanOut) = Len(Rel(x)) + fanOut * Padding
<1>1. Lower(x, 1, fanOut) = Positions(x)
  BY RadixType, Layout DEF Lower, Clusters
<1> QED  BY <1>1, RadixType DEF Pos

(* The chunks are parts of the relation; that of thread 0 starts at its   *)
(* first tuple.                                                           *)
LEMMA ChunkType ==
  ASSUME Keys, NEW x \in Relations, NEW t \in Threads
  PROVE  /\ From(x, t) \in 1 .. Len(Rel(x)) + 1
         /\ Upto(x, t) \in 0 .. Len(Rel(x))
         /\ From(x, t) <= Upto(x, t) + 1
         /\ Chunk(x, t) \subseteq Positions(x)
         /\ t = 0 => From(x, t) = 1
<1> DEFINE S == Share(x)
<1>1. Len(Rel(x)) \in Nat /\ NThreads \in Nat \ {0} /\ t \in 0 .. NThreads - 1
  BY RadixType, JoinAssumption DEF Threads
<1>2. S \in Nat /\ NThreads * S <= Len(Rel(x))
  <2>1. S \in Nat /\ Len(Rel(x)) % NThreads \in Nat
        /\ Len(Rel(x)) = NThreads * S + (Len(Rel(x)) % NThreads)
    <3>1. S = Len(Rel(x)) \div NThreads
      BY DEF Share
    <3> DEFINE l == Len(Rel(x))
    <3>2. l \in Nat /\ NThreads \in Nat \ {0} /\ S = l \div NThreads
      BY <1>1, <3>1
    <3> HIDE DEF S, l
    <3>3. S \in Nat /\ l % NThreads \in 0 .. NThreads - 1 /\ l = NThreads * S + (l % NThreads)
      BY <3>2, DivMod
    <3>4. l % NThreads \in Nat
      BY <3>2, <3>3
    <3> QED  BY <3>3, <3>4 DEF l
  <2>2. NThreads * S \in Nat
    BY <1>1, <2>1
  <2> QED  BY <1>1, <2>1, <2>2
<1> HIDE DEF S
<1>3. /\ t * S \in Nat /\ (t + 1) * S \in Nat /\ (t + 1) * S = t * S + S
      /\ (t + 1) * S <= NThreads * S /\ (t = 0 => t * S = 0)
  BY <1>1, <1>2, TimesMono
<1>4. From(x, t) = t * S + 1
  BY DEF From, S
<1>5. Upto(x, t) = IF t = NThreads - 1 THEN Len(Rel(x)) ELSE (t + 1) * S
  BY DEF Upto, S
<1>6. t * S <= Len(Rel(x)) /\ (t + 1) * S <= Len(Rel(x)) /\ NThreads * S \in Nat
  BY <1>1, <1>2, <1>3
<1>7. From(x, t) \in 1 .. Len(Rel(x)) + 1 /\ Upto(x, t) \in 0 .. Len(Rel(x))
  BY <1>1, <1>3, <1>4, <1>5, <1>6
<1>8. From(x, t) <= Upto(x, t) + 1 /\ (t = 0 => From(x, t) = 1)
  BY <1>1, <1>2, <1>3, <1>4, <1>5, <1>6
<1> QED  BY <1>1, <1>7, <1>8 DEF Chunk, Positions

(* The chunk of a lower thread ends before that of a higher one starts. *)
LEMMA ChunkOrder ==
  ASSUME Keys, NEW x \in Relations, NEW t \in Threads, NEW u \in Threads, t < u
  PROVE  Upto(x, t) < From(x, u)
<1> DEFINE S == Share(x)
<1>1. /\ Len(Rel(x)) \in Nat /\ NThreads \in Nat \ {0} /\ t \in Nat /\ u \in Nat /\ t + 1 <= u
      /\ t # NThreads - 1
  BY RadixType, JoinAssumption DEF Threads
<1>2. S \in Nat
  BY <1>1, DivMod DEF Share
<1> HIDE DEF S
<1>3. (t + 1) * S <= u * S /\ (t + 1) * S \in Nat /\ u * S \in Nat
  BY <1>1, <1>2, TimesMono
<1>4. From(x, u) = u * S + 1 /\ Upto(x, t) = (t + 1) * S
  BY <1>1 DEF From, Upto, S
<1> QED  BY <1>3, <1>4

(* Every tuple is in some thread's chunk, the remainder in the last       *)
(* one's.                                                                 *)
LEMMA ChunkCover ==
  ASSUME Keys, NEW x \in Relations, NEW n \in Positions(x)
  PROVE  \E t \in Threads : n \in Chunk(x, t)
<1> DEFINE T == {t \in Threads : n <= Upto(x, t)}
<1>1. Len(Rel(x)) \in Nat /\ NThreads \in Nat \ {0} /\ n \in 1 .. Len(Rel(x))
  BY RadixType, JoinAssumption DEF Positions
<1>2. NThreads - 1 \in T /\ T \in SUBSET Nat
  BY <1>1 DEF Threads, Upto
<1>3. PICK t \in T : \A u \in T : t <= u
  <2> HIDE DEF T
  <2> QED  BY <1>2, LeastElement
<1>4. t \in Threads /\ n <= Upto(x, t)
  BY <1>3
<1>5. CASE t = 0
  BY <1>1, <1>4, <1>5, ChunkType DEF Chunk
<1>6. CASE t # 0
  <2> DEFINE u == t - 1
  <2>1. u \in Threads /\ u # NThreads - 1 /\ u + 1 = t /\ ~(t <= u)
    BY <1>1, <1>4, <1>6 DEF Threads
  <2>2. ~(n <= Upto(x, u))
    BY <1>3, <2>1
  <2>3. Upto(x, u) = t * Share(x) /\ Upto(x, u) \in Nat
    BY <2>1, ChunkType DEF Upto
  <2>4. From(x, t) = Upto(x, u) + 1
    BY <2>3 DEF From
  <2> HIDE DEF u
  <2>5. From(x, t) <= n
    BY <1>1, <2>2, <2>3, <2>4
  <2> QED  BY <1>1, <1>4, <2>5, ChunkType DEF Chunk
<1> QED  BY <1>5, <1>6

(* No tuple is in two chunks. *)
LEMMA ChunkUnique ==
  ASSUME Keys, NEW x \in Relations, NEW t \in Threads, NEW u \in Threads,
         NEW n \in Chunk(x, t), n \in Chunk(x, u)
  PROVE  t = u
<1>1. t \in Nat /\ u \in Nat
  BY JoinAssumption DEF Threads
<1>2. CASE t < u
  BY <1>2, ChunkOrder, ChunkType DEF Chunk
<1>3. CASE u < t
  BY <1>3, ChunkOrder, ChunkType DEF Chunk
<1> QED  BY <1>1, <1>2, <1>3

(* The tuples in a thread's chunk up to radix k. *)
Low(x, t, k) == {n \in Chunk(x, t) : Radix(x, n) <= k}
(* The prefix-summed histogram that a thread computes. *)
H(x, t) == [j \in Clusters |-> Cardinality(UNION {InCluster(x, t, k) : k \in 0 .. j})]

(* An entry of the histogram counts the tuples of the chunk up to that    *)
(* radix.                                                                 *)
LEMMA HistogramLow ==
  ASSUME Keys, NEW x \in Relations, NEW t \in Threads, NEW j \in Clusters
  PROVE  H(x, t)[j] = Cardinality(Low(x, t, j)) /\ IsFiniteSet(Low(x, t, j)) /\ H(x, t)[j] \in Nat
<1>1. j \in Nat
  BY DEF Clusters
<1>2. \A n \in Chunk(x, t) : Radix(x, n) \in Nat
  BY ChunkType, RadixType DEF Clusters
<1>3. UNION {InCluster(x, t, k) : k \in 0 .. j} = Low(x, t, j)
  <2>1. ASSUME NEW n \in Low(x, t, j) PROVE n \in UNION {InCluster(x, t, k) : k \in 0 .. j}
    <3>1. n \in InCluster(x, t, Radix(x, n)) /\ Radix(x, n) \in 0 .. j
      BY <1>1, <1>2 DEF Low, InCluster
    <3> QED  BY <3>1
  <2>2. ASSUME NEW k \in 0 .. j, NEW n \in InCluster(x, t, k) PROVE n \in Low(x, t, j)
    BY <1>1, <2>2 DEF Low, InCluster
  <2> QED  BY <2>1, <2>2
<1>4. Low(x, t, j) \subseteq Positions(x)
  BY ChunkType DEF Low
<1>5. IsFiniteSet(Low(x, t, j)) /\ Cardinality(Low(x, t, j)) \in Nat
  BY <1>4, RadixType, FS_Subset, FS_CardinalityType
<1> QED  BY <1>3, <1>5 DEF H

(* Once all histograms are there, the sums over them start thread t, in   *)
(* each cluster, at the slot behind all tuples of the cluster that lower  *)
(* threads will place: parallel_radix_partition's arithmetic is right.    *)
LEMMA OffsetSum ==
  ASSUME Keys, NEW x \in Relations, NEW t \in Threads, NEW j \in Clusters,
         \A u \in Threads : hist[x][u] = H(x, u)
  PROVE  Before(x, t, j) + j * Padding = Pos(x, From(x, t), j)
<1>0. NThreads \in Nat \ {0} /\ t \in 0 .. NThreads - 1 /\ j \in Nat
  BY JoinAssumption DEF Threads, Clusters
<1> DEFINE F == [u \in Threads |-> Low(x, u, j)]
           G == [u \in Threads |-> Low(x, u, j - 1)]
           S == 0 .. t - 1
           Q == t .. NThreads - 1
           A == UNION {F[u] : u \in S}
           C == IF j = 0 THEN {} ELSE UNION {G[u] : u \in Q}
<1>1. S \subseteq Threads /\ Q \subseteq Threads /\ IsFiniteSet(S) /\ IsFiniteSet(Q)
  BY <1>0, FS_Interval DEF Threads
<1>2. \A u, v \in Threads : u # v => Chunk(x, u) \cap Chunk(x, v) = {}
  BY ChunkUnique
<1>3. Cardinality(A) = SumFunctionOnSet(Column(x, j), S) /\ IsFiniteSet(A)
  <2>1. \A u \in S : IsFiniteSet(F[u]) /\ Column(x, j)[u] = Cardinality(F[u])
    BY <1>1, HistogramLow DEF Column
  <2>2. \A u, v \in S : u # v => F[u] \cap F[v] = {}
    BY <1>1, <1>2 DEF Low
  <2>3. A = UNION {F[u] : u \in S}
    OBVIOUS
  <2> DEFINE c == Column(x, j)
  <2>4. \A u \in S : c[u] = Cardinality(F[u])
    BY <2>1
  <2>5. \A u \in S : IsFiniteSet(F[u])
    BY <2>1
  <2> HIDE DEF F, S, A, c
  <2>6. IsFiniteSet(A) /\ Cardinality(A) = SumFunctionOnSet(c, S)
    <3>1. IsFiniteSet(S)
      BY <1>1
    <3> QED  BY ONLY <2>2, <2>3, <2>4, <2>5, <3>1, CardUnion
  <2> QED  BY <2>6 DEF c
<1>4. IsFiniteSet(C) /\ Cardinality(C) = IF j = 0 THEN 0 ELSE SumFunctionOnSet(Column(x, j - 1), Q)
  <2>1. CASE j = 0
    BY <2>1, FS_EmptySet
  <2>2. CASE j # 0
    <3>0. j - 1 \in Clusters
      BY <2>2, Layout DEF Clusters
    <3>1. \A u \in Q : IsFiniteSet(G[u]) /\ Column(x, j - 1)[u] = Cardinality(G[u])
      BY <1>1, <3>0, HistogramLow DEF Column
    <3>2. \A u, v \in Q : u # v => G[u] \cap G[v] = {}
      BY <1>1, <1>2 DEF Low
    <3>3. C = UNION {G[u] : u \in Q}
      BY <2>2
    <3> DEFINE c == Column(x, j - 1)
    <3>4. \A u \in Q : c[u] = Cardinality(G[u])
      BY <3>1
    <3>5. \A u \in Q : IsFiniteSet(G[u])
      BY <3>1
    <3>7. IsFiniteSet(Q)
      BY <1>1
    <3> HIDE DEF G, Q, C, c
    <3>6. IsFiniteSet(C) /\ Cardinality(C) = SumFunctionOnSet(c, Q)
      BY <3>2, <3>3, <3>4, <3>5, <3>7, CardUnion
    <3> QED  BY <2>2, <3>6 DEF c
  <2> QED  BY <2>1, <2>2
<1>5. \A u \in S : \A n \in Chunk(x, u) : n < From(x, t)
  <2> SUFFICES ASSUME NEW u \in S, NEW n \in Chunk(x, u) PROVE n < From(x, t)
    OBVIOUS
  <2>1. u \in Threads /\ u < t
    BY <1>0, <1>1
  <2>2. Upto(x, u) < From(x, t)
    BY <2>1, ChunkOrder
  <2> QED  BY <2>1, <2>2, ChunkType DEF Chunk
<1>6. \A u \in Q : \A n \in Chunk(x, u) : ~(n < From(x, t))
  <2> SUFFICES ASSUME NEW u \in Q, NEW n \in Chunk(x, u) PROVE From(x, t) <= n
    BY <1>1, ChunkType DEF Chunk
  <2>1. u \in Threads /\ (u = t \/ t < u)
    BY <1>0, <1>1
  <2>2. From(x, u) <= n /\ From(x, u) \in Int /\ n \in Int
    BY <2>1, ChunkType DEF Chunk
  <2>3. From(x, t) <= From(x, u)
    BY <2>1, ChunkOrder, ChunkType
  <2> QED  BY <2>2, <2>3, ChunkType
<1>7. \A n \in Positions(x) : Radix(x, n) \in Nat
  BY RadixType DEF Clusters
<1>8. Lower(x, From(x, t), j) = A \cup C
  <2>1. ASSUME NEW n \in Lower(x, From(x, t), j) PROVE n \in A \cup C
    <3>1. n \in Positions(x) /\ (Radix(x, n) < j \/ (Radix(x, n) = j /\ n < From(x, t)))
      BY DEF Lower
    <3>2. PICK u \in Threads : n \in Chunk(x, u)
      BY <3>1, ChunkCover
    <3>3. CASE u \in S
      <4>1. n \in F[u]
        BY <1>0, <1>7, <3>1, <3>2 DEF Low
      <4> QED  BY <3>3, <4>1
    <3>4. CASE u \in Q
      <4>1. Radix(x, n) < j
        BY <1>6, <3>1, <3>2, <3>4
      <4>2. j # 0 /\ n \in G[u]
        BY <1>0, <1>7, <3>1, <3>2, <4>1 DEF Low
      <4> QED  BY <3>4, <4>2
    <3> QED  BY <1>0, <3>3, <3>4 DEF Threads
  <2>2. ASSUME NEW n \in A PROVE n \in Lower(x, From(x, t), j)
    <3>1. PICK u \in S : n \in F[u]
      OBVIOUS
    <3>2. u \in Threads /\ n \in Chunk(x, u) /\ Radix(x, n) <= j
      BY <1>1, <3>1 DEF Low
    <3> QED  BY <1>0, <1>5, <1>7, <3>2, ChunkType DEF Lower
  <2>3. ASSUME NEW n \in C PROVE n \in Lower(x, From(x, t), j)
    <3>1. j # 0
      OBVIOUS
    <3>2. PICK u \in Q : n \in G[u]
      BY <3>1
    <3>3. u \in Threads /\ n \in Chunk(x, u) /\ Radix(x, n) <= j - 1
      BY <1>1, <3>2 DEF Low
    <3>4. n \in Positions(x)
      BY <3>3, ChunkType
    <3>5. Radix(x, n) < j
      BY <1>0, <1>7, <3>3, <3>4
    <3> QED  BY <3>4, <3>5 DEF Lower
  <2> HIDE DEF A, C
  <2> QED  BY <2>1, <2>2, <2>3
<1>9. A \cap C = {}
  <2> SUFFICES ASSUME NEW n \in A, n \in C PROVE FALSE
    OBVIOUS
  <2>1. PICK u \in S : n \in F[u]
    OBVIOUS
  <2>2. PICK v \in Q : n \in G[v]
    OBVIOUS
  <2>3. n \in Chunk(x, u) /\ n \in Chunk(x, v)
    BY <1>1, <2>1, <2>2 DEF Low
  <2> HIDE DEF A, C, F, G
  <2> QED  BY <1>5, <1>6, <2>3
<1> HIDE DEF A, C
<1>10. Cardinality(A \cup C) = Cardinality(A) + Cardinality(C)
  <2>1. Cardinality(A \cap C) = 0 /\ Cardinality(A) \in Nat /\ Cardinality(C) \in Nat
    BY <1>3, <1>4, <1>9, FS_EmptySet, FS_CardinalityType
  <2>2. Cardinality(A \cup C) = Cardinality(A) + Cardinality(C) - Cardinality(A \cap C)
    BY <1>3, <1>4, FS_Union
  <2> QED  BY <2>1, <2>2
<1>11. Before(x, t, j) = Cardinality(A) + Cardinality(C)
  BY <1>3, <1>4 DEF Before
<1> QED  BY <1>8, <1>10, <1>11 DEF Pos

-----------------------------------------------------------------------------
(* Pushes to a queue with room for all of them lose none. *)
LEMMA PushAll ==
  ASSUME NEW queue, NEW tasks, NEW capacity, NEW queue2,
         IsFiniteSet(tasks), ~(Cardinality(queue) + Cardinality(tasks) > capacity),
         Pushed(queue, tasks, capacity, queue2)
  PROVE  queue2 = queue \cup tasks
<1>1. PICK lost \in SUBSET tasks : Cardinality(lost) = 0 /\ queue2 = queue \cup (tasks \ lost)
  BY DEF Pushed
<1>2. lost = {}
  BY <1>1, FS_Subset, FS_EmptySet
<1> QED  BY <1>1, <1>2

(* There are finitely many threads, one of them thread 0. *)
LEMMA ThreadsFinite == IsFiniteSet(Threads) /\ 0 \in Threads
BY JoinAssumption, FS_Interval DEF Threads

-----------------------------------------------------------------------------
(* The positions of a thread. *)
Phases ==
  {"start", "histR", "offsetsR", "copyR", "histS", "offsetsS", "copyS", "tasks", "pass2", "join",
   "done"}
(* The number of barriers a thread has entered when it is in a phase. *)
Rank(ph) ==
  CASE ph = "start" -> 0
    [] ph = "histR" -> 1
    [] ph \in {"offsetsR", "copyR"} -> 2
    [] ph = "histS" -> 3
    [] ph \in {"offsetsS", "copyS"} -> 4
    [] ph = "tasks" -> 5
    [] ph = "pass2" -> 6
    [] OTHER -> 7

(* A thread's phase is tied to the barrier: it has entered as many rounds *)
(* as come before the phase, so nobody is in a phase whose barrier has    *)
(* not opened. Where no barrier follows, a thread is outside.             *)
PhaseInv ==
  /\ pc \in [Threads -> Phases]
  /\ inside \subseteq Threads /\ passed \in [Threads -> Nat] /\ opened \in Nat
  /\ \A t \in Threads :
       /\ Rank(pc[t]) = passed[t] + (IF t \in inside THEN 1 ELSE 0)
       /\ passed[t] <= opened /\ opened <= Rank(pc[t])
       /\ pc[t] \in {"copyR", "copyS", "done"} => t \notin inside

(* The relations do not change. *)
KeyInv == rkeys \in RelationsR /\ skeys \in RelationsS

(* Thread t has its histogram of relation x; it copies x; it has copied   *)
(* its chunk.                                                             *)
Counted(x, t) == Rank(pc[t]) >= IF x = "R" THEN 2 ELSE 4
Copying(x) == IF x = "R" THEN "copyR" ELSE "copyS"
Copied(x, t) == Rank(pc[t]) >= IF x = "R" THEN 3 ELSE 5

(* Histograms that are there are right. *)
HistInv ==
  /\ hist \in [Relations -> [Threads -> [Clusters -> Nat]]]
  /\ \A x \in Relations : \A t \in Threads : Counted(x, t) => hist[x][t] = H(x, t)

(* A copying thread's next slot in each cluster is the one of its next    *)
(* tuple.                                                                 *)
CopyInv ==
  /\ dst \in [Threads -> [Clusters -> Nat]] /\ next \in [Threads -> Nat]
  /\ \A x \in Relations : \A t \in Threads :
       pc[t] = Copying(x) => /\ next[t] \in From(x, t) .. Upto(x, t) + 1
                             /\ dst[t] = [j \in Clusters |-> Pos(x, next[t], j)]

(* Thread 0 knows where the clusters start once it begins to copy. *)
OutputInv ==
  /\ output \in [Relations -> [0 .. fanOut -> Nat]]
  /\ \A x \in Relations :
       pc[0] = Copying(x) \/ Copied(x, 0) => output[x] = [j \in 0 .. fanOut |-> Pos(x, 1, j)]

(* Tuple n of relation x has been copied. *)
Written(x, n) ==
  \E t \in Threads : n \in Chunk(x, t) /\ (Copied(x, t) \/ (pc[t] = Copying(x) /\ n < next[t]))

(* The buffer holds exactly the tuples that have been copied, each in its *)
(* slot.                                                                  *)
TmpInv ==
  /\ tmp = [x \in Relations |-> tmp[x]]
  /\ \A x \in Relations :
       /\ tmp[x] \in [Buffer(x) -> Positions(x) \cup {0}]
       /\ \A n \in Positions(x) : Written(x, n) => tmp[x][Slot(x, n)] = n
       /\ \A s \in Buffer(x) : tmp[x][s] # 0 =>
            \E n \in Positions(x) : tmp[x][s] = n /\ Written(x, n) /\ Slot(x, n) = s

(* The clusters of the second pass. *)
SubClusters == 0 .. 2 ^ D - 1
(* The tuples of relation x in cluster j, and in its sub-cluster k. *)
Cl(x, j) == {n \in Positions(x) : Radix(x, n) = j}
Sub(x, j, k) == {n \in Cl(x, j) : HashBits(Rel(x)[n], R, D) = k}
(* The tasks of the first and of the second pass. *)
Task1(j) == Pair(Cl("R", j), Cl("S", j))
Task2(j, k) == Pair(Sub("R", j, k), Sub("S", j, k))
(* Those that have tuples on both sides. *)
Tasks1 == {k \in {Task1(j) : j \in Clusters} : NonEmpty(k)}
Tasks2 == {k \in {Task2(c[1], c[2]) : c \in Clusters \X SubClusters} : NonEmpty(k)}
(* The matches to report; the tasks of the two passes that each belongs   *)
(* to.                                                                    *)
Match == {m \in Positions("R") \X Positions("S") : rkeys[m[1]] = skeys[m[2]]}
T1(m) == Task1(Radix("R", m[1]))
T2(m) == Task2(Radix("R", m[1]), HashBits(rkeys[m[1]], R, D))
(* Thread 0 has made the tasks. *)
Made == pc[0] \in {"pass2", "join", "done"}

(* The queues hold tasks of their pass, never a task and one made from    *)
(* it. Between the creation of the tasks and its report, a match is in    *)
(* its first or its second task, afterwards in none. A thread goes on to  *)
(* join only when pass 2 has no task left, and stops only when there is   *)
(* nothing to join.                                                       *)
QueueInv ==
  /\ part_queue \subseteq Tasks1 /\ join_queue \subseteq Tasks2
  /\ num_passes = 1 => join_queue = {}
  /\ \A j \in Clusters, k \in SubClusters : Task1(j) \in part_queue => Task2(j, k) \notin join_queue
  /\ \A m \in Match :
       /\ m \in out => T1(m) \notin part_queue /\ T2(m) \notin join_queue
       /\ Made => m \in out \/ T1(m) \in part_queue \/ T2(m) \in join_queue
  /\ ~Made => part_queue = {} /\ join_queue = {} /\ out = {}
  /\ \A t \in Threads :
       /\ pc[t] \in {"join", "done"} /\ num_passes = 2 => part_queue = {}
       /\ pc[t] = "done" => Joinable = {}

(* The threads have counted what has been reported; the join returns when *)
(* all are done.                                                          *)
ResultInv ==
  /\ results \in [Threads -> Nat] /\ result \in Nat /\ finished \in BOOLEAN
  /\ out \subseteq Match
  /\ Total = Cardinality(out)
  /\ finished => /\ \A t \in Threads : pc[t] = "done"
                 /\ result = Total

(* The inductive invariant. *)
IInv == KeyInv /\ PhaseInv /\ HistInv /\ CopyInv /\ OutputInv /\ TmpInv /\ QueueInv /\ ResultInv

(* The relations, on which the lemmas above depend. *)
Static == << rkeys, skeys >>

(* The invariant provides what the lemmas ask of the relations. *)
LEMMA KeyTypes == KeyInv => Keys
BY JoinAssumption DEF KeyInv, Keys

(* What is computed from the relations alone does not change. *)
LEMMA Frame ==
  ASSUME UNCHANGED Static
  PROVE  /\ Clusters' = Clusters /\ fanOut' = fanOut /\ SubClusters' = SubClusters
         /\ num_passes' = num_passes /\ Match' = Match /\ Keys' = Keys /\ KeyInv' = KeyInv
         /\ Tasks1' = Tasks1 /\ Tasks2' = Tasks2
         /\ \A x \in Relations :
              /\ Positions(x)' = Positions(x) /\ Buffer(x)' = Buffer(x)
              /\ \A t : /\ From(x, t)' = From(x, t) /\ Upto(x, t)' = Upto(x, t)
                        /\ Chunk(x, t)' = Chunk(x, t) /\ H(x, t)' = H(x, t)
              /\ \A i, j : Pos(x, i, j)' = Pos(x, i, j)
              /\ \A n : Slot(x, n)' = Slot(x, n)
         /\ \A j, k : Task1(j)' = Task1(j) /\ Task2(j, k)' = Task2(j, k)
         /\ \A m : T1(m)' = T1(m) /\ T2(m)' = T2(m)
<1> USE DEF Static, Clusters, fanOut, SubClusters, num_passes, Match, Keys, KeyInv, Positions, Buffer,
            From, Upto, Chunk, Share, H, InCluster, Radix, Rel, R, D, Padding, num_radix_bits
<1>1. /\ Clusters' = Clusters /\ fanOut' = fanOut /\ SubClusters' = SubClusters
      /\ num_passes' = num_passes /\ Match' = Match /\ Keys' = Keys /\ KeyInv' = KeyInv
  OBVIOUS
<1>2. ASSUME NEW x \in Relations PROVE Positions(x)' = Positions(x) /\ Buffer(x)' = Buffer(x)
  OBVIOUS
<1>3. ASSUME NEW x \in Relations, NEW t
      PROVE  /\ From(x, t)' = From(x, t) /\ Upto(x, t)' = Upto(x, t)
             /\ Chunk(x, t)' = Chunk(x, t) /\ H(x, t)' = H(x, t)
  OBVIOUS
<1>4. ASSUME NEW x \in Relations, NEW i, NEW j PROVE Pos(x, i, j)' = Pos(x, i, j)
  BY DEF Pos, Lower
<1>5. ASSUME NEW x \in Relations, NEW n PROVE Slot(x, n)' = Slot(x, n)
  BY DEF Slot, Pos, Lower
<1>6. ASSUME NEW j, NEW k PROVE Task1(j)' = Task1(j) /\ Task2(j, k)' = Task2(j, k)
  BY DEF Task1, Task2, Sub, Cl
<1>7. ASSUME NEW m PROVE T1(m)' = T1(m) /\ T2(m)' = T2(m)
  BY DEF T1, T2, Task1, Task2, Sub, Cl
<1>8. Tasks1' = Tasks1 /\ Tasks2' = Tasks2
  BY DEF Tasks1, Tasks2, Task1, Task2, Sub, Cl
<1> QED  BY ONLY <1>1, <1>2, <1>3, <1>4, <1>5, <1>6, <1>7, <1>8

-----------------------------------------------------------------------------
(* Steps that leave the histograms alone and finish none keep HistInv. *)
LEMMA HistFrame ==
  ASSUME HistInv, UNCHANGED << Static, hist >>,
         \A x \in Relations, t \in Threads : Counted(x, t)' => Counted(x, t)
  PROVE  HistInv'
BY Frame DEF HistInv

(* Steps that leave dst and next alone and start no copying keep CopyInv. *)
LEMMA CopyFrame ==
  ASSUME CopyInv, UNCHANGED << Static, dst, next >>,
         \A x \in Relations, t \in Threads : pc'[t] = Copying(x) => pc[t] = Copying(x)
  PROVE  CopyInv'
BY Frame DEF CopyInv, Copying

(* Steps that leave output alone keep OutputInv while thread 0 starts no  *)
(* copying.                                                               *)
LEMMA OutputFrame ==
  ASSUME OutputInv, UNCHANGED << Static, output >>,
         \A x \in Relations : pc'[0] = Copying(x) \/ Copied(x, 0)' => pc[0] = Copying(x) \/ Copied(x, 0)
  PROVE  OutputInv'
BY Frame DEF OutputInv, Copying

(* Steps that leave the buffer alone and count no tuple as copied keep    *)
(* TmpInv.                                                                *)
LEMMA TmpFrame ==
  ASSUME TmpInv, UNCHANGED << Static, tmp >>,
         \A x \in Relations : \A n \in Positions(x) : Written(x, n)' <=> Written(x, n)
  PROVE  TmpInv'
<1>1. tmp' = [x \in Relations |-> tmp'[x]]
  BY DEF TmpInv
<1>2. ASSUME NEW x \in Relations
      PROVE /\ tmp'[x] \in [Buffer(x)' -> Positions(x)' \cup {0}]
            /\ \A n \in Positions(x)' : Written(x, n)' => tmp'[x][Slot(x, n)'] = n
            /\ \A s \in Buffer(x)' : tmp'[x][s] # 0 =>
                 \E n \in Positions(x)' : tmp'[x][s] = n /\ Written(x, n)' /\ Slot(x, n)' = s
  <2>1. /\ Positions(x)' = Positions(x) /\ Buffer(x)' = Buffer(x) /\ tmp' = tmp
        /\ \A n : Slot(x, n)' = Slot(x, n)
    BY Frame
  <2> QED  BY <2>1 DEF TmpInv
<1> QED  BY <1>1, <1>2 DEF TmpInv

(* Steps that leave the queues alone keep QueueInv while nobody comes to  *)
(* join.                                                                  *)
LEMMA QueueFrame ==
  ASSUME QueueInv, UNCHANGED << Static, part_queue, join_queue, out >>,
         Made' <=> Made,
         \A t \in Threads : pc'[t] \in {"join", "done"} => pc'[t] = pc[t]
  PROVE  QueueInv'
<1>1. Joinable' = Joinable
  BY Frame DEF Joinable
<1> QED  BY <1>1, Frame DEF QueueInv

(* Steps that leave the results alone keep ResultInv. *)
LEMMA ResultFrame ==
  ASSUME ResultInv, UNCHANGED << Static, results, result, finished, out >>,
         finished => pc' = pc
  PROVE  ResultInv'
<1>1. Total' = Total
  BY DEF Total
<1> QED  BY <1>1, Frame DEF ResultInv

(* The ranks of the phases. *)
LEMMA RankType ==
  /\ \A ph : Rank(ph) \in 0 .. 7
  /\ Rank("start") = 0 /\ Rank("histR") = 1 /\ Rank("offsetsR") = 2 /\ Rank("copyR") = 2
  /\ Rank("histS") = 3 /\ Rank("offsetsS") = 4 /\ Rank("copyS") = 4 /\ Rank("tasks") = 5
  /\ Rank("pass2") = 6 /\ Rank("join") = 7 /\ Rank("done") = 7
BY DEF Rank

(* A thread that enters the barrier is in the next phase. *)
LEMMA ArrivePhase ==
  ASSUME PhaseInv, NEW t \in Threads, NEW ph, NEW to \in Phases \ {"copyR", "copyS", "done"},
         In(t, ph), Arrive(t, to), Rank(to) = Rank(ph) + 1
  PROVE  PhaseInv'
<1> USE DEF In, Arrive, B!Enter
<1>1. /\ pc' \in [Threads -> Phases] /\ inside' \subseteq Threads
      /\ passed' \in [Threads -> Nat] /\ opened' \in Nat
  BY DEF PhaseInv
<1>2. ASSUME NEW u \in Threads
      PROVE  /\ Rank(pc'[u]) = passed'[u] + (IF u \in inside' THEN 1 ELSE 0)
             /\ passed'[u] <= opened' /\ opened' <= Rank(pc'[u])
             /\ pc'[u] \in {"copyR", "copyS", "done"} => u \notin inside'
  <2>1. CASE u = t
    BY <2>1, RankType DEF PhaseInv
  <2>2. CASE u # t
    BY <2>2, RankType DEF PhaseInv
  <2> QED  BY <2>1, <2>2
<1> QED  BY <1>1, <1>2 DEF PhaseInv

(* A thread may move on within the phases between two barriers. *)
LEMMA StayPhase ==
  ASSUME PhaseInv, NEW t \in Threads, NEW ph, NEW to \in Phases,
         In(t, ph), pc' = [pc EXCEPT ![t] = to], UNCHANGED << inside, passed, opened >>,
         Rank(to) = Rank(ph)
  PROVE  PhaseInv'
<1> USE DEF In
<1>1. /\ pc' \in [Threads -> Phases] /\ inside' \subseteq Threads
      /\ passed' \in [Threads -> Nat] /\ opened' \in Nat
  BY DEF PhaseInv
<1>2. ASSUME NEW u \in Threads
      PROVE  /\ Rank(pc'[u]) = passed'[u] + (IF u \in inside' THEN 1 ELSE 0)
             /\ passed'[u] <= opened' /\ opened' <= Rank(pc'[u])
             /\ pc'[u] \in {"copyR", "copyS", "done"} => u \notin inside'
  <2>1. CASE u = t
    BY <2>1, RankType DEF PhaseInv
  <2>2. CASE u # t
    BY <2>2, RankType DEF PhaseInv
  <2> QED  BY <2>1, <2>2
<1> QED  BY <1>1, <1>2 DEF PhaseInv

(* A thread outside the barrier: all others have at least reached its     *)
(* phase.                                                                 *)
LEMMA Behind ==
  ASSUME PhaseInv, NEW t \in Threads, t \notin inside, NEW u \in Threads
  PROVE  Rank(pc[t]) <= Rank(pc[u]) /\ Rank(pc[t]) = opened
BY RankType DEF PhaseInv

-----------------------------------------------------------------------------
(* The invariant holds initially. *)
LEMMA InitInv == Init => IInv
<1> SUFFICES ASSUME Init PROVE IInv
  OBVIOUS
<1> USE DEF Init
<1>1. KeyInv /\ Keys
  BY KeyTypes DEF KeyInv
<1>2. /\ fanOut \in Nat \ {0} /\ Padding \in Nat /\ 0 \in Threads
      /\ \A x \in Relations : Len(Rel(x)) \in Nat
  BY <1>1, Layout, RadixType, JoinAssumption DEF Threads
<1>3. PhaseInv
  BY RankType DEF PhaseInv, Phases, B!Init
<1>4. HistInv
  BY RankType DEF HistInv, Counted
<1>5. CopyInv
  BY DEF CopyInv, Copying
<1>6. OutputInv
  BY <1>2, RankType DEF OutputInv, Copying, Copied
<1>7. \A x \in Relations : tmp[x] = [s \in Buffer(x) |-> 0]
  BY DEF Buffer
<1>8. \A x \in Relations : \A n : ~Written(x, n)
  BY RankType DEF Written, Copied, Copying
<1>9. TmpInv
  BY <1>7, <1>8 DEF TmpInv
<1>10. QueueInv
  BY <1>2 DEF QueueInv, Made
<1>11. ResultInv
  <2>1. \A T \in SUBSET Threads : SumFunctionOnSet(results, T) = 0
    <3>1. IsFiniteSet(Threads) /\ \A u \in Threads : results[u] = 0
      BY FS_Interval, JoinAssumption DEF Threads
    <3> QED  BY ONLY <3>1, SumZero
  <2>2. Total = 0
    BY <2>1 DEF Total, SumFunction
  <2> QED  BY <2>2, FS_EmptySet DEF ResultInv
<1> QED  BY <1>1, <1>3, <1>4, <1>5, <1>6, <1>9, <1>10, <1>11 DEF IInv

(* No thread starts or finishes a histogram or a copy. *)
SameProgress ==
  \A u \in Threads : /\ Rank(pc'[u]) >= 2 <=> Rank(pc[u]) >= 2
                     /\ Rank(pc'[u]) >= 3 <=> Rank(pc[u]) >= 3
                     /\ Rank(pc'[u]) >= 4 <=> Rank(pc[u]) >= 4
                     /\ Rank(pc'[u]) >= 5 <=> Rank(pc[u]) >= 5
                     /\ pc'[u] \in {"copyR", "copyS"} \/ pc[u] \in {"copyR", "copyS"} => pc'[u] = pc[u]

(* Such steps keep the part of the invariant that is about the data of    *)
(* pass 1.                                                                *)
LEMMA QuietData ==
  ASSUME IInv, UNCHANGED << Static, hist, tmp, dst, next, output >>, SameProgress
  PROVE  KeyInv' /\ HistInv' /\ CopyInv' /\ OutputInv' /\ TmpInv'
<1> USE DEF IInv, SameProgress
<1>0. 0 \in Threads
  BY JoinAssumption DEF Threads
<1>1. KeyInv'
  BY Frame
<1>2. HistInv'
  BY HistFrame DEF Counted
<1>3. CopyInv'
  BY CopyFrame DEF Copying
<1>4. OutputInv'
  BY <1>0, OutputFrame DEF Copying, Copied
<1>5. \A x \in Relations : \A n \in Positions(x) : Written(x, n)' <=> Written(x, n)
  BY Frame DEF Written, Copied, Copying
<1>6. TmpInv'
  BY <1>5, TmpFrame
<1> QED  BY <1>1, <1>2, <1>3, <1>4, <1>6

(* Entering the first barrier keeps the invariant. *)
LEMMA StartInv ==
  ASSUME IInv, NEW t \in Threads, Start(t)
  PROVE  IInv'
<1> USE DEF Start, data, IInv
<1>1. UNCHANGED Static
  BY DEF Static
<1>2. PhaseInv'
  BY ArrivePhase, RankType DEF Phases
<1>3. /\ pc[t] = "start" /\ pc' = [pc EXCEPT ![t] = "histR"] /\ pc \in [Threads -> Phases]
      /\ 0 \in Threads
  BY JoinAssumption DEF In, Arrive, PhaseInv, Threads
<1>4. SameProgress
  BY <1>3, RankType DEF SameProgress
<1>5. QueueInv'
  BY <1>1, <1>3, QueueFrame DEF Made
<1>6. ResultInv'
  BY <1>1, <1>3, ResultFrame DEF ResultInv
<1> QED  BY <1>1, <1>2, <1>4, <1>5, <1>6, QuietData

(* Building a histogram keeps the invariant: it becomes right before the  *)
(* thread enters the barrier behind which others read it.                 *)
LEMMA HistogramInv ==
  ASSUME IInv, NEW t \in Threads, HistR(t) \/ HistS(t)
  PROVE  IInv'
<1> USE DEF IInv
<1>1. PICK x \in Relations : Histogram(t, x, IF x = "R" THEN "histR" ELSE "histS",
                                         IF x = "R" THEN "offsetsR" ELSE "offsetsS")
  BY DEF HistR, HistS, Relations
<1> DEFINE ph == IF x = "R" THEN "histR" ELSE "histS"
           to == IF x = "R" THEN "offsetsR" ELSE "offsetsS"
<1> USE DEF Histogram, Relations
<1>2. UNCHANGED << Static, tmp, dst, next, output, part_queue, join_queue, results, out, result,
                   finished >>
  BY <1>1 DEF Static
<1>3. PhaseInv'
  <2>1. In(t, ph) /\ Arrive(t, to)
    BY <1>1
  <2> QED  BY <2>1, ArrivePhase, RankType DEF Phases
<1>4. /\ pc[t] = ph /\ pc' = [pc EXCEPT ![t] = to] /\ pc \in [Threads -> Phases]
      /\ 0 \in Threads
  BY <1>1, JoinAssumption DEF In, Arrive, PhaseInv, Threads
<1>5. hist' = [hist EXCEPT ![x][t] = H(x, t)]
  BY <1>1 DEF H
<1>6. HistInv'
  <2>1. H(x, t) \in [Clusters -> Nat]
    BY KeyTypes, HistogramLow DEF H
  <2>2. hist' \in [Relations -> [Threads -> [Clusters -> Nat]]]
    BY <1>5, <2>1 DEF HistInv
  <2>3. ASSUME NEW y \in Relations, NEW u \in Threads, Counted(y, u)'
        PROVE  hist'[y][u] = H(y, u)
    <3>1. CASE y = x /\ u = t
      BY <1>5, <3>1 DEF HistInv
    <3>2. CASE ~(y = x /\ u = t)
      <4>1. hist'[y][u] = hist[y][u]
        BY <1>5, <3>2 DEF HistInv
      <4>2. Counted(y, u)
        BY <1>4, <2>3, <3>2, RankType DEF Counted
      <4> QED  BY <4>1, <4>2 DEF HistInv
    <3> QED  BY <3>1, <3>2
  <2> QED  BY <1>2, <2>2, <2>3, Frame DEF HistInv
<1>7. \A u \in Threads : /\ Rank(pc'[u]) >= 3 <=> Rank(pc[u]) >= 3
                         /\ Rank(pc'[u]) >= 5 <=> Rank(pc[u]) >= 5
                         /\ pc'[u] \in {"copyR", "copyS", "pass2", "join", "done"}
                              \/ pc[u] \in {"copyR", "copyS", "pass2", "join", "done"}
                              => pc'[u] = pc[u]
  BY <1>4, RankType
<1>8. KeyInv' /\ CopyInv'
  BY <1>2, <1>7, CopyFrame, Frame DEF Copying
<1>9. OutputInv'
  BY <1>2, <1>4, <1>7, OutputFrame DEF Copying, Copied
<1>10. \A y \in Relations : \A n \in Positions(y) : Written(y, n)' <=> Written(y, n)
  BY <1>2, <1>7, Frame DEF Written, Copied, Copying
<1>11. TmpInv'
  BY <1>2, <1>10, TmpFrame
<1>12. QueueInv'
  BY <1>2, <1>4, <1>7, QueueFrame DEF Made
<1>13. ResultInv'
  BY <1>2, <1>4, ResultFrame DEF ResultInv
<1> QED  BY <1>3, <1>6, <1>8, <1>9, <1>11, <1>12, <1>13

(* Computing the offsets keeps the invariant: behind the barrier all      *)
(* histograms are there, so OffsetSum applies.                            *)
LEMMA OffsetsInv ==
  ASSUME IInv, NEW t \in Threads, OffsetsR(t) \/ OffsetsS(t)
  PROVE  IInv'
<1> USE DEF IInv
<1>1. PICK x \in Relations : Offsets(t, x, IF x = "R" THEN "offsetsR" ELSE "offsetsS", Copying(x))
  BY DEF OffsetsR, OffsetsS, Relations, Copying
<1> DEFINE ph == IF x = "R" THEN "offsetsR" ELSE "offsetsS"
           start == [j \in Clusters |-> Pos(x, From(x, t), j)]
<1> USE DEF Offsets
<1>2. UNCHANGED << Static, hist, tmp, part_queue, join_queue, results, out, result, finished >>
  BY <1>1 DEF Static
<1>k. Keys
  BY KeyTypes
<1>3. PhaseInv'
  <2>1. /\ In(t, ph) /\ pc' = [pc EXCEPT ![t] = Copying(x)]
        /\ UNCHANGED << inside, passed, opened >>
    BY <1>1
  <2> QED  BY <2>1, StayPhase, RankType DEF Phases, Copying, Relations
<1>4. /\ pc[t] = ph /\ pc' = [pc EXCEPT ![t] = Copying(x)] /\ pc \in [Threads -> Phases]
      /\ 0 \in Threads /\ t \notin inside
  BY <1>1, JoinAssumption DEF In, PhaseInv, Threads
<1>5. \A u \in Threads : hist[x][u] = H(x, u)
  BY <1>4, Behind, RankType DEF HistInv, Counted, Relations
<1>6. [j \in Clusters |-> Before(x, t, j) + j * Padding] = start
  BY <1>k, <1>5, OffsetSum
<1>7. /\ dst' = [dst EXCEPT ![t] = start]
      /\ output' = IF t # 0 THEN output
           ELSE [output EXCEPT ![x] = [j \in 0 .. fanOut |->
                  IF j = fanOut THEN Len(Rel(x)) + fanOut * Padding ELSE start[j]]]
      /\ next' = [next EXCEPT ![t] = From(x, t)]
  <2> DEFINE first == [j \in Clusters |-> Before(x, t, j) + j * Padding]
  <2>1. /\ dst' = [dst EXCEPT ![t] = first]
        /\ output' = IF t # 0 THEN output
             ELSE [output EXCEPT ![x] = [j \in 0 .. fanOut |->
                    IF j = fanOut THEN Len(Rel(x)) + fanOut * Padding ELSE first[j]]]
        /\ next' = [next EXCEPT ![t] = From(x, t)]
    BY <1>1
  <2>2. first = start
    BY <1>6
  <2> HIDE DEF start, first
  <2> QED  BY <2>1, <2>2
<1>8. /\ start \in [Clusters -> Nat] /\ From(x, t) \in Nat
      /\ From(x, t) \in From(x, t) .. Upto(x, t) + 1
  <2>1. \A j \in Clusters : j \in 0 .. fanOut
    BY <1>k, Layout DEF Clusters
  <2> QED  BY <1>k, <2>1, PosType, ChunkType
<1>9. \A u \in Threads : /\ Rank(pc'[u]) >= 2 <=> Rank(pc[u]) >= 2
                         /\ Rank(pc'[u]) >= 3 <=> Rank(pc[u]) >= 3
                         /\ Rank(pc'[u]) >= 4 <=> Rank(pc[u]) >= 4
                         /\ Rank(pc'[u]) >= 5 <=> Rank(pc[u]) >= 5
                         /\ u # t => pc'[u] = pc[u]
                         /\ pc'[u] \in {"pass2", "join", "done"} \/ pc[u] \in {"pass2", "join", "done"}
                              => pc'[u] = pc[u]
  BY <1>4, RankType DEF Copying, Relations
<1>10. KeyInv' /\ HistInv'
  BY <1>2, <1>9, HistFrame, Frame DEF Counted
<1>11. CopyInv'
  <2>1. dst' \in [Threads -> [Clusters -> Nat]] /\ next' \in [Threads -> Nat]
    BY <1>7, <1>8 DEF CopyInv
  <2>2. ASSUME NEW y \in Relations, NEW u \in Threads, pc'[u] = Copying(y)
        PROVE  /\ next'[u] \in From(y, u) .. Upto(y, u) + 1
               /\ dst'[u] = [j \in Clusters |-> Pos(y, next'[u], j)]
    <3>1. CASE u = t
      <4>1. y = x
        BY <1>4, <2>2, <3>1 DEF Copying, Relations
      <4>2. next'[t] = From(x, t) /\ dst'[t] = start
        BY <1>7 DEF CopyInv
      <4> QED  BY <1>8, <3>1, <4>1, <4>2
    <3>2. CASE u # t
      <4>1. next'[u] = next[u] /\ dst'[u] = dst[u] /\ pc[u] = Copying(y)
        <5> HIDE DEF start
        <5> QED  BY <1>7, <1>9, <2>2, <3>2 DEF CopyInv
      <4> QED  BY <4>1 DEF CopyInv
    <3> QED  BY <3>1, <3>2
  <2> QED  BY <1>2, <2>1, <2>2, Frame DEF CopyInv, Copying
<1>12. OutputInv'
  <2>1. CASE t # 0
    BY <1>2, <1>4, <1>7, <1>9, <2>1, OutputFrame DEF Copied
  <2>2. CASE t = 0
    <3> DEFINE ends == [j \in 0 .. fanOut |-> Pos(x, 1, j)]
    <3>1. \A j \in 0 .. fanOut : j # fanOut => j \in Clusters
      BY <1>k, Layout DEF Clusters
    <3>2. From(x, 0) = 1
      BY <1>k, <2>2, ChunkType
    <3>3. output' = [output EXCEPT ![x] = ends]
      <4>1. [j \in 0 .. fanOut |-> IF j = fanOut THEN Len(Rel(x)) + fanOut * Padding ELSE start[j]] = ends
        BY <1>k, <2>2, <3>1, <3>2, BufferEnd
      <4> HIDE DEF ends, start
      <4> QED  BY <1>7, <2>2, <4>1
    <3>4. ends \in [0 .. fanOut -> Nat]
      BY <1>k, PosType
    <3>5. output' \in [Relations -> [0 .. fanOut -> Nat]]
      BY <3>3, <3>4 DEF OutputInv
    <3>6. ASSUME NEW y \in Relations, pc'[0] = Copying(y) \/ Copied(y, 0)'
          PROVE  output'[y] = [j \in 0 .. fanOut |-> Pos(y, 1, j)]
      <4>1. CASE y = x
        BY <3>3, <4>1 DEF OutputInv
      <4>2. CASE y # x
        <5>1. Copied(y, 0)
          BY <1>4, <1>9, <2>2, <3>6, <4>2 DEF Copied, Copying, Relations
        <5> QED  BY <3>3, <4>2, <5>1 DEF OutputInv
      <4> QED  BY <4>1, <4>2
    <3> QED  BY <1>2, <3>5, <3>6, Frame DEF OutputInv, Copying
  <2> QED  BY <2>1, <2>2
<1>13. \A y \in Relations : \A n \in Positions(y) : Written(y, n)' <=> Written(y, n)
  <2> SUFFICES ASSUME NEW y \in Relations, NEW n \in Positions(y)
               PROVE  Written(y, n)' <=> Written(y, n)
    OBVIOUS
  <2>1. \A u \in Threads : (Copied(y, u)' <=> Copied(y, u)) /\ Chunk(y, u)' = Chunk(y, u)
    BY <1>2, <1>9, Frame DEF Copied
  <2>2. \A u \in Threads : u # t => next'[u] = next[u] /\ pc'[u] = pc[u]
    BY <1>7, <1>9 DEF CopyInv
  <2>3. pc[t] # Copying(y)
    BY <1>4 DEF Copying
  <2>4. pc'[t] = Copying(y) => y = x
    BY <1>4 DEF Copying, Relations
  <2>5. n \in Chunk(x, t) => ~(n < next'[t])
    BY <1>7, <1>k, ChunkType DEF CopyInv, Chunk
  <2> QED  BY <2>1, <2>2, <2>3, <2>4, <2>5 DEF Written, Copying
<1>14. TmpInv'
  BY <1>2, <1>13, TmpFrame
<1>15. QueueInv'
  BY <1>2, <1>4, <1>9, QueueFrame DEF Made
<1>16. ResultInv'
  BY <1>2, <1>4, ResultFrame DEF ResultInv
<1> QED  BY <1>3, <1>10, <1>11, <1>12, <1>14, <1>15, <1>16

-----------------------------------------------------------------------------
(* Copying a tuple keeps the invariant: its slot is its own. *)
LEMMA CopyTupleInv ==
  ASSUME IInv, NEW t \in Threads, NEW x \in Relations, Copy(t, x, Copying(x))
  PROVE  IInv'
<1>0. PICK n : n = next[t]
  OBVIOUS
<1> DEFINE j == Radix(x, n)
           s == Slot(x, n)
<1> USE DEF IInv
<1>1. /\ pc[t] = Copying(x) /\ t \notin inside /\ n <= Upto(x, t)
      /\ tmp' = [tmp EXCEPT ![x][dst[t][j]] = n]
      /\ dst' = [dst EXCEPT ![t][j] = @ + 1]
      /\ next' = [next EXCEPT ![t] = @ + 1]
  BY <1>0 DEF Copy, In
<1>2. UNCHANGED << Static, hist, output, part_queue, join_queue, results, out, result, finished,
                   pc, inside, passed, opened >>
  BY DEF Copy, Static
<1>3. Keys
  BY KeyTypes
<1>4. /\ n \in From(x, t) .. Upto(x, t) + 1 /\ n \in Nat
      /\ dst[t] = [k \in Clusters |-> Pos(x, n, k)]
      /\ dst \in [Threads -> [Clusters -> Nat]] /\ next \in [Threads -> Nat]
  BY <1>0, <1>1 DEF CopyInv
<1>5. n \in Chunk(x, t) /\ n \in Positions(x) /\ j \in Clusters /\ n # 0
  <2>1. n \in Chunk(x, t) /\ From(x, t) >= 1
    BY <1>1, <1>3, <1>4, ChunkType DEF Chunk
  <2> QED  BY <1>3, <1>4, <2>1, ChunkType, RadixType DEF Chunk
<1>6. dst[t][j] = s /\ s \in Buffer(x)
  BY <1>3, <1>4, <1>5, SlotType DEF Slot
<1>7. KeyInv' /\ HistInv' /\ PhaseInv'
  BY <1>2, Frame, HistFrame DEF PhaseInv, Counted
<1>8. CopyInv'
  <2> HIDE DEF j
  <2>1. \A k \in Clusters : Pos(x, n + 1, k) = Pos(x, n, k) + (IF j = k THEN 1 ELSE 0) /\ Pos(x, n, k) \in Nat
    BY <1>3, <1>5, PosNext DEF j
  <2>2. /\ dst'[t] = [k \in Clusters |-> Pos(x, n + 1, k)]
        /\ dst' \in [Threads -> [Clusters -> Nat]]
    BY <1>1, <1>4, <1>5, <2>1
  <2>3. /\ next'[t] = n + 1 /\ next' \in [Threads -> Nat]
        /\ \A u \in Threads : u # t => next'[u] = next[u] /\ dst'[u] = dst[u]
    BY <1>0, <1>1, <1>4
  <2>4. n + 1 \in From(x, t) .. Upto(x, t) + 1
    BY <1>1, <1>3, <1>4, ChunkType
  <2>5. ASSUME NEW y \in Relations, NEW u \in Threads, pc[u] = Copying(y)
        PROVE  /\ next'[u] \in From(y, u) .. Upto(y, u) + 1
               /\ dst'[u] = [k \in Clusters |-> Pos(y, next'[u], k)]
    <3>1. CASE u = t
      <4>1. y = x
        BY <1>1, <2>5, <3>1 DEF Copying, Relations
      <4> QED  BY <2>2, <2>3, <2>4, <3>1, <4>1
    <3>2. CASE u # t
      BY <2>3, <2>5, <3>2 DEF CopyInv
    <3> QED  BY <3>1, <3>2
  <2> QED  BY <1>2, <2>2, <2>3, <2>5, Frame DEF CopyInv, Copying
<1>9. OutputInv'
  BY <1>2, OutputFrame DEF Copied
<1>10. TmpInv'
  <2>1. ASSUME NEW y \in Relations, NEW m \in Positions(y)
        PROVE  Written(y, m)' <=> Written(y, m) \/ (y = x /\ m = n)
    <3>1. \A u \in Threads : (Copied(y, u)' <=> Copied(y, u)) /\ Chunk(y, u)' = Chunk(y, u) /\ pc'[u] = pc[u]
      BY <1>2, Frame DEF Copied
    <3>2. next'[t] = n + 1 /\ \A u \in Threads : u # t => next'[u] = next[u]
      BY <1>0, <1>1, <1>4
    <3>3. pc[t] = Copying(y) <=> y = x
      BY <1>1 DEF Copying, Relations
    <3>4. m < n + 1 <=> m < n \/ m = n
      BY <1>3, <1>4, RadixType
    <3>5. ASSUME Written(y, m)' PROVE Written(y, m) \/ (y = x /\ m = n)
      <4>1. PICK u \in Threads : m \in Chunk(y, u) /\ (Copied(y, u) \/ (pc[u] = Copying(y) /\ m < next'[u]))
        BY <3>1, <3>5 DEF Written, Copying
      <4>2. CASE u = t
        BY <1>0, <3>2, <3>3, <3>4, <4>1, <4>2 DEF Written
      <4>3. CASE u # t
        BY <3>2, <4>1, <4>3 DEF Written
      <4> QED  BY <4>2, <4>3
    <3>6. ASSUME Written(y, m) PROVE Written(y, m)'
      <4>1. PICK u \in Threads : m \in Chunk(y, u) /\ (Copied(y, u) \/ (pc[u] = Copying(y) /\ m < next[u]))
        BY <3>6 DEF Written
      <4>2. Copied(y, u) \/ (pc[u] = Copying(y) /\ m < next'[u])
        BY <1>0, <3>2, <3>3, <3>4, <4>1
      <4> QED  BY <3>1, <4>1, <4>2 DEF Written, Copying
    <3>7. ASSUME y = x, m = n PROVE Written(y, m)'
      <4>1. m \in Chunk(y, t) /\ pc[t] = Copying(y) /\ m < next'[t]
        BY <1>4, <1>5, <3>2, <3>3, <3>7
      <4> QED  BY <3>1, <4>1 DEF Written, Copying
    <3> QED  BY <3>5, <3>6, <3>7
  <2> HIDE DEF s, j
  <2>2. tmp' = [y \in Relations |-> tmp'[y]] /\ tmp'[x] = [tmp[x] EXCEPT ![s] = n]
        /\ \A y \in Relations : y # x => tmp'[y] = tmp[y]
    <3>1. tmp = [y \in Relations |-> tmp[y]]
      BY DEF TmpInv
    <3> QED  BY ONLY <1>1, <1>6, <3>1, x \in Relations
  <2>3. ASSUME NEW y \in Relations
        PROVE  /\ tmp'[y] \in [Buffer(y) -> Positions(y) \cup {0}]
               /\ \A m \in Positions(y) : Written(y, m)' => tmp'[y][Slot(y, m)] = m
               /\ \A r \in Buffer(y) : tmp'[y][r] # 0 =>
                    \E m \in Positions(y) : tmp'[y][r] = m /\ Written(y, m)' /\ Slot(y, m) = r
    <3>0. /\ tmp[y] \in [Buffer(y) -> Positions(y) \cup {0}]
          /\ \A m \in Positions(y) : Written(y, m) => tmp[y][Slot(y, m)] = m
          /\ \A r \in Buffer(y) : tmp[y][r] # 0 =>
               \E m \in Positions(y) : tmp[y][r] = m /\ Written(y, m) /\ Slot(y, m) = r
      BY DEF TmpInv
    <3>1. CASE y # x
      BY <2>1, <2>2, <3>0, <3>1
    <3>2. CASE y = x
      <4>1. tmp'[x] \in [Buffer(x) -> Positions(x) \cup {0}]
        BY <1>5, <1>6, <2>2, <3>0, <3>2
      <4>2. ASSUME NEW m \in Positions(x), Written(x, m)' PROVE tmp'[x][Slot(x, m)] = m
        <5>1. CASE m = n
          BY <1>6, <2>2, <3>0, <3>2, <5>1 DEF s
        <5>2. CASE m # n
          <6>1. Slot(x, m) # s /\ Slot(x, m) \in Buffer(x)
            BY <1>3, <1>5, <5>2, SlotInjective, SlotType DEF s
          <6> QED  BY <2>1, <2>2, <3>0, <3>2, <4>2, <5>2, <6>1
        <5> QED  BY <5>1, <5>2
      <4>3. ASSUME NEW r \in Buffer(x), tmp'[x][r] # 0
            PROVE  \E m \in Positions(x) : tmp'[x][r] = m /\ Written(x, m)' /\ Slot(x, m) = r
        <5>1. CASE r = s
          <6>1. tmp'[x][r] = n /\ Written(x, n)' /\ Slot(x, n) = r
            BY <1>5, <2>1, <2>2, <3>0, <3>2, <5>1 DEF s
          <6> QED  BY <1>5, <6>1
        <5>2. CASE r # s
          <6>1. tmp'[x][r] = tmp[x][r]
            BY <2>2, <3>0, <3>2, <5>2
          <6> QED  BY <2>1, <3>0, <3>2, <4>3, <6>1
        <5> QED  BY <5>1, <5>2
      <4> QED  BY <3>2, <4>1, <4>2, <4>3
    <3> QED  BY <3>1, <3>2
  <2>4. \A y \in Relations : /\ Positions(y)' = Positions(y) /\ Buffer(y)' = Buffer(y)
                             /\ \A m : Slot(y, m)' = Slot(y, m)
    BY <1>2, Frame
  <2> QED  BY <2>2, <2>3, <2>4 DEF TmpInv
<1>11. QueueInv'
  BY <1>2, QueueFrame DEF Made
<1>12. ResultInv'
  BY <1>2, ResultFrame
<1> QED  BY <1>7, <1>8, <1>9, <1>10, <1>11, <1>12

(* A thread that has copied its last tuple has copied its chunk. *)
LEMMA CopyDoneInv ==
  ASSUME IInv, NEW t \in Threads, NEW x \in Relations,
         CopyDone(t, x, Copying(x), IF x = "R" THEN "histS" ELSE "tasks")
  PROVE  IInv'
<1> DEFINE to == IF x = "R" THEN "histS" ELSE "tasks"
<1> USE DEF CopyDone, data, IInv
<1>1. UNCHANGED << Static, data >>
  BY DEF Static
<1>2. PhaseInv'
  <2>1. In(t, Copying(x)) /\ Arrive(t, to)
    OBVIOUS
  <2> QED  BY <2>1, ArrivePhase, RankType DEF Phases, Copying
<1>3. /\ pc[t] = Copying(x) /\ pc' = [pc EXCEPT ![t] = to] /\ pc \in [Threads -> Phases]
      /\ 0 \in Threads /\ next[t] > Upto(x, t)
  BY JoinAssumption DEF In, Arrive, PhaseInv, Threads
<1>k. Keys
  BY KeyTypes
<1>4. \A u \in Threads : /\ Rank(pc'[u]) >= 2 <=> Rank(pc[u]) >= 2
                         /\ Rank(pc'[u]) >= 4 <=> Rank(pc[u]) >= 4
                         /\ u # t => pc'[u] = pc[u]
                         /\ pc'[u] \in {"pass2", "join", "done"} \/ pc[u] \in {"pass2", "join", "done"}
                              => pc'[u] = pc[u]
                         /\ \A y \in Relations : /\ pc'[u] = Copying(y) => pc[u] = Copying(y)
                                                 /\ Copied(y, u)' <=> Copied(y, u) \/ (u = t /\ y = x)
  BY <1>3, RankType DEF Copying, Copied, Relations
<1>5. KeyInv' /\ HistInv'
  BY <1>1, <1>4, HistFrame, Frame DEF Counted
<1>6. CopyInv'
  BY <1>1, <1>4, CopyFrame DEF Copying
<1>7. OutputInv'
  BY <1>1, <1>3, <1>4, OutputFrame DEF Copying
<1>8. ASSUME NEW y \in Relations, NEW m \in Positions(y)
      PROVE Written(y, m)' <=> Written(y, m)
  <2>1. \A u \in Threads : Chunk(y, u)' = Chunk(y, u) /\ next'[u] = next[u]
    BY <1>1, Frame
  <2>2. ASSUME NEW u \in Threads, m \in Chunk(y, u)
        PROVE  Copied(y, u)' \/ (pc'[u] = Copying(y) /\ m < next[u])
               <=> Copied(y, u) \/ (pc[u] = Copying(y) /\ m < next[u])
    <3>1. CASE u = t /\ y = x
      <4>1. m < next[t]
        BY <1>3, <1>k, <2>2, <3>1, ChunkType DEF Chunk, CopyInv
      <4> QED  BY <1>3, <1>4, <3>1, <4>1
    <3>2. CASE u = t /\ y # x
      <4>1. pc[t] # Copying(y) /\ pc'[t] # Copying(y)
        BY <1>3, <3>2 DEF Copying, Relations
      <4> QED  BY <1>4, <3>2, <4>1
    <3>3. CASE u # t
      BY <1>4, <3>3
    <3> QED  BY <3>1, <3>2, <3>3
  <2> QED  BY <2>1, <2>2 DEF Written, Copying
<1>9. TmpInv'
  BY <1>1, <1>8, TmpFrame
<1>10. QueueInv'
  BY <1>1, <1>3, <1>4, QueueFrame DEF Made
<1>11. ResultInv'
  BY <1>1, <1>3, ResultFrame DEF ResultInv, Copying
<1> QED  BY <1>2, <1>5, <1>6, <1>7, <1>9, <1>10, <1>11

(* When everybody has copied relation x, thread 0 finds, from its own     *)
(* output array alone, exactly the tuples of each cluster.                *)
LEMMA ClusterFound ==
  ASSUME IInv, NEW x \in Relations, \A u \in Threads : Copied(x, u), NEW j \in Clusters
  PROVE  /\ ClusterSlots(x, j) = Pos(x, 1, j) .. Pos(x, Len(Rel(x)) + 1, j) - 1
         /\ ClusterSlots(x, j) = {Slot(x, n) : n \in Cl(x, j)}
         /\ \A n \in Positions(x) : tmp[x][Slot(x, n)] = n
         /\ Cluster(x, j) = Cl(x, j)
<1> DEFINE a == 1
           b == Len(Rel(x)) + 1
<1> USE DEF IInv
<1>1. Keys /\ 0 \in Threads /\ j \in 0 .. fanOut /\ j + 1 \in 0 .. fanOut
  BY KeyTypes, JoinAssumption, Layout DEF Threads, Clusters
<1>2. output[x] = [k \in 0 .. fanOut |-> Pos(x, 1, k)]
  BY <1>1 DEF OutputInv
<1>3. ClusterSlots(x, j) = Pos(x, 1, j) .. Pos(x, 1, j + 1) - Padding - 1
  BY <1>1, <1>2 DEF ClusterSlots
<1>4. ClusterSlots(x, j) = Pos(x, a, j) .. Pos(x, b, j) - 1
  BY <1>1, <1>3, ClusterEnd
<1>5. Len(Rel(x)) \in Nat /\ a \in 1 .. b /\ b \in a .. b
  BY <1>1, RadixType
<1>6. \A s \in ClusterSlots(x, j) : \E n \in Cl(x, j) : Slot(x, n) = s
  <2>1. \A s \in ClusterSlots(x, j) : \E n \in a .. b - 1 : Radix(x, n) = j /\ Slot(x, n) = s
    BY <1>1, <1>4, <1>5, SlotFind
  <2>2. a .. b - 1 = Positions(x)
    BY <1>5 DEF Positions
  <2> QED  BY <2>1, <2>2 DEF Cl
<1>7. ASSUME NEW n \in Cl(x, j) PROVE Slot(x, n) \in ClusterSlots(x, j)
  <2>1. n \in Positions(x) /\ Radix(x, n) = j /\ n \in 1 .. Len(Rel(x))
    BY DEF Cl, Positions
  <2>2. /\ {n, 1, n + 1} \subseteq 1 .. Len(Rel(x)) + 1
        /\ b \in n + 1 .. Len(Rel(x)) + 1
    BY <1>5, <2>1
  <2>3. /\ Pos(x, n, j) \in Nat /\ Pos(x, n + 1, j) = Pos(x, n, j) + 1
        /\ Pos(x, a, j) \in Nat /\ Pos(x, b, j) \in Nat
    BY <1>1, <2>1, PosNext, PosType
  <2>4. Pos(x, a, j) <= Pos(x, n, j)
    <3> DEFINE c == Cardinality({m \in 1 .. n - 1 : Radix(x, m) = j})
    <3>1. c \in Nat /\ Pos(x, n, j) = Pos(x, 1, j) + c
      BY <1>1, <2>2, PosSpan
    <3> HIDE DEF c
    <3> QED  BY <2>3, <3>1
  <2>5. Pos(x, n + 1, j) <= Pos(x, b, j)
    <3> DEFINE c == Cardinality({m \in n + 1 .. b - 1 : Radix(x, m) = j})
    <3>1. c \in Nat /\ Pos(x, b, j) = Pos(x, n + 1, j) + c
      <4> HIDE DEF b
      <4> QED  BY <1>1, <2>2, PosSpan
    <3> HIDE DEF c, b
    <3> QED  BY <2>3, <3>1
  <2>6. Slot(x, n) = Pos(x, n, j)
    BY <2>1 DEF Slot
  <2> HIDE DEF a, b
  <2> QED  BY <1>4, <2>3, <2>4, <2>5, <2>6
<1>8. ClusterSlots(x, j) = {Slot(x, n) : n \in Cl(x, j)}
  BY <1>6, <1>7
<1>9. \A n \in Positions(x) : Written(x, n) /\ tmp[x][Slot(x, n)] = n
  BY <1>1, ChunkCover DEF Written, TmpInv
<1>10. Cluster(x, j) = Cl(x, j)
  BY <1>8, <1>9 DEF Cluster, Cl
<1> QED  BY <1>4, <1>8, <1>9, <1>10

-----------------------------------------------------------------------------
(* The queues have room for the tasks of their pass, that of the second   *)
(* twice over.                                                            *)
LEMMA TaskCount ==
  ASSUME Keys
  PROVE  /\ IsFiniteSet(Tasks1) /\ Cardinality(Tasks1) \in Nat
         /\ Cardinality(Tasks1) <= PartCapacity
         /\ IsFiniteSet(Tasks2) /\ Cardinality(Tasks2) \in Nat
         /\ Cardinality(Tasks2) + Cardinality(Tasks2) <= JoinCapacity
<1>1. /\ fanOut \in Nat /\ fanOut # 0 /\ 2 ^ D \in Nat /\ R \in Nat /\ D \in Nat
      /\ R + D = num_radix_bits
  BY Layout
<1>2. IsFiniteSet(Clusters) /\ Cardinality(Clusters) = fanOut
  BY <1>1, FS_Interval DEF Clusters
<1>3. IsFiniteSet(SubClusters) /\ Cardinality(SubClusters) = 2 ^ D
  BY <1>1, FS_Interval DEF SubClusters
<1>4. IsFiniteSet(Tasks1) /\ Cardinality(Tasks1) <= fanOut
  <2> DEFINE f == [j \in Clusters |-> Task1(j)]
  <2>1. Tasks1 \subseteq {f[j] : j \in Clusters}
    BY DEF Tasks1
  <2> HIDE DEF f
  <2> QED  BY <1>2, <2>1, ImageBound
<1>5. /\ IsFiniteSet(Clusters \X SubClusters)
      /\ Cardinality(Clusters \X SubClusters) = fanOut * 2 ^ D
  BY <1>2, <1>3, FS_Product
<1>6. IsFiniteSet(Tasks2) /\ Cardinality(Tasks2) <= fanOut * 2 ^ D
  <2> DEFINE f == [c \in Clusters \X SubClusters |-> Task2(c[1], c[2])]
  <2>1. Tasks2 \subseteq {f[c] : c \in Clusters \X SubClusters}
    BY DEF Tasks2
  <2> HIDE DEF f
  <2> QED  BY <1>5, <2>1, ImageBound
<1>7. fanOut * 2 ^ D = 2 ^ num_radix_bits
  BY <1>1, PowAdd DEF fanOut
<1>8. JoinCapacity = 2 * 2 ^ num_radix_bits /\ 2 ^ num_radix_bits \in Nat
  BY Layout, PowNext, PowType DEF JoinCapacity
<1>9. Cardinality(Tasks1) \in Nat /\ Cardinality(Tasks2) \in Nat
  BY <1>4, <1>6, FS_CardinalityType
<1> DEFINE p == 2 ^ num_radix_bits
<1>10. p \in Nat /\ JoinCapacity = 2 * p /\ Cardinality(Tasks2) <= p
  BY <1>6, <1>7, <1>8
<1> HIDE DEF p
<1>11. Cardinality(Tasks2) + Cardinality(Tasks2) <= JoinCapacity
  BY <1>9, <1>10
<1>12. Cardinality(Tasks1) <= PartCapacity
  BY <1>1, <1>4, <1>9 DEF PartCapacity
<1> QED  BY <1>4, <1>6, <1>9, <1>11, <1>12

(* Every match is in its own task of each pass, and in no other. *)
LEMMA MatchTasks ==
  ASSUME Keys, NEW m \in Match
  PROVE  /\ m \in Pairs(T1(m)) /\ m \in Pairs(T2(m))
         /\ T1(m) \in Tasks1 /\ T2(m) \in Tasks2
         /\ \E j \in Clusters, k \in SubClusters : T1(m) = Task1(j) /\ T2(m) = Task2(j, k)
         /\ \A j : m \in Pairs(Task1(j)) => T1(m) = Task1(j)
         /\ \A j, k : m \in Pairs(Task2(j, k)) => T1(m) = Task1(j) /\ T2(m) = Task2(j, k)
<1> DEFINE j0 == Radix("R", m[1])
           k0 == HashBits(rkeys[m[1]], R, D)
<1>1. /\ m = << m[1], m[2] >> /\ m[1] \in Positions("R") /\ m[2] \in Positions("S")
      /\ rkeys[m[1]] = skeys[m[2]]
  BY DEF Match
<1>2. Rel("R") = rkeys /\ Rel("S") = skeys /\ "R" \in Relations /\ "S" \in Relations
  BY DEF Rel, Relations
<1>3. rkeys[m[1]] \in Nat /\ j0 \in Clusters
  BY <1>1, <1>2, RadixType
<1>4. k0 \in SubClusters
  BY <1>3, Layout, HashType DEF SubClusters
<1>5. Radix("S", m[2]) = j0
  BY <1>1, <1>2 DEF Radix
<1>6. T1(m) = Task1(j0) /\ T2(m) = Task2(j0, k0)
  BY DEF T1, T2
<1>7. m[1] \in Cl("R", j0) /\ m[2] \in Cl("S", j0)
  BY <1>1, <1>5 DEF Cl
<1>8. m[1] \in Sub("R", j0, k0) /\ m[2] \in Sub("S", j0, k0)
  BY <1>1, <1>2, <1>7 DEF Sub
<1>9. m \in Pairs(T1(m)) /\ m \in Pairs(T2(m))
  BY <1>1, <1>6, <1>7, <1>8 DEF Pairs, Task1, Task2, Pair
<1>10. T1(m) \in Tasks1 /\ T2(m) \in Tasks2
  <2>1. NonEmpty(T1(m)) /\ NonEmpty(T2(m))
    BY <1>6, <1>7, <1>8 DEF NonEmpty, Task1, Task2, Pair
  <2>2. << j0, k0 >> \in Clusters \X SubClusters
    BY <1>3, <1>4
  <2> HIDE DEF j0, k0
  <2>3. Task2(j0, k0) \in {Task2(c[1], c[2]) : c \in Clusters \X SubClusters}
    BY <2>2
  <2> QED  BY <1>3, <1>6, <2>1, <2>3 DEF Tasks1, Tasks2
<1>11. ASSUME NEW j, m \in Pairs(Task1(j)) PROVE T1(m) = Task1(j)
  <2>1. m[1] \in Cl("R", j)
    BY <1>11 DEF Pairs, Task1, Pair
  <2>2. j = j0
    BY <2>1 DEF Cl
  <2> QED  BY <1>6, <2>2
<1>12. ASSUME NEW j, NEW k, m \in Pairs(Task2(j, k))
       PROVE  T1(m) = Task1(j) /\ T2(m) = Task2(j, k)
  <2>1. m[1] \in Sub("R", j, k)
    BY <1>12 DEF Pairs, Task2, Pair
  <2>2. j = j0 /\ k = k0
    BY <1>2, <2>1 DEF Sub, Cl
  <2> QED  BY <1>6, <2>2
<1> QED  BY <1>3, <1>4, <1>6, <1>9, <1>10, <1>11, <1>12

(* No thread is more than one phase ahead of the last barrier that        *)
(* opened.                                                                *)
LEMMA Ahead ==
  ASSUME PhaseInv, NEW u \in Threads PROVE Rank(pc[u]) <= opened + 1
BY RankType DEF PhaseInv

(* Creating the tasks keeps the invariant: thread 0 passes the barrier    *)
(* only when both relations have been copied, so it finds the clusters,   *)
(* and no push fails.                                                     *)
LEMMA CreateTasksInv ==
  ASSUME IInv, NEW t \in Threads, CreateTasks(t)
  PROVE  IInv'
<1> USE DEF IInv
<1>1. UNCHANGED << Static, hist, tmp, dst, next, output, join_queue, results, out, result,
                   finished >>
  BY DEF CreateTasks, Static
<1>2. PhaseInv'
  <2>1. In(t, "tasks") /\ Arrive(t, "pass2")
    BY DEF CreateTasks
  <2> QED  BY <2>1, ArrivePhase, RankType DEF Phases
<1>3. /\ pc[t] = "tasks" /\ pc' = [pc EXCEPT ![t] = "pass2"] /\ pc \in [Threads -> Phases]
      /\ 0 \in Threads /\ t \notin inside
  BY JoinAssumption DEF CreateTasks, In, Arrive, PhaseInv, Threads
<1>k. Keys
  BY KeyTypes
<1>4. SameProgress
  BY <1>3, RankType DEF SameProgress
<1>5. QueueInv'
  <2>1. CASE t # 0
    <3>1. part_queue' = part_queue
      BY <2>1 DEF CreateTasks
    <3> QED  BY <1>1, <1>3, <2>1, <3>1, QueueFrame DEF Made
  <2>2. CASE t = 0
    <3>1. ~Made /\ part_queue = {} /\ join_queue = {} /\ out = {}
      BY <1>3, <2>2 DEF Made, QueueInv
    <3>2. \A x \in Relations : \A u \in Threads : Copied(x, u)
      <4>1. \A u \in Threads : 5 <= Rank(pc[u])
        BY <1>3, Behind, RankType
      <4> QED  BY <4>1, RankType DEF Copied
    <3>3. \A j \in Clusters : Pair(Cluster("R", j), Cluster("S", j)) = Task1(j)
      BY <3>2, ClusterFound DEF Task1, Relations
    <3>4. Pushed(part_queue, Tasks1, PartCapacity, part_queue')
      <4>1. {k \in {Pair(Cluster("R", j), Cluster("S", j)) : j \in Clusters} : NonEmpty(k)} = Tasks1
        BY <3>3 DEF Tasks1
      <4>2. Pushed(part_queue,
                   {k \in {Pair(Cluster("R", j), Cluster("S", j)) : j \in Clusters} : NonEmpty(k)},
                   PartCapacity, part_queue')
        BY <2>2 DEF CreateTasks
      <4> QED  BY <4>1, <4>2
    <3>5. part_queue' = Tasks1
      <4>1. Cardinality(part_queue) = 0
        BY <3>1, FS_EmptySet
      <4>2. ~(Cardinality(part_queue) + Cardinality(Tasks1) > PartCapacity)
        BY <1>k, <4>1, TaskCount, Layout DEF PartCapacity
      <4>3. part_queue' = part_queue \cup Tasks1
        BY <1>k, <3>4, <4>2, PushAll, TaskCount
      <4> QED  BY <3>1, <4>3
    <3>6. \A u \in Threads : pc'[u] \notin {"join", "done"}
      <4>1. opened = 5
        BY <1>3, Behind, RankType
      <4>2. \A u \in Threads : Rank(pc[u]) <= 6
        BY <4>1, Ahead
      <4> QED  BY <1>3, <4>2, RankType
    <3>7. \A m \in Match : T1(m) \in Tasks1
      BY <1>k, MatchTasks
    <3>8. Made'
      BY <1>3, <2>2 DEF Made
    <3>9. join_queue' = {} /\ out' = {} /\ Tasks1' = Tasks1 /\ Match' = Match /\ \A m : T1(m)' = T1(m)
      BY <1>1, <3>1, Frame
    <3> QED  BY <3>5, <3>6, <3>7, <3>8, <3>9 DEF QueueInv
  <2> QED  BY <2>1, <2>2
<1>6. ResultInv'
  BY <1>1, <1>3, ResultFrame DEF ResultInv
<1> QED  BY <1>1, <1>2, <1>4, <1>5, <1>6, QuietData

(* What the second pass makes of a task. *)
LEMMA SubTasksOf ==
  ASSUME NEW j PROVE SubTasks(Task1(j)) = {Task2(j, k) : k \in SubClusters}
BY DEF SubTasks, Task1, Task2, Pair, Sub, SubClusters, Rel

(* Partitioning a task once more keeps the invariant: the matches in it   *)
(* move to its parts, and no push fails.                                  *)
LEMMA RepartitionInv ==
  ASSUME IInv, NEW t \in Threads, Repartition(t)
  PROVE  IInv'
<1> USE DEF IInv
<1>1. UNCHANGED << Static, hist, tmp, dst, next, output, results, out, result, finished, pc,
                   inside, passed, opened >>
      /\ num_passes = 2
  BY DEF Repartition, Static
<1>2. PICK task \in part_queue :
        /\ part_queue' = part_queue \ {task}
        /\ Pushed(join_queue, {k \in SubTasks(task) : NonEmpty(k)}, JoinCapacity, join_queue')
  BY DEF Repartition
<1>k. Keys
  BY KeyTypes
<1>3. PICK j \in Clusters : task = Task1(j)
  BY <1>2 DEF QueueInv, Tasks1
<1> DEFINE new == {k \in SubTasks(task) : NonEmpty(k)}
<1>4. new = {k \in {Task2(j, i) : i \in SubClusters} : NonEmpty(k)}
  BY <1>3, SubTasksOf
<1>5. new \subseteq Tasks2 /\ join_queue \subseteq Tasks2
  <2>1. ASSUME NEW i \in SubClusters
        PROVE  Task2(j, i) \in {Task2(c[1], c[2]) : c \in Clusters \X SubClusters}
    <3>1. << j, i >> \in Clusters \X SubClusters
      OBVIOUS
    <3> QED  BY <3>1
  <2> QED  BY <1>4, <2>1 DEF Tasks2, QueueInv
<1> HIDE DEF new
<1>6. join_queue' = join_queue \cup new
  <2>1. /\ IsFiniteSet(new) /\ Cardinality(new) <= Cardinality(Tasks2)
        /\ IsFiniteSet(join_queue) /\ Cardinality(join_queue) <= Cardinality(Tasks2)
    BY <1>k, <1>5, TaskCount, FS_Subset
  <2>2. JoinCapacity \in Nat
    BY <1>k, Layout, PowType DEF JoinCapacity
  <2>3. Cardinality(new) \in Nat /\ Cardinality(join_queue) \in Nat
    BY <2>1, FS_CardinalityType
  <2>4. ~(Cardinality(join_queue) + Cardinality(new) > JoinCapacity)
    BY <1>k, <2>1, <2>2, <2>3, TaskCount
  <2> QED  BY <1>2, <2>1, <2>4, PushAll DEF new
<1>7. Made /\ \A u \in Threads : pc[u] \notin {"join", "done"}
  BY <1>1, <1>2 DEF QueueInv
<1>8. QueueInv'
  <2>1. part_queue' \subseteq Tasks1 /\ join_queue' \subseteq Tasks2
    BY <1>2, <1>5, <1>6 DEF QueueInv
  <2>2. ASSUME NEW i \in Clusters, NEW k \in SubClusters, Task1(i) \in part_queue'
        PROVE  Task2(i, k) \notin join_queue'
    <3>1. Task1(i) \in part_queue /\ Task1(i) # Task1(j)
      BY <1>2, <1>3, <2>2
    <3>2. Task2(i, k) \notin join_queue
      BY <3>1 DEF QueueInv
    <3>3. Task2(i, k) \notin new
      <4> SUFFICES ASSUME Task2(i, k) \in new PROVE FALSE
        OBVIOUS
      <4>1. PICK l \in SubClusters : Task2(i, k) = Task2(j, l) /\ NonEmpty(Task2(j, l))
        BY <1>4
      <4>2. PICK n : n \in Sub("R", i, k) /\ n \in Sub("R", j, l)
        BY <4>1 DEF NonEmpty, Task2, Pair
      <4>3. i = j
        BY <4>2 DEF Sub, Cl
      <4> QED  BY <3>1, <4>3
    <3> QED  BY <1>6, <3>2, <3>3
  <2>3. ASSUME NEW m \in Match
        PROVE  /\ m \in out => T1(m) \notin part_queue' /\ T2(m) \notin join_queue'
               /\ m \in out \/ T1(m) \in part_queue' \/ T2(m) \in join_queue'
    <3>1. /\ m \in Pairs(T1(m)) /\ m \in Pairs(T2(m)) /\ T2(m) \in Tasks2
          /\ \A i, k : m \in Pairs(Task2(i, k)) => T1(m) = Task1(i) /\ T2(m) = Task2(i, k)
      BY <1>k, MatchTasks
    <3>2. T2(m) \in new => T1(m) = task
      <4> SUFFICES ASSUME T2(m) \in new PROVE T1(m) = task
        OBVIOUS
      <4>1. PICK l \in SubClusters : T2(m) = Task2(j, l)
        BY <1>4
      <4> QED  BY <1>3, <3>1, <4>1
    <3>3. T1(m) = task => T2(m) \in new
      <4> SUFFICES ASSUME T1(m) = task PROVE T2(m) \in new
        OBVIOUS
      <4>1. m[1] \in Cl("R", j)
        BY <1>3, <3>1 DEF Pairs, Task1, Pair
      <4>2. Radix("R", m[1]) = j
        BY <4>1 DEF Cl
      <4>3. T2(m) = Task2(j, HashBits(rkeys[m[1]], R, D))
        BY <4>2 DEF T2
      <4>4. HashBits(rkeys[m[1]], R, D) \in SubClusters
        <5>1. rkeys[m[1]] \in Nat
          BY <1>k, <4>1, RadixType DEF Cl, Relations, Rel
        <5> QED  BY <1>k, <5>1, Layout, HashType DEF SubClusters
      <4>5. NonEmpty(T2(m))
        BY <3>1 DEF Tasks2
      <4> QED  BY <1>4, <4>3, <4>4, <4>5
    <3>4. /\ m \in out => T1(m) \notin part_queue /\ T2(m) \notin join_queue
          /\ m \in out \/ T1(m) \in part_queue \/ T2(m) \in join_queue
      BY <1>7 DEF QueueInv
    <3> QED  BY <1>2, <1>6, <3>2, <3>3, <3>4
  <2>4. /\ Tasks1' = Tasks1 /\ Tasks2' = Tasks2 /\ Match' = Match /\ num_passes' = num_passes
        /\ Clusters' = Clusters /\ SubClusters' = SubClusters
        /\ \A m : T1(m)' = T1(m) /\ T2(m)' = T2(m)
        /\ \A i, k : Task1(i)' = Task1(i) /\ Task2(i, k)' = Task2(i, k)
        /\ out' = out /\ pc' = pc /\ num_passes # 1
    BY <1>1, Frame
  <2>5. Made' /\ \A u \in Threads : pc'[u] \notin {"join", "done"}
    BY <1>7, <2>4 DEF Made
  <2> QED  BY <2>1, <2>2, <2>3, <2>4, <2>5 DEF QueueInv
<1>9. PhaseInv'
  BY <1>1 DEF PhaseInv
<1>10. ResultInv'
  BY <1>1, ResultFrame
<1>11. SameProgress
  BY <1>1 DEF SameProgress
<1> QED  BY <1>1, <1>8, <1>9, <1>10, <1>11, QuietData

-----------------------------------------------------------------------------
(* A thread goes on to join only when no task of the first pass waits. *)
LEMMA Pass2DoneInv ==
  ASSUME IInv, NEW t \in Threads, Pass2Done(t)
  PROVE  IInv'
<1> USE DEF Pass2Done, data, IInv
<1>1. UNCHANGED << Static, data >>
  BY DEF Static
<1>2. PhaseInv'
  BY ArrivePhase, RankType DEF Phases
<1>3. /\ pc[t] = "pass2" /\ pc' = [pc EXCEPT ![t] = "join"] /\ pc \in [Threads -> Phases]
      /\ 0 \in Threads
  BY JoinAssumption DEF In, Arrive, PhaseInv, Threads
<1>4. SameProgress
  BY <1>3, RankType DEF SameProgress
<1>5. QueueInv'
  <2>1. Made' <=> Made
    BY <1>3 DEF Made
  <2>2. \A u \in Threads : /\ pc'[u] \in {"join", "done"} => pc[u] \in {"join", "done"} \/ u = t
                           /\ pc'[u] = "done" => pc[u] = "done"
    BY <1>3
  <2>3. num_passes = 2 => part_queue = {}
    OBVIOUS
  <2>4. Joinable' = Joinable
    BY <1>1, Frame DEF Joinable
  <2> QED  BY <1>1, <2>1, <2>2, <2>3, <2>4, Frame DEF QueueInv
<1>6. ResultInv'
  BY <1>1, <1>3, ResultFrame DEF ResultInv
<1> QED  BY <1>1, <1>2, <1>4, <1>5, <1>6, QuietData

(* There are finitely many matches. *)
LEMMA MatchFinite ==
  ASSUME Keys
  PROVE  IsFiniteSet(Match)
<1>1. IsFiniteSet(Positions("R")) /\ IsFiniteSet(Positions("S"))
  BY RadixType DEF Relations
<1>2. IsFiniteSet(Positions("R") \X Positions("S"))
  BY <1>1, FS_Product
<1> QED  BY <1>2, FS_Subset DEF Match

(* Joining a task keeps the invariant and reports the matches in it, none *)
(* of which has been reported before, and counts them.                    *)
LEMMA JoinTaskInv ==
  ASSUME IInv, NEW t \in Threads, JoinTask(t)
  PROVE  /\ IInv'
         /\ out \subseteq out' /\ out' \subseteq Match
         /\ Total' = Total + Cardinality(out' \ out)
<1> USE DEF IInv
<1>1. UNCHANGED << Static, hist, tmp, dst, next, output, result, finished, pc, inside, passed,
                   opened >>
      /\ pc[t] = "join"
  BY DEF JoinTask, Static, In
<1>2. PICK task \in Joinable :
        LET found == {m \in task.r \X task.s : rkeys[m[1]] = skeys[m[2]]} IN
         /\ part_queue' = IF num_passes = 1 THEN part_queue \ {task} ELSE part_queue
         /\ join_queue' = IF num_passes = 1 THEN join_queue ELSE join_queue \ {task}
         /\ out' = out \cup found
         /\ results' = [results EXCEPT ![t] = @ + Cardinality(found)]
  BY DEF JoinTask
<1> DEFINE found == {m \in task.r \X task.s : rkeys[m[1]] = skeys[m[2]]}
<1>k. Keys /\ num_passes \in {1, 2}
  BY KeyTypes, Layout
<1>3. /\ part_queue' = IF num_passes = 1 THEN part_queue \ {task} ELSE part_queue
      /\ join_queue' = IF num_passes = 1 THEN join_queue ELSE join_queue \ {task}
      /\ out' = out \cup found
      /\ results' = [results EXCEPT ![t] = @ + Cardinality(found)]
  BY <1>2
<1>4. num_passes = 1 => task \in part_queue /\ join_queue = {}
  BY <1>2 DEF Joinable, QueueInv
<1>5. num_passes = 2 => task \in join_queue /\ part_queue = {}
  BY <1>1, <1>2 DEF Joinable, QueueInv
<1>6. PICK j \in Clusters, k \in SubClusters : task = (IF num_passes = 1 THEN Task1(j) ELSE Task2(j, k))
  <2>0. 0 \in SubClusters
    BY <1>k, Layout DEF SubClusters
  <2>1. CASE num_passes = 1
    BY <1>4, <2>0, <2>1 DEF QueueInv, Tasks1
  <2>2. CASE num_passes = 2
    BY <1>5, <2>2 DEF QueueInv, Tasks2
  <2> QED  BY <1>k, <2>1, <2>2
<1>7. \A m \in Match : m \in found <=> task = (IF num_passes = 1 THEN T1(m) ELSE T2(m))
  <2> SUFFICES ASSUME NEW m \in Match
               PROVE  m \in found <=> task = (IF num_passes = 1 THEN T1(m) ELSE T2(m))
    OBVIOUS
  <2>1. m \in found <=> m \in Pairs(task)
    BY DEF Match, Pairs
  <2>2. /\ m \in Pairs(T1(m)) /\ m \in Pairs(T2(m))
        /\ m \in Pairs(Task1(j)) => T1(m) = Task1(j)
        /\ m \in Pairs(Task2(j, k)) => T2(m) = Task2(j, k)
    BY <1>k, MatchTasks
  <2> QED  BY <1>6, <2>1, <2>2
<1>8. found \subseteq Match
  <2>1. task.r \subseteq Positions("R") /\ task.s \subseteq Positions("S")
    BY <1>6 DEF Task1, Task2, Pair, Sub, Cl
  <2> QED  BY <2>1 DEF Match
<1> HIDE DEF found
<1>9. found \cap out = {} /\ out \subseteq Match
  <2>1. out \subseteq Match
    BY DEF ResultInv
  <2>2. ASSUME NEW m \in found, m \in out PROVE FALSE
    <3>1. T1(m) \notin part_queue /\ T2(m) \notin join_queue
      BY <1>8, <2>2 DEF QueueInv
    <3> QED  BY <1>k, <1>4, <1>5, <1>7, <1>8, <3>1
  <2> QED  BY <2>1, <2>2
<1>10. /\ IsFiniteSet(found) /\ IsFiniteSet(out) /\ Cardinality(found) \in Nat
       /\ Cardinality(out) \in Nat
  BY <1>k, <1>8, <1>9, MatchFinite, FS_Subset, FS_CardinalityType
<1>11. Total' = Total + Cardinality(found) /\ results' \in [Threads -> Nat] /\ Total \in Nat
  <2> DEFINE v == results[t] + Cardinality(found)
  <2>1. /\ results \in [Threads -> Nat] /\ v \in Nat /\ results[t] \in Nat
        /\ results' = [results EXCEPT ![t] = v] /\ Total \in Nat
    BY <1>3, <1>10 DEF ResultInv
  <2> HIDE DEF v
  <2>2. SumFunction(results') + results[t] = SumFunction(results) + v
    <3>1. /\ results \in [Threads -> Nat] /\ results' \in [Threads -> Nat]
          /\ \A u \in Threads : u # t => results'[u] = results[u]
          /\ results'[t] = v
      BY <2>1
    <3>2. SumFunction(results') + results[t] = SumFunction(results) + results'[t]
      BY ONLY <3>1, ThreadsFinite, SumUpdate, t \in Threads
    <3> QED  BY <3>1, <3>2
  <2>3. Total' + results[t] = Total + v
    BY <2>1, <2>2 DEF Total
  <2>4. Total' \in Nat
    <3>1. results' \in [Threads -> Nat]
      BY <2>1
    <3>2. DOMAIN results' = Threads
      BY <3>1
    <3> QED  BY <3>1, <3>2, ThreadsFinite, SumType DEF Total, SumFunction
  <2> QED  BY <1>10, <2>1, <2>3, <2>4 DEF v
<1>12. Cardinality(out') = Cardinality(out) + Cardinality(found) /\ out' \ out = found
  <2>1. Cardinality(out \cup found) = Cardinality(out) + Cardinality(found) - Cardinality(out \cap found)
    BY <1>10, FS_Union
  <2>2. Cardinality(out \cap found) = 0
    BY <1>9, FS_EmptySet
  <2> QED  BY <1>3, <1>9, <1>10, <2>1, <2>2
<1>13. out \subseteq out' /\ out' \subseteq Match
  BY <1>3, <1>8, <1>9
<1>14. ResultInv'
  <2>1. ~finished
    BY <1>1 DEF ResultInv
  <2>2. Total' = Cardinality(out')
    BY <1>11, <1>12 DEF ResultInv
  <2> QED  BY <1>1, <1>11, <1>13, <2>1, <2>2, Frame DEF ResultInv
<1>15. QueueInv'
  <2>1. Made
    BY <1>k, <1>4, <1>5 DEF QueueInv
  <2>2. \A u \in Threads : pc[u] # "done"
    BY <1>2 DEF QueueInv
  <2>3. part_queue' \subseteq part_queue /\ join_queue' \subseteq join_queue
    BY <1>3
  <2>4. ASSUME NEW m \in Match
        PROVE  /\ m \in out' => T1(m) \notin part_queue' /\ T2(m) \notin join_queue'
               /\ m \in out' \/ T1(m) \in part_queue' \/ T2(m) \in join_queue'
    <3>1. /\ m \in out => T1(m) \notin part_queue /\ T2(m) \notin join_queue
          /\ m \in out \/ T1(m) \in part_queue \/ T2(m) \in join_queue
      BY <2>1 DEF QueueInv
    <3>2. CASE num_passes = 1
      BY <1>3, <1>4, <1>7, <3>1, <3>2
    <3>3. CASE num_passes = 2
      BY <1>3, <1>5, <1>7, <3>1, <3>3
    <3> QED  BY <1>k, <3>2, <3>3
  <2>5. /\ Tasks1' = Tasks1 /\ Tasks2' = Tasks2 /\ Match' = Match /\ num_passes' = num_passes
        /\ Clusters' = Clusters /\ SubClusters' = SubClusters
        /\ \A m : T1(m)' = T1(m) /\ T2(m)' = T2(m)
        /\ \A i, l : Task1(i)' = Task1(i) /\ Task2(i, l)' = Task2(i, l)
        /\ pc' = pc
    BY <1>1, Frame
  <2>6. num_passes = 1 => join_queue' = {}
    BY <1>3, <1>4
  <2>7. num_passes = 2 => part_queue' = {}
    BY <1>3, <1>5
  <2>8. Made'
    BY <2>1, <2>5 DEF Made
  <2>9. /\ part_queue' \subseteq Tasks1 /\ join_queue' \subseteq Tasks2
        /\ \A i \in Clusters, l \in SubClusters : Task1(i) \in part_queue' => Task2(i, l) \notin join_queue'
    BY <2>3 DEF QueueInv
  <2> QED  BY <2>2, <2>4, <2>5, <2>6, <2>7, <2>8, <2>9 DEF QueueInv
<1>16. PhaseInv'
  BY <1>1 DEF PhaseInv
<1>17. SameProgress
  BY <1>1 DEF SameProgress
<1>18. KeyInv' /\ HistInv' /\ CopyInv' /\ OutputInv' /\ TmpInv'
  BY <1>1, <1>17, QuietData
<1> QED  BY <1>11, <1>12, <1>13, <1>14, <1>15, <1>16, <1>18

(* A thread that finds no task to join stops. *)
LEMMA JoinDoneInv ==
  ASSUME IInv, NEW t \in Threads, JoinDone(t)
  PROVE  IInv'
<1> USE DEF JoinDone, data, IInv
<1>1. UNCHANGED << Static, data, inside, passed, opened >>
  BY DEF Static
<1>2. PhaseInv'
  BY StayPhase, RankType DEF Phases
<1>3. /\ pc[t] = "join" /\ pc' = [pc EXCEPT ![t] = "done"] /\ pc \in [Threads -> Phases]
      /\ 0 \in Threads /\ Joinable = {}
  BY JoinAssumption DEF In, PhaseInv, Threads
<1>4. SameProgress
  BY <1>3, RankType DEF SameProgress
<1>5. QueueInv'
  <2>1. Made' <=> Made
    BY <1>3 DEF Made
  <2>2. \A u \in Threads : /\ pc'[u] \in {"join", "done"} => pc[u] \in {"join", "done"}
                           /\ pc'[u] = "done" => Joinable = {}
    BY <1>3
  <2>3. Joinable' = Joinable
    BY <1>1, Frame DEF Joinable
  <2> QED  BY <1>1, <2>1, <2>2, <2>3, Frame DEF QueueInv
<1>6. ResultInv'
  BY <1>1, <1>3, ResultFrame DEF ResultInv
<1> QED  BY <1>1, <1>2, <1>4, <1>5, <1>6, QuietData

(* Steps that move only the barrier keep the invariant. *)
LEMMA UnmovedInv ==
  ASSUME IInv, PhaseInv', UNCHANGED << pc, data >>
  PROVE  IInv'
<1> USE DEF data, IInv
<1>1. UNCHANGED << Static, pc, data >>
  BY DEF Static
<1>2. SameProgress
  BY DEF SameProgress
<1>3. QueueInv' /\ ResultInv'
  BY <1>1, QueueFrame, ResultFrame DEF Made
<1> QED  BY <1>1, <1>2, <1>3, QuietData

(* The steps of the barrier keep the invariant. *)
LEMMA BarrierInv ==
  ASSUME IInv, NEW t \in Threads, Leave(t) \/ Open
  PROVE  IInv'
<1>1. PhaseInv'
  <2>1. CASE Leave(t)
    BY <2>1, RankType DEF IInv, PhaseInv, Leave, B!Leave
  <2>2. CASE Open
    BY <2>2, RankType DEF IInv, PhaseInv, Open, B!Open
  <2> QED  BY <2>1, <2>2
<1> QED  BY <1>1, UnmovedInv DEF Leave, Open

(* The main thread sums up what all threads have counted. *)
LEMMA ReturnInv ==
  ASSUME IInv, Return
  PROVE  IInv' /\ result' = Total
<1> USE DEF IInv
<1>1. UNCHANGED << Static, hist, tmp, dst, next, output, part_queue, join_queue, results, out,
                   pc, inside, passed, opened >>
      /\ ~finished /\ finished' /\ finished' \in BOOLEAN
      /\ \A t \in Threads : pc[t] = "done"
  BY DEF Return, Static
<1>2. result' = Total
  <2> DEFINE f == [t \in Threads |-> Published(t)]
  <2>1. results \in [Threads -> Nat]
    BY DEF ResultInv
  <2>2. f = results
    BY <1>1, <2>1 DEF Published
  <2> QED  BY <2>2 DEF Return, Total
<1>3. Total \in Nat /\ Total' = Total
  <2>1. results \in [Threads -> Nat] /\ DOMAIN results = Threads
    BY DEF ResultInv
  <2>2. Total \in Nat
    BY <2>1, ThreadsFinite, SumType DEF Total, SumFunction
  <2> QED  BY <1>1, <2>2 DEF Total
<1>4. ResultInv'
  BY <1>1, <1>2, <1>3, Frame DEF ResultInv
<1>5. PhaseInv'
  BY <1>1 DEF PhaseInv
<1>6. QueueInv'
  BY <1>1, QueueFrame DEF Made
<1>7. SameProgress
  BY <1>1 DEF SameProgress
<1> QED  BY <1>1, <1>2, <1>4, <1>5, <1>6, <1>7, QuietData

(* Every step keeps the invariant. *)
LEMMA NextInv == IInv /\ [Next]_vars => IInv'
<1> SUFFICES ASSUME IInv, [Next]_vars PROVE IInv'
  OBVIOUS
<1>1. ASSUME NEW t \in Threads, Step(t) PROVE IInv'
  <2>1. CASE Start(t)
    BY <2>1, StartInv
  <2>2. CASE HistR(t) \/ HistS(t)
    BY <2>2, HistogramInv
  <2>3. CASE OffsetsR(t) \/ OffsetsS(t)
    BY <2>3, OffsetsInv
  <2>4. CASE CopyR(t)
    BY <2>4, CopyTupleInv, CopyDoneInv DEF CopyR, Copying, Relations
  <2>5. CASE CopyS(t)
    BY <2>5, CopyTupleInv, CopyDoneInv DEF CopyS, Copying, Relations
  <2>6. CASE CreateTasks(t)
    BY <2>6, CreateTasksInv
  <2>7. CASE Repartition(t)
    BY <2>7, RepartitionInv
  <2>8. CASE Pass2Done(t)
    BY <2>8, Pass2DoneInv
  <2>9. CASE JoinTask(t)
    BY <2>9, JoinTaskInv
  <2>10. CASE JoinDone(t)
    BY <2>10, JoinDoneInv
  <2>11. CASE Leave(t)
    BY <2>11, BarrierInv
  <2> QED  BY <1>1, <2>1, <2>2, <2>3, <2>4, <2>5, <2>6, <2>7, <2>8, <2>9, <2>10, <2>11 DEF Step
<1>2. CASE Open
  BY <1>2, BarrierInv, ThreadsFinite
<1>3. CASE Return
  BY <1>3, ReturnInv
<1>4. CASE UNCHANGED vars
  <2>1. UNCHANGED << pc, data >> /\ PhaseInv'
    BY <1>4 DEF vars, IInv, PhaseInv
  <2> QED  BY <2>1, UnmovedInv
<1> QED  BY <1>1, <1>2, <1>3, <1>4 DEF Next, Terminated

(* The invariant holds in every reachable state. *)
THEOREM Invariance == Spec => []IInv
BY InitInv, NextInv, PTL DEF Spec

-----------------------------------------------------------------------------
(* What a thread has left to write are the slots of tuples it has not yet *)
(* copied.                                                                *)
LEMMA TodoSlots ==
  ASSUME IInv, NEW x \in Relations, NEW t \in Threads, NEW j \in Clusters,
         NEW s \in Todo(t, x, j)
  PROVE  \E n \in Positions(x) : n \in Chunk(x, t) /\ Radix(x, n) = j /\ Slot(x, n) = s /\ ~Written(x, n)
<1> DEFINE a == next[t]
           b == Upto(x, t) + 1
           span == {n \in a .. b - 1 : Radix(x, n) = j}
<1>1. Keys
  BY KeyTypes DEF IInv
<1>2. pc[t] = Copying(x)
  BY DEF Todo, Copying
<1>3. /\ Upto(x, t) \in 0 .. Len(Rel(x)) /\ From(x, t) \in 1 .. Len(Rel(x)) + 1
      /\ Chunk(x, t) \subseteq Positions(x)
      /\ Len(Rel(x)) \in Nat
  BY <1>1, ChunkType, RadixType
<1>4. a \in From(x, t) .. Upto(x, t) + 1 /\ dst[t][j] = Pos(x, a, j)
  BY <1>2 DEF IInv, CopyInv
<1>5. b - 1 = Upto(x, t) /\ a \in 1 .. Len(Rel(x)) + 1 /\ b \in a .. Len(Rel(x)) + 1
  BY <1>3, <1>4
<1>6. s \in Pos(x, a, j) .. Pos(x, a, j) + Cardinality(span) - 1
  BY <1>2, <1>4, <1>5 DEF Todo, Copying
<1> HIDE DEF a, b
<1>7. /\ Pos(x, b, j) = Pos(x, a, j) + Cardinality(span) /\ Cardinality(span) \in Nat
      /\ Pos(x, a, j) \in Nat
  <2>1. j \in 0 .. fanOut
    BY <1>1, Layout DEF Clusters
  <2> QED  BY <1>1, <1>5, <2>1, PosSpan, PosType
<1>8. PICK n \in a .. b - 1 : Radix(x, n) = j /\ Slot(x, n) = s
  <2> HIDE DEF span
  <2>1. s \in Pos(x, a, j) .. Pos(x, b, j) - 1
    BY <1>6, <1>7
  <2> QED  BY <1>1, <1>5, <2>1, SlotFind
<1>9. n \in Chunk(x, t) /\ n \in Positions(x) /\ ~(n < a)
  BY <1>3, <1>4, <1>5, <1>8 DEF Chunk
<1>10. ~Written(x, n)
  <2> SUFFICES ASSUME NEW u \in Threads, n \in Chunk(x, u),
                      Copied(x, u) \/ (pc[u] = Copying(x) /\ n < next[u])
               PROVE  FALSE
    BY DEF Written
  <2>1. u = t
    BY <1>1, <1>9, ChunkUnique
  <2>2. ~Copied(x, t)
    BY <1>2, RankType DEF Copied, Copying, Relations
  <2> QED  BY <1>9, <2>1, <2>2 DEF a
<1> QED  BY <1>8, <1>9, <1>10

(* The invariant rules out collisions. *)
LEMMA CollisionFreeInv == IInv => CollisionFree
<1> SUFFICES ASSUME IInv, NEW x \in Relations, NEW t \in Threads, NEW u \in Threads,
                    NEW j \in Clusters, NEW k \in Clusters
             PROVE  /\ Todo(t, x, j) \subseteq {s \in DOMAIN tmp[x] : tmp[x][s] = 0}
                    /\ << t, j >> # << u, k >> => Todo(t, x, j) \cap Todo(u, x, k) = {}
  BY DEF CollisionFree
<1>1. Keys
  BY KeyTypes DEF IInv
<1>2. ASSUME NEW s \in Todo(t, x, j) PROVE s \in DOMAIN tmp[x] /\ tmp[x][s] = 0
  <2>1. PICK n \in Positions(x) : Slot(x, n) = s /\ ~Written(x, n)
    BY TodoSlots
  <2>2. s \in Buffer(x) /\ DOMAIN tmp[x] = Buffer(x)
    BY <1>1, <2>1, SlotType DEF IInv, TmpInv
  <2>3. ASSUME tmp[x][s] # 0 PROVE FALSE
    <3>1. PICK m \in Positions(x) : Written(x, m) /\ Slot(x, m) = s
      BY <2>2, <2>3 DEF IInv, TmpInv
    <3>2. m = n
      BY <1>1, <2>1, <3>1, SlotInjective
    <3> QED  BY <2>1, <3>1, <3>2
  <2> QED  BY <2>2, <2>3
<1>3. ASSUME NEW s, s \in Todo(t, x, j), s \in Todo(u, x, k) PROVE t = u /\ j = k
  <2>1. PICK n \in Positions(x) : n \in Chunk(x, t) /\ Radix(x, n) = j /\ Slot(x, n) = s
    BY <1>3, TodoSlots
  <2>2. PICK m \in Positions(x) : m \in Chunk(x, u) /\ Radix(x, m) = k /\ Slot(x, m) = s
    BY <1>3, TodoSlots
  <2>3. n = m
    BY <1>1, <2>1, <2>2, SlotInjective
  <2> QED  BY <1>1, <2>1, <2>2, <2>3, ChunkUnique
<1> QED  BY <1>2, <1>3

(* The invariant makes the clusters complete. *)
LEMMA ClustersCompleteInv == IInv => ClustersComplete
<1> SUFFICES ASSUME IInv, opened >= 5, NEW x \in Relations
             PROVE  /\ \A j \in Clusters :
                         /\ Cluster(x, j) = {n \in DOMAIN Rel(x) : Radix(x, n) = j}
                         /\ Cardinality(ClusterSlots(x, j)) = Cardinality(Cluster(x, j))
                    /\ \A s \in DOMAIN tmp[x] \ UNION {ClusterSlots(x, j) : j \in Clusters} : tmp[x][s] = 0
  BY DEF ClustersComplete
<1>1. Keys
  BY KeyTypes DEF IInv
<1>2. \A u \in Threads : Copied(x, u)
  BY RankType DEF IInv, PhaseInv, Copied
<1>3. ASSUME NEW j \in Clusters
      PROVE  /\ Cluster(x, j) = {n \in DOMAIN Rel(x) : Radix(x, n) = j}
             /\ Cardinality(ClusterSlots(x, j)) = Cardinality(Cluster(x, j))
  <2>1. Cluster(x, j) = Cl(x, j) /\ ClusterSlots(x, j) = {Slot(x, n) : n \in Cl(x, j)}
    BY <1>2, ClusterFound
  <2>2. Cl(x, j) = {n \in DOMAIN Rel(x) : Radix(x, n) = j}
    BY <1>1, RadixType DEF Cl
  <2> DEFINE C == Cl(x, j)
             S == {Slot(x, n) : n \in C}
             f == [n \in C |-> Slot(x, n)]
  <2>3. f \in Bijection(C, S)
    <3>1. f \in [C -> S] /\ \A s \in S : \E n \in C : f[n] = s
      OBVIOUS
    <3>2. ASSUME NEW n \in C, NEW m \in C, f[n] = f[m] PROVE n = m
      <4>1. n \in Positions(x) /\ m \in Positions(x) /\ Slot(x, n) = Slot(x, m)
        BY <3>2 DEF Cl
      <4> QED  BY <1>1, <4>1, SlotInjective
    <3> HIDE DEF f, C, S
    <3> QED  BY <3>1, <3>2 DEF Bijection, Injection, Surjection, IsInjective
  <2>4. IsFiniteSet(C)
    BY <1>1, RadixType, FS_Subset DEF Cl
  <2> HIDE DEF f, C, S
  <2>5. Cardinality(S) = Cardinality(C)
    BY <2>3, <2>4, FS_Bijection DEF ExistsBijection
  <2> QED  BY <2>1, <2>2, <2>5 DEF C, S
<1>4. ASSUME NEW s \in DOMAIN tmp[x], tmp[x][s] # 0
      PROVE  s \in UNION {ClusterSlots(x, j) : j \in Clusters}
  <2>1. PICK n \in Positions(x) : Slot(x, n) = s
    BY <1>4 DEF IInv, TmpInv
  <2> DEFINE j == Radix(x, n)
  <2>2. j \in Clusters /\ n \in Cl(x, j)
    BY <1>1, RadixType DEF Cl
  <2>3. s \in ClusterSlots(x, j)
    BY <1>2, <2>1, <2>2, ClusterFound
  <2> QED  BY <2>2, <2>3
<1> QED  BY <1>3, <1>4

(* The invariant makes the queues sound. *)
LEMMA QueuesSoundInv == IInv => QueuesSound
<1> SUFFICES ASSUME IInv PROVE TypeOK /\ TasksAligned
  BY DEF QueuesSound
<1> USE DEF IInv
<1>1. Keys /\ num_passes \in {1, 2}
  BY KeyTypes, Layout
<1>2. ASSUME NEW k \in part_queue \cup join_queue
      PROVE  IsTask(k) /\ NonEmpty(k) /\ k = Pair(k.r, k.s)
             /\ k.r \subseteq Positions("R") /\ k.s \subseteq Positions("S")
  <2>1. CASE k \in part_queue
    BY <2>1 DEF QueueInv, Tasks1, Task1, Pair, IsTask, Cl
  <2>2. CASE k \in join_queue
    BY <2>2 DEF QueueInv, Tasks2, Task2, Pair, IsTask, Cl, Sub
  <2> QED  BY <2>1, <2>2
<1>3. TypeOK
  BY <1>2 DEF TypeOK, KeyInv, HistInv, TmpInv, OutputInv, ResultInv
<1>4. TasksAligned
  <2> SUFFICES ASSUME NEW k, k \in (IF num_passes = 2 THEN join_queue ELSE part_queue)
               PROVE  Cardinality({HashBits(rkeys[n], 0, num_radix_bits) : n \in k.r}
                                  \cup {HashBits(skeys[n], 0, num_radix_bits) : n \in k.s}) = 1
    BY DEF TasksAligned
  <2>1. PICK h : \A n \in k.r : HashBits(rkeys[n], 0, num_radix_bits) = h
                 /\ \A i \in k.s : HashBits(skeys[i], 0, num_radix_bits) = h
    <3>0. Rel("R") = rkeys /\ Rel("S") = skeys
      BY DEF Rel
    <3>1. CASE num_passes = 1
      <4>1. R = num_radix_bits
        BY <1>1, <3>1, Layout
      <4>2. PICK j \in Clusters : k = Task1(j)
        BY <3>1 DEF QueueInv, Tasks1
      <4> QED  BY <3>0, <4>1, <4>2 DEF Task1, Pair, Cl, Radix
    <3>2. CASE num_passes = 2
      <4>1. PICK j \in Clusters, i \in SubClusters : k = Task2(j, i)
        BY <3>2 DEF QueueInv, Tasks2
      <4>2. R \in Nat /\ D \in Nat /\ num_radix_bits = R + D
        BY <1>1, Layout
      <4>3. ASSUME NEW x \in Relations, NEW n \in Sub(x, j, i)
            PROVE  HashBits(Rel(x)[n], 0, num_radix_bits) = j + 2 ^ R * i
        <5>1. /\ Rel(x)[n] \in Nat /\ HashBits(Rel(x)[n], 0, R) = j
              /\ HashBits(Rel(x)[n], R, D) = i
          BY <1>1, RadixType DEF Sub, Cl, Radix
        <5> QED  BY <4>2, <5>1, HashSplit
      <4>4. /\ k.r = Sub("R", j, i) /\ k.s = Sub("S", j, i) /\ "R" \in Relations
            /\ "S" \in Relations
        BY <4>1 DEF Task2, Pair, Relations
      <4> QED  BY <3>0, <4>3, <4>4
    <3> QED  BY <1>1, <3>1, <3>2
  <2>2. k.r # {} /\ k.s # {}
    BY <1>2 DEF NonEmpty
  <2>3. {HashBits(rkeys[n], 0, num_radix_bits) : n \in k.r}
        \cup {HashBits(skeys[n], 0, num_radix_bits) : n \in k.s} = {h}
    BY <2>1, <2>2
  <2> QED  BY <2>3, FS_Singleton
<1> QED  BY <1>3, <1>4

(* The invariant keeps every match in one place. *)
LEMMA NothingLostInv == IInv => NothingLost
<1> SUFFICES ASSUME IInv, opened >= 6
             PROVE  /\ \A m \in (Positions("R") \X Positions("S")) :
                         rkeys[m[1]] = skeys[m[2]] =>
                           Cardinality({k \in Queued : m \in Pairs(k)}) = IF m \in out THEN 0 ELSE 1
                    /\ \A k, l \in Queued : k # l => k.r \cap l.r = {} /\ k.s \cap l.s = {}
  BY DEF NothingLost
<1>1. Keys
  BY KeyTypes DEF IInv
<1>2. Made
  <2>1. Rank(pc[0]) >= 6 /\ pc[0] \in Phases
    BY ThreadsFinite, RankType DEF IInv, PhaseInv
  <2> QED  BY <2>1, RankType DEF Phases, Made
<1>3. \A k \in part_queue : \E j \in Clusters : k = Task1(j)
  BY DEF IInv, QueueInv, Tasks1
<1>4. \A k \in join_queue : \E j \in Clusters, i \in SubClusters : k = Task2(j, i)
  BY DEF IInv, QueueInv, Tasks2
<1>5. \A j \in Clusters, i \in SubClusters : Task1(j) \in part_queue => Task2(j, i) \notin join_queue
  BY DEF IInv, QueueInv
<1>6. ASSUME NEW m \in Match
      PROVE  Cardinality({k \in Queued : m \in Pairs(k)}) = IF m \in out THEN 0 ELSE 1
  <2>1. /\ m \in Pairs(T1(m)) /\ m \in Pairs(T2(m))
        /\ \E j \in Clusters, i \in SubClusters : T1(m) = Task1(j) /\ T2(m) = Task2(j, i)
        /\ \A j : m \in Pairs(Task1(j)) => T1(m) = Task1(j)
        /\ \A j, i : m \in Pairs(Task2(j, i)) => T2(m) = Task2(j, i)
    BY <1>1, MatchTasks
  <2>2. /\ \A k \in part_queue : m \in Pairs(k) <=> k = T1(m)
        /\ \A k \in join_queue : m \in Pairs(k) <=> k = T2(m)
    BY <1>3, <1>4, <2>1
  <2>3. /\ m \in out => T1(m) \notin part_queue /\ T2(m) \notin join_queue
        /\ m \in out \/ T1(m) \in part_queue \/ T2(m) \in join_queue
    BY <1>2 DEF IInv, QueueInv
  <2> DEFINE K == {k \in Queued : m \in Pairs(k)}
  <2>4. CASE m \in out
    <3>1. K = {}
      BY <2>2, <2>3, <2>4 DEF Queued
    <3> QED  BY <2>4, <3>1, FS_EmptySet
  <2>5. CASE m \notin out
    <3>1. T1(m) \in part_queue => T2(m) \notin join_queue
      BY <1>5, <2>1
    <3>2. K = {T1(m)} \/ K = {T2(m)}
      BY <2>2, <2>3, <2>5, <3>1 DEF Queued
    <3> HIDE DEF K
    <3>3. Cardinality(K) = 1
      BY <3>2, FS_Singleton
    <3> QED  BY <2>5, <3>3 DEF K
  <2> QED  BY <2>4, <2>5
<1>7. ASSUME NEW k \in Queued, NEW l \in Queued, k # l
      PROVE  k.r \cap l.r = {} /\ k.s \cap l.s = {}
  <2>1. CASE k \in part_queue /\ l \in part_queue
    BY <1>3, <1>7, <2>1 DEF Task1, Pair, Cl
  <2>2. ASSUME NEW p \in part_queue, NEW q \in join_queue
        PROVE  p.r \cap q.r = {} /\ p.s \cap q.s = {}
    <3>1. PICK j \in Clusters : p = Task1(j)
      BY <1>3
    <3>2. PICK i \in Clusters, c \in SubClusters : q = Task2(i, c)
      BY <1>4
    <3>3. i # j
      BY <1>5, <3>1, <3>2
    <3>4. /\ p.r = Cl("R", j) /\ p.s = Cl("S", j) /\ q.r \subseteq Cl("R", i)
          /\ q.s \subseteq Cl("S", i)
      BY <3>1, <3>2 DEF Task1, Task2, Pair, Sub
    <3> QED  BY <3>3, <3>4 DEF Cl
  <2>3. CASE k \in join_queue /\ l \in join_queue
    <3>1. PICK j \in Clusters, i \in SubClusters : k = Task2(j, i)
      BY <1>4, <2>3
    <3>2. PICK u \in Clusters, v \in SubClusters : l = Task2(u, v)
      BY <1>4, <2>3
    <3>3. /\ k.r = Sub("R", j, i) /\ k.s = Sub("S", j, i) /\ l.r = Sub("R", u, v)
          /\ l.s = Sub("S", u, v)
      BY <3>1, <3>2 DEF Task2, Pair
    <3>4. j # u \/ i # v
      BY <1>7, <3>1, <3>2
    <3> QED  BY <3>3, <3>4 DEF Sub, Cl
  <2> QED  BY <2>1, <2>2, <2>3 DEF Queued
<1> QED  BY <1>6, <1>7 DEF Match

(* The writes of partition_copy, which no lock protects, never meet,      *)
(* however the threads interleave: what each has left to write is its     *)
(* own, still empty and inside the buffer.                                *)
THEOREM WritesApart == Spec => []CollisionFree
BY Invariance, CollisionFreeInv, PTL

(* After the fifth barrier the clusters that thread 0 reads are complete: *)
(* exactly the tuples with their radix, each once, and the padding        *)
(* unused.                                                                *)
THEOREM ClustersFound == Spec => []ClustersComplete
BY Invariance, ClustersCompleteInv, PTL

(* The variables have their types, and the tuples of a task that may be   *)
(* joined agree in all num_radix_bits low bits of their keys, on which    *)
(* the join functions rely.                                               *)
THEOREM TasksSound == Spec => []QueuesSound
BY Invariance, QueuesSoundInv, PTL

(* From the creation of the tasks on, every match is reported or in       *)
(* exactly one queued task; no failed push, skipped cluster or second     *)
(* pass loses or doubles it.                                              *)
THEOREM MatchesKept == Spec => []NothingLost
BY Invariance, NothingLostInv, PTL

(* The radix join starts as a join starts. *)
LEMMA AbstractInit == Init => Abstract!Init
<1> SUFFICES ASSUME Init PROVE Abstract!Init
  OBVIOUS
<1>1. Total = Cardinality(out) /\ out = {} /\ finished = FALSE
  BY InitInv DEF IInv, ResultInv, Init
<1>2. Total = 0
  BY <1>1, FS_EmptySet
<1> QED  BY <1>1, <1>2 DEF Abstract!Init

(* Every step of the radix join reports matches, returns, or means        *)
(* nothing to the caller.                                                 *)
LEMMA AbstractStep ==
  ASSUME IInv, [Next]_vars
  PROVE  [Abstract!Report \/ Abstract!Finish]_(Abstract!jvars)
<1>1. Keys
  BY KeyTypes DEF IInv
<1>2. Abstract!Matches = Match
  BY <1>1, RadixType DEF Abstract!Matches, Match, Relations, Rel
<1>3. ASSUME NEW t \in Threads, JoinTask(t) PROVE Abstract!Report
  <2>1. out \subseteq out' /\ out' \subseteq Match /\ Total' = Total + Cardinality(out' \ out)
    BY <1>3, JoinTaskInv
  <2>2. rkeys' = rkeys /\ skeys' = skeys /\ finished' = FALSE /\ finished = FALSE
    BY <1>3 DEF JoinTask, In, IInv, ResultInv
  <2>3. Abstract!Cardinality(out' \ out) = Cardinality(out' \ out)
    BY DEF Abstract!Cardinality, Cardinality
  <2> QED  BY <1>2, <2>1, <2>2, <2>3 DEF Abstract!Report
<1>4. ASSUME Return PROVE Abstract!Finish
  <2>1. /\ finished = FALSE /\ finished' = TRUE /\ result' = Total /\ rkeys' = rkeys
        /\ skeys' = skeys /\ out' = out
    BY <1>4, ReturnInv DEF Return, IInv, ResultInv
  <2>2. \A t \in Threads : pc[t] = "done"
    BY <1>4 DEF Return
  <2>3. Made /\ Joinable = {}
    BY <2>2, ThreadsFinite DEF Made, IInv, QueueInv
  <2>4. part_queue = {} /\ join_queue = {}
    <3>1. num_passes \in {1, 2}
      BY <1>1, Layout
    <3> QED  BY <2>2, <2>3, <3>1, ThreadsFinite DEF IInv, QueueInv, Joinable
  <2>5. out = Match
    BY <2>3, <2>4 DEF IInv, QueueInv, ResultInv
  <2> QED  BY <1>2, <2>1, <2>5 DEF Abstract!Finish
<1>5. ASSUME UNCHANGED << rkeys, skeys, out, results, result, finished >>
      PROVE  UNCHANGED Abstract!jvars
  <2>1. Total' = Total
    BY <1>5 DEF Total
  <2> QED  BY <1>5, <2>1 DEF Abstract!jvars
<1>6. ASSUME NEW t \in Threads, Step(t)
      PROVE  JoinTask(t) \/ UNCHANGED << rkeys, skeys, out, results, result, finished >>
  <2> USE DEF data
  <2>1. CASE Start(t) \/ HistR(t) \/ HistS(t) \/ OffsetsR(t) \/ OffsetsS(t)
    BY <2>1 DEF Start, HistR, HistS, Histogram, OffsetsR, OffsetsS, Offsets
  <2>2. CASE CopyR(t) \/ CopyS(t)
    BY <2>2 DEF CopyR, CopyS, Copy, CopyDone
  <2>3. CASE CreateTasks(t) \/ Repartition(t) \/ Pass2Done(t)
    BY <2>3 DEF CreateTasks, Repartition, Pass2Done
  <2>4. CASE JoinDone(t) \/ Leave(t)
    BY <2>4 DEF JoinDone, Leave
  <2> QED  BY <1>6, <2>1, <2>2, <2>3, <2>4 DEF Step
<1>7. Open \/ UNCHANGED vars => UNCHANGED << rkeys, skeys, out, results, result, finished >>
  BY DEF Open, vars, data
<1> QED  BY <1>3, <1>4, <1>5, <1>6, <1>7 DEF Next, Terminated

(* RHO and RHT keep the promise of a join. *)
THEOREM Implementation == Spec => ImplementsJoin
<1>1. IInv /\ [Next]_vars => [Abstract!Report \/ Abstract!Finish]_(Abstract!jvars)
  BY AbstractStep
<1> QED  BY Invariance, AbstractInit, <1>1, PTL DEF Spec, ImplementsJoin, Abstract!Spec
==============================================================================
