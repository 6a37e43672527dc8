------------------------------- MODULE MCTpcH -------------------------------
(* Tables around one and two vectors per thread, with rows on both sides of *)
(* each comparison, keys without partner and keys with several partners.    *)
EXTENDS TpcHQueries

LOCAL Tables(rows, lo, hi) == UNION {[1 .. n -> rows] : n \in lo .. hi}

LOCAL Row12(o, m, c, s, r) ==
  [orderkey |-> o, shipmode |-> m, commitdate |-> c, shipdate |-> s, receiptdate |-> r]
LOCAL Rows12 == {Row12(1, "MAIL", 1, 0, 2), Row12(2, "SHIP", 1, 0, 3), Row12(1, "AIR", 1, 0, 2),
                 Row12(3, "SHIP", 2, 0, 2), Row12(2, "MAIL", 0, 0, 2)}
LOCAL Q12Databases ==
  [orders : {<<[orderkey |-> 1], [orderkey |-> 2], [orderkey |-> 3]>>},
   lineitem : Tables(Rows12, 0, 3)
              \cup Tables({Row12(1, "MAIL", 1, 0, 2), Row12(1, "AIR", 1, 0, 2)}, 4, 7)]

LOCAL Customer(k, m, n) == [custkey |-> k, mktsegment |-> m, nationkey |-> n]
LOCAL Order(k, c, d) == [orderkey |-> k, custkey |-> c, orderdate |-> d]
LOCAL Line3(o, s) == [orderkey |-> o, shipdate |-> s]
LOCAL Q3Databases ==
  [customer : {<<Customer(7, MKT_BUILDING, 1), Customer(8, m, 1), Customer(9, MKT_BUILDING, 1)>> :
                 m \in {0, MKT_BUILDING}},
   orders : {<<Order(5, 9, d), Order(3, 7, 3), Order(4, 8, 3), Order(6, 9, 3), Order(8, 9, e)>> :
               d, e \in {3, 4}},
   lineitem : {<< >>, <<Line3(5, 5), Line3(5, 5), Line3(8, 4), Line3(9, 5), Line3(3, 5)>>}]

(* The rest loops of query 10's filters select other rows than its vector   *)
(* loops: here all rows lie in full vectors.                                *)
LOCAL Line10(o, f) == [orderkey |-> o, returnflag |-> f]
LOCAL Q10Databases ==
  [customer : {<<Customer(7, 0, 4), Customer(9, 0, 3)>>},
   nation : {<<[nationkey |-> 3], [nationkey |-> 4]>>, <<[nationkey |-> 4]>>},
   orders : {<<Order(6, 9, 1), Order(1, 7, d), Order(5, 9, 1), Order(2, 8, 1)>> : d \in 0 .. 2},
   lineitem : {<<Line10(6, L_RETURNFLAG_R), Line10(1, f), Line10(6, L_RETURNFLAG_R),
                 Line10(5, 65)>> : f \in {65, L_RETURNFLAG_R}}]

LOCAL Part(k, b, c, s) == [partkey |-> k, brand |-> b, container |-> c, size |-> s]
LOCAL Line19(p, q) ==
  [partkey |-> p, quantity |-> q, shipmode |-> "AIR", shipinstruct |-> "DELIVER_IN_PERSON"]
LOCAL Q19Databases ==
  [part : {<<Part(2, 12, "SM", 5), Part(1, b, "MED", 10), Part(3, 34, "LG", z)>> :
             b \in {13, 23}, z \in {15, 16}},
   lineitem : {<<Line19(1, q), Line19(2, 11), Line19(1, 21), Line19(3, 30), Line19(1, 20)>> :
                 q \in {0, 9, 10}}]

MCDatabases ==
  [q3 |-> Q3Databases, q10 |-> Q10Databases, q12 |-> Q12Databases, q19 |-> Q19Databases]
MCResultKinds == {"chunked", "list", "empty", "unset"}
=============================================================================
