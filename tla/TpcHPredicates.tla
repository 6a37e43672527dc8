--------------------------- MODULE TpcHPredicates ---------------------------
(***************************************************************************)
(* The selections of TPC-H queries 3, 10, 12 and 19 ({Q3,Q10,Q12,Q19}-     *)
(* Predicates.hpp).  Each exists three times in the code: as a scalar      *)
(* predicate, as the mask computation of a SIMD loop, and as the condition *)
(* of the scalar loop that handles the rows after the last full vector.    *)
(* Rows are records of the columns a filter reads.  Dates keep only their  *)
(* order.                                                                  *)
(***************************************************************************)
EXTENDS Integers

(* No predicate tells apart two dates that lie between the same two of the *)
(* constants of TpcHTypes.hpp, so one date per interval is enough.         *)
D_1993_10_01 == 1
D_1994_01_01 == 2
D_1995_01_01 == 3
D_1995_03_15 == 4
D_1995_03_16 == 5
Dates == 0 .. 5

(* uint8_t and char constants that are compared with the same column.       *)
MKT_BUILDING == 1
L_RETURNFLAG_R == 82

Filters == {"q3_customer", "q3_orders", "q3_lineitem", "q10_orders", "q10_lineitem",
            "q12_lineitem", "q19_lineitem", "q19_part"}

Brands == {12, 23, 34}
Containers == {"SM", "MED", "LG"}  (* the four containers of each size *)

(* The scalar predicates: the reference the SIMD filters replace.           *)
Q12(r) ==
  /\ r.shipmode \in {"MAIL", "SHIP"}
  /\ r.commitdate < r.receiptdate
  /\ r.shipdate < r.commitdate
  /\ D_1994_01_01 <= r.receiptdate /\ r.receiptdate < D_1995_01_01

Q19LineItem(r) ==
  /\ 1 <= r.quantity /\ r.quantity <= 30
  /\ r.shipmode \in {"AIR", "AIR_REG"}
  /\ r.shipinstruct = "DELIVER_IN_PERSON"

Q19Part(r) ==
  /\ r.brand \in Brands
  /\ r.container \in Containers
  /\ 1 <= r.size /\ r.size <= 15

(* The predicate over both relations that query 19 applies after its join.  *)
Q19Final(part, line) ==
  \/ /\ part.brand = 12 /\ part.container = "SM"
     /\ 1 <= part.size /\ part.size <= 5
     /\ 1 <= line.quantity /\ line.quantity <= 11
  \/ /\ part.brand = 23 /\ part.container = "MED"
     /\ 1 <= part.size /\ part.size <= 10
     /\ 10 <= line.quantity /\ line.quantity <= 20
  \/ /\ part.brand = 34 /\ part.container = "LG"
     /\ 1 <= part.size /\ part.size <= 15
     /\ 20 <= line.quantity /\ line.quantity <= 30

FilterPredicate(f, r) ==
  CASE f = "q3_customer"  -> r.mktsegment = MKT_BUILDING
    [] f = "q3_orders"    -> r.orderdate < D_1995_03_15
    [] f = "q3_lineitem"  -> D_1995_03_16 <= r.shipdate
    [] f = "q10_orders"   -> D_1993_10_01 <= r.orderdate /\ r.orderdate < D_1994_01_01
    [] f = "q10_lineitem" -> r.returnflag = L_RETURNFLAG_R
    [] f = "q12_lineitem" -> Q12(r)
    [] f = "q19_lineitem" -> Q19LineItem(r)
    [] f = "q19_part"     -> Q19Part(r)

(* The masks of the vector loops compute the same condition.                *)
VectorPredicate(f, r) == FilterPredicate(f, r)

(* Mutant: the loop over the rest forgets a column. *)
MutRestPredicate(f, r) ==
  CASE f = "q12_lineitem" -> r.commitdate < r.receiptdate
    [] OTHER              -> FilterPredicate(f, r)

(* The loop over the remaining rows.  Query 10's two filters test something *)
(* else there than in their vector loop.                                    *)
RestPredicate(f, r) ==
  CASE f = "q10_orders"   -> r.orderdate < D_1995_03_15
    [] f = "q10_lineitem" -> r.returnflag = MKT_BUILDING
    [] OTHER              -> FilterPredicate(f, r)
=============================================================================
