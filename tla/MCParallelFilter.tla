--------------------------- MODULE MCParallelFilter ---------------------------
(* Query 10 on tables of fewer rows than one vector and of one more.        *)
EXTENDS ParallelFilter

MCQ10 == {"q10_orders"} \X UNION {[1 .. n -> [orderdate : Dates]] : n \in 1 .. 2}
         \cup {"q10_lineitem"} \X
              UNION {[1 .. n -> [returnflag : {65, 78, L_RETURNFLAG_R}]] : n \in 1 .. 3}
=============================================================================
