----------------------------- MODULE MCTaskQueue -----------------------------
(* Two threads add two tasks each, a third none; blocks of two slots.       *)
EXTENDS TaskQueue

CONSTANTS t1, t2, t3
MCThreads == {t1, t2, t3}
MCTasks == 1 .. 4
MCOwner == << t1, t1, t2, t2 >>
=============================================================================
