---------------------------- MODULE MCProcessGroup ----------------------------
(* ProcessGroup with one task and one authentication check. *)
EXTENDS ProcessGroup

CONSTANTS t1, q1

MCTasks == {t1}
MCProbes == {q1}
===============================================================================
