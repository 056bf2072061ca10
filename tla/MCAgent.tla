------------------------------ MODULE MCAgent ------------------------------
(* Agent on a small set of interchangeable tasks. *)
EXTENDS AgentDelivery, TLC

CONSTANTS t1, t2

MCTasks == {t1, t2}
TaskSymmetry == Permutations(MCTasks)
============================================================================
