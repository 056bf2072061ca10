-------------------------- MODULE MCTaskEvaluator --------------------------
(* TaskEvaluator on a few tasks and jobs. *)
EXTENDS TaskEvaluator, TLC

CONSTANTS t1, t2, j1, j2, j3

MCTasks == {t1, t2}
MCJobs == {j1, j2, j3}
============================================================================
