---------------------------- MODULE MCScheduler ----------------------------
(* Scheduler on a few tasks, a repository key and a lock key. *)
EXTENDS Scheduler, TLC

CONSTANTS t1, t2, t3, repo, lock

MCTasks == {t1, t2, t3}
TaskSymmetry == Permutations(MCTasks)

\* Hints within, below and above the scale; keys of either kind.
MCDescs == {
    [hinted |-> FALSE, hint |-> 0, keys |-> {}],
    [hinted |-> FALSE, hint |-> 0, keys |-> {repo}],
    [hinted |-> FALSE, hint |-> 0, keys |-> {lock}],
    [hinted |-> TRUE, hint |-> 2, keys |-> {lock}],
    [hinted |-> TRUE, hint |-> 0, keys |-> {}],
    [hinted |-> TRUE, hint |-> 20, keys |-> {repo}]}

\* A light task on the repository, and an answer that names a lock.
MCAnswers == {[weight |-> 1, keys |-> {repo}], [weight |-> 3, keys |-> {lock}]}
============================================================================
