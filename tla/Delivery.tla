------------------------------- MODULE Delivery -------------------------------
(***************************************************************************)
(* What the agent promises of the results of its runs (README.md:460),     *)
(* without its store, its requests, its retries and its restarts: the      *)
(* result of a run is posted to its task once and never again, the task is *)
(* moved to its end status after that, and no result is forgotten before   *)
(* it is posted unless the storage of that very task has failed.           *)
(***************************************************************************)
EXTENDS Naturals, BagsExt

CONSTANTS
    Tasks,
    MayDrop     \* a result may be given up: its task can leave, or it can get too old

VARIABLES
    started,    \* the number of runs of each task, also the name of the latest
    pending,    \* the run whose result is to be delivered to each task, 0 for none
    posted,     \* the results posted to each task, a bag: how often each was
    done,       \* the task is in its end status
    unsafe      \* the stored result of the task can be lost, or one come back

vars == <<started, pending, posted, done, unsafe>>

Init ==
    /\ started = [t \in Tasks |-> 0]
    /\ pending = [t \in Tasks |-> 0]
    /\ posted = [t \in Tasks |-> [r \in {} |-> 1]]     \* empty bags
    /\ done = [t \in Tasks |-> FALSE]
    /\ unsafe = [t \in Tasks |-> FALSE]

\* A run starts, and may take the task out of its end status.
Begin(t) ==
    /\ pending[t] = 0
    /\ started' = [started EXCEPT ![t] = @ + 1]
    /\ done' \in {done, [done EXCEPT ![t] = FALSE]}
    /\ UNCHANGED <<pending, posted>>

\* The latest run is over and its result is recorded: it is a new one.
Finish(t) ==
    /\ pending[t] = 0 /\ started[t] # 0 /\ started[t] \notin DOMAIN posted[t]
    /\ pending' = [pending EXCEPT ![t] = started[t]]
    /\ UNCHANGED <<started, posted, done>>

\* The pending result is posted, unless it ever was.
Post(t) ==
    /\ pending[t] # 0 /\ pending[t] \notin DOMAIN posted[t]
    /\ posted' = [posted EXCEPT ![t] = BagAdd(@, pending[t])]
    /\ UNCHANGED <<started, pending, done>>

Complete(t) ==
    /\ pending[t] \in DOMAIN posted[t]
    /\ done' = [done EXCEPT ![t] = TRUE]
    /\ UNCHANGED <<started, pending, posted>>

\* The delivery is over.
Settle(t) ==
    /\ pending[t] \in DOMAIN posted[t]
    /\ pending' = [pending EXCEPT ![t] = 0]
    /\ UNCHANGED <<started, posted, done>>

\* A user or a failed run moves the task out of its end status.
Reopen(t) ==
    /\ done' = [done EXCEPT ![t] = FALSE]
    /\ UNCHANGED <<started, pending, posted>>

\* Results are given up, or, for the tasks whose storage is unsafe, get lost or
\* come back.
Disturb ==
    /\ \A t \in Tasks :
         pending'[t] # pending[t] => MayDrop \/ unsafe[t] \/ unsafe'[t]
    /\ pending' \in [Tasks -> Nat] /\ \A t \in Tasks : pending'[t] <= started[t]
    /\ UNCHANGED <<started, posted, done>>

\* The storage of any task may turn unsafe, and safe again, at any time.
Next ==
    /\ unsafe' \in [Tasks -> BOOLEAN]
    /\ \/ \E t \in Tasks :
            Begin(t) \/ Finish(t) \/ Post(t) \/ Complete(t) \/ Settle(t) \/ Reopen(t)
       \/ Disturb

\* Every result is settled in the end.
Settled == \A t \in Tasks : pending[t] # 0 ~> pending[t] = 0

Promise == Init /\ [][Next]_vars

Spec == Promise /\ Settled
===============================================================================
