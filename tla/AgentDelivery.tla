----------------------------- MODULE AgentDelivery -----------------------------
(***************************************************************************)
(* Agent implements Delivery.  The result of a task is pending from the    *)
(* moment its record is on the disk: a run that carries it counts as its   *)
(* store does, and while the process is down the file stands for it, so    *)
(* that a crash and a restart change nothing.                              *)
(***************************************************************************)
EXTENDS AgentInv

Result(t) ==
    CASE ~up                                   -> disk[t].run
      [] up /\ at["run"][t] = "record"         -> 0
      [] up /\ at["run"][t] \in FinStep        -> runs[t]
      [] OTHER                                 -> mem[t].run

\* How often the summary of each run was posted to t; 2 stands for any more.
Posts(t) == [r \in comments[t] |-> IF r \in twice[t] THEN 2 ELSE 1]

D == INSTANCE Delivery WITH
        MayDrop <- CanExpire \/ "assign" \in UserActs,
        started <- runs,
        pending <- [t \in Tasks |-> Result(t)],
        posted  <- [t \in Tasks |-> Posts(t)],
        done    <- [t \in Tasks |-> status[t] = "done"],
        unsafe  <- [t \in Tasks |-> ~diskOK[t]]

\* Every result is posted once and never again, before its task is done and
\* before it is forgotten, and it is settled in the end, over failed and lost
\* requests, retries, crashes and restarts; only a result whose own file could
\* not be written, read or removed last may be lost or come back (README.md:460;
\* FinalizationStore, finalizeCompletedTask).
DeliversResults == D!Spec
===============================================================================
