------------------------------ MODULE AgentInv ------------------------------
(***************************************************************************)
(* The inductive invariant of Agent: what has to be known of every actor   *)
(* for its next step to keep the safety properties.  TLC checks it on small*)
(* instances, AgentProofs.tla proves it for every value of the constants.  *)
(***************************************************************************)
EXTENDS Agent

\* A run that has not ended yet, and one that writes, respectively has
\* posted, its result.
Early   == {"registered", "start", "cli"}
Writing == {"record", "mark", "resched"}
PastPost == {"postApplied", "mark", "status", "move", "moveApplied"}

\* A CLI run has a number, which its record will carry.
CliHasRun == \A t \in Tasks : at["run"][t] = "cli" => runs[t] > 0

-----------------------------------------------------------------------------
(* Who works on a task *)

StoppedIsEmpty ==
    ~up => /\ poll = "idle"
           /\ \A t \in Tasks : mem[t] = NoRecord
           /\ \A a \in Actors, t \in Tasks : at[a][t] = "off"

\* The poll delivers in its last phase only, what the store still holds, and
\* nothing that a run of the task is working on.
RetryLoop ==
    \A t \in Tasks : at["poll"][t] # "off" =>
        /\ poll = "retrying"
        /\ at["run"][t] = "off"
        /\ at["poll"][t] \in FinStep
        /\ at["poll"][t] # "delete" => Pending(t)

\* The candidates stay unprocessed and without a record until the evaluations
\* are over, and the pruned tasks until their files are removed.
CandidatesStayFree ==
    poll = "select" =>
        \A t \in work : at["run"][t] = "off" /\ ~Pending(t)

PrunedStayGone ==
    poll = "pruning" =>
        \A t \in work : at["run"][t] \notin Early /\ ~Pending(t)

RetriedLast == retried # {} => poll \in {"retrying", "idle"}

ActorsInv ==
    /\ StoppedIsEmpty /\ RetryLoop /\ CandidatesStayFree /\ PrunedStayGone
    /\ RetriedLast /\ NoRunWhilePending

-----------------------------------------------------------------------------
(* What is delivered *)

\* Summaries and records are those of runs that were started.
RunsAreStarted ==
    \A t \in Tasks :
        /\ \A r \in comments[t] : r <= runs[t]
        /\ mem[t].run <= runs[t] /\ disk[t].run <= runs[t]
        /\ \A a \in Actors : wr[a][t].run <= runs[t]

\* A run delivers its own record.
OwnRecord ==
    \A t \in Tasks :
        Pending(t) /\ at["run"][t] \in FinStep \union {"record"} =>
            mem[t].run = runs[t]

\* The write in flight of a pending record is a write of that record.
OwnWrite ==
    \A a \in Actors, t \in Tasks :
        Pending(t) /\ at[a][t] \in Writing => wr[a][t].run = mem[t].run

\* The next delivery attempt posts without looking for the summary first.
FirstPost(t) ==
    /\ Pending(t) /\ ~mem[t].posted /\ ~ChecksDuplicate(mem[t])
    /\ \A a \in Actors : at[a][t] # "postApplied"

\* The summary is not posted yet: while its CLI works, when a first attempt
\* skips the check, and whenever a POST is about to be sent.
NotPostedYet ==
    \A t \in Tasks :
        /\ at["run"][t] = "cli" => runs[t] \notin comments[t]
        /\ FirstPost(t) => mem[t].run \notin comments[t]
        /\ \A a \in Actors :
             at[a][t] = "post" => Delivered(a, t) \notin comments[t]

\* ... and it is posted from there on.
PostedByNow ==
    \A a \in Actors, t \in Tasks :
        at[a][t] \in PastPost => Delivered(a, t) \in comments[t]

WritesTellTruth ==
    \A a \in Actors, t \in Tasks :
        wr[a][t].posted => wr[a][t].run \in comments[t]

DeliveryInv ==
    /\ RunsAreStarted /\ OwnRecord /\ NotPostedYet /\ PostedByNow
    /\ WritesTellTruth /\ PostedFlagIsTrue /\ SummaryAtMostOnce

\* The inductive invariant of the core: who works on a task, what it
\* delivers, and that the files keep up with the memory.
Inv ==
    /\ TypeOK /\ CliHasRun /\ ActorsInv /\ DeliveryInv
    /\ OwnWrite /\ PendingSurvivesCrash
=============================================================================
