------------------------------- MODULE Agent -------------------------------
(***************************************************************************)
(* The core of src/agent/src/Agent.ts: the polling loop, the tasks it runs *)
(* detached from the loop, and the delivery of their results to Planner.   *)
(*                                                                         *)
(* Node.js runs one callback at a time, so an action is the code between   *)
(* two awaits.  Three kinds of actors interleave:                          *)
(*   - the polling loop ("poll": single-flight, one list snapshot a poll), *)
(*   - one processTask call per picked task ("run"),                       *)
(*   - the users, who move tasks, and the Planner server.                  *)
(* finalizeCompletedTask is executed by either a run or the poll's retry   *)
(* loop; its actions take the actor as a parameter.                        *)
(*                                                                         *)
(* Faults: any Planner request may fail, before or after the server applied*)
(* it; any file operation may fail; the process may crash between any two  *)
(* actions and restarts from the files.                                    *)
(*                                                                         *)
(* Covered: actions of the status pipeline (trigger: status).  The comment *)
(* conversations, the choice among the candidates (Scheduler.tla), labels, *)
(* attachments and task folders are not part of this module.               *)
(***************************************************************************)
EXTENDS FinalizationStore, FiniteSets

CONSTANTS
    Tasks,          \* the tasks of the agent's actions
    ProcessCap,     \* the most tasks that may run at once
    HasInProgress,  \* whether a status_in_progress is configured
    HasAbort,       \* whether a status_abort is configured
    CanExpire,      \* whether a record may outlive its time-to-live
    UserActs,       \* what users do: move a task back ("reopen"), to the abort
                    \* status ("cancel"), unassign or reassign it ("assign")
    MaxFaults,      \* bound: faults (failed calls, crashes) of a behaviour
    MaxMoves        \* bound: user actions of a behaviour

ASSUME ConfigAssumption ==
    /\ IsFiniteSet(Tasks)
    /\ ProcessCap \in Nat \ {0}
    /\ HasInProgress \in BOOLEAN /\ HasAbort \in BOOLEAN
    /\ CanExpire \in BOOLEAN
    /\ UserActs \subseteq {"reopen", "cancel", "assign"}
    /\ MaxFaults \in Nat /\ MaxMoves \in Nat

VARIABLES
    (* Planner *)
    status,    \* status of each task
    assigned,  \* whether the task is assigned to (and visible to) the agent
    comments,  \* the runs whose summary is among the comments of the task
    twice,     \* the runs whose summary was posted more than once
    (* the files of DATA_DIR/finalization *)
    disk,
    (* the agent process *)
    up,        \* the process is running
    mem,       \* FinalizationStore.records
    at,        \* where each actor is in the code, per task
    wr,        \* the content of a file write in flight, per actor and task
    got,       \* the status fetched by this finalization ("current")
    runs,      \* number of CLI runs started, also the name of the latest
    aborted,   \* the abort signal of the run of the task
    poll,      \* where the polling loop is
    snap,      \* the statuses listed by this poll
    work,      \* the tasks this phase of the poll works on
    (* bookkeeping of the model *)
    faults, moves,
    diskOK,    \* whether the last operation on the file of each task succeeded
    retried    \* the tasks the retry loop took up since the list of this poll

planner == <<status, assigned, comments, twice>>
process == <<up, mem, at, wr, got, runs, aborted>>
loop    == <<poll, snap, work>>
vars    == <<planner, disk, process, loop, faults, moves, diskOK, retried>>

Status == {"todo", "doing", "done", "failed", "abort"}
Actors == {"run", "poll"}

\* Steps of finalizeCompletedTask and of the store calls around it.
FinStep == {"check", "post", "postApplied", "mark", "status", "move",
            "moveApplied", "delete", "resched"}
\* Steps of processTask before and after it.
RunStep == {"registered", "start", "cli", "record", "abortNote",
            "failNote", "failMove", "clear"}
PollStep == {"idle", "listed", "pruning", "pruned", "select", "retry",
             "retrying"}

TypeOK ==
    /\ status \in [Tasks -> Status]
    /\ assigned \in [Tasks -> BOOLEAN]
    /\ comments \in [Tasks -> SUBSET Nat] /\ twice \in [Tasks -> SUBSET Nat]
    /\ disk \in [Tasks -> Record \union {NoRecord}]
    /\ mem \in [Tasks -> Record \union {NoRecord}]
    /\ up \in BOOLEAN
    /\ at \in [Actors -> [Tasks -> FinStep \union RunStep \union {"off"}]]
    /\ wr \in [Actors -> [Tasks -> Record \union {NoRecord}]]
    /\ got \in [Actors -> [Tasks -> Status \union {"unread"}]]
    /\ runs \in [Tasks -> Nat]
    /\ aborted \in [Tasks -> BOOLEAN]
    /\ poll \in PollStep
    /\ snap \in [Tasks -> Status \union {"gone"}]
    /\ work \in SUBSET Tasks
    /\ faults \in Nat /\ moves \in Nat /\ diskOK \in [Tasks -> BOOLEAN]
    /\ retried \in SUBSET Tasks

\* processingTasks.has(t).
Processing(t) == at["run"][t] # "off"
Pending(t) == mem[t] # NoRecord

ForAll(v) == [t \in Tasks |-> v]

Init ==
    /\ status = ForAll("todo") /\ assigned = ForAll(TRUE)
    /\ comments = ForAll({}) /\ twice = ForAll({})
    /\ disk = ForAll(NoRecord)
    /\ up = TRUE
    /\ mem = ForAll(NoRecord)
    /\ at = [a \in Actors |-> ForAll("off")]
    /\ wr = [a \in Actors |-> ForAll(NoRecord)]
    /\ got = [a \in Actors |-> ForAll("unread")]
    /\ runs = ForAll(0) /\ aborted = ForAll(FALSE)
    /\ poll = "idle" /\ snap = ForAll("gone") /\ work = {}
    /\ faults = 0 /\ moves = 0 /\ diskOK = ForAll(TRUE) /\ retried = {}

-----------------------------------------------------------------------------
(* Faults and locations *)

Fault == faults < MaxFaults /\ faults' = faults + 1

\* A Planner request about t fails: Planner refuses it when the task is not
\* visible to the agent, and a visible one costs a fault.
RequestFails(t) == IF assigned[t] THEN Fault ELSE UNCHANGED faults

Goto(a, t, s) == at' = [at EXCEPT ![a][t] = s]

\* The file of t takes the content w, or keeps its own when the write fails.
FileWritten(t, w) ==
    /\ disk' = [disk EXCEPT ![t] = w]
    /\ diskOK' = [diskOK EXCEPT ![t] = TRUE]
    /\ UNCHANGED faults

FileFails(t) ==
    /\ Fault
    /\ diskOK' = [diskOK EXCEPT ![t] = FALSE]
    /\ UNCHANGED disk

-----------------------------------------------------------------------------
(* finalizeCompletedTask, executed by actor a for task t *)

\* Where the delivery continues once the summary is known to be posted: the
\* abort check reuses the fetch of the duplicate check when there was one.
AfterSummary(fetched) ==
    CASE ~HasAbort -> "move"
      [] HasAbort /\ fetched = "unread" -> "status"
      [] HasAbort /\ fetched = "abort" -> "delete"
      [] OTHER -> "move"

\* Its first step, from the record the store holds.
Entry(rec) ==
    CASE rec = NoRecord -> "delete"
      [] rec # NoRecord /\ rec.posted -> AfterSummary("unread")
      [] rec # NoRecord /\ ~rec.posted /\ ChecksDuplicate(rec) -> "check"
      [] OTHER -> "post"

\* The number of the run whose summary actor a delivers.  The run keeps the
\* record it created even when a prune drops it from the store.
Delivered(a, t) == IF a = "run" THEN runs[t] ELSE mem[t].run

\* An exception leaves finalizeCompletedTask: the record, if it still
\* exists, gets a retry time; a run without a record takes its failure path.
Throws(a, t) ==
    /\ got' = [got EXCEPT ![a][t] = "unread"]
    /\ IF Pending(t)
       THEN /\ mem' = [mem EXCEPT ![t] = RetryScheduled(@)]
            /\ wr' = [wr EXCEPT ![a][t] = Persisted(RetryScheduled(mem[t]))]
            /\ Goto(a, t, "resched")
       ELSE /\ UNCHANGED <<mem, wr>>
            /\ Goto(a, t, IF a = "run" THEN "failNote" ELSE "off")

\* markCommentPosted: the flag is set in memory and its write is started.
MarkPosted(a, t, fetched) ==
    IF Pending(t)
    THEN /\ mem' = [mem EXCEPT ![t] = MarkedPosted(@)]
         /\ wr' = [wr EXCEPT ![a][t] = Persisted(MarkedPosted(mem[t]))]
         /\ Goto(a, t, "mark")
    ELSE /\ UNCHANGED <<mem, wr>>
         /\ Goto(a, t, AfterSummary(fetched))

\* Mutant of Check: a retried delivery takes its summary for posted.
CheckTrustsRetry(a, t) ==
    /\ at[a][t] = "check" /\ assigned[t]
    /\ got' = [got EXCEPT ![a][t] = status[t]]
    /\ MarkPosted(a, t, status[t])
    /\ UNCHANGED <<planner, disk, up, runs, aborted, loop, faults, moves,
                   diskOK, retried>>

\* The fetch of the duplicate check answers.  A task that is not visible any
\* more is dropped with its record.
Check(a, t) ==
    /\ at[a][t] = "check"
    /\ \/ /\ assigned[t]
          /\ got' = [got EXCEPT ![a][t] = status[t]]
          /\ IF Delivered(a, t) \in comments[t]
             THEN MarkPosted(a, t, status[t])
             ELSE UNCHANGED <<mem, wr>> /\ Goto(a, t, "post")
          /\ UNCHANGED faults
       \/ /\ ~assigned[t]
          /\ mem' = [mem EXCEPT ![t] = NoRecord]
          /\ Goto(a, t, "delete")
          /\ UNCHANGED <<wr, got, faults>>
       \/ assigned[t] /\ Fault /\ Throws(a, t)
    /\ UNCHANGED <<planner, disk, up, runs, aborted, loop, moves, diskOK,
                   retried>>

\* The server applies the POST of the summary; its answer is on the way.
PostApplied(a, t) ==
    /\ at[a][t] = "post" /\ assigned[t]
    /\ LET r == Delivered(a, t) IN
       /\ comments' = [comments EXCEPT ![t] = @ \union {r}]
       /\ twice' = IF r \in comments[t]
                   THEN [twice EXCEPT ![t] = @ \union {r}] ELSE twice
    /\ Goto(a, t, "postApplied")
    /\ UNCHANGED <<status, assigned, disk, up, mem, wr, got, runs, aborted,
                   loop, faults, moves, diskOK, retried>>

\* The answer to the POST: success, or an error whether it was applied or not.
PostAnswered(a, t) ==
    /\ \/ at[a][t] = "postApplied" /\ MarkPosted(a, t, got[a][t])
          /\ UNCHANGED <<got, faults>>
       \/ at[a][t] = "post" /\ RequestFails(t) /\ Throws(a, t)
       \/ at[a][t] = "postApplied" /\ Fault /\ Throws(a, t)
    /\ UNCHANGED <<planner, disk, up, runs, aborted, loop, moves, diskOK,
                   retried>>

\* The write of the posted flag ends; its failure propagates.
Marked(a, t) ==
    /\ at[a][t] = "mark"
    /\ \/ /\ FileWritten(t, wr[a][t])
          /\ Goto(a, t, AfterSummary(got[a][t]))
          /\ wr' = [wr EXCEPT ![a][t] = NoRecord]
          /\ UNCHANGED <<mem, got>>
       \/ FileFails(t) /\ Throws(a, t)
    /\ UNCHANGED <<planner, up, runs, aborted, loop, moves, retried>>

\* The fetch of the abort check answers.
CheckAbort(a, t) ==
    /\ at[a][t] = "status"
    /\ \/ /\ assigned[t]
          /\ Goto(a, t, IF status[t] = "abort" THEN "delete" ELSE "move")
          /\ UNCHANGED <<mem, wr, got, faults>>
       \/ /\ ~assigned[t]
          /\ mem' = [mem EXCEPT ![t] = NoRecord]
          /\ Goto(a, t, "delete")
          /\ UNCHANGED <<wr, got, faults>>
       \/ assigned[t] /\ Fault /\ Throws(a, t)
    /\ UNCHANGED <<planner, disk, up, runs, aborted, loop, moves, diskOK,
                   retried>>

\* The server applies the update to the end status.
MoveApplied(a, t) ==
    /\ at[a][t] = "move" /\ assigned[t]
    /\ status' = [status EXCEPT ![t] = "done"]
    /\ Goto(a, t, "moveApplied")
    /\ UNCHANGED <<assigned, comments, twice, disk, up, mem, wr, got, runs,
                   aborted, loop, faults, moves, diskOK, retried>>

\* The answer to the update.
MoveAnswered(a, t) ==
    /\ \/ at[a][t] = "moveApplied" /\ Goto(a, t, "delete")
          /\ UNCHANGED <<mem, wr, got, faults>>
       \/ at[a][t] = "move" /\ RequestFails(t) /\ Throws(a, t)
       \/ at[a][t] = "moveApplied" /\ Fault /\ Throws(a, t)
    /\ UNCHANGED <<planner, disk, up, runs, aborted, loop, moves, diskOK,
                   retried>>

\* FinalizationStore.delete: memory first, then the file, best-effort.
Delete(a, t) ==
    /\ at[a][t] = "delete"
    /\ mem' = [mem EXCEPT ![t] = NoRecord]
    /\ FileWritten(t, NoRecord) \/ FileFails(t)
    /\ got' = [got EXCEPT ![a][t] = "unread"]
    /\ Goto(a, t, IF a = "run" THEN "clear" ELSE "off")
    /\ UNCHANGED <<planner, up, wr, runs, aborted, loop, moves, retried>>

\* The best-effort write of scheduleRetry ends.
Rescheduled(a, t) ==
    /\ at[a][t] = "resched"
    /\ FileWritten(t, wr[a][t]) \/ FileFails(t)
    /\ wr' = [wr EXCEPT ![a][t] = NoRecord]
    /\ Goto(a, t, IF a = "run" THEN "clear" ELSE "off")
    /\ UNCHANGED <<planner, up, mem, got, runs, aborted, loop, moves, retried>>

-----------------------------------------------------------------------------
(* processTask *)

\* processPicks hands the task over, or cannot load the projects and
\* unregisters it (the source unregisters all the picks of the poll in one
\* callback; one by one allows that and more).
Begin(t) ==
    /\ at["run"][t] = "registered"
    /\ \/ Goto("run", t, "start") /\ UNCHANGED faults
       \/ Goto("run", t, "off") /\ Fault
    /\ UNCHANGED <<planner, disk, up, mem, wr, got, runs, aborted, loop, moves,
                   diskOK, retried>>

\* Labels, start comment, the best-effort move to the in-progress status and
\* the task notes; then the CLI starts.  A failed preparation fails the task.
Start(t) ==
    /\ at["run"][t] = "start"
    /\ \/ /\ HasInProgress /\ assigned[t]
          /\ status' = [status EXCEPT ![t] = "doing"]
          /\ UNCHANGED faults
       \/ /\ IF HasInProgress THEN RequestFails(t) ELSE UNCHANGED faults
          /\ UNCHANGED status
    /\ Goto("run", t, "cli")
    /\ runs' = [runs EXCEPT ![t] = @ + 1]
    /\ UNCHANGED <<assigned, comments, twice, disk, up, mem, wr, got, aborted,
                   loop, moves, diskOK, retried>>

StartFails(t) ==
    /\ at["run"][t] = "start" /\ Fault
    /\ Goto("run", t, "failNote")
    /\ UNCHANGED <<planner, disk, up, mem, wr, got, runs, aborted, loop, moves,
                   diskOK, retried>>

\* The CLI work, its fallback and its adjustment rounds end with a summary:
\* the record is in memory at once and its write is started.  An abort
\* signalled after the last CLI exit is not noticed.
CliEnds(t) ==
    /\ at["run"][t] = "cli"
    /\ mem' = [mem EXCEPT ![t] = NewRecord(runs[t])]
    /\ wr' = [wr EXCEPT !["run"][t] = Persisted(NewRecord(runs[t]))]
    /\ Goto("run", t, "record")
    /\ UNCHANGED <<planner, disk, up, got, runs, aborted, loop, faults, moves,
                   diskOK, retried>>

\* The CLI fails, or is killed by the abort signal.
CliFails(t) ==
    /\ at["run"][t] = "cli"
    /\ \/ Goto("run", t, "failNote") /\ Fault
       \/ Goto("run", t, "abortNote") /\ aborted[t] /\ UNCHANGED faults
    /\ UNCHANGED <<planner, disk, up, mem, wr, got, runs, aborted, loop, moves,
                   diskOK, retried>>

\* Mutant of Recorded: the record is kept in memory only.
RecordedInMemory(t) ==
    /\ at["run"][t] = "record"
    /\ Goto("run", t, Entry(mem[t]))
    /\ wr' = [wr EXCEPT !["run"][t] = NoRecord]
    /\ UNCHANGED <<planner, disk, up, mem, got, runs, aborted, loop, faults,
                   moves, diskOK, retried>>

\* The write of the new record ends, and the finalization starts.
Recorded(t) ==
    /\ at["run"][t] = "record"
    /\ \/ /\ FileWritten(t, wr["run"][t])
          /\ Goto("run", t, Entry(mem[t]))
          /\ wr' = [wr EXCEPT !["run"][t] = NoRecord]
          /\ UNCHANGED <<mem, got>>
       \/ FileFails(t) /\ Throws("run", t)
    /\ UNCHANGED <<planner, up, runs, aborted, loop, moves, retried>>

\* finalizeAbortedTask: a comment, and the status stays the user's.
AbortNoted(t) ==
    /\ at["run"][t] = "abortNote"
    /\ Goto("run", t, "clear")
    /\ UNCHANGED <<planner, disk, up, mem, wr, got, runs, aborted, loop,
                   faults, moves, diskOK, retried>>

\* The failure comment; when it fails, the status update is skipped.
FailNoted(t) ==
    /\ at["run"][t] = "failNote"
    /\ \/ assigned[t] /\ Goto("run", t, "failMove") /\ UNCHANGED faults
       \/ RequestFails(t) /\ Goto("run", t, "clear")
    /\ UNCHANGED <<planner, disk, up, mem, wr, got, runs, aborted, loop, moves,
                   diskOK, retried>>

\* The move to the error status, tried once.
FailMoved(t) ==
    /\ at["run"][t] = "failMove"
    /\ \/ /\ assigned[t]
          /\ status' = [status EXCEPT ![t] = "failed"]
          /\ UNCHANGED faults
       \/ RequestFails(t) /\ UNCHANGED status
    /\ Goto("run", t, "clear")
    /\ UNCHANGED <<assigned, comments, twice, disk, up, mem, wr, got, runs,
                   aborted, loop, moves, diskOK, retried>>

\* The finally block: the running label, then the in-flight registration.
Clear(t) ==
    /\ at["run"][t] = "clear"
    /\ Goto("run", t, "off")
    /\ aborted' = [aborted EXCEPT ![t] = FALSE]
    /\ UNCHANGED <<planner, disk, up, mem, wr, got, runs, loop, faults, moves,
                   diskOK, retried>>

-----------------------------------------------------------------------------
(* The polling loop *)

\* The task list as the server answers it: it is stale from then on.
PollLists ==
    /\ up /\ poll = "idle"
    /\ \/ /\ snap' = [t \in Tasks |-> IF assigned[t] THEN status[t] ELSE "gone"]
          /\ poll' = "listed"
          /\ UNCHANGED faults
       \/ poll' = "retry" /\ Fault /\ UNCHANGED snap
    /\ retried' = {}
    /\ UNCHANGED <<planner, disk, process, work, moves, diskOK>>

\* prune(): the records of unassigned tasks and the old ones leave memory.
PollPrunes ==
    /\ poll = "listed"
    /\ work' = {t \in Tasks : Pending(t) /\ (snap[t] = "gone" \/ mem[t].old)}
    /\ mem' = [t \in Tasks |-> IF t \in work' THEN NoRecord ELSE mem[t]]
    /\ poll' = "pruning"
    /\ UNCHANGED <<planner, disk, up, at, wr, got, runs, aborted, snap, faults,
                   moves, diskOK, retried>>

\* ... and then their files, best-effort and each for itself.
PollPruned ==
    /\ poll = "pruning"
    /\ \E kept \in SUBSET work :
         /\ disk' = [t \in Tasks |-> IF t \in work \ kept THEN NoRecord ELSE disk[t]]
         /\ diskOK' = [t \in Tasks |-> IF t \in work THEN t \notin kept ELSE diskOK[t]]
         /\ IF kept = {} THEN UNCHANGED faults ELSE Fault
    /\ poll' = "pruned" /\ work' = {}
    /\ UNCHANGED <<planner, process, snap, moves, retried>>

\* Mutant of Candidate: pending finalizations are not excluded.
CandidateDespitePending(t) == snap[t] = "todo" /\ ~Processing(t)

\* A listed task is ready when its listed status is the start status.
Candidate(t) == snap[t] = "todo" /\ ~Processing(t) /\ ~Pending(t)

\* abortRequestedTasks signals the runs whose task is listed in the abort
\* status, then the candidates are collected.
PollCollects ==
    /\ poll = "pruned"
    /\ aborted' = [t \in Tasks |->
                    \/ aborted[t]
                    \/ /\ HasAbort /\ snap[t] = "abort"
                       /\ at["run"][t] \notin {"off", "registered"}]
    /\ work' = {t \in Tasks : Candidate(t)}
    /\ poll' = IF work' = {} THEN "retry" ELSE "select"
    /\ UNCHANGED <<planner, disk, up, mem, at, wr, got, runs, snap, faults,
                   moves, diskOK, retried>>

\* The slots left by the running tasks.
Free == ProcessCap - Cardinality({t \in Tasks : Processing(t)})

\* The evaluations are over: the picks are registered in one go.  When
\* nothing runs and the budget is at least one full slot, the scheduler
\* admits at least one candidate (IdleStarts of Scheduler.tla).
PollSelects ==
    /\ poll = "select"
    /\ \E picks \in SUBSET work :
         /\ Cardinality(picks) <= Free
         /\ picks = {} => \E t \in Tasks : Processing(t)
         /\ at' = [at EXCEPT !["run"] =
                     [t \in Tasks |-> IF t \in picks THEN "registered" ELSE @[t]]]
    /\ poll' = "retry" /\ work' = {}
    /\ UNCHANGED <<planner, disk, up, mem, wr, got, runs, aborted, snap, faults,
                   moves, diskOK, retried>>

\* Mutant of PollFails: the error leaves the poll in progress.
PollFailsUnguarded ==
    /\ poll = "select" /\ Fault
    /\ work' = {}
    /\ UNCHANGED <<planner, disk, process, poll, snap, moves, diskOK, retried>>

\* The projects cannot be loaded: the poll ends with an error.
PollFails ==
    /\ poll = "select" /\ Fault
    /\ poll' = "retry" /\ work' = {}
    /\ UNCHANGED <<planner, disk, process, snap, moves, diskOK, retried>>

\* Mutant of PollRetries: a record is given up after its second attempt.
PollRetriesTwice ==
    /\ poll = "retry"
    /\ work' = {t \in Tasks : Pending(t) /\ mem[t].due /\ mem[t].attempts < 2}
    /\ poll' = "retrying"
    /\ UNCHANGED <<planner, disk, process, snap, faults, moves, diskOK,
                   retried>>

\* retryDueFinalizations: the due records are collected once ...
PollRetries ==
    /\ poll = "retry"
    /\ work' = {t \in Tasks : Pending(t) /\ mem[t].due}
    /\ poll' = "retrying"
    /\ UNCHANGED <<planner, disk, process, snap, faults, moves, diskOK,
                   retried>>

\* Mutant of RetryNext: a record its run still delivers is delivered as well.
RetryNextRunning(t) ==
    /\ poll = "retrying" /\ t \in work
    /\ \A u \in Tasks : at["poll"][u] = "off"
    /\ work' = work \ {t} /\ retried' = retried \union {t}
    /\ IF Pending(t) THEN Goto("poll", t, Entry(mem[t])) ELSE UNCHANGED at
    /\ UNCHANGED <<planner, disk, up, mem, wr, got, runs, aborted, poll, snap,
                   faults, moves, diskOK>>

\* ... and delivered one after the other, unless a run of the task still
\* processes it.
RetryNext(t) ==
    /\ poll = "retrying" /\ t \in work
    /\ \A u \in Tasks : at["poll"][u] = "off"
    /\ work' = work \ {t} /\ retried' = retried \union {t}
    /\ IF Pending(t) /\ ~Processing(t)
       THEN Goto("poll", t, Entry(mem[t]))
       ELSE UNCHANGED at
    /\ UNCHANGED <<planner, disk, up, mem, wr, got, runs, aborted, poll, snap,
                   faults, moves, diskOK>>

\* Mutant of PollEnds: the candidates are selected after the retries.
PollEndsSelecting ==
    /\ poll = "retrying" /\ work = {}
    /\ \A u \in Tasks : at["poll"][u] = "off"
    /\ poll' \in {"idle", "pruned"}
    /\ UNCHANGED <<planner, disk, process, snap, work, faults, moves, diskOK,
                   retried>>

PollEnds ==
    /\ poll = "retrying" /\ work = {}
    /\ \A u \in Tasks : at["poll"][u] = "off"
    /\ poll' = "idle"
    /\ UNCHANGED <<planner, disk, process, snap, work, faults, moves, diskOK,
                   retried>>

-----------------------------------------------------------------------------
(* Time, users, crashes *)

\* The retry time of a record passes.
TimePasses(t) ==
    /\ Pending(t) /\ ~mem[t].due
    /\ mem' = [mem EXCEPT ![t].due = TRUE]
    /\ UNCHANGED <<planner, disk, up, at, wr, got, runs, aborted, loop, faults,
                   moves, diskOK, retried>>

\* The time-to-live of a record passes.
Expires(t) ==
    /\ CanExpire /\ Pending(t) /\ ~mem[t].old
    /\ mem' = [mem EXCEPT ![t].old = TRUE]
    /\ UNCHANGED <<planner, disk, up, at, wr, got, runs, aborted, loop, faults,
                   moves, diskOK, retried>>

\* A user moves a task to the start or the abort status, or unassigns or
\* reassigns it.
UserActsOn(t) ==
    /\ moves < MaxMoves /\ moves' = moves + 1
    /\ \/ /\ "reopen" \in UserActs /\ status[t] # "todo"
          /\ status' = [status EXCEPT ![t] = "todo"]
          /\ UNCHANGED assigned
       \/ /\ "cancel" \in UserActs /\ status[t] # "abort"
          /\ status' = [status EXCEPT ![t] = "abort"]
          /\ UNCHANGED assigned
       \/ /\ "assign" \in UserActs
          /\ assigned' = [assigned EXCEPT ![t] = ~@]
          /\ UNCHANGED status
    /\ UNCHANGED <<comments, twice, disk, process, loop, faults, diskOK,
                   retried>>

\* The process stops; only Planner and the files remain.
Crash ==
    /\ up /\ Fault
    /\ up' = FALSE
    /\ mem' = ForAll(NoRecord)
    /\ at' = [a \in Actors |-> ForAll("off")]
    /\ wr' = [a \in Actors |-> ForAll(NoRecord)]
    /\ got' = [a \in Actors |-> ForAll("unread")]
    /\ aborted' = ForAll(FALSE)
    /\ poll' = "idle" /\ snap' = ForAll("gone") /\ work' = {}
    /\ retried' = {}
    /\ UNCHANGED <<planner, disk, runs, moves, diskOK>>

\* load(): every file is reloaded; an unreadable file is removed, an
\* unreadable directory leaves the store empty.
Restart ==
    /\ ~up
    /\ up' = TRUE
    /\ \/ /\ mem' = [t \in Tasks |-> IF disk[t] = NoRecord THEN NoRecord
                                     ELSE Reloaded(disk[t])]
          /\ UNCHANGED <<disk, faults, diskOK>>
       \/ /\ Fault
          /\ \E lost \in {t \in Tasks : disk[t] # NoRecord} :
               /\ disk' = [disk EXCEPT ![lost] = NoRecord]
               /\ diskOK' = [diskOK EXCEPT ![lost] = FALSE]
               /\ mem' = [t \in Tasks |->
                            IF t = lost \/ disk[t] = NoRecord THEN NoRecord
                            ELSE Reloaded(disk[t])]
       \/ /\ Fault
          /\ diskOK' = ForAll(FALSE)
          /\ mem' = ForAll(NoRecord)
          /\ UNCHANGED disk
    /\ UNCHANGED <<planner, at, wr, got, runs, aborted, loop, moves, retried>>

-----------------------------------------------------------------------------
Finalize(a, t) ==
    \/ Check(a, t) \/ PostApplied(a, t) \/ PostAnswered(a, t) \/ Marked(a, t)
    \/ CheckAbort(a, t) \/ MoveApplied(a, t) \/ MoveAnswered(a, t)
    \/ Delete(a, t) \/ Rescheduled(a, t)

ProcessTask(t) ==
    \/ Begin(t) \/ Start(t) \/ StartFails(t) \/ CliEnds(t) \/ CliFails(t)
    \/ Recorded(t) \/ AbortNoted(t) \/ FailNoted(t) \/ FailMoved(t) \/ Clear(t)

Poll ==
    \/ PollLists \/ PollPrunes \/ PollPruned \/ PollCollects \/ PollSelects
    \/ PollFails \/ PollRetries \/ (\E t \in Tasks : RetryNext(t)) \/ PollEnds

Environment ==
    \/ \E t \in Tasks : TimePasses(t) \/ Expires(t) \/ UserActsOn(t)
    \/ Crash \/ Restart

Next ==
    \/ \E a \in Actors, t \in Tasks : Finalize(a, t)
    \/ \E t \in Tasks : ProcessTask(t)
    \/ Poll
    \/ Environment

Spec == Init /\ [][Next]_vars

-----------------------------------------------------------------------------
(* Safety *)

\* A finalization of a task is executed by one actor at a time: the retry
\* loop never delivers a record its own run is still delivering, whatever
\* polls, crashes and retries happened before (Agent.retryDueFinalizations).
OneFinalizer ==
    \A t \in Tasks : at["poll"][t] # "off" => at["run"][t] = "off"

\* The CLI never works on a task whose completed run is still to be delivered
\* (the pending finalization keeps the task out of the candidates, even
\* though candidates are collected long before they are registered).
NoRunWhilePending ==
    \A t \in Tasks : at["run"][t] \in {"registered", "start", "cli"} => ~Pending(t)

\* The summary of a run is posted at most once, over lost answers, failed
\* writes of the posted flag, crashes and restarts (duplicate-summary check
\* of finalizeCompletedTask).
SummaryAtMostOnce == \A t \in Tasks : twice[t] = {}

\* A pending finalization survives a crash: once its first write is over the
\* file of every record in memory is the one of the same run, unless the last
\* operation on that file failed (FinalizationStore.record, markCommentPosted,
\* scheduleRetry, prune and delete keep the files behind the map).
PendingSurvivesCrash ==
    \A t \in Tasks :
        diskOK[t] /\ Pending(t) /\ at["run"][t] # "record" =>
            disk[t].run = mem[t].run

\* What a restart would reload never forgets a delivered summary for good: a
\* file that says the summary is not posted while it is will be checked
\* against Planner, one that says it is posted is right.
PostedFlagIsTrue ==
    \A t \in Tasks : \A rec \in {mem[t], disk[t]} :
        rec.posted => rec.run \in comments[t]

\* A task reaches its end status only once the summary of the run that is
\* delivered is among its comments: no result is marked done silently, and a
\* summary is not lost by an error between the comment and the status.
DoneOnlyWithSummary ==
    \A a \in Actors, t \in Tasks :
        at[a][t] = "moveApplied" => Delivered(a, t) \in comments[t]

\* A task the retry loop took up is not picked again by the same poll, whose
\* list may still show it in its start status (order of the phases of
\* pollOnce: the retries run after the selection).
NoPickAfterRetry ==
    [][\A t \in Tasks : t \in retried /\ at["run"][t] = "off" /\ retried' = retried
                          => at'["run"][t] = "off"]_vars

-----------------------------------------------------------------------------
(* Liveness *)

\* The event loop serves every callback, requests and CLI runs have timeouts,
\* retry timers fire, and the container is restarted after a crash.
Fairness ==
    /\ \A a \in Actors, t \in Tasks : WF_vars(Finalize(a, t))
    /\ \A t \in Tasks : WF_vars(ProcessTask(t)) /\ WF_vars(TimePasses(t))
    /\ WF_vars(Poll)
    /\ WF_vars(Restart)

FairSpec == Spec /\ Fairness

\* A task in its start status does not block the agent: it ends done, failed
\* or aborted, unless it is unassigned (status moves of processTask; crashes
\* lose runs but the task is picked again).
StartedIsSettled ==
    \A t \in Tasks : status[t] = "todo"
        ~> status[t] \in {"done", "failed", "abort"} \/ ~assigned[t]

-----------------------------------------------------------------------------
(* What the documentation says and the code does not do *)

\* README.md: a task already being processed is never picked again by a
\* subsequent poll.  A poll that listed the task while it was processed must
\* not register it after its delivery has moved it to the end status.
NoPickOfDelivered ==
    [][\A t \in Tasks : at["run"][t] = "off" /\ at'["run"][t] = "registered"
                          => status[t] # "done"]_vars
=============================================================================
