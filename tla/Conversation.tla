----------------------------- MODULE Conversation -----------------------------
(***************************************************************************)
(* A task of a comment-triggered action (src/agent/src/Agent.ts, trigger:  *)
(* comments): the agent answers with comments and never moves the task.    *)
(* Which comments are still to be answered is derived from the comments    *)
(* alone: a summary carries a watermark, the newest comment it consumed.   *)
(*                                                                         *)
(* An action is the code between two awaits.  The polling loop, the run of *)
(* the task (processTask and adjustForNewComments) and its progress        *)
(* comments interleave with the users, who comment and abort.  The process *)
(* may crash at any point and requests may fail.                           *)
(*                                                                         *)
(* A comment is known by its position: the server orders them by creation. *)
(* The users delete comments of theirs, the watermark of an answer         *)
(* included.  A deleted comment does not come back, so the comments a      *)
(* brief did not hold are those beyond the newest it held.  The task is    *)
(* always in its start status (a user who aborts it moves it back); its    *)
(* labels are left to RunningLabel.tla, the other tasks and the            *)
(* time-to-live of the records to Agent.tla.                               *)
(***************************************************************************)
EXTENDS Naturals, Sequences, FiniteSets

CONSTANTS
    MaxRounds,        \* TASK_ADJUSTMENT_MAX_ROUNDS
    StartComments,    \* AGENT_START_COMMENT
    MaxUserComments,  \* bound: comments of the users
    MaxNotes,         \* bound: progress comments, aborts and deletions
    MaxFaults         \* bound: failed requests and crashes, and notes, together

ASSUME ConversationAssumption ==
    /\ MaxRounds \in Nat /\ StartComments \in BOOLEAN
    /\ MaxUserComments \in Nat /\ MaxNotes \in Nat /\ MaxFaults \in Nat

VARIABLES
    (* Planner, and the file of the finalization record *)
    comments,
    deleted,   \* those the users deleted since
    late,      \* progress comments on their way to the server
    record,    \* the pending finalization; shown: its summary was posted
    (* the agent process *)
    up,
    poll,      \* the list of the poll in progress; outdated: a run ended since
    run,       \* the local variables of processTask
    (* history *)
    answered,  \* comments a recorded summary or a failure comment answers
    misled,    \* a task was picked from an outdated list
    faults, notes

agent   == <<up, poll, run>>
history == <<answered, misled>>
thread  == <<comments, deleted>>
bounds  == <<faults, notes>>
vars == <<thread, late, record, agent, history, bounds>>

\* A comment: of a user, an unmarked note of the agent (start, progress, abort),
\* or an answer, the summary or the failure comment, with its watermark (0: none).
Comment == [by : {"user", "note", "answer"}, mark : Nat]
NoRecord == [pending |-> FALSE, mark |-> 0, shown |-> FALSE]
NoPoll == [listed |-> FALSE, seen |-> {}, outdated |-> FALSE]

\* known: the newest comment of the latest brief (knownCommentIds); mark:
\* processedCommentId; used: the newest comment the last successful execution of
\* the CLI was given (history).
RunStep == {"off", "start", "cli", "check", "adjust", "record", "post", "delete",
            "failure", "abort", "end"}
NoRun == [at |-> "off", known |-> 0, mark |-> 0, rounds |-> 0, used |-> 0]

TypeOK ==
    /\ comments \in Seq(Comment) /\ late \in Nat
    /\ deleted \in SUBSET (1 .. Len(comments))
    /\ record \in [pending : BOOLEAN, mark : Nat, shown : BOOLEAN]
    /\ up \in BOOLEAN
    /\ poll \in [listed : BOOLEAN, seen : SUBSET (1 .. Len(comments)), outdated : BOOLEAN]
    /\ run \in [at : RunStep, known : Nat, mark : Nat, rounds : 0 .. MaxRounds,
                used : Nat]
    /\ answered \in SUBSET Nat
    /\ misled \in BOOLEAN
    /\ faults \in 0 .. MaxFaults /\ notes \in 0 .. MaxNotes

Init ==
    /\ comments = <<>> /\ deleted = {} /\ late = 0 /\ record = NoRecord
    /\ up = TRUE /\ poll = NoPoll /\ run = NoRun
    /\ answered = {} /\ misled = FALSE
    /\ faults = 0 /\ notes = 0

-----------------------------------------------------------------------------
(* The comments *)

Visible == (1 .. Len(comments)) \ deleted
Users(S) == {i \in S : comments[i].by = "user"}
UsersUpTo(n) == Users((1 .. n) \ deleted)
Newest(S) == IF S = {} THEN 0 ELSE CHOOSE i \in S : \A j \in S : j <= i

Posted(kind, m) ==
    comments' = Append(comments, [by |-> kind, mark |-> m]) /\ deleted' = deleted

\* Mutant of PickupPending: the watermark comment counts as not consumed.
PickupPendingInclusive(S) ==
    S # {} => LET last == comments[Newest(S)] IN
        \/ last.by = "user"
        \/ /\ last.by = "answer" /\ last.mark \in S \union {0}
           /\ \E i \in Users(S) : i >= last.mark

\* commentsPickupPending, on the comments S of a list: none, the last one is of a
\* user, or a user's is newer than the watermark of the last one.  A watermark that
\* is not among them is never passed.
PickupPending(S) ==
    S # {} => LET last == comments[Newest(S)] IN
        \/ last.by = "user"
        \/ /\ last.by = "answer" /\ last.mark \in S \union {0}
           /\ \E i \in Users(S) : i > last.mark

\* A request succeeds, or fails at the expense of the bound.
Fine == UNCHANGED bounds
Disturbed == faults + notes < MaxFaults
Fault == Disturbed /\ faults' = faults + 1 /\ UNCHANGED notes
Note == Disturbed /\ notes < MaxNotes /\ notes' = notes + 1 /\ UNCHANGED faults

-----------------------------------------------------------------------------
(* The polling loop *)

PollUnchanged == UNCHANGED <<thread, late, record, up, answered, bounds>>

List ==
    /\ up /\ ~poll.listed
    /\ poll' = [listed |-> TRUE, seen |-> Visible, outdated |-> FALSE]
    /\ PollUnchanged /\ UNCHANGED <<run, misled>>

Candidate == run.at = "off" /\ ~record.pending /\ PickupPending(poll.seen)

\* The task is picked with the comments of the list.
Pick ==
    /\ up /\ poll.listed /\ Candidate
    /\ poll' = NoPoll
    /\ misled' = (misled \/ poll.outdated)
    /\ run' = [NoRun EXCEPT !.at = "start", !.known = Newest(poll.seen),
                             !.mark = Newest(poll.seen)]
    /\ PollUnchanged

PollEnds ==
    /\ up /\ poll.listed /\ ~Candidate
    /\ poll' = NoPoll
    /\ PollUnchanged /\ UNCHANGED <<run, misled>>

\* What a run or a delivery that ends leaves to the poll in progress.
Outdated == poll' = [poll EXCEPT !.outdated = poll.listed]

\* Mutant of Retry: the record of a summary that is already shown stays.
RetryUnshown ==
    /\ up /\ run.at = "off" /\ record.pending /\ ~record.shown
    /\ Posted("answer", record.mark)
    /\ record' = NoRecord
    /\ Outdated
    /\ Fine /\ UNCHANGED <<late, up, run, history>>

\* retryDueFinalizations: an identical comment of the agent is found, or the
\* summary is posted, and the record deleted.
Retry ==
    /\ up /\ run.at = "off" /\ record.pending
    /\ IF record.shown THEN UNCHANGED thread ELSE Posted("answer", record.mark)
    /\ record' = NoRecord
    /\ Outdated
    /\ Fine /\ UNCHANGED <<late, up, run, history>>

\* The answer of the comment is lost, and the record stays.
RetryUnanswered ==
    /\ up /\ run.at = "off" /\ record.pending /\ ~record.shown
    /\ Posted("answer", record.mark)
    /\ record' = [record EXCEPT !.shown = TRUE]
    /\ Fault /\ UNCHANGED <<late, agent, history>>

-----------------------------------------------------------------------------
(* processTask *)

At(s) == up /\ run.at = s
Goto(s) == run' = [run EXCEPT !.at = s]

\* What no step of the run changes.
RunUnchanged == UNCHANGED <<late, up, misled>>

\* postStartComment, on the first run of the task only; best-effort.
FirstRun == \A i \in 1 .. run.known : comments[i].by = "user"

StartComment ==
    /\ At("start")
    /\ \/ StartComments /\ FirstRun /\ Posted("note", 0) /\ Fine
       \/ StartComments /\ FirstRun /\ UNCHANGED thread /\ Fault
       \/ ~(StartComments /\ FirstRun) /\ UNCHANGED thread /\ Fine
    /\ Goto("cli")
    /\ RunUnchanged /\ UNCHANGED <<record, poll, answered>>

\* startProgressHeartbeat: the comment is sent and nobody waits for it.
Tick ==
    /\ At("cli") /\ Note
    /\ late' = late + 1
    /\ UNCHANGED <<thread, record, agent, history>>

\* The first execution of the CLI: its brief is the snapshot of the poll.
CliEnds ==
    /\ At("cli")
    /\ \/ run' = [run EXCEPT !.at = "check", !.used = run.known]
       \/ Goto("failure")
    /\ RunUnchanged /\ Fine /\ UNCHANGED <<thread, record, poll, answered>>

\* adjustForNewComments: the task is read again.  Only comments of users the
\* brief did not hold are worth a round, within the budget; a failed read
\* ends the rounds.
New == {i \in Users(Visible) : i > run.known}

\* Mutant of Check: the budget of adjustment rounds is not looked at.
CheckUnbounded ==
    /\ At("check")
    /\ IF New # {}
       THEN run' = [run EXCEPT !.at = "adjust", !.rounds = @ + 1, !.known = Newest(Visible)]
       ELSE Goto("record")
    /\ RunUnchanged /\ Fine /\ UNCHANGED <<thread, record, poll, answered>>

Check ==
    /\ At("check")
    /\ IF New # {} /\ run.rounds < MaxRounds
       THEN run' = [run EXCEPT !.at = "adjust", !.rounds = @ + 1, !.known = Newest(Visible)]
       ELSE Goto("record")
    /\ RunUnchanged /\ Fine /\ UNCHANGED <<thread, record, poll, answered>>

CheckFails ==
    /\ At("check") /\ Goto("record")
    /\ RunUnchanged /\ Fault /\ UNCHANGED <<thread, record, poll, answered>>

\* Mutant of AdjustEnds: a failed round moves the watermark as well.
AdjustEndsAhead ==
    /\ At("adjust")
    /\ \/ run' = [run EXCEPT !.at = "check", !.mark = run.known, !.used = run.known]
       \/ run' = [run EXCEPT !.at = "record", !.mark = run.known]
    /\ RunUnchanged /\ Fine /\ UNCHANGED <<thread, record, poll, answered>>

\* An adjustment round: the watermark follows a successful one only.
AdjustEnds ==
    /\ At("adjust")
    /\ \/ run' = [run EXCEPT !.at = "check", !.mark = run.known, !.used = run.known]
       \/ Goto("record")
    /\ RunUnchanged /\ Fine /\ UNCHANGED <<thread, record, poll, answered>>

\* finalizationStore.record: the summary, with its watermark.
Record ==
    /\ At("record")
    /\ record' = [pending |-> TRUE, mark |-> run.mark, shown |-> FALSE]
    /\ answered' = answered \union UsersUpTo(run.used)
    /\ Goto("post")
    /\ RunUnchanged /\ Fine /\ UNCHANGED <<thread, poll>>

\* finalizeCompletedTask, comment-only: the summary is posted, unless the
\* request fails, before or after the server applied it.
PostSummary ==
    /\ At("post")
    /\ Posted("answer", record.mark)
    /\ record' = [record EXCEPT !.shown = TRUE]
    /\ \/ Goto("delete") /\ Fine
       \/ Goto("end") /\ Fault
    /\ RunUnchanged /\ UNCHANGED <<poll, answered>>

PostFails ==
    /\ At("post") /\ Goto("end")
    /\ RunUnchanged /\ Fault /\ UNCHANGED <<thread, record, poll, answered>>

DeleteRecord ==
    /\ At("delete") /\ Goto("end")
    /\ record' = NoRecord
    /\ RunUnchanged /\ Fine /\ UNCHANGED <<thread, poll, answered>>

\* The failure comment carries the watermark of the pick.
PostFailure ==
    /\ At("failure") /\ Goto("end")
    /\ \/ Posted("answer", run.mark) /\ answered' = answered \union UsersUpTo(run.mark) /\ Fine
       \/ UNCHANGED <<thread, answered>> /\ Fault
    /\ RunUnchanged /\ UNCHANGED <<record, poll>>

\* finalizeAbortedTask.
PostAbort ==
    /\ At("abort") /\ Goto("end")
    /\ \/ Posted("note", 0) /\ Fine
       \/ UNCHANGED thread /\ Fault
    /\ RunUnchanged /\ UNCHANGED <<record, poll, answered>>

\* The finally block: the task leaves processingTasks.
RunEnds ==
    /\ At("end")
    /\ run' = NoRun
    /\ Outdated
    /\ RunUnchanged /\ Fine /\ UNCHANGED <<thread, record, answered>>

-----------------------------------------------------------------------------
(* Planner, the users, and crashes *)

Elsewhere == UNCHANGED <<record, history>>

\* A progress comment reaches the server, even after its run or its process.
Lands ==
    /\ late > 0 /\ late' = late - 1
    /\ Posted("note", 0)
    /\ Elsewhere /\ Fine /\ UNCHANGED <<agent>>

UserComments ==
    /\ Cardinality(Users(1 .. Len(comments))) < MaxUserComments
    /\ Posted("user", 0)
    /\ Elsewhere /\ Fine /\ UNCHANGED <<late, agent>>

UserDeletes ==
    /\ Note
    /\ \E i \in Users(Visible) : deleted' = deleted \union {i}
    /\ Elsewhere /\ UNCHANGED <<comments, late, agent>>

\* The user aborts the task: the CLI execution in flight is rejected.
UserAborts ==
    /\ up /\ run.at \in {"cli", "adjust"} /\ Goto("abort")
    /\ Elsewhere /\ Note
    /\ UNCHANGED <<thread, late, poll, up>>

\* A crash keeps what Planner and the disk have.
Crash ==
    /\ up /\ up' = FALSE
    /\ poll' = NoPoll /\ run' = NoRun
    /\ Elsewhere /\ Fault /\ UNCHANGED <<thread, late>>

Restart ==
    /\ ~up /\ up' = TRUE
    /\ Elsewhere /\ Fine /\ UNCHANGED <<thread, late, poll, run>>

Poll == List \/ Pick \/ PollEnds
Process ==
    \/ StartComment \/ CliEnds \/ Check \/ AdjustEnds \/ Record
    \/ PostSummary \/ DeleteRecord \/ PostFailure \/ PostAbort \/ RunEnds

Next ==
    \/ Poll \/ Retry \/ RetryUnanswered
    \/ Process \/ Tick \/ CheckFails \/ PostFails
    \/ Lands \/ UserComments \/ UserDeletes \/ UserAborts
    \/ Crash \/ Restart

\* The polls go on, a CLI execution ends (by its timeout at the latest),
\* requests are answered, and a crashed process is restarted.
Fairness ==
    /\ WF_vars(Poll) /\ WF_vars(Retry) /\ WF_vars(Process)
    /\ WF_vars(Lands) /\ WF_vars(Restart)

Spec == Init /\ [][Next]_vars /\ Fairness

-----------------------------------------------------------------------------
(* Properties *)

Resting == run.at = "off" /\ ~record.pending
AllAnswered == Users(Visible) \subseteq answered

\* The pickup rule gives up behind an unmarked comment of the agent (README.md:421,
\* "falls back to the historical rule"), and behind an answer whose watermark was
\* deleted (Agent.ts:2581, "fails closed when the watermark comment is no longer
\* found"): a comment it does not see then is not answered before another follows.
Blind ==
    LET n == Newest(Visible) IN
    /\ n # 0 /\ comments[n].by # "user"
    /\ comments[n].by = "note" \/ comments[n].mark \notin Visible \union {0}

\* No comment of a user is forgotten: whenever the task rests, each that is not
\* deleted was given to a CLI execution whose summary or failure is recorded, or the
\* next poll picks the task; through comments that arrive late or are deleted,
\* exhausted and failed adjustment rounds, failed reads, late deliveries and crashes.
\* The exceptions are those of Blind.
AnsweredOrPending ==
    Resting => Blind \/ PickupPending(Visible) \/ AllAnswered

\* Each batch of comments triggers one run: a task that has comments is only
\* picked for one no run has answered (README.md:350, "at most once"), as long as
\* no poll decided with a list older than the end of a run.
OneRunPerBatch ==
    [][ Pick /\ ~misled' => poll.seen = {} \/ ~(Users(poll.seen) \subseteq answered) ]_vars

\* Every comment of a user that stays is answered in the end, by a summary or a
\* failure comment, unless the pickup rule is left blind: once the users are silent,
\* nothing is left unanswered but behind an unmarked comment of the agent or a
\* watermark that was deleted.
EveryCommentAnswered == []<>(Blind \/ AllAnswered)
===============================================================================
