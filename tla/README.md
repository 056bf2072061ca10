# planner-llm-agent in TLA+

`planner-llm-agent` is a Node.js process that polls Planner (a task server) for
the tasks assigned to it, runs a coding-agent CLI on each of them, and posts the
result back: a summary comment, then a new status. This directory holds its
TLA+ specifications, the TLC runs that check them on small instances and the
theorems TLAPS proves about them. Paths below are relative to
`src/agent/src/`; `README:n` is a line of `src/README.md`.

Check a run with `tlc -config AgentFaults.cfg MCAgent.tla` and the proofs with
`tlapm AgentProofs.tla`, and so on for `SchedulerProofs.tla`, `TaskEvaluatorProofs.tla`,
`ProcessGroupProofs.tla`, `RunningLabelProofs.tla`, `ConversationProofs.tla`,
`AgentActionsProofs.tla` and `HotReloadProofs.tla`.

## 1. The system

One process, one event loop: a callback runs to its next `await` undisturbed,
and everything else may happen there. The actors are the polling loop, one
detached `processTask` per running task, timers, file watchers, the CLI
processes, the users of Planner and the Planner server. State that outlives the
process: Planner, the files of `DATA_DIR/finalization`, the clone of the
configuration repository, and task folders.

| Component | State | Operations | What makes it correct | Module |
|---|---|---|---|---|
| Polling loop (`Agent.ts` 371-626) | `polling`, the task list of this poll, cadence counters | list, clean up, prune, signal aborts, collect, select, retry | never picks what is running, delivered or pending; survives any error | Agent |
| Task processing (`Agent.ts` 1106-1410) | `processingTasks`, abort signals | register, prepare, run the CLI and its fallback, adjust, finalize or fail, unregister | a run ends in exactly one of delivered, failed, aborted | Agent, Conversation, RunningLabel, ProcessGroup |
| Delivery (`Agent.ts` 1561-1680, `FinalizationStore.ts`) | records in memory and one file each | record, check for a duplicate, post, mark, check for an abort, move, delete, retry, prune, load | each summary once, before the status; nothing persisted is lost; one actor per record | Agent, FinalizationStore, Delivery |
| Conversations (`Agent.ts` 560, 1430-1520) | the comments and their watermarks | pick up, adjust, summarise with a watermark | every user comment answered, one run per batch, deletions included | Conversation |
| Scheduler (`Scheduler.ts`, `Agent.ts` 683-886) | the round: budget, shortlist, evaluations, picks | two walks over the queue, registration, kill switch | exclusive resources, capacity, queue order, no head-of-line blocking | Scheduler |
| Task evaluator (`TaskEvaluator.ts`) | semaphore, cache, circuit breaker | evaluateAll, acquire, release | bounded calls, no lost wake-up, answers of the listed version | TaskEvaluator |
| Process groups (`CliUtils.ts`, `clients/BaseCliAgent.ts`, `App.ts`) | live groups, three timers per run | check, list models, spawn, exit, overflow, timeout, abort, shutdown | no CLI outlives the agent, no stale process id is signalled, an abort wins | ProcessGroup |
| Labels (`Agent.ts` 1790-1908) | labels on Planner | add, remove, fallback merge, reconcile | the running label means running | RunningLabel |
| Agent actions file (`AgentActions.ts`, `AgentActionsManager.ts`) | live actions, last content, reload in progress | parse, match, load, watch, reload | the last valid content wins, a conversation keeps its owner | AgentActions, AgentActionsManager |
| Status validation (`StatusValidation.ts`) | done or not | warn once of statuses the catalogs lack | - | - |
| Configuration and timers (`Config.ts`, `App.ts`, `HotReloadTimers.ts`) | live settings, intervals, jobs in progress | reload, apply, tick | jobs follow the file, one run of a job at a time | HotReload |
| Agent note (`AgentNote.ts`) | the note on Planner | resolve, generate, find, write | one note per project | HotReload |
| Configuration repository (`AgentConfigRepository.ts`, `CoreSkills.ts`) | clone, cached listing | clone, update, replace, list | the listing is that of the disk | HotReload |
| Planner client (`PlannerClient.ts`) | reference caches, in-flight requests | requests with timeouts, retried reads, label endpoint and fallback | writes are sent once | in the modules that call it |
| Files (`AtomicFile.ts`) | a promise chain per path | locked and atomic writes | writers never interleave | Agent (a write is a whole) |
| CLI clients, Git environment, telemetry, task folders | little or none | I/O and formatting | - | - |

The polling loop hands candidates to the scheduler, which asks the evaluator
and returns picks; the picks are registered in `processingTasks`, which the
scheduler, the loop and the retry loop all read. Runs and the retry loop share
the finalization store; runs call `runCli`, whose registry the shutdown reads.
Reloads change the live configuration under all of them. The event loop makes
each of these accesses atomic, and none of the sequences of them:
`PROJECT.json` lists under `hazards` where that matters, each at its line.

The hard behaviours: a task list that is stale as soon as it is received;
requests applied although their answer is lost; failed file writes and crashes
between any two steps of a delivery; evaluations awaited in the middle of a
scheduling round; processes that ignore signals; reloads that overlap; users
who comment and move tasks at any time.

## 2. The modules

**`FinalizationStore.tla`** - the operations on one record of the store.
The run number stands for the text the record carries; `due` and `old` for the
two comparisons with the clock (retry time, time-to-live). `Persisted` and
`Reloaded` say what a file keeps: not the retry time, not the `resumed` flag.

**`Agent.tla`** - polling, processing and delivery together. An action is the
code between two awaits. `at[a][t]` is where actor `a` (the task's `run` or the
loop's `poll`) is in the code for task `t`; `at["run"][t] # "off"` is
`processingTasks.has(t)`. `mem` is `FinalizationStore.records`, `disk` the
files, `wr` the content of a write in flight, `got` the variable `current` of
`finalizeCompletedTask`, `snap` and `work` the list and the worklist of the
poll. A request to Planner is two actions (applied, answered), so that an
answer can be lost; a file write is one, with the content fixed at its start.
`Throws` is the exception path of both callers of `finalizeCompletedTask`.

| Actions | Code |
|---|---|
| `Check`, `PostApplied`, `PostAnswered`, `Marked`, `CheckAbort`, `MoveApplied`, `MoveAnswered`, `Delete`, `Rescheduled` | `finalizeCompletedTask` and the store calls around it |
| `Begin`, `Start`, `StartFails`, `CliEnds`, `CliFails`, `Recorded`, `AbortNoted`, `FailNoted`, `FailMoved`, `Clear` | `processPicks`, `processTask` |
| `PollLists`, `PollPrunes`, `PollPruned`, `PollCollects`, `PollSelects`, `PollFails`, `PollRetries`, `RetryNext`, `PollEnds` | `pollOnce`, `retryDueFinalizations` |
| `TimePasses`, `Expires`, `UserActsOn`, `Crash`, `Restart` | the clock, users, the platform, startup |

**`AgentInv.tla`** - the inductive invariant; **`AgentProofs.tla`** - the proofs,
that of the refinement below included.

**`Scheduler.tla`** - one scheduling round in detail, walk by walk, with
weights in quarters of a slot (what `WEIGHT_EPSILON` compensates is exact
here). A description is what the scheduler extracts from a task: an optional
weight hint before clamping, and its conflict keys; in a conflict mode that
ignores keys they are empty. `round` is the budget read at the start,
`running` the live `processingTasks`. Between the two walks tasks may end and
the configuration be reloaded. **`SchedulerProofs.tla`** holds its proofs.

The two meet at `PollSelects`: there the picks are any set of candidates within
the process cap, non-empty when nothing runs. Scheduler establishes both facts
of its own rounds (`RoundFits`, and for budgets of at least one slot
`IdleStarts`); it starts each round from any queue of tasks that are not
running, which is what the candidates of Agent are.

**`TaskEvaluator.tla`** - what a scheduling round awaits. `job[j]` is one call
of `evaluateTask`: waiting in `acquire`, woken (its promise is resolved, the
callback has not run), holding a slot, or inside the call of the model;
`active`, `waiters`, `timeouts` and `cache` are the fields of the same name
(`consecutiveTimeouts`), `open` is `Date.now() < circuitOpenUntil`, `answers`
the local map of `evaluateAll`. An evaluation is named by the content version
it was made of, so a stale one can be told. `RoundEnds` is the return of a
round, complete or timed out: its jobs lose their `mine` mark and go on.
`Launch` and `LaunchCached` split one callback, the mapping of the inputs, into
a step per input; no other callback runs between them (`Waiting`).
**`TaskEvaluatorProofs.tla`** holds its proofs. To Scheduler this is the action
`Evaluated`: there a shortlisted task gets any evaluation or the default one,
as `AnswersAreCurrent` allows.

| Actions | Code |
|---|---|
| `StartRound`, `SkipRound`, `Launched`, `RoundEnds` | `evaluateAll` |
| `LaunchCached`, `Launch`, `Resume`, `Granted` | `evaluateTask`, `acquire`, `release` |
| `Answered`, `TimesOut`, `Cooldown` | `callUtilityModel`, the circuit breaker |
| `Update`, `Evict` | users, `BoundedCache` |

**`Delivery.tla`** - what all of this promises, with no store, file, retry or
restart: a result appears, is posted once, its task may then be moved to the
end status, and it is settled. `posted` counts how often each result was posted
(a bag), and `Post` takes only a result that never was, so that a second POST of a
summary is no step of Delivery, whatever else has failed. A result may be dropped
only where the code drops results (`MayDrop`: too old, or unassigned); one task's
result may be lost or come back while the storage of that very task is `unsafe`.
**`AgentDelivery.tla`** instantiates it over Agent. `unsafe` is `~diskOK[t]`: the
last operation on the file of the task failed. `Posts` counts a summary twice as
soon as a second comment of its run exists (`twice`). The mapping
decides when a result exists: from the moment its record is on the disk. A run
that still writes its record counts as none, a run that delivers counts as its
own result, and while the process is down the file stands for the record, so a
crash and a restart are stuttering steps. `DeliversResults` is the whole of
`Delivery!Spec`, safety and settlement.

**`ProcessGroup.tla`** - one run of the CLI per `Runs` element: the authentication
checks of the startup, the prompts, and for a task the listing of the models, the
run, the listing and the run of the fallback. `live` is
`liveProcessGroups`, `timers[r]` the armed timers of the closure of `runCli`
(the timeout, its SIGKILL, the SIGKILL of the abort), `timedOut` and `aborted`
its flags; `alive` are the processes of the group, some of which ignore
SIGTERM, some of which do not hold the output pipes. `stage` is where the
caller is, `Upcoming` what it may start next. `Heeds` names the runs that get the
abort signal of their task: a listing does not (`BaseCliAgent.ts` 440), so an
abort during it waits for its end, and a listing is spawned for a task that is
already aborted. A run is `Reported` once its output is closed, or, when the output
exceeded `maxBuffer` (`Overflow`), as soon as the CLI itself is gone: `execFile`
then destroys its end of the pipes and signals the leader alone. The agent process
installs its handlers when it starts to serve (`Started`); before that a SIGTERM
ends it as it is (`KilledAtStartup`).
**`ProcessGroupProofs.tla`** holds its proofs.

| Actions | Code |
|---|---|
| `StartupFails`, `Started`, `KilledAtStartup` | the authentication checks of `App.ts` (187-210), the start of the agent (237-291) |
| `RejectAborted`, `SpawnFails`, `Spawn`, `Callback`, `Overflow` | `runCli` and its `execFile` callback, with what the caller does next (`Concluded`) |
| `Terminate`, `Kill`, `Abort` | the timers, the abort listener, `abortRequestedTasks` |
| `Shutdown`, `AllGone`, `Deadline` | the shutdown handler, `terminateLiveProcessGroups` |
| `ChildStarts`, `Exits` | the operating system |

**`RunningLabel.tla`** - the label of one task. `request[w]` is the mutation a
writer (the run, the reconciliation) has under way: sent, refused by a server
without the endpoint, read, to be written. `run.label` is the label the run has
added, which is the one it removes, whatever the setting is by then.

| Actions | Code |
|---|---|
| `Applied`, `NoEndpoint`, `Reads`, `Writes`, `Lost` | `applyLabelMutation`, `updateTaskLabels`, its fallback |
| `Pick`, `Work`, `Clear`, `RunEnds` | `addTaskRunLabels`, `clearTaskRunningLabel` around the run |
| `List`, `ListFails`, `Remove`, `Reconciled` | `reconcileRunningLabels` |

**`Conversation.tla`** - a task of a comments action. A comment is its
position; those that users `deleted` keep theirs and are no longer `Visible`, so a
list the code holds is a set of positions (`poll.seen`). `known` is the newest
comment of the latest brief, `mark` the watermark to be published: a deleted
comment does not come back, so what a brief did not hold lies beyond its newest.
`PickupPending` is `commentsPickupPending` over a list, the branch of a watermark
that is not among its comments included (2609, not pending). Its other fail-closed
branch, the unknown user id of the agent (2590), is not reached from the poll:
`pollOnce` sets the id first (462-463), and a poll that cannot ends there, which
changes nothing. In `adjustForNewComments` the same failure is `CheckFails`.
`late` counts the progress comments nobody waits for.
**`ConversationProofs.tla`** holds its proofs.

| Actions | Code |
|---|---|
| `List`, `Pick`, `PollEnds`, `Retry`, `RetryUnanswered` | the poll, `commentsPickupPending`, `retryDueFinalizations` |
| `StartComment`, `Tick`, `CliEnds`, `Check`, `CheckFails`, `AdjustEnds` | `postStartComment`, `startProgressHeartbeat`, the CLI, `adjustForNewComments` |
| `Record`, `PostSummary`, `PostFails`, `DeleteRecord`, `PostFailure`, `PostAbort`, `RunEnds` | the end of `processTask` |

**`AgentActions.tla`** - pure operators: `MatchProjectPattern` is the code's
backtracking scan, `ProjectPatternsMayOverlap` its walk over two patterns,
`Valid` the rules of `parseAgentActions` that relate entries, `Owner` the first
action that claims a task.
**`AgentActionsManager.tla`** loads and reloads the file: `Load`, `Watch`,
`Notice`, `Read`, `ReadFails`, `ReloadEnds` are `load`, `start` and the
serialized `reload` (`reading`, `reloadPending`). `Glob` says what a pattern
means, without a scan. **`AgentActionsProofs.tla`** holds the proofs of both.

**`HotReload.tla`** - the configuration file and the two jobs it drives. Unlike
the actions file, every event starts a reload of its own (`reads`). The jobs
run through `tick`, which keeps one run of a job at a time (`running`); the
first clone runs before the timers exist. **`HotReloadProofs.tla`** holds its proofs.

| Actions | Code |
|---|---|
| `Notice`, `Read`, `ReadFails`, `Reload` | the watcher of `App.ts`, `Config.reload`, `HotReloadTimers.apply` |
| `Start`, `TimersStart`, `NoteTick`, `SyncTick` | startup in `App.ts`, `configure`, `tick` |
| `Resolve`, `Generate`, `Find`, `Write`, `NoteFails` | `AgentNote.update` |
| `Origin`, `RemoveClone`, `Clone`, `Fetch`, `Checkout`, `SyncFails` | `AgentConfigRepository.sync` |
| `ListBegins`, `ListDirs`, `ListFiles` | `listAvailableSkills` |

**`MCAgent`, `MCScheduler`, `MCTaskEvaluator`, `MCProcessGroup`,
`MCRunningLabel`, `MCAgentActions`, `MCHotReload`** - constants and symmetry
for TLC; Conversation needs none.

Definitions whose comment starts with "Mutant of" are plausible mistakes in the
definition they name; none of them is part of a specification. `PROJECT.json`
pairs every checked property with one that breaks it.

## 3. The runs

| Run | Instance | Result |
|---|---|---|
| `AgentTwoTasks` | 2 symmetric tasks, cap 1, 1 fault, 1 user action | 405 thousand states, holds |
| `AgentFaults` | 1 task, in-progress and abort statuses, expiry, 3 faults, 1 user action | 2.2 million states, holds |
| `AgentLive` | 1 task, 2 faults, 1 user action (reopen or cancel), fairness | 59 thousand states, holds |
| `SchedulerRounds` | 3 symmetric tasks, a repository key and a lock key, budgets invalid, 1/2, 1 1/2 and 2 slots | 109 thousand states, holds |
| `Evaluator` | 2 tasks, 3 evaluations alive, limits 1 and 2 (caps 1 and 3, concurrency 2), 2 timeouts open the circuit, 1 update or eviction | 328 thousand states, holds |
| `ProcessGroup` | 1 authentication check, 1 task with a model listing before each run and a fallback, up to 3 processes per group | 141 thousand states, holds |
| `RunningLabel` | 2 values of the setting and off, 1 human label, 2 edits, 1 fault, 2 crashes, both servers | 70 thousand states, holds |
| `Conversation` | 2 user comments, 1 adjustment round, 2 disturbances: faults, crashes, and at most 1 progress comment, deletion or abort | 1.6 million states, holds |
| `ActionsReload` | every file of two entries over 7 patterns and both triggers, 16 files of one entry, 2 changes, 1 failed read | 34 thousand states, holds |
| `HotReload` | 4 files, 2 repositories, 1 project, 2 changes, 2 overlapping reloads, 1 new revision each, 1 failure | 850 thousand states, holds |
| `AgentStaleList`, `ProcessGroupSurvivor` | minimal | violated, see section 5 |

Why the bounds are enough. *AgentTwoTasks* needs two tasks for the cap and the
retry loop's worklist: one task occupies the slot while the other is selected,
retried or pruned. One fault is enough to put a record in the retry loop while
its task is listed. *AgentFaults* has one task, because delivery never relates
two; three faults allow a lost answer, a failed write of the flag and a crash in
one delivery, which is the longest chain the duplicate check must survive.
*AgentLive* needs two faults for a lost answer and a crash in the same
delivery. *SchedulerRounds* has three tasks: one running, one deferred and one
that overtakes it; the hints lie inside, below and above the scale. *Evaluator*
needs three evaluations: one holds the slot, and two of another round wait with
another limit; the limits differ because the process cap is reloaded between
rounds. *ProcessGroup* has one task, since runs share nothing but the registry: its
four runs follow each other, so that a listener, a timer or a child of one can
meet the next, and the check of the startup comes before them. A prompt is a task
without a signal or a fallback; with it, or with several callers at a time, the
invariants are proved and not run. *RunningLabel* crashes twice, once to leave a label behind and once
in the middle of its reconciliation. *Conversation* has a comment that starts a
run and one that arrives during it, a budget that the second exhausts, one
unmarked comment to come last or one deletion to take a watermark away, and two
faults, one to postpone a summary and one to lose the answer of its retry. *ActionsReload* enumerates patterns with a star
before, after, around and without letters, over four names of one and two
letters; rules between entries relate two of them. *HotReload* changes the file
twice so that two reloads overlap, and its files turn each job on and off, name
another repository, and hold a value beyond the limit.

A bound of faults, edits or changes limits how many a behaviour has, never where
they happen. The number of runs of a task is not bounded by a constant: each
further run costs a user's move or a fault, except the one that the stale list
causes; rounds of the evaluator are not counted at all.

What the properties say:

- `OneFinalizer`: the retry loop takes a record only when its task is not
  processing, and a task with a record is never picked, so a record never has
  two deliverers, though the two decisions are made at different awaits.
- `NoRunWhilePending`: candidates are collected several awaits before they are
  registered; no record may appear in between.
- `SummaryAtMostOnce`: the duplicate check is armed by the attempt count or the
  `resumed` flag; one of them is always set when the summary may be posted.
- `PendingSurvivesCrash`: the file of a task follows the map whatever writes overlap,
  while the last operation on that file succeeded.
- `DoneOnlyWithSummary`: no path reaches the status update without the summary.
- `NoPickAfterRetry`: the retry comes after the selection of the same poll.
- `DeliversResults`: the refinement of Delivery, a second POST included in what is
  ruled out; `StartedIsSettled`: a task in
  its start status is run and leaves it, or its user takes it back.
- `ConflictFree`, `RoundFits`, `StartsWhatItCan` (`NothingElseFits` and
  `IdleStarts`), `OvertakenByLighter`: exclusion, capacity, no head-of-line
  blocking and an idle agent that starts something, order among equals.
- `WithinConcurrency`, `NoStrandedWaiter`, `JobsEnd`: rounds with different
  limits share one semaphore; a woken waiter competes with fresh calls and may
  go back to the queue, and one wake-up per release is still enough. `JobsEnd`
  speaks of the time after the last launch. While rounds go on, the code does not
  bound the wait of a job with a low limit: `acquire` sends it to the end of the
  queue as long as later rounds with a higher limit keep a slot taken.
- `AnswersAreCurrent`: what an older round leaves in the cache, or a call that
  outlived an update, never answers for another version.
- `SignalsOnlyLive`, `AbortWins`, `AbortSettles`, `RunsSettle`, `CliGoneAtExit`:
  whoever of exit, overflow, timeout, abort and shutdown comes first, no process id
  is signalled after its run, no failure and no listing hides an abort, an aborted
  task ends, and no CLI is left behind by the agent, those spawned after the SIGTERM
  of the shutdown included. `CliGoneAtExit` leaves out the children of an output
  that grew too large (section 5) and a process killed before it has handlers.
- `ShownWhileWorking`, `LabelGoes`: the label is there while the CLI works and
  goes away again; each states the cases in which the code cannot do so.
- `AnsweredOrPending`, `OneRunPerBatch`, `EveryCommentAnswered`: no comment is
  forgotten, and none starts a second run. `Blind` names where the pickup rule gives
  up: behind an unmarked comment of the agent, and behind an answer whose watermark
  was deleted.
- `ConversationsHeard`: whatever file is accepted, a task a comments action
  speaks of is not owned by a pipeline action; `LatestApplied`: the reloads
  converge on the file.
- `CacheIsCurrent`, `OneNote`, `JobsFollowFile`: a listing that began before a
  synchronisation ended is not kept; a lost answer makes no second note; timers,
  note and mirror converge on the file.

**Fairness.** Each actor's next callback is weakly fair: the event loop serves
every callback, every request has a timeout, a CLI run is killed at its
timeout, the poll timer re-arms itself in a `finally`, and the supervisor
restarts the process. A retry time passes. Watchers poll their file, and timers
are intervals. Nothing is assumed of users, of faults or, in ProcessGroup, of
the processes of a group; the bounds make faults finite in every behaviour, so
the claims read "once faults stop". `StartedIsSettled` has
`HasInProgress = FALSE`: with an in-progress status a crash leaves the task
outside its start status and no poll picks it again; the code makes no claim
there. In `RunningLabel` nothing makes a poll pick the task, and in
`Conversation` nothing makes a user comment.

For `JobsEnd` the round and each evaluation are fair: calls and rounds have
timeouts. The fairness of an evaluation is strong, because its callback is
disabled while a round is being launched. In the code a launch is a single
callback, so a promise that is resolved runs next; the strength only undoes the
split into steps. It says nothing of who gets a slot: `Resume` may send a woken
waiter back to the queue as often as the slots are taken.

**Deadlock** is checked in every run but `ActionsReload` and `HotReload`, which
stop when the process has ended on an invalid file or a failed clone, or when
nothing changes the file any more. ProcessGroup has a step for its end
(`Finished`), taken only when every caller is through or the process is gone.

## 4. What is proved

TLAPS proves for every set of tasks, every cap, configuration and bound, from
`ConfigAssumption` (finite set of tasks, positive cap, Boolean options):
`TypeCorrect`, `SingleFinalizer`, `RunsExcludePending`, `NoDuplicateSummary`,
`FlagIsTrue`, `SummaryBeforeDone`, `FilesKeepPending` and
`RetriesFollowSelection` - all the safety properties of the passing
Agent runs. `FlagIsTrue` (a posted flag is right) is proved and not run.

None of them is inductive alone. `Inv` of `AgentInv.tla` adds what ties the
actors to the store: who can be where when a record exists, what a write in
flight contains compared with memory and file, that an attempt to post without
a duplicate check is made only before any comment of that run exists, and that
a poll with a non-empty worklist knows who is idle. The proof has a lemma per
action; most of them show that the action changes one task or one actor and
frame the rest. A location's conjuncts were found with TLC first.

The second part of `AgentProofs.tla` proves `Refinement`: every behaviour of Agent
satisfies `Delivery!Promise`, the safety half of what the run AgentLive checks
as `DeliversResults`. A write that ends is `Finish`, an applied POST is `Post`,
an applied move is `Complete`, a deletion is `Settle`, the other status updates
are `Reopen`, the start of a run is `Begin`; a restart after a failed file operation,
and a prune or an expiry where the configuration allows them, are `Disturb`;
everything else, a crash and a restart included, changes nothing Delivery sees. That
an applied POST is a `Post` needs that the run's summary is not among the comments
yet: the same fact that `NoDuplicateSummary` rests on. That needs more than `Inv`
(`ResultsKept`): a result about to be recorded is new (`NewResult`), a record is
deleted only after its summary (`DeletesDelivered`), and where results may not be
given up a finished run has its record, and no file stands without one unless the
last operation on it failed (`RecordKept`), so that the files say at a crash what the memory said.

For Scheduler, from `SchedulerAssumption`: `TypeCorrect`, `RunningTasksSeparate`,
`StartedTasksFit`, `WalkStartsWhatItCan` (from `OnlyWhatDoesNotFitIsLeft` and
`IdleAgentStarts`) and `OnlyLighterTasksOvertake`, all the properties of its run. The invariant adds that the picks of a walk share no
key with a running task or with each other during the selection
(`PicksSeparate`) and that their weights are on the scale (`PicksInScale`).
Neither the shortlist's simulated picks nor evaluations need a bound: they
never reach `running`. The last three follow from `RoundInvariance`, the invariant
of a walk: a queue lists tasks once (`QueueOrder`), only what the walk has passed
is picked or deferred (`WalkOrder`), what is picked beside what runs fits the
budget the round read (`PicksFit`), and what was left behind still does not fit or
still conflicts (`LeftBehind`, `DeferredIsLarge`), since load and claims only grow
during a walk. They rest on the weight of a set of tasks being a sum: `LoadOf` is
a fold over a set, which the library describes by a choice of functions.
`LoadIsSum` shows that it is the sum of the weights, in whatever order the fold
takes the tasks, so that starting a task adds its weight (`LoadOfMerged`).

For TaskEvaluator, from `EvaluatorAssumption` (finite sets, positive caps,
concurrency and threshold): `TypeCorrect`, `ConcurrencyBounded`,
`NoLostWakeUp`, `AnswersCurrent`. The invariant adds that the count `active` is
the number of jobs with a slot (`SlotsCounted`), that the queue holds waiting
jobs only, each once (`QueueWaits`: a wake-up of a job that is not waiting, or
twice in the queue, would be lost), that nobody waits with a limit beyond the
concurrency or below one (`LimitsBounded`), and that the jobs a round awaits are
of the versions it listed (`RoundOwns`). `Taking`, `WaitingAgain` and
`Releasing` are the lemmas of the semaphore, cited by every action that uses it.

For ProcessGroup, from `CallerAssumption` (tasks, prompts and checks are distinct):
`Typing`, `SignalSafety`, `AbortSafety` and `ShutdownSafety`.
`AbortWins` alone is not inductive: an abort must have reached the run its
caller waits for if that run was given the signal (`LiveIsAwaited`), and an earlier
run of the same task must be out of the way (`SettledIsBehind`), or its listener
would be heard. `CliGoneAtExit` needs that a CLI, and whoever holds its output
unless that was too large, belongs to a registered run (`OpenIsLive`), which is what
makes the registry a complete list for the shutdown, the runs spawned after its
SIGTERM included; and that a failed check of the startup is alone when it ends the
process (`StartupInOrder`).

For RunningLabel, from `RunningLabelAssumption` (labels other than the empty
setting, natural bounds): `Typing` and `LabelShown`, for both kinds of server and
any number of reloads, edits by people and crashes. `ShownWhileWorking` needs
what the run has asked for before it works (`QuietRun`, `AddsItsLabel`: no
request of the run is open while it works, and the label it added is there when
the answer is), and that a reconciliation still writing beside a run is one the
run overtook (`KeptApart`), the case the property excepts.

For Conversation, from `ConversationAssumption` (natural bounds): `Typing`,
`NoneForgotten` and `OneRun`, for any number of comments, deletions, rounds, faults
and crashes. The pickup rule looks at the last comment and its watermark only, so
each theorem needs that the watermark says enough. For `AnsweredOrPending`, all
comments up to a watermark are answered (`MarksAnswered`): the watermark the run
publishes is what its last successful execution was given (`MarkIsUsed`), not
what a failed round had seen. For `OneRunPerBatch`, nothing above the last
watermark is answered: what is answered lies below some watermark or that of the
pending record (`AnsweredIsCovered`), and no later answer has a lower one
(`MarksGrow`), which holds because no run starts while a record is pending
(`OneDelivery`) and because a list in use is not older than the last answer
(`ListIsRight`) - the case the property excepts. The newest comment of a list is a
choice over a set; that it exists is the well-foundedness of the numbers
(`NewestIs`).

For HotReload, from `HotReloadAssumption` (the settings of a file name known
repositories or none, natural bounds): `TypeCorrect`, `NoteOnce` and `CacheRight`.
What an update found still holds when it writes, since it alone is among the
running jobs (`NoteInv`); and while no synchronisation is in progress, what a
listing has read so far is still on the disk (`ListingInv`). Neither depends on
what the files say. `TypeCorrect` needs both: a type of the note or of the cache
holds because of what its job is doing.

For AgentActions and its manager, from `ProjectsAssumption` (names are sequences
of characters) and `ManagerAssumption` (the contents are files of the kind
`Files`, the missing file among them): `ScanMatchesGlob`, `OverlapIsExact`,
`TypeCorrect` and `ConversationsAreHeard`, for patterns, names and files of any
length.

- `ScanMatchesGlob`: the invariant of the scan is `Reached` - behind its point
  lies the last star, and since then only literal characters, which took as many
  characters of the name. A match that lets the star swallow more therefore goes
  through this point or further on (`StarAbsorbs`), which is why no earlier star
  has to be tried again. `ScanRank` is the measure that decreases.
- `OverlapIsExact`: one direction follows a common name through the walk
  (`WalkJoins`, by the distance from both ends), the other builds the name from
  its last character to its first while it follows the walk back (`CommonBefore`).
- `ConversationsAreHeard` combines the two. If an action of another trigger came
  before the comments action and matched the task as well, one name would match
  both patterns, the overlap test would say so, and the file would not have been
  accepted; the live configuration is always that of an accepted file.

The definitions of the scan, of `Glob` and of the walk are recursive functions, and
the provers know nothing of a recursive function before it is shown to exist:
`RecursionExists` shows it once, for every definition whose value at a point
depends on points of lower rank. The library's induction rules take an operator as
a parameter and cannot be instantiated here, so these proofs, like those of the
sums, take the least counterexample of a set of numbers (`LeastNat`) instead.

Every invariant and every action property the passing runs check is stated by a
theorem. Only model-checked: all liveness, which is out of the prover's reach (the
other half of `DeliversResults`, `Delivery!Settled`, `StartedIsSettled`, `JobsEnd`,
`RunsSettle`, `AbortSettles`, `LabelGoes`, `EveryCommentAnswered`, `LatestApplied` and
`JobsFollowFile`).

## 5. Where the code departs from what it says

Two runs show a violation:

- **A delivered task is run again** (`NoPickOfDelivered`): a poll lists the
  task in its start status while it runs; the run delivers and unregisters
  during the poll's next awaits; the poll then finds neither a running task nor
  a record and picks the stale entry. No fault is needed.
- **A child survives the timeout and the abort** (`NothingSurvivesKill`):
  README:435 and 456 say the processes of a CLI cannot. The callback of
  `execFile` runs once the CLI is gone and its output closed, and clears the
  timer of the SIGKILL (`CliUtils.ts:226`); a child that ignores SIGTERM with
  its output redirected is never killed, not even by the shutdown, since the
  registry has forgotten its group.

Others came up while modelling. The modules contain these behaviours, and no
property claims their absence:

- A late abort is overwritten: README:458 promises the abort status is kept;
  the check (`Agent.ts:1631`) and the update (1642) are two requests.
- A pruned record comes back: the removal of a file (`FinalizationStore.ts:186`)
  does not take the lock its writers take, so a write in flight recreates it.
- Tasks that were never evaluated are admitted: the shortlist (`Scheduler.ts`
  285-303) is no superset of what the selection admits once a running task ends
  during the evaluations.
- An open circuit still makes calls: it is read when a round starts
  (`TaskEvaluator.ts:149`), and an evaluation waiting for a slot is woken by the
  very timeout that opens it; README:337 says calls are skipped.
- Children outlive the agent after an overflow: the comment at `CliUtils.ts:50-52`
  says no child of a CLI survives. When the output exceeds `maxBuffer`
  (`BaseCliAgent.ts:239`), `execFile` signals the CLI alone and runs the callback as
  soon as it is gone; the callback forgets the group, and a child that still holds
  the inherited output is signalled by nothing. `CliGoneAtExit` excepts it.
- A comment may wait behind a deleted watermark: README:350 says a comment the
  summary did not cover re-triggers the task, but `commentsPickupPending` returns
  false once the comment of the watermark is gone (`Agent.ts:2609`, "fails closed",
  2581), until another comment follows. `Blind` names the case.
- A listing of the models is spawned for an aborted task, and an abort during one
  takes effect only after it (`BaseCliAgent.ts:440` hands it no signal). The task
  still ends as aborted (`AbortWins`, `AbortSettles`).
- A human label set between the read and the write of the read-merge-write
  fallback is lost; README:372 says this never happens.
- An unmarked comment of the agent in the last place (a start comment before a
  crash, a progress comment that arrives late, the abort comment) hides the
  comments below it from the pickup rule: README:350 promises that each is
  picked up, README:421 describes the rule. `Blind` names the case.
- An accepted actions file may contain a pipeline action nobody reaches (behind
  a comments action with `''` and `*`, or a broader one), although
  `AgentActions.ts:466-475` rejects unreachable ones.
- An actions file that changes between `load()` and the first look of the
  watcher, or whose read failed, is applied with its next change only (`early`
  and `failed` of `LatestApplied`); reloads of the configuration that overlap may
  end with the older content, and a failed one is not repeated (`missed`).
- A reload cannot unset a key: one that is left out keeps its value.

## 6. Abstractions and limits

- Planner answers a fetch with its current state; a POST whose answer timed out
  is applied before the retry looks for it, or never (a retry waits at least 30
  seconds). The 60-second clock tolerance of the comment match and identical
  summaries of two runs are not modelled: the run number identifies a summary.
- An unassigned task is invisible: requests about it fail.
- Agent writes one file at a time; two writes of one record follow each other as
  the code awaits them. The orphaned file arises from a removal that overlaps a
  write, which is modelled.
- The CLI is an action that ends or fails in Agent and Conversation;
  ProcessGroup has its processes, timers and fallback.
- An evaluation frees its slot when its own timer fires, while the CLI process
  may still be in its kill grace. A lowered process cap binds the rounds that
  follow, not the waiters of older rounds; and two rounds that overlap may
  evaluate one version twice (README:335 says once per update). The model
  allows both, no property claims otherwise.
- A listing of the models that two tasks wait for is one process in the code; in
  ProcessGroup each task has its own. The CLI runs of adjustment rounds are not
  told from the first run there: each is a run of the task that may be aborted, time
  out or fail. When an exit of the agent is decided, it happens at once.
- Time is left out: an armed timer may fire at any moment, a process id is never
  reused in ProcessGroup (`SignalsOnlyLive` is why that does not matter).
- Conversation has one task and its comments. Users delete their own comments only:
  the agent deletes none, and a deleted answer would make the rule look at an older
  one. The labels, the other tasks and
  the time-to-live of its record are in RunningLabel and Agent.
- AgentActions keeps the fields the rules between entries speak about; a file
  with a malformed field is `Garbage`, one outcome for all of them. Names are
  short sequences over two letters.
- HotReload has two jobs for the readers of a setting. A note project that is
  not a string, which `apply` does not expect, is not among the files.
- One agent process per identity. A rolling update with two processes is not
  modelled; two of them may both create the note.

Not modelled, and why (`PROJECT.json` has it per component): the argument lists
and output parsing of the CLI clients, the Git environment and telemetry hold no
state a decision reads. The status validation warns once after the start
(`Agent.ts` 1047-1079) and is not repeated for a reloaded file (README:431); nothing
depends on its warnings. `Config.validate` checks single values once. The task
folders are best-effort, and prepared again by every run. The reference caches
of the Planner client hold data that may be minutes old by design. The lock of
`AtomicFile.ts` chains writers that the other modules show to be one at a time,
except for the removal above. The adaptive cadence of the polls is a matter of
time, which the models leave out.

## 7. Plan

1. *Done*: FinalizationStore, Agent, Scheduler and TaskEvaluator with their
   proofs; Delivery, its refinement by Agent and the proof of its safety half;
   ProcessGroup, RunningLabel, Conversation and HotReload with their proofs;
   AgentActions and its manager with theirs.
2. Theorems still worth having: the invariants behind the liveness properties,
   so that only the fairness argument itself is left to TLC.
3. Models still worth having: the adaptive cadence joined to the polls of Agent,
   with the folder clean-up; the lock of `AtomicFile.ts`.

The order is by consequence: what is delivered twice or lost first, then what
runs unbounded, then what is displayed wrongly.
