----------------------------- MODULE ProcessGroup -----------------------------
(***************************************************************************)
(* The CLI runs of src/agent/src/CliUtils.ts and their callers: performTask*)
(* with its model listing, runPrompt and checkAuthentication of            *)
(* BaseCliAgent.ts, the fallback of Agent.processTask, and the startup and *)
(* the shutdown of App.ts.                                                 *)
(*                                                                         *)
(* A run spawns the CLI as the leader of its own process group.  Its       *)
(* timeout, the abort of its task, an output that grows too large, the end *)
(* of its processes and the shutdown of the agent race; each may signal the*)
(* group or its leader, and the callback of execFile settles the run.      *)
(* Node.js runs one callback at a time: an action is the code between two  *)
(* awaits, or a step of the operating system.                              *)
(*                                                                         *)
(* Time is abstracted: an armed timer may fire at any moment.  The runs    *)
(* without killProcessGroup (git, gpg) are not part of this module.        *)
(***************************************************************************)
EXTENDS FiniteSets

CONSTANTS
    Tasks,        \* callers of performTask: abortable, with a fallback
    Prompts,      \* callers of runPrompt
    Probes,       \* the authentication checks of the startup
    HasListing,   \* whether the CLI can list its models
    HasFallback   \* whether a fallback agent or model is configured

ASSUME CallerAssumption ==
    /\ Tasks \intersect (Prompts \union Probes) = {}
    /\ Prompts \intersect Probes = {}
    /\ HasListing \in BOOLEAN /\ HasFallback \in BOOLEAN

VARIABLES
    stage,      \* where each caller is
    signal,     \* abortController.signal.aborted, per caller
    alive,      \* the processes of the group of each run (operating system)
    live,       \* liveProcessGroups: the registered runs
    settled,    \* the runs whose callback has run, or that never spawned
    timers,     \* the armed timers of each run
    timedOut,   \* the timedOut flag of each run that is not over
    aborted,    \* the aborted flag of each run that is not over
    overflown,  \* the runs whose output exceeded maxBuffer
    app         \* the agent process

callers == <<stage, signal>>
flags   == <<timedOut, aborted, overflown>>
vars    == <<callers, alive, live, settled, timers, flags, app>>

Callers == Tasks \union Prompts \union Probes

\* The runs of a task, in this order; the others have a primary run only.
Listings == {"listing", "relisting"}
Kinds == {"primary", "fallback"} \union Listings
Runs == (Callers \X {"primary"}) \union (Tasks \X Kinds)

\* The processes of a group: the CLI, children that share its output pipes, and
\* children whose output is redirected.
Children == {"child", "redirected"}
Process == {"leader"} \union Children

Timer == {"terminate", "kill", "abortKill"}
Over == {"ok", "error", "aborted"}
Stage == {"ready", "listed", "failed", "relisted"} \union Kinds \union Over
App == {"starting", "running", "stopping", "exited", "killed"}

TypeOK ==
    /\ stage \in [Callers -> Stage]
    /\ \A c \in Callers \ Tasks : stage[c] \in {"ready", "primary"} \union Over
    /\ signal \in [Callers -> BOOLEAN]
    /\ alive \in [Runs -> SUBSET Process]
    /\ live \in SUBSET Runs /\ settled \in SUBSET Runs
    /\ timers \in [Runs -> SUBSET Timer]
    /\ timedOut \in [Runs -> BOOLEAN] /\ aborted \in [Runs -> BOOLEAN]
    /\ overflown \in SUBSET Runs
    /\ app \in App

Init ==
    /\ stage = [c \in Callers |-> "ready"]
    /\ signal = [c \in Callers |-> FALSE]
    /\ alive = [r \in Runs |-> {}]
    /\ live = {} /\ settled = {}
    /\ timers = [r \in Runs |-> {}]
    /\ timedOut = [r \in Runs |-> FALSE] /\ aborted = [r \in Runs |-> FALSE]
    /\ overflown = {}
    /\ app = "starting"

Up == app \notin {"exited", "killed"}

\* signalProcessGroup: a group that is gone is tolerated.  SIGKILL ends the
\* group; a process may end on SIGTERM or on its own (Exits), or ignore it.
Signal(rs, sig) ==
    alive' = [r \in Runs |-> IF r \in rs /\ sig = "SIGKILL" THEN {} ELSE alive[r]]

-----------------------------------------------------------------------------
(* The startup (App.ts) *)

\* A failed authentication check ends the process.
StartupFails ==
    /\ app = "starting" /\ \E p \in Probes : stage[p] = "error"
    /\ app' = "exited"
    /\ UNCHANGED <<callers, alive, live, settled, timers, flags>>

\* The agent starts and the signal handlers are installed.
Started ==
    /\ app = "starting" /\ \A p \in Probes : stage[p] = "ok"
    /\ app' = "running"
    /\ UNCHANGED <<callers, alive, live, settled, timers, flags>>

\* There is no handler yet: a SIGTERM ends the process.
KilledAtStartup ==
    /\ app = "starting"
    /\ app' = "killed"
    /\ UNCHANGED <<callers, alive, live, settled, timers, flags>>

\* The checks run one after the other, before everything else.
Serving(c) ==
    IF c \in Probes
    THEN app = "starting" /\ \A p \in Probes \ {c} : stage[p] \in {"ready", "ok"}
    ELSE app \in {"running", "stopping"}

-----------------------------------------------------------------------------
(* The callers *)

\* The runs a caller may start next.  performTask lists the models of its CLI
\* unless no model is set or the listing is cached (a listing another task waits
\* for as well counts as one of each).
Upcoming(c) ==
    LET with(kind) == IF HasListing /\ c \in Tasks THEN {kind} ELSE {} IN
    CASE stage[c] = "ready"    -> {"primary"} \union with("listing")
      [] stage[c] = "listed"   -> {"primary"}
      [] stage[c] = "failed"   -> {"fallback"} \union with("relisting")
      [] stage[c] = "relisted" -> {"fallback"}
      [] OTHER -> {}

\* Mutant of Heeds: the runs of tasks are not given the abort signal.
HeedsNothing(r) == FALSE

\* The run was given the abort signal of its task: a listing is not.
Heeds(r) == r[1] \in Tasks /\ r[2] \notin Listings

\* Mutant of Concluded: a failed prompt is handed to the fallback as well.
ConcludedForAll(r, outcome) ==
    CASE r[2] = "listing"   -> "listed"
      [] r[2] = "relisting" -> "relisted"
      [] r[2] = "primary" /\ outcome = "error" /\ HasFallback -> "failed"
      [] OTHER -> outcome

\* What the caller does with the outcome of its run: a listing never fails the
\* task, an abort is rethrown, and a failure of the primary run goes on to the
\* fallback, if there is one.
Concluded(r, outcome) ==
    CASE r[2] = "listing"   -> "listed"
      [] r[2] = "relisting" -> "relisted"
      [] /\ r[2] = "primary" /\ outcome = "error"
         /\ r[1] \in Tasks /\ HasFallback -> "failed"
      [] OTHER -> outcome

Conclude(r, outcome) == stage' = [stage EXCEPT ![r[1]] = Concluded(r, outcome)]

\* runCli is called: an aborted signal rejects at once, nothing is spawned.
RejectAborted(r) ==
    /\ Serving(r[1]) /\ r[2] \in Upcoming(r[1]) /\ Heeds(r) /\ signal[r[1]]
    /\ settled' = settled \union {r}
    /\ Conclude(r, "aborted")
    /\ UNCHANGED <<signal, alive, live, timers, flags, app>>

Calls(r) == Serving(r[1]) /\ r[2] \in Upcoming(r[1]) /\ ~(Heeds(r) /\ signal[r[1]])

\* The CLI is not found: the callback runs without a pid.
SpawnFails(r) ==
    /\ Calls(r)
    /\ settled' = settled \union {r}
    /\ Conclude(r, "error")
    /\ UNCHANGED <<signal, alive, live, timers, flags, app>>

\* The CLI is spawned, registered, and its timeout armed.
Spawn(r) ==
    /\ Calls(r)
    /\ alive' = [alive EXCEPT ![r] = {"leader"}]
    /\ live' = live \union {r}
    /\ timers' = [timers EXCEPT ![r] = {"terminate"}]
    /\ stage' = [stage EXCEPT ![r[1]] = r[2]]
    /\ UNCHANGED <<signal, settled, flags, app>>

\* Mutant of Outcome: the timeout is looked at before the abort.
OutcomeOfTimeout(r, ok) ==
    IF timedOut[r] THEN "error"
    ELSE IF aborted[r] THEN "aborted"
    ELSE IF ~ok THEN "error" ELSE "ok"

\* The callback of execFile: the flags outrank the exit code.
Outcome(r, ok) ==
    IF aborted[r] THEN "aborted"
    ELSE IF timedOut[r] \/ ~ok THEN "error" ELSE "ok"

\* Nobody holds the output pipes of the CLI.
Closed(r) == alive[r] \subseteq {"redirected"}

\* When Node.js reports the end of the CLI: its output is closed, or was destroyed
\* when it exceeded maxBuffer, and the CLI itself is gone.
Reported(r) == IF r \in overflown THEN "leader" \notin alive[r] ELSE Closed(r)

\* The flags of a run go with it.
Forget(r) ==
    /\ timedOut' = [timedOut EXCEPT ![r] = FALSE]
    /\ aborted' = [aborted EXCEPT ![r] = FALSE]

\* Mutant of Callback: the kill timer of the abort is not cleared.
CallbackKeepingTimer(r, ok) ==
    /\ Up /\ r \in live /\ Reported(r) /\ (ok => r \notin overflown)
    /\ settled' = settled \union {r}
    /\ timers' = [timers EXCEPT ![r] = @ \intersect {"abortKill"}]
    /\ live' = live \ {r}
    /\ Conclude(r, Outcome(r, ok)) /\ Forget(r)
    /\ UNCHANGED <<signal, alive, overflown, app>>

Callback(r, ok) ==
    /\ Up /\ r \in live /\ Reported(r) /\ (ok => r \notin overflown)
    /\ settled' = settled \union {r}
    /\ timers' = [timers EXCEPT ![r] = {}]
    /\ live' = live \ {r}
    /\ Conclude(r, Outcome(r, ok)) /\ Forget(r)
    /\ UNCHANGED <<signal, alive, overflown, app>>

\* The output exceeds maxBuffer: execFile destroys its end of the pipes and sends
\* SIGTERM to the leader alone.
Overflow(r) ==
    /\ Up /\ r \in live \ overflown /\ ~Closed(r)
    /\ overflown' = overflown \union {r}
    /\ UNCHANGED <<callers, alive, live, settled, timers, timedOut, aborted, app>>

-----------------------------------------------------------------------------
(* The timers of a run *)

Fires(r, timer) == Up /\ timer \in timers[r]

\* Mutant of Terminate: no SIGKILL follows the SIGTERM.
TerminateOnce(r) ==
    /\ Fires(r, "terminate")
    /\ timedOut' = [timedOut EXCEPT ![r] = TRUE]
    /\ Signal({r}, "SIGTERM")
    /\ timers' = [timers EXCEPT ![r] = @ \ {"terminate"}]
    /\ UNCHANGED <<callers, live, settled, aborted, overflown, app>>

Terminate(r) ==
    /\ Fires(r, "terminate")
    /\ timedOut' = [timedOut EXCEPT ![r] = TRUE]
    /\ Signal({r}, "SIGTERM")
    /\ timers' = [timers EXCEPT ![r] = (@ \ {"terminate"}) \union {"kill"}]
    /\ UNCHANGED <<callers, live, settled, aborted, overflown, app>>

Kill(r, timer) ==
    /\ timer \in {"kill", "abortKill"} /\ Fires(r, timer)
    /\ Signal({r}, "SIGKILL")
    /\ timers' = [timers EXCEPT ![r] = @ \ {timer}]
    /\ UNCHANGED <<callers, live, settled, flags, app>>

-----------------------------------------------------------------------------
(* The abort of a task (Agent.abortRequestedTasks) *)

\* The signal reaches the run that is waited for, if it was given the signal; the
\* listener of an earlier run of the same task finds it settled.
Abort(t) ==
    /\ app \in {"running", "stopping"} /\ stage[t] \notin Over /\ ~signal[t]
    /\ signal' = [signal EXCEPT ![t] = TRUE]
    /\ LET heard == {r \in live \ settled : r[1] = t /\ Heeds(r)} IN
       /\ aborted' = [r \in Runs |-> r \in heard \/ aborted[r]]
       /\ Signal(heard, "SIGTERM")
       /\ timers' = [r \in Runs |->
             timers[r] \union (IF r \in heard THEN {"abortKill"} ELSE {})]
    /\ UNCHANGED <<stage, live, settled, timedOut, overflown, app>>

-----------------------------------------------------------------------------
(* The shutdown (App.ts, terminateLiveProcessGroups) *)

\* The registered groups get SIGTERM, for every signal the agent gets; without any
\* the process exits at once.  agent.stop() ends the polling only: the callers in
\* flight go on.
Shutdown ==
    /\ app \in {"running", "stopping"}
    /\ Signal(live, "SIGTERM")
    /\ app' = IF live = {} THEN "exited" ELSE "stopping"
    /\ UNCHANGED <<callers, live, settled, timers, flags>>

\* The poll of the registry: it is empty, or the deadline has passed.
AllGone ==
    /\ app = "stopping" /\ live = {}
    /\ app' = "exited"
    /\ UNCHANGED <<callers, alive, live, settled, timers, flags>>

\* Mutant of Deadline: the process exits without the SIGKILL.
DeadlineWithoutKill ==
    /\ app = "stopping" /\ live # {}
    /\ app' = "exited"
    /\ UNCHANGED <<callers, alive, live, settled, timers, flags>>

Deadline ==
    /\ app = "stopping" /\ live # {}
    /\ Signal(live, "SIGKILL")
    /\ app' = "exited"
    /\ UNCHANGED <<callers, live, settled, timers, flags>>

-----------------------------------------------------------------------------
(* The processes of a group (operating system) *)

\* A child inherits the output of a process that has it, or gets one of its own.
ChildStarts(r) ==
    /\ alive[r] # {}
    /\ \E p \in Children \ alive[r] :
          /\ p = "child" => ~Closed(r)
          /\ alive' = [alive EXCEPT ![r] = @ \union {p}]
    /\ UNCHANGED <<callers, live, settled, timers, flags, app>>

Exits(r) ==
    /\ \E p \in alive[r] : alive' = [alive EXCEPT ![r] = @ \ {p}]
    /\ UNCHANGED <<callers, live, settled, timers, flags, app>>

\* Everything is over: nothing is left to happen.
Finished ==
    /\ ~Up \/ \A c \in Callers : stage[c] \in Over
    /\ UNCHANGED vars

RunSteps(r) == RejectAborted(r) \/ SpawnFails(r) \/ Spawn(r)

Next ==
    \/ StartupFails \/ Started \/ KilledAtStartup
    \/ \E r \in Runs : RunSteps(r)
    \/ \E r \in Runs, ok \in BOOLEAN : Callback(r, ok)
    \/ \E r \in Runs : Overflow(r) \/ Terminate(r) \/ ChildStarts(r) \/ Exits(r)
    \/ \E r \in Runs, timer \in Timer : Kill(r, timer)
    \/ \E t \in Tasks : Abort(t)
    \/ Shutdown \/ AllGone \/ Deadline
    \/ Finished

\* Timers fire (each once, so none is passed over for ever), runs that are over are
\* reported, and the startup and the callers go on.  Nothing is assumed of the
\* processes: a CLI may hang for ever.
Fairness ==
    /\ WF_vars(StartupFails) /\ WF_vars(Started)
    /\ \A c \in Callers : WF_vars(\E r \in Runs : r[1] = c /\ RunSteps(r))
    /\ \A r \in Runs :
        /\ WF_vars(\E ok \in BOOLEAN : Callback(r, ok))
        /\ WF_vars(Terminate(r) \/ \E timer \in Timer : Kill(r, timer))
    /\ WF_vars(AllGone) /\ WF_vars(Deadline)

Spec == Init /\ [][Next]_vars /\ Fairness

-----------------------------------------------------------------------------
(* Properties *)

\* A group is signalled only for a run that waits for it: once the callback
\* has run no timer of the run is armed and the registry has forgotten it, so
\* neither a late timer nor the shutdown signals a process id the system may
\* have given to another process (clearTimers, liveProcessGroups).
SignalsOnlyLive ==
    /\ live \intersect settled = {}
    /\ \A r \in Runs : timers[r] # {} => r \in live

\* An abort wins over everything that races with it, whenever it comes: the
\* timeout of the run, a CLI that exits with success, a failure that is about
\* to be handed to the fallback, a model listing.  The task ends as aborted.
AbortWins ==
    \A t \in Tasks : signal[t] /\ stage[t] \in Over => stage[t] = "aborted"

\* When the agent process has exited no CLI runs, the ones spawned after the
\* SIGTERM of the shutdown included, and no child that shares the output of a CLI,
\* unless that output exceeded maxBuffer (terminateLiveProcessGroups; a process
\* that is killed before its handlers are installed is not covered).
CliGoneAtExit ==
    app = "exited" => \A r \in Runs : /\ "leader" \notin alive[r]
                                      /\ r \notin overflown => Closed(r)

\* Every run settles within its timers or with the process, although the CLI
\* and its children may ignore SIGTERM and never end on their own: a caller, which
\* has one run at a time and a few in all, is never left waiting for one.
RunsSettle == \A c \in Callers : []<>(~Up \/ \A r \in live : r[1] # c)

\* A task that is aborted ends, also while it waits for a model listing that was
\* not given the abort signal and for a CLI that ignores SIGTERM.
AbortSettles == \A t \in Tasks : signal[t] ~> stage[t] \in Over \/ ~Up

\* src/README.md:435 says that the processes spawned by the CLI "cannot survive
\* the timeout", and 456 that they "cannot survive the cancellation".
NothingSurvivesKill ==
    [][\A r \in live \ live' : timedOut[r] \/ aborted[r] => alive'[r] = {}]_vars

-----------------------------------------------------------------------------
(* The inductive invariant *)

\* A registered run is the one its caller waits for, and has heard its abort.
LiveIsAwaited ==
    \A r \in live : /\ stage[r[1]] = r[2]
                    /\ signal[r[1]] /\ Heeds(r) => aborted[r]

\* The runs that lie behind a stage.
Behind(s) ==
    CASE s \in {"ready", "listing"}     -> {}
      [] s \in {"listed", "primary"}    -> {"listing"}
      [] s \in {"failed", "relisting"}  -> {"listing", "primary"}
      [] s \in {"relisted", "fallback"} -> {"listing", "primary", "relisting"}
      [] OTHER -> Kinds

\* A settled run lies behind its caller.
SettledIsBehind == \A r \in settled : r[2] \in Behind(stage[r[1]])

\* The CLI and whoever shares its output belong to a registered run of a process
\* that has not exited, but for the children of an output that was too large.
OpenIsLive ==
    \A r \in Runs :
        "leader" \in alive[r] \/ (~Closed(r) /\ r \notin overflown)
            => r \in live /\ app # "exited"

\* During the startup one check at most is not passed, and nothing else runs.
StartupInOrder ==
    app = "starting" =>
        /\ \A c \in Callers \ Probes : stage[c] = "ready"
        /\ \A p, q \in Probes : p = q \/ {stage[p], stage[q]} \intersect {"ready", "ok"} # {}

Inv ==
    /\ TypeOK /\ SignalsOnlyLive /\ AbortWins /\ StartupInOrder
    /\ LiveIsAwaited /\ SettledIsBehind /\ OpenIsLive
===============================================================================
