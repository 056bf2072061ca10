----------------------------- MODULE RunningLabel -----------------------------
(***************************************************************************)
(* The running label of one Planner task (src/agent/src/Agent.ts): a run   *)
(* of the task adds it and removes it at its end, and the reconciliation   *)
(* of a restarted process removes the one a crash left behind.             *)
(*                                                                         *)
(* A Planner server with the PATCH endpoint applies a mutation atomically; *)
(* against an older one the whole list is read, merged and written back    *)
(* (applyLabelMutation and its fallback).  Label writes are best-effort: a *)
(* failed request is logged and its caller goes on.  The provenance labels *)
(* are only ever added, like the labels of a user, and left out; so is     *)
(* everything a run does besides its labels.                               *)
(***************************************************************************)
EXTENDS Naturals

CONSTANTS
    RunningLabels,   \* the values TASK_RUNNING_LABEL takes
    HumanLabels,     \* labels the users set
    MaxEdits,        \* bound: label edits of the users and reloads of the setting
    MaxFaults,       \* bound: failed requests
    MaxCrashes       \* bound: crashes

ASSUME RunningLabelAssumption ==
    /\ "" \notin RunningLabels \union HumanLabels
    /\ RunningLabels \intersect HumanLabels = {}
    /\ MaxEdits \in Nat /\ MaxFaults \in Nat /\ MaxCrashes \in Nat

VARIABLES
    (* Planner *)
    labels,    \* the labels of the task
    patch,     \* whether the server has the PATCH endpoint
    (* the agent process *)
    up,
    setting,   \* TASK_RUNNING_LABEL in force, "" when disabled or TASK_LABELS is off
    run,       \* the run of the task, and the label it has added
    recon,     \* the reconciliation, and the label it looks for
    request,   \* the mutation of each writer that is under way
    (* history *)
    overlap,   \* the run was picked while the reconciliation was writing
    renamed,   \* the setting changed
    edits, faults, crashes

agent  == <<up, setting, run, recon, request>>
bounds == <<edits, faults, crashes>>
vars   == <<labels, patch, agent, overlap, renamed, bounds>>

Label == RunningLabels \union HumanLabels
Setting == RunningLabels \union {""}
Writers == {"run", "reconcile"}

NoRequest == [at |-> "none", add |-> {}, remove |-> {}, read |-> {}]
NoRun == [at |-> "off", label |-> ""]

TypeOK ==
    /\ labels \in SUBSET Label /\ patch \in BOOLEAN
    /\ up \in BOOLEAN /\ setting \in Setting
    /\ run \in [at : {"off", "adding", "working", "clearing"}, label : Setting]
    /\ recon \in [at : {"off", "armed", "listed", "writing"}, label : Setting]
    /\ request \in [Writers -> [at : {"none", "sent", "read", "write"}, add : SUBSET Label,
                                remove : SUBSET Label, read : SUBSET Label]]
    /\ overlap \in BOOLEAN /\ renamed \in BOOLEAN
    /\ edits \in 0 .. MaxEdits /\ faults \in 0 .. MaxFaults /\ crashes \in 0 .. MaxCrashes

\* scheduleRunningLabelReconciliation, when the process starts.
Armed == [at |-> IF setting = "" THEN "off" ELSE "armed", label |-> ""]

Init ==
    /\ labels = {} /\ patch \in BOOLEAN
    /\ up = TRUE /\ setting \in Setting
    /\ run = NoRun /\ recon = Armed
    /\ request = [w \in Writers |-> NoRequest]
    /\ overlap = FALSE /\ renamed = FALSE
    /\ edits = 0 /\ faults = 0 /\ crashes = 0

-----------------------------------------------------------------------------
(* A mutation of the labels, applyLabelMutation *)

Answered(w) == request[w].at = "none"
Requested(w, r) == request' = [request EXCEPT ![w] = r]

Send(w, add, remove) ==
    Requested(w, [NoRequest EXCEPT !.at = "sent", !.add = add, !.remove = remove])

Mutated(r, current) == (current \ r.remove) \union r.add

RequestUnchanged == UNCHANGED <<patch, up, setting, run, recon, overlap, renamed, edits, crashes>>

\* The server applies the difference.
Applied(w) ==
    /\ request[w].at = "sent" /\ patch
    /\ labels' = Mutated(request[w], labels)
    /\ Requested(w, NoRequest)
    /\ RequestUnchanged /\ UNCHANGED faults

\* It has no such endpoint: 404 or 405.
NoEndpoint(w) ==
    /\ request[w].at = "sent" /\ ~patch
    /\ Requested(w, [request[w] EXCEPT !.at = "read"])
    /\ RequestUnchanged /\ UNCHANGED <<labels, faults>>

\* updateTaskLabelsFallback: a fresh read, and a write unless it changes nothing.
Reads(w) ==
    /\ request[w].at = "read"
    /\ Requested(w, IF Mutated(request[w], labels) = labels THEN NoRequest
                    ELSE [request[w] EXCEPT !.at = "write", !.read = labels])
    /\ RequestUnchanged /\ UNCHANGED <<labels, faults>>

Writes(w) ==
    /\ request[w].at = "write"
    /\ labels' = Mutated(request[w], request[w].read)
    /\ Requested(w, NoRequest)
    /\ RequestUnchanged /\ UNCHANGED faults

\* A request fails, after the server applied it (as Applied or Writes) or before.
Lost(w) ==
    /\ ~Answered(w) /\ faults < MaxFaults
    /\ faults' = faults + 1
    /\ Requested(w, NoRequest)
    /\ RequestUnchanged /\ UNCHANGED labels

Answer(w) == Applied(w) \/ NoEndpoint(w) \/ Reads(w) \/ Writes(w)

-----------------------------------------------------------------------------
(* processTask *)

RunUnchanged == UNCHANGED <<labels, patch, up, setting, recon, renamed, bounds>>

\* Mutant of Pick: an empty setting is added like a label.
PickAnySetting ==
    /\ up /\ run.at = "off"
    /\ run' = [at |-> "adding", label |-> setting]
    /\ Send("run", {setting}, {})
    /\ overlap' = (recon.at = "writing")
    /\ RunUnchanged

\* A poll picks the task, and addTaskRunLabels adds the label in force.
Pick ==
    /\ up /\ run.at = "off"
    /\ run' = [at |-> "adding", label |-> setting]
    /\ IF setting = "" THEN UNCHANGED request ELSE Send("run", {setting}, {})
    /\ overlap' = (recon.at = "writing")
    /\ RunUnchanged

Work ==
    /\ up /\ run.at = "adding" /\ Answered("run")
    /\ run' = [run EXCEPT !.at = "working"]
    /\ RunUnchanged /\ UNCHANGED <<request, overlap>>

\* Mutant of Clear: the label in force is removed, not the one that was added.
ClearLive ==
    /\ up /\ run.at = "working"
    /\ run' = [run EXCEPT !.at = "clearing"]
    /\ IF setting = "" THEN UNCHANGED request ELSE Send("run", {}, {setting})
    /\ RunUnchanged /\ UNCHANGED overlap

\* The finally block: clearTaskRunningLabel removes the label the run added.
Clear ==
    /\ up /\ run.at = "working"
    /\ run' = [run EXCEPT !.at = "clearing"]
    /\ IF run.label = "" THEN UNCHANGED request ELSE Send("run", {}, {run.label})
    /\ RunUnchanged /\ UNCHANGED overlap

RunEnds ==
    /\ up /\ run.at = "clearing" /\ Answered("run")
    /\ run' = NoRun
    /\ RunUnchanged /\ UNCHANGED <<request, overlap>>

-----------------------------------------------------------------------------
(* reconcileRunningLabels *)

ReconcileUnchanged == UNCHANGED <<labels, patch, up, setting, run, overlap, renamed, edits, crashes>>

\* The tasks that carry the label are listed, once the delay is over.
List ==
    /\ up /\ recon.at = "armed"
    /\ recon' = [at |-> IF setting \in labels THEN "listed" ELSE "off", label |-> setting]
    /\ ReconcileUnchanged /\ UNCHANGED <<request, faults>>

ListFails ==
    /\ up /\ recon.at = "armed" /\ faults < MaxFaults
    /\ faults' = faults + 1
    /\ recon' = [recon EXCEPT !.at = "off"]
    /\ ReconcileUnchanged /\ UNCHANGED request

\* Mutant of Remove: a task that is being processed is not skipped.
RemoveAlways ==
    /\ up /\ recon.at = "listed"
    /\ recon' = [recon EXCEPT !.at = "writing"]
    /\ Send("reconcile", {}, {recon.label})
    /\ ReconcileUnchanged /\ UNCHANGED faults

\* A task that is being processed is skipped.
Remove ==
    /\ up /\ recon.at = "listed"
    /\ IF run.at = "off"
       THEN recon' = [recon EXCEPT !.at = "writing"] /\ Send("reconcile", {}, {recon.label})
       ELSE recon' = [recon EXCEPT !.at = "off"] /\ UNCHANGED request
    /\ ReconcileUnchanged /\ UNCHANGED faults

Reconciled ==
    /\ up /\ recon.at = "writing" /\ Answered("reconcile")
    /\ recon' = [recon EXCEPT !.at = "off"]
    /\ ReconcileUnchanged /\ UNCHANGED <<request, faults>>

-----------------------------------------------------------------------------
(* The users, reloads and crashes *)

Edit == edits < MaxEdits /\ edits' = edits + 1 /\ UNCHANGED <<faults, crashes>>

UserEdits ==
    /\ \E l \in HumanLabels :
           labels' = IF l \in labels THEN labels \ {l} ELSE labels \union {l}
    /\ Edit /\ UNCHANGED <<patch, agent, overlap, renamed>>

\* TASK_RUNNING_LABEL or TASK_LABELS is reloaded.
Rename ==
    /\ \E s \in Setting \ {setting} : setting' = s
    /\ renamed' = TRUE
    /\ Edit /\ UNCHANGED <<labels, patch, up, run, recon, request, overlap>>

Crash ==
    /\ up /\ crashes < MaxCrashes
    /\ up' = FALSE /\ crashes' = crashes + 1
    /\ run' = NoRun /\ recon' = [at |-> "off", label |-> ""]
    /\ request' = [w \in Writers |-> NoRequest]
    /\ overlap' = FALSE
    /\ UNCHANGED <<labels, patch, setting, renamed, edits, faults>>

Restart ==
    /\ ~up /\ up' = TRUE
    /\ recon' = Armed
    /\ UNCHANGED <<labels, patch, setting, run, request, overlap, renamed, bounds>>

Run == Work \/ Clear \/ RunEnds
Reconcile == List \/ Remove \/ Reconciled

Next ==
    \/ \E w \in Writers : Answer(w) \/ Lost(w)
    \/ Pick \/ Run \/ Reconcile \/ ListFails
    \/ UserEdits \/ Rename \/ Crash \/ Restart

\* A run ends, a request is answered, the delay of the reconciliation expires
\* and a crashed process is restarted.  Nothing makes a user comment or a poll
\* pick the task again.
Fairness ==
    /\ WF_vars(Run) /\ WF_vars(Reconcile) /\ WF_vars(Restart)
    /\ \A w \in Writers : WF_vars(Answer(w))

Spec == Init /\ [][Next]_vars /\ Fairness

-----------------------------------------------------------------------------
(* Properties *)

\* The label shows while the CLI works (README.md:368): a reconciliation of the
\* labels a previous process left, or a reload, never takes it away from a run,
\* as long as no request fails and the run was not picked in the middle of the
\* reconciliation of its own task.
ShownWhileWorking ==
    run.at = "working" /\ faults = 0 /\ ~overlap => run.label \in labels \union {""}

\* Nobody sees a task run that does not: a running label always goes away again,
\* although reloads rename the setting in the middle of a run and crashes leave
\* the label behind.  Only a failed request, or a crash together with a reload,
\* leaves a label that no one removes.
LabelGoes ==
    \A l \in RunningLabels :
        (l \in labels) ~> (l \notin labels \/ faults > 0 \/ (renamed /\ crashes > 0))
===============================================================================
