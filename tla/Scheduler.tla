----------------------------- MODULE Scheduler -----------------------------
(***************************************************************************)
(* The choice among the ready tasks: src/agent/src/Scheduler.ts and the    *)
(* scheduling round of Agent.ts that drives it.  A round walks the         *)
(* candidates in queue order twice: once to shortlist the tasks worth a    *)
(* utility-model evaluation, once to pick.  Between the walks it awaits    *)
(* the evaluations, and running tasks may end or the configuration be      *)
(* reloaded; a walk itself is synchronous.                                 *)
(*                                                                         *)
(* Weights and budgets are counted in quarters of a slot, which makes the  *)
(* comparisons exact where the source needs an epsilon.  A description is  *)
(* what the scheduler reads of a task: the weight hint (the directive, or  *)
(* the weight of its action) before it is clamped, and the conflict keys.  *)
(*                                                                         *)
(* Agent.tla is the other half of the picture: there the picks are any     *)
(* subset of the candidates this module could choose.                      *)
(***************************************************************************)
EXTENDS Integers, Sequences, FiniteSets, FiniteSetsExt

CONSTANTS
    Tasks,
    Keys,      \* the conflict keys
    RepoKeys,  \* those of the form "repo:owner/name"
    Budgets,   \* TASK_MAX_PARALLEL in quarters; 0 stands for an invalid value
    Descs,     \* the descriptions: [hinted, hint, keys]
    Answers    \* the evaluations: [weight, keys]

MinWeight == 1
MaxWeight == 4
DefaultWeight == 4
Slot == 4

ASSUME SchedulerAssumption ==
    /\ IsFiniteSet(Tasks)
    /\ RepoKeys \subseteq Keys
    /\ Budgets \subseteq Nat /\ Budgets # {}
    /\ Descs \subseteq [hinted : BOOLEAN, hint : Int, keys : SUBSET Keys]
    /\ Answers \subseteq [weight : Int, keys : SUBSET Keys]

VARIABLES
    budget,   \* the configured budget
    running,  \* Agent.processingTasks: the weight and keys of each running task
    phase,    \* where the round is
    round,    \* the budget the round read before its first await
    queue,    \* the candidates in queue order
    desc,     \* their descriptions
    next,     \* position of the walk in the queue
    picks,    \* the tasks the walk has admitted so far
    short,    \* the shortlist
    evals,    \* the evaluations the round got
    deferred  \* why the walk has deferred a task

walk == <<queue, desc, round>>
vars == <<budget, running, phase, walk, next, picks, short, evals, deferred>>

\* Every task maps to an entry; one that is not in the source's Map or list
\* maps to Off.
Entry == [on : BOOLEAN, weight : Int, keys : SUBSET Keys]
RunningTask ==
    [on : {TRUE}, weight : MinWeight .. MaxWeight, keys : SUBSET Keys]
Off == [on |-> FALSE, weight |-> 0, keys |-> {}]
On(w, ks) == [on |-> TRUE, weight |-> w, keys |-> ks]
Plain == [hinted |-> FALSE, hint |-> 0, keys |-> {}]
NoAnswer == [weight |-> DefaultWeight, keys |-> {}]
ForAll(v) == [t \in Tasks |-> v]

Members(m) == {t \in Tasks : m[t].on}
KeysOf(m) == UNION {m[t].keys : t \in Tasks}
LoadOf(m) == MapThenSumSet(LAMBDA t : m[t].weight, Members(m))

TypeOK ==
    /\ budget \in Budgets /\ round \in Nat
    /\ running \in [Tasks -> {Off} \union RunningTask]
    /\ picks \in [Tasks -> Entry]
    /\ phase \in {"idle", "shortlist", "evaluate", "select"}
    /\ queue \in Seq(Tasks) /\ next \in Nat
    /\ desc \in [Tasks -> Descs \union {Plain}]
    /\ short \in SUBSET Tasks
    /\ evals \in [Tasks -> Answers \union {NoAnswer}]
    /\ deferred \in [Tasks -> {"no", "conflict", "capacity"}]

Init ==
    /\ budget \in Budgets
    /\ running = ForAll(Off)
    /\ phase = "idle" /\ round = 0 /\ queue = <<>> /\ desc = ForAll(Plain)
    /\ next = 1 /\ picks = ForAll(Off) /\ short = {}
    /\ evals = ForAll(NoAnswer) /\ deferred = ForAll("no")

-----------------------------------------------------------------------------
(* Capacity *)

\* sanitizeBudget: an invalid budget counts as one slot.
SanitizedBudget(b) == IF b > 0 THEN b ELSE Slot

\* maxConcurrentTasks: the process cap of a budget.
MaxConcurrent(b) == (SanitizedBudget(b) + Slot - 1) \div Slot

\* Mutant of Clamped: the hints are taken as they are.
Unclamped(w) == w

\* clampWeight.
Clamped(w) == CASE w < MinWeight -> MinWeight
                [] w > MaxWeight -> MaxWeight
                [] OTHER -> w

Used == LoadOf(running) + LoadOf(picks)

\* Mutant of Claimed: only the picks of the round are looked at.
ClaimedByRound == KeysOf(picks)

Claimed == KeysOf(running) \union KeysOf(picks)

\* Mutant of SlotsFull: only the picks of the round are counted.
SlotsFullOfRound == Cardinality(Members(picks)) >= MaxConcurrent(round)

SlotsFull ==
    Cardinality(Members(picks)) + Cardinality(Members(running))
        >= MaxConcurrent(round)

-----------------------------------------------------------------------------
(* The round *)

\* Mutant of Waiting: the walks await as well.
WaitingAlways == TRUE

\* The round awaits something, so that other callbacks run.
Waiting == phase \in {"idle", "evaluate"}

\* A task ends and leaves processingTasks.
Finish(t) ==
    /\ Waiting /\ running[t].on
    /\ running' = [running EXCEPT ![t] = Off]
    /\ UNCHANGED <<budget, phase, walk, next, picks, short, evals, deferred>>

\* The configuration is reloaded.
Reload(b) ==
    /\ Waiting /\ budget' = b /\ b # budget
    /\ UNCHANGED <<running, phase, walk, next, picks, short, evals, deferred>>

\* The orders the candidates of a poll may come in.
Queues == {q \in UNION {[1 .. n -> Tasks \ Members(running)] :
                            n \in 1 .. Cardinality(Tasks \ Members(running))} :
             \A m, n \in DOMAIN q : q[m] = q[n] => m = n}

\* selectTasksWithScheduler reads the budget and starts the shortlist.
StartRound ==
    /\ phase = "idle"
    /\ queue' \in Queues
    /\ \E d \in [{queue'[n] : n \in DOMAIN queue'} -> Descs] :
         desc' = [t \in Tasks |-> IF t \in DOMAIN d THEN d[t] ELSE Plain]
    /\ round' = SanitizedBudget(budget)
    /\ phase' = "shortlist"
    /\ UNCHANGED <<budget, running, next, picks, short, evals, deferred>>

Walking(p) == phase = p /\ next \in DOMAIN queue
Here == queue[next]
Admit(w, ks) ==
    /\ picks' = [picks EXCEPT ![Here] = On(w, ks)]
    /\ next' = next + 1 /\ UNCHANGED deferred
Defer(why) ==
    /\ deferred' = [deferred EXCEPT ![Here] = why]
    /\ next' = next + 1 /\ UNCHANGED picks

\* selectEvaluationShortlist: a hint counts as it is written, an unknown
\* weight as the smallest.
AssumedWeight(t) == IF desc[t].hinted THEN desc[t].hint ELSE MinWeight
Exhausted == round - Used < MinWeight \/ SlotsFull

Shortlist ==
    /\ Walking("shortlist") /\ ~Exhausted
    /\ IF \/ desc[Here].keys \intersect Claimed # {}
          \/ Used + AssumedWeight(Here) > round
       THEN next' = next + 1 /\ UNCHANGED <<picks, deferred>>
       ELSE Admit(AssumedWeight(Here), desc[Here].keys)
    /\ UNCHANGED <<budget, running, phase, walk, short, evals>>

\* The shortlist is the part of the simulated picks without a hint.
Shortlisted ==
    /\ phase = "shortlist" /\ (next \notin DOMAIN queue \/ Exhausted)
    /\ short' = {t \in Members(picks) : ~desc[t].hinted}
    /\ picks' = ForAll(Off) /\ next' = 1
    /\ phase' = "evaluate"
    /\ UNCHANGED <<budget, running, walk, evals, deferred>>

\* evaluateAll answers: nothing without a utility model, else an evaluation
\* (or the fallback, which is NoAnswer) of every shortlisted task.
Evaluated ==
    /\ phase = "evaluate"
    /\ \E e \in [short -> Answers \union {NoAnswer}] :
         evals' = [t \in Tasks |-> IF t \in short THEN e[t] ELSE NoAnswer]
    /\ phase' = "select"
    /\ UNCHANGED <<budget, running, walk, next, picks, short, deferred>>

\* The weight and the keys of a candidate in the selection.
WeightOf(t) == Clamped(IF desc[t].hinted THEN desc[t].hint ELSE evals[t].weight)

\* The explicit and extracted keys, and the repositories the evaluation names.
PickKeys(t) ==
    desc[t].keys \union
        IF desc[t].hinted THEN {} ELSE evals[t].keys \intersect RepoKeys

\* selectTasks, one candidate.
DeferConflicting ==
    /\ Walking("select") /\ PickKeys(Here) \intersect Claimed # {}
    /\ Defer("conflict")
    /\ UNCHANGED <<budget, running, phase, walk, short, evals>>

Fits(t) == Used + WeightOf(t) <= round /\ ~SlotsFull

\* Mutant of DeferLarge: the walk stops at the first task that does not fit.
DeferLargeAndStop ==
    /\ Walking("select") /\ PickKeys(Here) \intersect Claimed = {}
    /\ ~Fits(Here)
    /\ deferred' = [deferred EXCEPT ![Here] = "capacity"]
    /\ next' = Len(queue) + 1
    /\ UNCHANGED <<budget, running, phase, walk, picks, short, evals>>

DeferLarge ==
    /\ Walking("select") /\ PickKeys(Here) \intersect Claimed = {}
    /\ ~Fits(Here)
    /\ Defer("capacity")
    /\ UNCHANGED <<budget, running, phase, walk, short, evals>>

Pick ==
    /\ Walking("select") /\ PickKeys(Here) \intersect Claimed = {}
    /\ Fits(Here)
    /\ Admit(WeightOf(Here), PickKeys(Here))
    /\ UNCHANGED <<budget, running, phase, walk, short, evals>>

\* registerPicks, in the same callback as the selection.
Reset ==
    /\ phase' = "idle" /\ next' = 1 /\ round' = 0 /\ queue' = <<>>
    /\ desc' = ForAll(Plain) /\ picks' = ForAll(Off) /\ short' = {}
    /\ evals' = ForAll(NoAnswer) /\ deferred' = ForAll("no")

Selected == phase = "select" /\ next \notin DOMAIN queue

Register ==
    /\ Selected
    /\ running' = [t \in Tasks |-> IF picks[t].on THEN picks[t] ELSE running[t]]
    /\ Reset /\ UNCHANGED budget

\* selectTasksLegacy (the kill switch): the first candidates fill the free
\* slots of the raw budget, which is floored, but admits at least one task.
LegacyTake(free) == IF free <= 0 THEN 0
                    ELSE IF free < Slot THEN 1 ELSE free \div Slot

LegacySelect ==
    /\ phase = "idle"
    /\ LET free == budget - Slot * Cardinality(Members(running)) IN
       \E q \in Queues :
         running' = [t \in Tasks |->
             IF \E n \in DOMAIN q : n <= LegacyTake(free) /\ q[n] = t
             THEN On(DefaultWeight, {}) ELSE running[t]]
    /\ UNCHANGED <<budget, phase, walk, next, picks, short, evals, deferred>>

Next ==
    \/ \E t \in Tasks : Finish(t)
    \/ \E b \in Budgets : Reload(b)
    \/ StartRound \/ Shortlist \/ Shortlisted \/ Evaluated
    \/ DeferConflicting \/ DeferLarge \/ Pick \/ Register
    \/ LegacySelect

Spec == Init /\ [][Next]_vars

-----------------------------------------------------------------------------
(* Properties *)

\* No two running tasks work on the same resource, although the keys of one
\* may come from an evaluation and those of the other from its description,
\* and were claimed in different rounds (selectTasks, registerPicks).
ConflictFree ==
    \A t, u \in Tasks : t # u => running[t].keys \intersect running[u].keys = {}

\* A round that starts tasks leaves the running weight within the budget it
\* read and the processes within its cap, whatever ended or was reloaded
\* during the evaluations; the kill switch keeps the same process cap.
RoundFits ==
    [][Members(running') \ Members(running) # {} =>
         LET b == IF phase = "select" THEN round ELSE SanitizedBudget(budget) IN
         /\ Cardinality(Members(running')) <= MaxConcurrent(b)
         /\ phase = "select" => LoadOf(running') <= b]_vars

\* No head-of-line blocking: when the walk is over, a candidate was left
\* behind only for a claimed key, or because it still does not fit.
NothingElseFits ==
    Selected => \A n \in DOMAIN queue : LET t == queue[n] IN
        \/ picks[t].on
        \/ PickKeys(t) \intersect Claimed # {}
        \/ ~Fits(t)

\* When nothing runs and the budget is at least one slot, the round starts a
\* task, whatever the hints ask for and the evaluations answer: no task is too
\* heavy for an idle agent, and Agent.tla may rely on it (PollSelects).
IdleStarts ==
    Selected /\ Members(running) = {} /\ round >= Slot => Members(picks) # {}

\* A walk starts what it can: nobody waits for the task in front of it alone,
\* and an idle agent starts something (selectTasks).
StartsWhatItCan == NothingElseFits /\ IdleStarts

\* A task deferred for capacity is overtaken only by lighter tasks: the queue
\* order decides among tasks of the same weight.
OvertakenByLighter ==
    \A m, n \in DOMAIN queue : m < n
        /\ deferred[queue[m]] = "capacity" /\ picks[queue[n]].on
            => WeightOf(queue[n]) < WeightOf(queue[m])
=============================================================================
