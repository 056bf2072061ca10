--------------------------- MODULE TaskEvaluator ---------------------------
(***************************************************************************)
(* The utility-model evaluations of src/agent/src/TaskEvaluator.ts: what a *)
(* scheduling round awaits between its two walks (Evaluated of             *)
(* Scheduler.tla).  A round asks for one evaluation per shortlisted task.  *)
(* An evaluation is a job of its own: it takes a slot of a semaphore whose *)
(* limit each round chooses, calls the model, fills the cache and answers. *)
(* A round that times out leaves its jobs running in the background, where *)
(* they meet those of later rounds.                                        *)
(*                                                                         *)
(* A task's content version is a number, and an evaluation is named by the *)
(* version it was made of, whether the model gave it or the call failed    *)
(* and it is the default one.  Fallback stands for the default evaluation  *)
(* of a task that was not evaluated.  An enabled utility model and at least*)
(* one input are assumed: without them a round returns at once.            *)
(***************************************************************************)
EXTENDS Integers, Sequences, FiniteSets

CONSTANTS
    Tasks,
    Jobs,         \* bound: evaluations alive at once, of this and older rounds
    Caps,         \* the process caps a round may be given (hot-reloaded)
    Concurrency,  \* the most concurrent evaluations, EVALUATION_CONCURRENCY
    Threshold,    \* timeouts in a row that open the circuit
    MaxChanges    \* bound: content updates and cache evictions of a behaviour

ASSUME EvaluatorAssumption ==
    /\ IsFiniteSet(Tasks) /\ IsFiniteSet(Jobs)
    /\ Caps \subseteq Nat \ {0}
    /\ Concurrency \in Nat \ {0} /\ Threshold \in Nat \ {0}
    /\ MaxChanges \in Nat

VARIABLES
    version,   \* content version of each task (dateUpdated)
    cache,     \* the version of the cached evaluation of each task
    job,       \* the evaluateTask calls
    waiters,   \* the jobs waiting for a slot, first come first
    active,    \* the slots taken
    timeouts,  \* consecutiveTimeouts
    open,      \* the circuit is open (the cooldown is not over)
    phase,     \* "idle", "launch" (the inputs are mapped) or "await"
    round,     \* the inputs still to launch, the listed versions, the limit
    answers,   \* the evaluations the round has so far
    changes    \* bookkeeping: content updates and evictions so far

breaker == <<timeouts, open>>
vars == <<version, cache, job, waiters, active, breaker, phase, round, answers,
          changes>>

Fallback == 0
Nothing == -1

\* A call of evaluateTask.  The limit is kept until the slot is taken, and
\* "mine" says that the present round awaits the call.
Job == [at : {"waiting", "woken", "granted", "calling"}, task : Tasks,
        version : Nat, limit : Nat, mine : BOOLEAN]
NoJob == [at |-> "off", task |-> Nothing, version |-> 0, limit |-> 0,
          mine |-> FALSE]

TypeOK ==
    /\ version \in [Tasks -> Nat \ {0}]
    /\ cache \in [Tasks -> Nat \union {Nothing}]
    /\ job \in [Jobs -> {NoJob} \union Job]
    /\ waiters \in Seq(Jobs)
    /\ active \in Nat /\ timeouts \in Nat /\ open \in BOOLEAN
    /\ phase \in {"idle", "launch", "await"}
    /\ round \in [todo : SUBSET Tasks, versions : [Tasks -> Nat], limit : Nat]
    /\ answers \in [Tasks -> Nat \union {Nothing}]
    /\ changes \in Nat

NoRound == [todo |-> {}, versions |-> [t \in Tasks |-> 0], limit |-> 0]
NoAnswers == [t \in Tasks |-> Nothing]

Init ==
    /\ version = [t \in Tasks |-> 1]
    /\ cache = [t \in Tasks |-> Nothing]
    /\ job = [j \in Jobs |-> NoJob]
    /\ waiters = <<>> /\ active = 0
    /\ timeouts = 0 /\ open = FALSE
    /\ phase = "idle" /\ round = NoRound /\ answers = NoAnswers
    /\ changes = 0

-----------------------------------------------------------------------------
(* The cache *)

\* Mutant of Hit: the content version is not compared.
HitOfTask(t, v) == cache[t] # Nothing

\* cachedEvaluation: an entry of exactly this content version.
Hit(t, v) == cache[t] = v

\* The evaluation of a job is cached for the version it was made of.
Store(j) == cache' = [cache EXCEPT ![job[j].task] = job[j].version]

-----------------------------------------------------------------------------
(* The semaphore *)

\* Mutant of LimitOf: the round's cap replaces the concurrency.
CapOf(cap) == cap

\* evaluationLimit: a round may lower the concurrency to its process cap.
LimitOf(cap) == IF cap < Concurrency THEN cap ELSE Concurrency

\* Mutant of Release: the slot is handed back without waking a waiter.
ReleaseSilently(j) ==
    /\ active' = active - 1
    /\ UNCHANGED waiters
    /\ job' = [job EXCEPT ![j] = NoJob]

\* Mutant of Release: the slot is handed back twice.
ReleaseTwice(j) ==
    /\ active' = active - 2
    /\ UNCHANGED waiters
    /\ job' = [job EXCEPT ![j] = NoJob]

\* release: the slot is free, and the first waiter will look at it.
Release(j) ==
    /\ active' = active - 1
    /\ IF waiters = <<>>
       THEN /\ UNCHANGED waiters
            /\ job' = [job EXCEPT ![j] = NoJob]
       ELSE /\ waiters' = Tail(waiters)
            /\ job' = [job EXCEPT
                 ![j] = NoJob,
                 ![Head(waiters)] = [job[Head(waiters)] EXCEPT !.at = "woken"]]

\* Job j ends with the evaluation a, which its round gets if it still waits.
Ends(j, a) ==
    /\ Release(j)
    /\ answers' = IF job[j].mine THEN [answers EXCEPT ![job[j].task] = a]
                  ELSE answers
    /\ UNCHANGED <<version, phase, round, changes>>

-----------------------------------------------------------------------------
(* A round *)

\* Other callbacks run while a round is not being launched.
Waiting == phase # "launch"

Idle == {j \in Jobs : job[j].at = "off"}

\* The name of the next job; which one it is does not matter.
Fresh == CHOOSE j \in Idle : TRUE

\* evaluateAll, of the versions the poll listed.
StartRound(inputs, cap) ==
    /\ phase = "idle" /\ ~open /\ Cardinality(Idle) >= Cardinality(inputs)
    /\ round' = [todo |-> inputs, versions |-> version, limit |-> LimitOf(cap)]
    /\ phase' = "launch"
    /\ UNCHANGED <<version, cache, job, waiters, active, breaker, answers,
                   changes>>

\* evaluateAll while the circuit is open: the cached evaluations, or the
\* fallback, without a call.
SkipRound(inputs) ==
    /\ phase = "idle" /\ open
    /\ round' = [todo |-> {}, versions |-> version, limit |-> 0]
    /\ answers' = [t \in Tasks |->
                     CASE t \notin inputs -> Nothing
                       [] t \in inputs /\ Hit(t, version[t]) -> cache[t]
                       [] OTHER -> Fallback]
    /\ phase' = "await"
    /\ UNCHANGED <<version, cache, job, waiters, active, breaker, changes>>

\* evaluateTask up to its first await: a cached evaluation, a slot, or a
\* place among the waiters.
LaunchCached(t) ==
    /\ phase = "launch" /\ t \in round.todo /\ Hit(t, round.versions[t])
    /\ answers' = [answers EXCEPT ![t] = cache[t]]
    /\ round' = [round EXCEPT !.todo = @ \ {t}]
    /\ UNCHANGED <<version, cache, job, waiters, active, breaker, phase,
                   changes>>

Launch(t) ==
    /\ phase = "launch" /\ t \in round.todo /\ ~Hit(t, round.versions[t])
    /\ Idle # {}
    /\ round' = [round EXCEPT !.todo = @ \ {t}]
    /\ LET call(s, n) == [at |-> s, task |-> t, version |-> round.versions[t],
                          limit |-> n, mine |-> TRUE] IN
       IF active < round.limit
       THEN /\ job' = [job EXCEPT ![Fresh] = call("granted", 0)]
            /\ active' = active + 1 /\ UNCHANGED waiters
       ELSE /\ job' = [job EXCEPT ![Fresh] = call("waiting", round.limit)]
            /\ waiters' = Append(waiters, Fresh) /\ UNCHANGED active
    /\ UNCHANGED <<version, cache, breaker, phase, answers, changes>>

Launched ==
    /\ phase = "launch" /\ round.todo = {}
    /\ phase' = "await" /\ round' = [round EXCEPT !.limit = 0]
    /\ UNCHANGED <<version, cache, job, waiters, active, breaker, answers,
                   changes>>

\* The round is complete, or its timeout has passed: it returns, and what is
\* still running goes on in the background.
RoundEnds ==
    /\ phase = "await"
    /\ phase' = "idle" /\ round' = NoRound /\ answers' = NoAnswers
    /\ job' = [j \in Jobs |-> IF job[j].mine THEN [job[j] EXCEPT !.mine = FALSE]
                               ELSE job[j]]
    /\ UNCHANGED <<version, cache, waiters, active, breaker, changes>>

-----------------------------------------------------------------------------
(* A job *)

\* Mutant of Resume: a woken waiter takes the slot without looking.
ResumeBlindly(j) ==
    /\ Waiting /\ job[j].at = "woken"
    /\ job' = [job EXCEPT ![j] = [@ EXCEPT !.at = "granted", !.limit = 0]]
    /\ active' = active + 1
    /\ UNCHANGED <<version, cache, waiters, breaker, phase, round, answers,
                   changes>>

\* A woken waiter looks at the semaphore again, and takes a slot or goes to
\* the end of the queue.
Resume(j) ==
    /\ Waiting /\ job[j].at = "woken"
    /\ IF active < job[j].limit
       THEN /\ job' = [job EXCEPT
                          ![j] = [@ EXCEPT !.at = "granted", !.limit = 0]]
            /\ active' = active + 1 /\ UNCHANGED waiters
       ELSE /\ job' = [job EXCEPT ![j].at = "waiting"]
            /\ waiters' = Append(waiters, j) /\ UNCHANGED active
    /\ UNCHANGED <<version, cache, breaker, phase, round, answers, changes>>

\* The second look at the cache, with the slot taken, then the call.
Granted(j) ==
    /\ Waiting /\ job[j].at = "granted"
    /\ \/ /\ Hit(job[j].task, job[j].version)
          /\ Ends(j, cache[job[j].task])
       \/ /\ ~Hit(job[j].task, job[j].version)
          /\ job' = [job EXCEPT ![j].at = "calling"]
          /\ UNCHANGED <<version, waiters, active, phase, round, answers,
                         changes>>
    /\ UNCHANGED <<cache, breaker>>

\* The model answers: an evaluation resets the count of timeouts, an error or
\* a reply that cannot be parsed leaves it.
Answered(j) ==
    /\ Waiting /\ job[j].at = "calling"
    /\ Store(j) /\ Ends(j, job[j].version)
    /\ timeouts' \in {0, timeouts}
    /\ UNCHANGED open

\* The call times out; enough of them in a row open the circuit.
TimesOut(j) ==
    /\ Waiting /\ job[j].at = "calling"
    /\ Store(j) /\ Ends(j, job[j].version)
    /\ IF timeouts + 1 >= Threshold
       THEN timeouts' = 0 /\ open' = TRUE
       ELSE timeouts' = timeouts + 1 /\ UNCHANGED open

-----------------------------------------------------------------------------
(* Time and users *)

\* The cooldown of the circuit is over.
Cooldown ==
    /\ Waiting /\ open /\ open' = FALSE
    /\ UNCHANGED <<version, cache, job, waiters, active, timeouts, phase, round,
                   answers, changes>>

\* The content of a task changes.
Update(t) ==
    /\ Waiting /\ changes < MaxChanges /\ changes' = changes + 1
    /\ version' = [version EXCEPT ![t] = @ + 1]
    /\ UNCHANGED <<cache, job, waiters, active, breaker, phase, round, answers>>

\* A cache entry grows too old, or the cache too large.
Evict(t) ==
    /\ Waiting /\ changes < MaxChanges /\ changes' = changes + 1
    /\ cache[t] # Nothing
    /\ cache' = [cache EXCEPT ![t] = Nothing]
    /\ UNCHANGED <<version, job, waiters, active, breaker, phase, round,
                   answers>>

RunJob(j) == Resume(j) \/ Granted(j) \/ Answered(j) \/ TimesOut(j)

RunRound ==
    \/ \E t \in Tasks : LaunchCached(t) \/ Launch(t)
    \/ Launched \/ RoundEnds

Next ==
    \/ \E inputs \in (SUBSET Tasks) \ {{}} :
         SkipRound(inputs) \/ \E cap \in Caps : StartRound(inputs, cap)
    \/ RunRound
    \/ \E j \in Jobs : RunJob(j)
    \/ Cooldown
    \/ \E t \in Tasks : Update(t) \/ Evict(t)

Spec == Init /\ [][Next]_vars

\* The event loop serves every callback; calls and rounds have timeouts.  The
\* fairness of a job is strong because the launch of a round, a single callback
\* of the source, takes several steps here and holds the jobs up meanwhile.
Fairness == WF_vars(RunRound) /\ \A j \in Jobs : SF_vars(RunJob(j))
FairSpec == Spec /\ Fairness

-----------------------------------------------------------------------------
(* Properties *)

Calls == {j \in Jobs : job[j].at \in {"granted", "calling"}}

\* However rounds overlap in the background and limits change between them,
\* the evaluations in progress never exceed the configured concurrency
\* (acquire looks again after every wake-up).
WithinConcurrency == Cardinality(Calls) <= Concurrency

\* No lost wake-up: while a job waits, a slot is taken (its release will wake
\* a waiter) or a woken waiter has still to look, although a woken waiter
\* with a lower limit may go back to the end of the queue.
NoStrandedWaiter ==
    waiters # <<>> => active > 0 \/ \E j \in Jobs : job[j].at = "woken"

\* A round never gets an evaluation of another content version, from the
\* cache or from a job that outlived an update of its task.
AnswersAreCurrent ==
    \A t \in Tasks : answers[t] \in {Nothing, Fallback, round.versions[t]}

\* Once rounds launch no more evaluations, whatever is still in progress or waits
\* in the background ends, over waiters of different limits that wake up for slots
\* they may not take.  While rounds go on a waiter with a low limit may starve:
\* acquire sends it to the end of the queue as long as later rounds with a higher
\* limit keep a slot taken.
JobsEnd ==
    <>[](phase # "launch")
        => \A j \in Jobs : job[j].at # "off" ~> job[j].at = "off"
=============================================================================
