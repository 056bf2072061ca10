------------------------ MODULE TaskEvaluatorProofs ------------------------
(***************************************************************************)
(* Proofs about TaskEvaluator.tla: the semaphore keeps its bound and loses *)
(* no wake-up, and a round gets evaluations of its own versions only, for  *)
(* any number of tasks and jobs, any caps and any order of the callbacks.  *)
(***************************************************************************)
EXTENDS TaskEvaluator, FiniteSetTheorems, SequenceTheorems, TLAPS

\* Whoever may take a slot has a limit within the concurrency.
LimitsBounded ==
    /\ phase = "launch" => round.limit \in 1 .. Concurrency
    /\ \A j \in Jobs : job[j].at \in {"waiting", "woken"} =>
           job[j].limit \in 1 .. Concurrency

\* The queue holds waiting jobs, each of them once.
QueueWaits ==
    /\ \A m \in 1 .. Len(waiters) : job[waiters[m]].at = "waiting"
    /\ \A m, n \in 1 .. Len(waiters) : waiters[m] = waiters[n] => m = n

\* The count of the slots is right and within its bound.
SlotsCounted == active = Cardinality(Calls) /\ active <= Concurrency

\* What the round awaits are its own versions; a round at rest awaits nothing.
RoundOwns ==
    /\ \A j \in Jobs : job[j].mine => job[j].version = round.versions[job[j].task]
    /\ phase = "idle" => /\ answers = NoAnswers
                         /\ \A j \in Jobs : ~job[j].mine

SlotsInv == LimitsBounded /\ QueueWaits /\ SlotsCounted /\ NoStrandedWaiter
RoundInv == RoundOwns /\ AnswersAreCurrent
Inv == TypeOK /\ SlotsInv /\ RoundInv

-----------------------------------------------------------------------------
(* The operators *)

\* evaluationLimit returns a limit a job can be granted a slot under.
LEMMA LimitInRange ==
    ASSUME NEW cap \in Caps
    PROVE  LimitOf(cap) \in 1 .. Concurrency
BY EvaluatorAssumption DEF LimitOf

\* The parts of the type invariant the semaphore rests on, and the finiteness
\* of the set the slots are counted in.
LEMMA SlotTypes ==
    ASSUME TypeOK
    PROVE  /\ job \in [Jobs -> {NoJob} \union Job]
           /\ waiters \in Seq(Jobs) /\ active \in Nat
           /\ IsFiniteSet(Jobs) /\ IsFiniteSet(Calls)
<1>1. Calls \in SUBSET Jobs
  BY DEF Calls
<1> QED BY <1>1, EvaluatorAssumption, FS_Subset DEF TypeOK

\* A job that is not off is a call with a task and a version.
LEMMA LiveJob ==
    ASSUME TypeOK, NEW j \in Jobs, job[j].at # "off"
    PROVE  job[j] \in Job
BY DEF TypeOK, NoJob

\* The first waiter is a waiting job, and the others stay behind it.
LEMMA Dequeue ==
    ASSUME TypeOK, QueueWaits, waiters # <<>>
    PROVE  /\ Head(waiters) \in Jobs /\ job[Head(waiters)].at = "waiting"
           /\ Tail(waiters) \in Seq(Jobs)
           /\ \A m \in 1 .. Len(Tail(waiters)) :
                /\ Tail(waiters)[m] # Head(waiters)
                /\ Tail(waiters)[m] \in Jobs
                /\ job[Tail(waiters)[m]].at = "waiting"
           /\ \A m, n \in 1 .. Len(Tail(waiters)) :
                Tail(waiters)[m] = Tail(waiters)[n] => m = n
<1>1. waiters \in Seq(Jobs)
  BY DEF TypeOK
<1>2. /\ Tail(waiters) \in Seq(Jobs)
      /\ Len(Tail(waiters)) = Len(waiters) - 1
      /\ \A i \in 1 .. Len(Tail(waiters)) : Tail(waiters)[i] = waiters[i+1]
  BY <1>1, HeadTailProperties
<1>3. Head(waiters) = waiters[1] /\ Len(waiters) \in Nat \ {0}
  BY <1>1
<1>4. 1 \in 1 .. Len(waiters)
  BY <1>3
<1>5. \A m \in 1 .. Len(Tail(waiters)) :
        m \in Nat /\ m + 1 \in 1 .. Len(waiters) /\ m + 1 # 1
  BY <1>2, <1>3
<1>6. \A m \in 1 .. Len(waiters) : waiters[m] \in Jobs
  BY <1>1, ElementOfSeq
<1> QED BY <1>2, <1>3, <1>4, <1>5, <1>6 DEF QueueWaits

\* A job that was not in the queue goes to its end.
LEMMA Enqueue ==
    ASSUME TypeOK, NEW j \in Jobs, QueueWaits, job[j].at # "waiting"
    PROVE  /\ Append(waiters, j) \in Seq(Jobs)
           /\ Append(waiters, j) # <<>>
           /\ \A m \in 1 .. Len(Append(waiters, j)) :
                \/ Append(waiters, j)[m] = j
                \/ /\ Append(waiters, j)[m] \in Jobs
                   /\ Append(waiters, j)[m] # j
                   /\ job[Append(waiters, j)[m]].at = "waiting"
           /\ \A m, n \in 1 .. Len(Append(waiters, j)) :
                Append(waiters, j)[m] = Append(waiters, j)[n] => m = n
<1>1. waiters \in Seq(Jobs)
  BY DEF TypeOK
<1> DEFINE q == Append(waiters, j)
<1>2. /\ q \in Seq(Jobs) /\ q # <<>> /\ Len(q) = Len(waiters) + 1
      /\ \A i \in 1 .. Len(waiters) : q[i] = waiters[i]
      /\ q[Len(waiters) + 1] = j
  BY <1>1, AppendProperties
<1>3. Len(waiters) \in Nat
  BY <1>1
<1>4. \A m \in 1 .. Len(waiters) :
        /\ q[m] = waiters[m] /\ waiters[m] \in Jobs
        /\ waiters[m] # j /\ job[waiters[m]].at = "waiting"
  BY <1>1, <1>2, ElementOfSeq DEF QueueWaits
<1>5. \A m \in 1 .. Len(q) : m \in 1 .. Len(waiters) \/ m = Len(waiters) + 1
  BY <1>2, <1>3
<1>6. \A m, n \in 1 .. Len(q) : q[m] = q[n] => m = n
  BY <1>2, <1>4, <1>5 DEF QueueWaits
<1> HIDE DEF q
<1>7. \A m \in 1 .. Len(q) : q[m] = j \/ (q[m] \in Jobs /\ q[m] # j /\ job[q[m]].at = "waiting")
  BY <1>2, <1>4, <1>5
<1> QED BY <1>2, <1>6, <1>7 DEF q

-----------------------------------------------------------------------------
(* The semaphore *)

\* Taking a slot: a job that held none is granted one under its limit.
LEMMA Taking ==
    ASSUME TypeOK, SlotsInv, NEW j \in Jobs, NEW new \in Job,
           job[j].at \in {"off", "woken"}, new.at = "granted",
           job' = [job EXCEPT ![j] = new],
           active < Concurrency, active' = active + 1, waiters' = waiters
    PROVE  QueueWaits' /\ SlotsCounted' /\ NoStrandedWaiter'
<1>1. /\ job \in [Jobs -> {NoJob} \union Job]
      /\ waiters \in Seq(Jobs) /\ active \in Nat /\ IsFiniteSet(Calls)
  BY SlotTypes
<1>2. \A k \in Jobs : job'[k] = IF k = j THEN new ELSE job[k]
  BY <1>1
<1>3. QueueWaits'
  <2>1. \A m \in 1 .. Len(waiters) : waiters[m] \in Jobs /\ waiters[m] # j
    BY <1>1, ElementOfSeq DEF SlotsInv, QueueWaits
  <2> QED BY <1>2, <2>1 DEF SlotsInv, QueueWaits
<1>4. SlotsCounted'
  <2>1. Calls' = Calls \union {j} /\ j \notin Calls
    BY <1>1, <1>2 DEF Calls
  <2>2. Cardinality(Calls') = Cardinality(Calls) + 1
    BY <1>1, <2>1, FS_AddElement
  <2> QED BY <1>1, <2>2, EvaluatorAssumption DEF SlotsInv, SlotsCounted
<1>5. NoStrandedWaiter'
  BY <1>1 DEF NoStrandedWaiter
<1> QED BY <1>3, <1>4, <1>5

\* Waiting: a job that finds its limit reached goes to the end of the queue.
LEMMA WaitingAgain ==
    ASSUME TypeOK, SlotsInv, NEW j \in Jobs, NEW new \in Job,
           job[j].at \in {"off", "woken"}, new.at = "waiting",
           job' = [job EXCEPT ![j] = new],
           active > 0, active' = active, waiters' = Append(waiters, j)
    PROVE  QueueWaits' /\ SlotsCounted' /\ NoStrandedWaiter'
<1>1. /\ job \in [Jobs -> {NoJob} \union Job]
      /\ waiters \in Seq(Jobs) /\ active \in Nat /\ IsFiniteSet(Calls)
  BY SlotTypes
<1>2. \A k \in Jobs : job'[k] = IF k = j THEN new ELSE job[k]
  BY <1>1
<1>3. QueueWaits'
  BY <1>2, Enqueue DEF SlotsInv, QueueWaits
<1>4. SlotsCounted'
  <2>1. Calls' = Calls
    BY <1>1, <1>2 DEF Calls
  <2> QED BY <2>1 DEF SlotsInv, SlotsCounted
<1> QED BY <1>3, <1>4 DEF NoStrandedWaiter

\* Releasing: the slot is counted off, and a waiter is woken if there is one.
LEMMA Releasing ==
    ASSUME TypeOK, SlotsInv, NEW j \in Calls, Release(j)
    PROVE  /\ job' \in [Jobs -> {NoJob} \union Job]
           /\ waiters' \in Seq(Jobs) /\ active' \in Nat
           /\ QueueWaits' /\ SlotsCounted' /\ NoStrandedWaiter'
           /\ job'[j] = NoJob
           /\ \A k \in Jobs \ {j} :
                job'[k] = job[k] \/ /\ job'[k] = [job[k] EXCEPT !.at = "woken"]
                                    /\ job[k].at = "waiting"
<1>1. /\ job \in [Jobs -> {NoJob} \union Job]
      /\ waiters \in Seq(Jobs) /\ active \in Nat /\ IsFiniteSet(Calls)
  BY SlotTypes
<1>2. j \in Jobs /\ job[j].at \in {"granted", "calling"}
  BY DEF Calls
<1>3. Cardinality(Calls \ {j}) = Cardinality(Calls) - 1
  BY <1>1, FS_RemoveElement
<1>4. Cardinality(Calls \ {j}) \in Nat
  BY <1>1, FS_RemoveElement, FS_CardinalityType
<1>5. active' \in Nat /\ active' = Cardinality(Calls \ {j}) /\ active' <= Concurrency
  BY <1>1, <1>3, <1>4, EvaluatorAssumption DEF Release, SlotsInv, SlotsCounted
<1>6. CASE waiters = <<>>
  <2>1. waiters' = waiters /\ job' = [job EXCEPT ![j] = NoJob]
    BY <1>6 DEF Release
  <2>2. \A k \in Jobs : job'[k] = IF k = j THEN NoJob ELSE job[k]
    BY <1>1, <2>1
  <2>3. Calls' = Calls \ {j}
    BY <1>2, <2>2 DEF Calls, NoJob
  <2>4. QueueWaits'
    BY <1>6, <2>1 DEF QueueWaits
  <2> QED BY <1>1, <1>2, <1>5, <1>6, <2>1, <2>2, <2>3, <2>4
          DEF SlotsCounted, NoStrandedWaiter
<1>7. CASE waiters # <<>>
  <2> DEFINE h == Head(waiters)
  <2>1. /\ h \in Jobs /\ job[h].at = "waiting"
        /\ Tail(waiters) \in Seq(Jobs)
        /\ \A m \in 1 .. Len(Tail(waiters)) :
             /\ Tail(waiters)[m] # h /\ Tail(waiters)[m] \in Jobs
             /\ job[Tail(waiters)[m]].at = "waiting"
        /\ \A m, n \in 1 .. Len(Tail(waiters)) :
             Tail(waiters)[m] = Tail(waiters)[n] => m = n
    BY <1>7, Dequeue DEF SlotsInv
  <2>2. waiters' = Tail(waiters)
        /\ job' = [job EXCEPT ![j] = NoJob,
                                ![h] = [job[h] EXCEPT !.at = "woken"]]
    BY <1>7 DEF Release
  <2> HIDE DEF h
  <2>3. h # j
    BY <1>2, <2>1
  <2>4. \A k \in Jobs : job'[k] = CASE k = j -> NoJob
                                   [] k = h -> [job[h] EXCEPT !.at = "woken"]
                                   [] OTHER -> job[k]
    BY <1>1, <1>2, <2>1, <2>2, <2>3
  <2>5. [job[h] EXCEPT !.at = "woken"] \in Job
    <3>1. job[h] \in Job
      BY <2>1, LiveJob
    <3> QED BY <3>1 DEF Job
  <2>6. job' \in [Jobs -> {NoJob} \union Job]
    BY <1>1, <1>2, <2>1, <2>2, <2>3, <2>4, <2>5
  <2>7. job'[h].at = "woken"
    BY <1>1, <2>1, <2>3, <2>4, <2>5, LiveJob DEF Job
  <2>8. Calls' = Calls \ {j}
    BY <1>2, <2>1, <2>3, <2>4, <2>7 DEF Calls, NoJob
  <2>9. QueueWaits'
    <3>1. \A m \in 1 .. Len(waiters') :
            waiters'[m] \in Jobs \ {j, h} /\ job[waiters'[m]].at = "waiting"
      BY <1>2, <2>1, <2>2
    <3>2. \A m \in 1 .. Len(waiters') : job'[waiters'[m]].at = "waiting"
      BY <3>1, <2>4
    <3> QED BY <3>2, <2>1, <2>2 DEF QueueWaits
  <2>10. NoStrandedWaiter'
    BY <2>1, <2>7 DEF NoStrandedWaiter
  <2> QED BY <1>2, <1>5, <2>1, <2>2, <2>3, <2>4, <2>6, <2>8, <2>9, <2>10
          DEF SlotsCounted
<1> QED BY <1>6, <1>7

-----------------------------------------------------------------------------
(* The steps *)

\* The name of a new job is the name of no other.
LEMMA FreshIdle ==
    ASSUME Idle # {}
    PROVE  Fresh \in Jobs /\ job[Fresh].at = "off"
BY DEF Idle, Fresh

\* A job that ends leaves every other job as it was, or awake, and gives its
\* round an evaluation of the version the round listed.
LEMMA Ending ==
    ASSUME Inv, NEW j \in Calls, Ends(j, job[j].version),
           cache' \in [Tasks -> Nat \union {Nothing}],
           timeouts' \in Nat, open' \in BOOLEAN
    PROVE  Inv'
<1> USE DEF Ends
<1>1. TypeOK /\ SlotsInv /\ RoundInv /\ Release(j)
  BY DEF Inv
<1>2. j \in Jobs /\ job[j].at # "off"
  BY DEF Calls
<1>3. job[j] \in Job
  BY <1>1, <1>2, LiveJob
<1>4. /\ job' \in [Jobs -> {NoJob} \union Job]
      /\ waiters' \in Seq(Jobs) /\ active' \in Nat
      /\ QueueWaits' /\ SlotsCounted' /\ NoStrandedWaiter'
      /\ job'[j] = NoJob
      /\ \A k \in Jobs \ {j} :
           job'[k] = job[k] \/ /\ job'[k] = [job[k] EXCEPT !.at = "woken"]
                               /\ job[k].at = "waiting"
  BY <1>1, Releasing
<1>5. \A k \in Jobs \ {j} :
        /\ job'[k].mine = job[k].mine /\ job'[k].version = job[k].version
        /\ job'[k].task = job[k].task /\ job'[k].limit = job[k].limit
        /\ job'[k].at = job[k].at \/ job[k].at = "waiting"
  <2> TAKE k \in Jobs \ {j}
  <2>1. CASE job'[k] = job[k]
    BY <2>1
  <2>2. CASE job'[k] = [job[k] EXCEPT !.at = "woken"] /\ job[k].at = "waiting"
    <3>1. job[k] \in Job
      BY <1>1, <2>2, LiveJob
    <3> QED BY <2>2, <3>1 DEF Job
  <2> QED BY <1>4, <2>1, <2>2
<1>6. TypeOK'
  BY <1>1, <1>3, <1>4 DEF TypeOK, Job
<1>7. LimitsBounded'
  BY <1>1, <1>4, <1>5 DEF SlotsInv, LimitsBounded, NoJob
<1>8. RoundOwns'
  <2>1. \A k \in Jobs : job'[k].mine =>
          job'[k].version = round.versions[job'[k].task] /\ job[k].mine
    BY <1>1, <1>4, <1>5 DEF RoundInv, RoundOwns, NoJob
  <2>2. phase = "idle" => answers' = NoAnswers
    BY <1>1, <1>2 DEF RoundInv, RoundOwns
  <2>3. phase' = phase /\ round' = round
    OBVIOUS
  <2> QED BY <1>1, <2>1, <2>2, <2>3 DEF RoundInv, RoundOwns, NoAnswers
<1>9. AnswersAreCurrent'
  <2>1. job[j].mine => job[j].version = round.versions[job[j].task]
    BY <1>1, <1>2 DEF RoundInv, RoundOwns
  <2> QED BY <1>1, <2>1 DEF RoundInv, AnswersAreCurrent, TypeOK
<1> QED BY <1>4, <1>6, <1>7, <1>8, <1>9 DEF Inv, SlotsInv, RoundInv

\* A round starts, skipped or launched, with no answer and no job of its own.
LEMMA RoundStep ==
    ASSUME Inv, NEW inputs \in SUBSET Tasks
    PROVE  /\ SkipRound(inputs) => Inv'
           /\ \A cap \in Caps : StartRound(inputs, cap) => Inv'
<1> USE DEF Inv
<1>1. ASSUME SkipRound(inputs)
      PROVE  Inv'
  <2> USE <1>1 DEF SkipRound
  <2>1. TypeOK'
    BY DEF TypeOK, Hit, Fallback, Nothing, breaker
  <2>2. SlotsInv'
    BY DEF SlotsInv, LimitsBounded, QueueWaits, SlotsCounted,
           NoStrandedWaiter, Calls
  <2>3. RoundOwns'
    BY DEF RoundInv, RoundOwns
  <2>4. AnswersAreCurrent'
    <3>1. \A t \in Tasks : answers'[t] \in {Nothing, Fallback, version[t]}
      BY DEF Hit
    <3>2. round'.versions = version
      OBVIOUS
    <3> QED BY <3>1, <3>2 DEF AnswersAreCurrent
  <2> QED BY <2>1, <2>2, <2>3, <2>4 DEF RoundInv
<1>2. ASSUME NEW cap \in Caps, StartRound(inputs, cap)
      PROVE  Inv'
  <2> USE <1>2 DEF StartRound
  <2>1. LimitOf(cap) \in 1 .. Concurrency /\ Concurrency \in Nat
    BY LimitInRange, EvaluatorAssumption
  <2>2. TypeOK'
    BY <2>1 DEF TypeOK, breaker
  <2>3. SlotsInv'
    BY <2>1 DEF SlotsInv, LimitsBounded, QueueWaits, SlotsCounted,
                NoStrandedWaiter, Calls
  <2>4. RoundOwns'
    BY DEF RoundInv, RoundOwns
  <2>5. AnswersAreCurrent'
    BY DEF RoundInv, RoundOwns, AnswersAreCurrent, NoAnswers
  <2> QED BY <2>2, <2>3, <2>4, <2>5 DEF RoundInv
<1> QED BY <1>1, <1>2

\* A cached evaluation answers for the version the round listed.
LEMMA CachedStep ==
    ASSUME Inv, NEW t \in Tasks, LaunchCached(t)
    PROVE  Inv'
<1> USE DEF Inv, LaunchCached
<1>1. TypeOK'
  BY DEF TypeOK, Hit, breaker
<1>2. SlotsInv'
  BY DEF SlotsInv, LimitsBounded, QueueWaits, SlotsCounted,
         NoStrandedWaiter, Calls, TypeOK
<1>3. round'.versions = round.versions
  BY DEF TypeOK
<1>4. RoundOwns'
  BY <1>3 DEF RoundInv, RoundOwns
<1>5. AnswersAreCurrent'
  BY <1>3 DEF RoundInv, AnswersAreCurrent, TypeOK, Hit
<1> QED BY <1>1, <1>2, <1>4, <1>5 DEF RoundInv

\* A launched evaluation takes a slot under the round's limit, or waits, and
\* is of the version the round listed.
LEMMA LaunchStep ==
    ASSUME Inv, NEW t \in Tasks, Launch(t)
    PROVE  Inv'
<1> DEFINE new(s, n) == [at |-> s, task |-> t, version |-> round.versions[t],
                         limit |-> n, mine |-> TRUE]
<1>1. /\ phase = "launch" /\ phase' = "launch"
      /\ round' = [round EXCEPT !.todo = @ \ {t}]
      /\ UNCHANGED <<version, cache, breaker, answers, changes>>
  BY DEF Launch
<1>2. TypeOK /\ SlotsInv /\ RoundInv
  BY DEF Inv
<1>3. Fresh \in Jobs /\ job[Fresh].at = "off"
  BY FreshIdle DEF Launch
<1>4. /\ round.limit \in 1 .. Concurrency /\ round.limit \in Nat
      /\ Concurrency \in Nat /\ active \in Nat
  BY <1>1, <1>2, EvaluatorAssumption DEF SlotsInv, LimitsBounded, TypeOK
<1>5. /\ new("granted", 0) \in Job /\ new("waiting", round.limit) \in Job
      /\ new("waiting", round.limit).limit = round.limit
  BY <1>2, <1>4 DEF TypeOK, Job
<1>6. round'.versions = round.versions /\ round'.limit = round.limit
  BY <1>1, <1>2 DEF TypeOK
<1>7. /\ round' \in [todo : SUBSET Tasks, versions : [Tasks -> Nat], limit : Nat]
      /\ version' \in [Tasks -> Nat \ {0}]
      /\ cache' \in [Tasks -> Nat \union {Nothing}]
      /\ timeouts' \in Nat /\ open' \in BOOLEAN
      /\ answers' \in [Tasks -> Nat \union {Nothing}] /\ changes' \in Nat
  BY <1>1, <1>2 DEF TypeOK, breaker
<1>8. \/ /\ active < round.limit /\ job' = [job EXCEPT ![Fresh] = new("granted", 0)]
         /\ active' = active + 1 /\ waiters' = waiters
      \/ /\ active >= round.limit
         /\ job' = [job EXCEPT ![Fresh] = new("waiting", round.limit)]
         /\ waiters' = Append(waiters, Fresh) /\ active' = active
  BY <1>4 DEF Launch
<1>9. /\ job' \in [Jobs -> {NoJob} \union Job] /\ waiters' \in Seq(Jobs)
      /\ active' \in Nat
      /\ QueueWaits' /\ SlotsCounted' /\ NoStrandedWaiter'
      /\ \A k \in Jobs \ {Fresh} : job'[k] = job[k]
      /\ job'[Fresh] \in Job /\ job'[Fresh].version = round.versions[t]
      /\ job'[Fresh].task = t
      /\ job'[Fresh].at = "waiting" => job'[Fresh].limit = round.limit
      /\ job'[Fresh].at \in {"granted", "waiting"}
  <2> HIDE DEF new
  <2>1. job \in [Jobs -> {NoJob} \union Job] /\ waiters \in Seq(Jobs)
    BY <1>2 DEF TypeOK
  <2>2. /\ new("granted", 0).at = "granted" /\ new("waiting", round.limit).at = "waiting"
        /\ \A s \in {"granted", "waiting"}, n \in {0, round.limit} :
             new(s, n).version = round.versions[t] /\ new(s, n).task = t
    BY DEF new
  <2>3. CASE /\ active < round.limit
             /\ job' = [job EXCEPT ![Fresh] = new("granted", 0)]
             /\ active' = active + 1 /\ waiters' = waiters
    <3>1. QueueWaits' /\ SlotsCounted' /\ NoStrandedWaiter'
      <4>1. /\ job[Fresh].at \in {"off", "woken"} /\ active < Concurrency
            /\ new("granted", 0) \in Job /\ new("granted", 0).at = "granted"
        BY <1>3, <1>4, <1>5, <2>2, <2>3
      <4> QED BY <1>2, <1>3, <2>3, <4>1, Taking
    <3> QED BY <1>3, <1>4, <1>5, <2>1, <2>2, <2>3, <3>1
  <2>4. CASE /\ active >= round.limit
             /\ job' = [job EXCEPT ![Fresh] = new("waiting", round.limit)]
             /\ waiters' = Append(waiters, Fresh) /\ active' = active
    <3>1. QueueWaits' /\ SlotsCounted' /\ NoStrandedWaiter'
      <4>1. /\ job[Fresh].at \in {"off", "woken"} /\ active > 0
            /\ new("waiting", round.limit) \in Job
            /\ new("waiting", round.limit).at = "waiting"
        BY <1>3, <1>4, <1>5, <2>2, <2>4
      <4> QED BY <1>2, <1>3, <2>4, <4>1, WaitingAgain
    <3> QED BY <1>3, <1>4, <1>5, <2>1, <2>2, <2>4, <3>1
  <2> QED BY <1>8, <2>3, <2>4
<1>10. TypeOK'
  BY <1>1, <1>7, <1>9 DEF TypeOK
<1>11. LimitsBounded'
  BY <1>2, <1>4, <1>6, <1>9 DEF SlotsInv, LimitsBounded
<1>12. RoundOwns'
  BY <1>1, <1>2, <1>6, <1>9 DEF RoundInv, RoundOwns
<1>13. AnswersAreCurrent'
  BY <1>1, <1>2, <1>6 DEF RoundInv, AnswersAreCurrent
<1> QED BY <1>9, <1>10, <1>11, <1>12, <1>13 DEF Inv, SlotsInv, RoundInv

\* The round waits once all its evaluations are launched.
LEMMA LaunchedStep ==
    ASSUME Inv, Launched
    PROVE  Inv'
<1> USE DEF Inv, Launched
<1>1. round'.versions = round.versions
  BY DEF TypeOK
<1>2. TypeOK'
  BY DEF TypeOK, breaker
<1>3. SlotsInv'
  BY DEF SlotsInv, LimitsBounded, QueueWaits, SlotsCounted,
         NoStrandedWaiter, Calls
<1>4. RoundOwns'
  BY <1>1 DEF RoundInv, RoundOwns
<1>5. AnswersAreCurrent'
  BY <1>1 DEF RoundInv, AnswersAreCurrent
<1> QED BY <1>2, <1>3, <1>4, <1>5 DEF RoundInv

\* A round that returns leaves its jobs to the background, each where it was.
LEMMA RoundEndsStep ==
    ASSUME Inv, RoundEnds
    PROVE  Inv'
<1> USE DEF Inv, RoundEnds
<1>1. job \in [Jobs -> {NoJob} \union Job]
  BY DEF TypeOK
<1>2. \A k \in Jobs : /\ job'[k] \in {NoJob} \union Job /\ ~job'[k].mine
                      /\ job'[k].at = job[k].at /\ job'[k].limit = job[k].limit
  <2> TAKE k \in Jobs
  <2>1. CASE ~job[k].mine
    BY <1>1, <2>1
  <2>2. CASE job[k].mine
    <3>1. job[k] \in Job
      BY <1>1, <2>2 DEF NoJob
    <3> QED BY <2>2, <3>1 DEF Job
  <2> QED BY <2>1, <2>2
<1>3. job' \in [Jobs -> {NoJob} \union Job]
  BY <1>2
<1>4. TypeOK'
  BY <1>3 DEF TypeOK, NoRound, NoAnswers, Nothing, breaker
<1>5. Calls' = Calls
  BY <1>2 DEF Calls
<1>6. \A m \in 1 .. Len(waiters) : waiters[m] \in Jobs
  BY ElementOfSeq DEF TypeOK
<1>7. QueueWaits'
  BY <1>2, <1>6 DEF SlotsInv, QueueWaits
<1>8. LimitsBounded' /\ SlotsCounted' /\ NoStrandedWaiter'
  BY <1>2, <1>5 DEF SlotsInv, LimitsBounded, SlotsCounted, NoStrandedWaiter
<1>9. RoundOwns'
  BY <1>2 DEF RoundOwns
<1>10. AnswersAreCurrent'
  BY DEF AnswersAreCurrent, NoAnswers
<1> QED BY <1>4, <1>7, <1>8, <1>9, <1>10 DEF SlotsInv, RoundInv

\* A woken job takes a slot under its own limit, or waits again.
LEMMA ResumeStep ==
    ASSUME Inv, NEW j \in Jobs, Resume(j)
    PROVE  Inv'
<1> DEFINE taken == [job[j] EXCEPT !.at = "granted", !.limit = 0]
           again == [job[j] EXCEPT !.at = "waiting"]
<1>1. /\ job[j].at = "woken"
      /\ UNCHANGED <<version, cache, breaker, phase, round, answers, changes>>
  BY DEF Resume
<1>2. TypeOK /\ SlotsInv /\ RoundInv
  BY DEF Inv
<1>3. job[j] \in Job
  BY <1>1, <1>2, LiveJob
<1>4. /\ taken \in Job /\ taken.at = "granted" /\ taken.mine = job[j].mine
      /\ taken.task = job[j].task /\ taken.version = job[j].version
  BY <1>3 DEF Job
<1>5. /\ again \in Job /\ again.at = "waiting" /\ again.mine = job[j].mine
      /\ again.task = job[j].task /\ again.version = job[j].version
      /\ again.limit = job[j].limit
  BY <1>3 DEF Job
<1>6. /\ job[j].limit \in 1 .. Concurrency /\ Concurrency \in Nat
      /\ active \in Nat
  BY <1>1, <1>2, EvaluatorAssumption DEF SlotsInv, LimitsBounded, TypeOK
<1>7. \/ /\ active < job[j].limit /\ job' = [job EXCEPT ![j] = taken]
         /\ active' = active + 1 /\ waiters' = waiters
      \/ /\ active >= job[j].limit /\ job' = [job EXCEPT ![j] = again]
         /\ waiters' = Append(waiters, j) /\ active' = active
  BY <1>6 DEF Resume
<1>8. /\ job' \in [Jobs -> {NoJob} \union Job] /\ waiters' \in Seq(Jobs)
      /\ active' \in Nat
      /\ QueueWaits' /\ SlotsCounted' /\ NoStrandedWaiter'
      /\ \A k \in Jobs \ {j} : job'[k] = job[k]
      /\ job'[j].mine = job[j].mine /\ job'[j].version = job[j].version
      /\ job'[j].task = job[j].task
      /\ job'[j].at = "granted" \/ job'[j].limit = job[j].limit
  <2> HIDE DEF taken, again
  <2>1. job \in [Jobs -> {NoJob} \union Job] /\ waiters \in Seq(Jobs)
    BY <1>2 DEF TypeOK
  <2>2. CASE /\ active < job[j].limit /\ job' = [job EXCEPT ![j] = taken]
             /\ active' = active + 1 /\ waiters' = waiters
    <3>1. QueueWaits' /\ SlotsCounted' /\ NoStrandedWaiter'
      <4>1. job[j].at \in {"off", "woken"} /\ active < Concurrency
        BY <1>1, <1>6, <2>2
      <4> QED BY <1>2, <1>4, <2>2, <4>1, Taking
    <3> QED BY <1>4, <1>6, <2>1, <2>2, <3>1
  <2>3. CASE /\ active >= job[j].limit /\ job' = [job EXCEPT ![j] = again]
             /\ waiters' = Append(waiters, j) /\ active' = active
    <3>1. QueueWaits' /\ SlotsCounted' /\ NoStrandedWaiter'
      <4>1. job[j].at \in {"off", "woken"} /\ active > 0
        BY <1>1, <1>6, <2>3
      <4> QED BY <1>2, <1>5, <2>3, <4>1, WaitingAgain
    <3> QED BY <1>5, <1>6, <2>1, <2>3, <3>1
  <2> QED BY <1>7, <2>2, <2>3
<1>9. TypeOK'
  BY <1>1, <1>2, <1>8 DEF TypeOK, breaker
<1>10. LimitsBounded'
  BY <1>1, <1>2, <1>6, <1>8 DEF SlotsInv, LimitsBounded
<1>11. RoundOwns'
  BY <1>1, <1>2, <1>8 DEF RoundInv, RoundOwns
<1>12. AnswersAreCurrent'
  BY <1>1, <1>2 DEF RoundInv, AnswersAreCurrent
<1> QED BY <1>8, <1>9, <1>10, <1>11, <1>12 DEF Inv, SlotsInv, RoundInv

\* A job with its slot finds an evaluation of its version, or calls the model.
LEMMA GrantedStep ==
    ASSUME Inv, NEW j \in Jobs, Granted(j)
    PROVE  Inv'
<1>1. TypeOK /\ SlotsInv /\ RoundInv
  BY DEF Inv
<1>2. job[j].at = "granted" /\ j \in Calls
  BY DEF Granted, Calls
<1>3. job[j] \in Job
  BY <1>1, <1>2, LiveJob
<1>4. /\ cache' \in [Tasks -> Nat \union {Nothing}]
      /\ timeouts' \in Nat /\ open' \in BOOLEAN
  BY <1>1 DEF Granted, TypeOK, breaker
<1>5. CASE /\ Hit(job[j].task, job[j].version)
           /\ Ends(j, cache[job[j].task])
  BY <1>2, <1>4, <1>5, Ending DEF Hit
<1>6. CASE /\ job' = [job EXCEPT ![j].at = "calling"]
           /\ UNCHANGED <<version, waiters, active, phase, round, answers,
                          changes>>
  <2>1. \A k \in Jobs : job'[k] = IF k = j THEN [job[j] EXCEPT !.at = "calling"]
                                  ELSE job[k]
    BY <1>1, <1>6 DEF TypeOK
  <2>2. /\ job'[j] \in Job /\ job'[j].at = "calling"
        /\ job'[j].mine = job[j].mine /\ job'[j].version = job[j].version
        /\ job'[j].task = job[j].task
    BY <1>3, <2>1 DEF Job
  <2>3. \A k \in Jobs \ {j} : job'[k] = job[k]
    BY <2>1
  <2>4. job' \in [Jobs -> {NoJob} \union Job]
    BY <1>1, <1>6, <2>2, <2>3 DEF TypeOK
  <2>5. TypeOK'
    BY <1>1, <1>4, <1>6, <2>4 DEF TypeOK
  <2>6. Calls' = Calls
    BY <1>2, <2>2, <2>3 DEF Calls
  <2>7. QueueWaits'
    <3>1. \A m \in 1 .. Len(waiters) : waiters[m] \in Jobs \ {j}
      BY <1>1, <1>2, ElementOfSeq DEF TypeOK, SlotsInv, QueueWaits
    <3> QED BY <1>1, <1>6, <2>3, <3>1 DEF SlotsInv, QueueWaits
  <2>8. LimitsBounded' /\ SlotsCounted' /\ NoStrandedWaiter'
    BY <1>1, <1>2, <1>6, <2>2, <2>3, <2>6
       DEF SlotsInv, LimitsBounded, SlotsCounted, NoStrandedWaiter
  <2>9. RoundOwns' /\ AnswersAreCurrent'
    BY <1>1, <1>6, <2>2, <2>3 DEF RoundInv, RoundOwns, AnswersAreCurrent
  <2> QED BY <2>5, <2>7, <2>8, <2>9 DEF Inv, SlotsInv, RoundInv
<1> QED BY <1>5, <1>6 DEF Granted

\* A call that ends, with an evaluation, an error or a timeout, fills the
\* cache and frees its slot.
LEMMA CallEndsStep ==
    ASSUME Inv, NEW j \in Jobs, Answered(j) \/ TimesOut(j)
    PROVE  Inv'
<1>1. TypeOK /\ j \in Calls /\ job[j].at # "off"
  BY DEF Answered, TimesOut, Inv, Calls
<1>2. job[j] \in Job
  BY <1>1, LiveJob
<1>3. cache' \in [Tasks -> Nat \union {Nothing}]
  BY <1>1, <1>2 DEF Answered, TimesOut, Store, TypeOK, Job
<1>4. timeouts' \in Nat /\ open' \in BOOLEAN
  <2>1. timeouts' \in {0, timeouts, timeouts + 1} /\ (open' = open \/ open')
    BY DEF Answered, TimesOut
  <2>2. timeouts \in Nat /\ open \in BOOLEAN
    BY <1>1 DEF TypeOK
  <2>3. timeouts' \in Nat
    BY <2>1, <2>2
  <2>4. open' \in BOOLEAN
    BY <2>2, Zenon DEF Answered, TimesOut
  <2> QED BY <2>3, <2>4
<1>5. Ends(j, job[j].version)
  BY DEF Answered, TimesOut
<1> QED BY <1>1, <1>3, <1>4, <1>5, Ending

\* Time and users touch neither the slots nor what a round listed.
LEMMA OutsideStep ==
    ASSUME Inv, Cooldown \/ \E t \in Tasks : Update(t) \/ Evict(t)
    PROVE  Inv'
<1>1. UNCHANGED <<job, waiters, active, phase, round, answers>>
  BY DEF Cooldown, Update, Evict
<1>2. TypeOK'
  <2>1. TypeOK
    BY DEF Inv
  <2>2. CASE Cooldown
    BY <2>1, <2>2 DEF TypeOK, Cooldown
  <2>3. CASE \E t \in Tasks : Update(t)
    <3>1. PICK t \in Tasks : Update(t)
      BY <2>3
    <3>2. version' \in [Tasks -> Nat \ {0}] /\ changes' \in Nat
      BY <2>1, <3>1 DEF TypeOK, Update
    <3> QED BY <2>1, <3>1, <3>2 DEF TypeOK, Update, breaker
  <2>4. CASE \E t \in Tasks : Evict(t)
    <3>1. PICK t \in Tasks : Evict(t)
      BY <2>4
    <3>2. cache' \in [Tasks -> Nat \union {Nothing}] /\ changes' \in Nat
      BY <2>1, <3>1 DEF TypeOK, Evict
    <3> QED BY <2>1, <3>1, <3>2 DEF TypeOK, Evict, breaker
  <2> QED BY <2>2, <2>3, <2>4
<1>3. SlotsInv'
  BY <1>1 DEF Inv, SlotsInv, LimitsBounded, QueueWaits, SlotsCounted,
              NoStrandedWaiter, Calls
<1>4. RoundInv'
  BY <1>1 DEF Inv, RoundInv, RoundOwns, AnswersAreCurrent
<1> QED BY <1>2, <1>3, <1>4 DEF Inv

-----------------------------------------------------------------------------
(* The theorems *)

\* The evaluator starts with free slots and an empty queue.
LEMMA InitInv == Init => Inv
<1> SUFFICES ASSUME Init PROVE Inv
  OBVIOUS
<1>1. TypeOK
  <2>1. /\ version \in [Tasks -> Nat \ {0}]
        /\ cache \in [Tasks -> Nat \union {Nothing}]
        /\ answers \in [Tasks -> Nat \union {Nothing}]
    BY DEF Init, NoAnswers
  <2>2. job \in [Jobs -> {NoJob} \union Job] /\ waiters \in Seq(Jobs)
    BY DEF Init
  <2>3. round \in [todo : SUBSET Tasks, versions : [Tasks -> Nat], limit : Nat]
    BY DEF Init, NoRound
  <2> QED BY <2>1, <2>2, <2>3 DEF Init, TypeOK
<1>2. Calls = {} /\ Concurrency \in Nat
  BY EvaluatorAssumption DEF Init, Calls, NoJob
<1>3. SlotsInv
  BY <1>2, FS_EmptySet
     DEF Init, SlotsInv, LimitsBounded, QueueWaits, SlotsCounted,
         NoStrandedWaiter, NoJob
<1>4. RoundInv
  BY DEF Init, RoundInv, RoundOwns, AnswersAreCurrent, NoAnswers, NoJob
<1> QED BY <1>1, <1>3, <1>4 DEF Inv

\* Every step of a round, of a job, of time or of a user keeps the invariant.
LEMMA StepInv == Inv /\ [Next]_vars => Inv'
<1> SUFFICES ASSUME Inv, [Next]_vars PROVE Inv'
  OBVIOUS
<1>1. ASSUME NEW inputs \in SUBSET Tasks,
             SkipRound(inputs) \/ \E cap \in Caps : StartRound(inputs, cap)
      PROVE  Inv'
  BY <1>1, RoundStep
<1>2. CASE RunRound
  BY <1>2, CachedStep, LaunchStep, LaunchedStep, RoundEndsStep DEF RunRound
<1>3. CASE \E j \in Jobs : RunJob(j)
  BY <1>3, ResumeStep, GrantedStep, CallEndsStep DEF RunJob
<1>4. CASE Cooldown \/ \E t \in Tasks : Update(t) \/ Evict(t)
  BY <1>4, OutsideStep
<1>5. CASE UNCHANGED vars
  BY <1>5 DEF vars, breaker, Inv, TypeOK, SlotsInv, LimitsBounded, QueueWaits,
              SlotsCounted, NoStrandedWaiter, Calls, RoundInv, RoundOwns,
              AnswersAreCurrent
<1> QED BY <1>1, <1>2, <1>3, <1>4, <1>5 DEF Next

\* The inductive invariant holds in every reachable state.
THEOREM Invariance == Spec => []Inv
BY InitInv, StepInv, PTL DEF Spec

\* Every variable keeps its type: the count of the slots never goes below
\* zero (release), and what is queued are jobs.
THEOREM TypeCorrect == Spec => []TypeOK
<1>1. Inv => TypeOK
  BY DEF Inv
<1> QED BY Invariance, <1>1, PTL

\* The evaluations in progress never exceed the configured concurrency, for
\* any number of tasks, jobs and overlapping rounds (acquire, release).
THEOREM ConcurrencyBounded == Spec => []WithinConcurrency
<1>1. Inv => WithinConcurrency
  BY DEF Inv, SlotsInv, SlotsCounted, WithinConcurrency
<1> QED BY Invariance, <1>1, PTL

\* No wake-up is lost: a waiting job always has a slot to wait for, or a woken
\* job ahead of it, for any mix of limits in the queue (acquire, release).
THEOREM NoLostWakeUp == Spec => []NoStrandedWaiter
<1>1. Inv => NoStrandedWaiter
  BY DEF Inv, SlotsInv
<1> QED BY Invariance, <1>1, PTL

\* A round gets only evaluations of the versions it listed, whatever the jobs
\* of older rounds leave in the cache (evaluateTask, cachedEvaluation).
THEOREM AnswersCurrent == Spec => []AnswersAreCurrent
<1>1. Inv => AnswersAreCurrent
  BY DEF Inv, RoundInv
<1> QED BY Invariance, <1>1, PTL
=============================================================================
