-------------------------- MODULE SchedulerProofs --------------------------
(***************************************************************************)
(* Proofs about Scheduler.tla, for any number of tasks, keys, descriptions *)
(* and evaluations: its types; that no two running tasks share a conflict  *)
(* key; that a round starts only what fits the budget it read; and that    *)
(* the walk leaves behind only what cannot be picked.                      *)
(*                                                                         *)
(* The load is a fold over a set in the order CHOOSE takes it in.  That it *)
(* is a sum (IsSum), and so grows with each pick, is proved by looking at  *)
(* a smallest set on which the fold and the sum would differ.              *)
(***************************************************************************)
EXTENDS Scheduler, FiniteSetTheorems, TLAPS

USE DEF MinWeight, MaxWeight, DefaultWeight, Slot

\* The tasks the walk has admitted share no key with each other, nor with
\* any task that still runs.
PicksSeparate ==
    /\ \A t, u \in Tasks : t # u => picks[t].keys \intersect picks[u].keys = {}
    /\ \A t, u \in Tasks : picks[t].keys \intersect running[u].keys = {}

\* The second walk starts from nothing and admits weights of the scale only,
\* unlike the first, which counts the hints as they are written.
PicksInScale ==
    /\ phase = "evaluate" => picks = ForAll(Off)
    /\ phase = "select" => picks \in [Tasks -> {Off} \union RunningTask]

Inv == TypeOK /\ ConflictFree /\ PicksSeparate /\ PicksInScale

-----------------------------------------------------------------------------
(* The operators *)

\* clampWeight returns a weight of the scale.
LEMMA ClampedInScale ==
    ASSUME NEW w \in Int
    PROVE  Clamped(w) \in MinWeight .. MaxWeight
BY DEF Clamped

\* A description has a hint and keys.
LEMMA DescIsRecord ==
    ASSUME TypeOK, NEW t \in Tasks
    PROVE  desc[t] \in [hinted : BOOLEAN, hint : Int, keys : SUBSET Keys]
<1>1. desc[t] \in Descs \/ desc[t] = Plain
  BY DEF TypeOK
<1>2. Plain \in [hinted : BOOLEAN, hint : Int, keys : SUBSET Keys]
  BY DEF Plain
<1> QED BY <1>1, <1>2, SchedulerAssumption

\* So has an evaluation.
LEMMA AnswerIsRecord ==
    ASSUME TypeOK, NEW t \in Tasks
    PROVE  evals[t] \in [weight : Int, keys : SUBSET Keys]
<1>1. evals[t] \in Answers \/ evals[t] = NoAnswer
  BY DEF TypeOK
<1>2. NoAnswer \in [weight : Int, keys : SUBSET Keys]
  BY DEF NoAnswer
<1> QED BY <1>1, <1>2, SchedulerAssumption

\* The weight and the keys a pick is registered with make a running task.
LEMMA PickIsRunningTask ==
    ASSUME TypeOK, NEW t \in Tasks
    PROVE  On(WeightOf(t), PickKeys(t)) \in RunningTask
<1>1. desc[t] \in [hinted : BOOLEAN, hint : Int, keys : SUBSET Keys]
  BY DescIsRecord
<1>2. evals[t] \in [weight : Int, keys : SUBSET Keys]
  BY AnswerIsRecord
<1>3. WeightOf(t) \in MinWeight .. MaxWeight
  BY <1>1, <1>2, ClampedInScale DEF WeightOf
<1>4. PickKeys(t) \in SUBSET Keys
  BY <1>1, <1>2 DEF PickKeys
<1> QED BY <1>3, <1>4 DEF On, RunningTask

\* So does the simulated admission of the shortlist, without the scale.
LEMMA AssumedIsEntry ==
    ASSUME TypeOK, NEW t \in Tasks
    PROVE  On(AssumedWeight(t), desc[t].keys) \in Entry
<1>1. desc[t] \in [hinted : BOOLEAN, hint : Int, keys : SUBSET Keys]
  BY DescIsRecord
<1>2. AssumedWeight(t) \in Int
  BY <1>1 DEF AssumedWeight
<1> QED BY <1>1, <1>2 DEF On, Entry

\* The entries of an absent and of a running task.
LEMMA OffIsEntry ==
    Off \in Entry /\ Off.keys = {} /\ RunningTask \subseteq Entry
<1>1. Off \in Entry /\ Off.keys = {}
  BY DEF Off, Entry
<1>2. ASSUME NEW e \in RunningTask PROVE e \in Entry
  <2>1. PICK w \in MinWeight .. MaxWeight, ks \in SUBSET Keys :
            e = [on |-> TRUE, weight |-> w, keys |-> ks]
    BY DEF RunningTask
  <2> QED BY <2>1 DEF Entry
<1> QED BY <1>1, <1>2

\* A key nobody claims is in no entry.
LEMMA UnclaimedIsFree ==
    ASSUME NEW ks, ks \intersect Claimed = {}, NEW t \in Tasks
    PROVE  /\ ks \intersect running[t].keys = {}
           /\ ks \intersect picks[t].keys = {}
BY DEF Claimed, KeysOf

-----------------------------------------------------------------------------
(* The steps of the walks *)

\* Admitting a task whose keys are unclaimed keeps the picks separate.
LEMMA AdmitKeepsInv ==
    ASSUME Inv, NEW w, NEW ks, ks \intersect Claimed = {}, Here \in Tasks,
           picks' = [picks EXCEPT ![Here] = On(w, ks)], UNCHANGED running
    PROVE  ConflictFree' /\ PicksSeparate'
<1>1. \A u \in Tasks : /\ ks \intersect running[u].keys = {}
                       /\ ks \intersect picks[u].keys = {}
  BY UnclaimedIsFree
<1>2. \A u \in Tasks : picks'[u] = IF u = Here THEN On(w, ks) ELSE picks[u]
  BY DEF Inv, TypeOK
<1>3. On(w, ks).keys = ks
  BY DEF On
<1>4. ConflictFree'
  BY DEF Inv, ConflictFree
<1>5. PicksSeparate'
  <2>1. ASSUME NEW t \in Tasks, NEW u \in Tasks, t # u
        PROVE  picks'[t].keys \intersect picks'[u].keys = {}
    BY <1>1, <1>2, <1>3, <2>1 DEF Inv, PicksSeparate
  <2>2. ASSUME NEW t \in Tasks, NEW u \in Tasks
        PROVE  picks'[t].keys \intersect running'[u].keys = {}
    BY <1>1, <1>2, <1>3 DEF Inv, PicksSeparate
  <2> QED BY <2>1, <2>2 DEF PicksSeparate
<1> QED BY <1>4, <1>5

\* The candidate of a walk is a task.
LEMMA HereIsTask ==
    ASSUME TypeOK, next \in DOMAIN queue
    PROVE  Here \in Tasks
BY DEF TypeOK, Here

\* An order of the candidates is a sequence of tasks.
LEMMA QueuesAreSequences ==
    ASSUME NEW q \in Queues
    PROVE  q \in Seq(Tasks)
<1>1. PICK n \in 1 .. Cardinality(Tasks \ Members(running)) :
           q \in [1 .. n -> Tasks \ Members(running)]
  BY DEF Queues
<1>2. n \in Nat
  BY <1>1
<1> QED BY <1>1, <1>2

-----------------------------------------------------------------------------
(* The invariant *)

\* Nothing runs and nothing is picked at the start.
LEMMA InitInv == Init => Inv
<1> SUFFICES ASSUME Init PROVE Inv
  OBVIOUS
<1>1. TypeOK
  BY SchedulerAssumption, OffIsEntry
  DEF Init, TypeOK, ForAll, Off, Plain, NoAnswer
<1>2. ConflictFree /\ PicksSeparate /\ PicksInScale
  BY OffIsEntry DEF Init, ConflictFree, PicksSeparate, PicksInScale, ForAll
<1> QED BY <1>1, <1>2 DEF Inv

\* Every step of a round, of a running task or of the configuration keeps
\* the invariant.
LEMMA StepInv == Inv /\ [Next]_vars => Inv'
<1> SUFFICES ASSUME Inv, [Next]_vars PROVE Inv'
  OBVIOUS
<1>t. TypeOK /\ ConflictFree /\ PicksSeparate /\ PicksInScale
  BY DEF Inv
<1>1. ASSUME NEW t \in Tasks, Finish(t) PROVE Inv'
  <2>1. TypeOK'
    BY <1>t, <1>1 DEF TypeOK, Finish, walk
  <2>2. \A u \in Tasks : running'[u].keys \subseteq running[u].keys
    BY <1>t, <1>1, OffIsEntry DEF TypeOK, Finish
  <2>3. ConflictFree' /\ PicksSeparate' /\ PicksInScale'
    BY <1>t, <1>1, <2>2 DEF ConflictFree, PicksSeparate, PicksInScale, Finish
  <2> QED BY <2>1, <2>3 DEF Inv
<1>2. ASSUME NEW b \in Budgets, Reload(b) PROVE Inv'
  BY <1>t, <1>2
  DEF Inv, TypeOK, ConflictFree, PicksSeparate, PicksInScale, Reload, walk
<1>3. CASE StartRound
  <2>1. queue' \in Seq(Tasks)
    BY <1>3, QueuesAreSequences DEF StartRound
  <2>2. desc' \in [Tasks -> Descs \union {Plain}]
    <3>1. PICK d \in [{queue'[n] : n \in DOMAIN queue'} -> Descs] :
            desc' = [t \in Tasks |-> IF t \in DOMAIN d THEN d[t] ELSE Plain]
      BY <1>3 DEF StartRound
    <3> QED BY <3>1
  <2>3. round' \in Nat
    BY <1>t, <1>3, SchedulerAssumption
    DEF TypeOK, StartRound, SanitizedBudget
  <2>4. TypeOK'
    BY <1>t, <1>3, <2>1, <2>2, <2>3 DEF TypeOK, StartRound
  <2>5. ConflictFree' /\ PicksSeparate' /\ PicksInScale'
    BY <1>t, <1>3 DEF StartRound, ConflictFree, PicksSeparate, PicksInScale
  <2> QED BY <2>4, <2>5 DEF Inv
<1>4. CASE Shortlist
  <2>1. Here \in Tasks
    BY <1>t, <1>4, HereIsTask DEF Shortlist, Walking
  <2>2. next' = next + 1 /\ UNCHANGED <<budget, running, phase, walk, short,
                                        evals, deferred>>
    BY <1>4 DEF Shortlist, Admit
  <2>3. CASE UNCHANGED picks
    BY <1>t, <2>2, <2>3
    DEF Inv, TypeOK, ConflictFree, PicksSeparate, PicksInScale, walk
  <2>4. CASE /\ desc[Here].keys \intersect Claimed = {}
             /\ picks' = [picks EXCEPT ![Here] =
                              On(AssumedWeight(Here), desc[Here].keys)]
    <3>1. TypeOK'
      BY <1>t, <2>1, <2>2, <2>4, AssumedIsEntry DEF TypeOK, walk
    <3>2. ConflictFree' /\ PicksSeparate'
      BY <2>1, <2>2, <2>4, AdmitKeepsInv
    <3>3. PicksInScale'
      BY <1>4, <2>2 DEF PicksInScale, Shortlist, Walking
    <3> QED BY <3>1, <3>2, <3>3 DEF Inv
  <2> QED BY <1>4, <2>3, <2>4 DEF Shortlist, Admit
<1>5. CASE Shortlisted
  <2>1. short' \in SUBSET Tasks
    BY <1>5 DEF Shortlisted, Members
  <2>2. TypeOK'
    BY <1>t, <1>5, <2>1, OffIsEntry DEF TypeOK, Shortlisted, ForAll, walk
  <2>3. ConflictFree' /\ PicksSeparate' /\ PicksInScale'
    BY <1>t, <1>5, OffIsEntry
    DEF ConflictFree, PicksSeparate, PicksInScale, Shortlisted, ForAll
  <2> QED BY <2>2, <2>3 DEF Inv
<1>6. CASE Evaluated
  <2>1. evals' \in [Tasks -> Answers \union {NoAnswer}]
    <3>1. PICK e \in [short -> Answers \union {NoAnswer}] :
            evals' = [t \in Tasks |-> IF t \in short THEN e[t] ELSE NoAnswer]
      BY <1>6 DEF Evaluated
    <3> QED BY <3>1
  <2>2. TypeOK'
    BY <1>t, <1>6, <2>1 DEF TypeOK, Evaluated, walk
  <2>3. ConflictFree' /\ PicksSeparate' /\ PicksInScale'
    BY <1>t, <1>6
    DEF ConflictFree, PicksSeparate, PicksInScale, Evaluated, ForAll
  <2> QED BY <2>2, <2>3 DEF Inv
<1>7. CASE DeferConflicting \/ DeferLarge
  <2>1. UNCHANGED <<budget, running, phase, walk, short, evals, picks>>
    BY <1>7 DEF DeferConflicting, DeferLarge, Defer
  <2>2. /\ next' = next + 1
        /\ deferred' \in [Tasks -> {"no", "conflict", "capacity"}]
    BY <1>t, <1>7 DEF DeferConflicting, DeferLarge, Defer, TypeOK
  <2> QED BY <1>t, <2>1, <2>2
          DEF Inv, TypeOK, ConflictFree, PicksSeparate, PicksInScale, walk
<1>8. CASE Pick
  <2>1. Here \in Tasks
    BY <1>t, <1>8, HereIsTask DEF Pick, Walking
  <2>2. On(WeightOf(Here), PickKeys(Here)) \in Entry
    BY <1>t, <2>1, PickIsRunningTask, OffIsEntry
  <2>3. TypeOK'
    <3>1. PICK e \in Entry : picks' = [picks EXCEPT ![Here] = e]
      BY <1>8, <2>2 DEF Pick, Admit
    <3>2. picks' \in [Tasks -> Entry]
      BY <1>t, <3>1 DEF TypeOK
    <3> QED BY <1>t, <1>8, <3>2 DEF TypeOK, Pick, Admit, walk
  <2>4. ConflictFree' /\ PicksSeparate'
    BY <1>8, <2>1, AdmitKeepsInv DEF Pick, Admit
  <2>5. PicksInScale'
    BY <1>t, <1>8, <2>1, PickIsRunningTask
    DEF PicksInScale, Pick, Admit, Walking
  <2> QED BY <2>3, <2>4, <2>5 DEF Inv
<1>9. CASE Register
  <2>1. picks \in [Tasks -> {Off} \union RunningTask]
    BY <1>t, <1>9 DEF PicksInScale, Register, Selected
  <2>2. \A t \in Tasks :
            running'[t] = IF picks[t].on THEN picks[t] ELSE running[t]
    BY <1>9 DEF Register
  <2>3. running' \in [Tasks -> {Off} \union RunningTask]
    BY <1>t, <1>9, <2>1 DEF TypeOK, Register
  <2>4. TypeOK'
    BY <1>t, <1>9, <2>3, OffIsEntry DEF TypeOK, Register, Reset, ForAll
  <2>5. ConflictFree'
    BY <1>t, <2>2 DEF ConflictFree, PicksSeparate
  <2>6. PicksSeparate' /\ PicksInScale'
    BY <1>9, OffIsEntry
    DEF PicksSeparate, PicksInScale, Register, Reset, ForAll
  <2> QED BY <2>4, <2>5, <2>6 DEF Inv
<1>10. CASE LegacySelect
  <2>1. /\ On(DefaultWeight, {}) \in RunningTask
        /\ On(DefaultWeight, {}).keys = {}
    BY DEF On, RunningTask
  <2>2. PICK taken \in [Tasks -> BOOLEAN] :
            running' = [t \in Tasks |-> IF taken[t] THEN On(DefaultWeight, {})
                                        ELSE running[t]]
    <3>1. PICK q \in Queues :
            running' = [t \in Tasks |->
               IF \E n \in DOMAIN q :
                    /\ n <= LegacyTake(budget - Slot * Cardinality(Members(running)))
                    /\ q[n] = t
               THEN On(DefaultWeight, {}) ELSE running[t]]
      BY <1>10 DEF LegacySelect
    <3> DEFINE taken == [t \in Tasks |->
           \E n \in DOMAIN q :
              /\ n <= LegacyTake(budget - Slot * Cardinality(Members(running)))
              /\ q[n] = t]
    <3>2. taken \in [Tasks -> BOOLEAN]
      OBVIOUS
    <3> QED BY <3>1, <3>2, Zenon
  <2>3. running' \in [Tasks -> {Off} \union RunningTask]
    BY <1>t, <2>1, <2>2 DEF TypeOK
  <2>4. TypeOK'
    BY <1>t, <1>10, <2>3 DEF TypeOK, LegacySelect, walk
  <2>5. \A t \in Tasks : running'[t].keys \subseteq running[t].keys
    BY <2>1, <2>2
  <2>6. UNCHANGED <<picks, phase>>
    BY <1>10 DEF LegacySelect
  <2>7. ConflictFree' /\ PicksSeparate' /\ PicksInScale'
    BY <1>t, <2>5, <2>6 DEF ConflictFree, PicksSeparate, PicksInScale, ForAll
  <2> QED BY <2>4, <2>7 DEF Inv
<1>11. CASE UNCHANGED vars
  BY <1>t, <1>11
  DEF Inv, TypeOK, ConflictFree, PicksSeparate, PicksInScale, vars, walk
<1> QED BY <1>1, <1>2, <1>3, <1>4, <1>5, <1>6, <1>7, <1>8, <1>9, <1>10, <1>11
        DEF Next

\* The inductive invariant holds in every reachable state.
THEOREM Invariance == Spec => []Inv
BY InitInv, StepInv, PTL DEF Spec

\* The registered weights are on the scale, whatever the hints and the
\* evaluations say (clampWeight, registerPicks).
THEOREM TypeCorrect == Spec => []TypeOK
<1>1. Inv => TypeOK
  BY DEF Inv
<1> QED BY Invariance, <1>1, PTL

\* Two running tasks never claim the same key, for any set of tasks, keys,
\* descriptions and evaluations (selectTasks, registerPicks).
THEOREM RunningTasksSeparate == Spec => []ConflictFree
<1>1. Inv => ConflictFree
  BY DEF Inv
<1> QED BY Invariance, <1>1, PTL

-----------------------------------------------------------------------------
(* Sums over a finite set *)

\* F gives the sum of the weights w over each subset of T, in whatever order
\* they are added.
IsSum(F, w, T) ==
    /\ F \in [SUBSET T -> Int] /\ F[{}] = 0
    /\ \A s \in SUBSET T : \A x \in s : F[s] = w[x] + F[s \ {x}]

\* A set of subsets of a finite set has a smallest element.
LEMMA SmallestSubset ==
    ASSUME NEW T, IsFiniteSet(T), NEW Bad \in SUBSET (SUBSET T), Bad # {}
    PROVE  \E s \in Bad : \A r \in Bad : ~(r \subseteq s /\ r # s)
<1>1. IsWellFoundedOn(StrictSubsetOrdering(T), SUBSET T)
  BY FS_StrictSubsetOrderingWellFounded, FS_FiniteSubsetsOfFinite
<1>2. PICK s \in Bad : \A r \in Bad : ~(<<r, s>> \in StrictSubsetOrdering(T))
  BY <1>1, WFMin
<1>3. ASSUME NEW r \in Bad, r \subseteq s, r # s PROVE FALSE
  <2>1. <<r, s>> \in StrictSubsetOrdering(T)
    BY <1>3 DEF StrictSubsetOrdering
  <2> QED BY <1>2, <2>1
<1> QED BY <1>2, <1>3

LEMMA SumExists ==
    ASSUME NEW T, IsFiniteSet(T), NEW w \in [T -> Int]
    PROVE  \E F : IsSum(F, w, T)
<1> DEFINE Bad == {s \in SUBSET T : ~ \E F : IsSum(F, w, s)}
<1>1. SUFFICES ASSUME Bad # {} PROVE FALSE
  OBVIOUS
<1>2. PICK s \in Bad : \A r \in Bad : ~(r \subseteq s /\ r # s)
  <2> HIDE DEF Bad
  <2>1. Bad \in SUBSET (SUBSET T)
    BY DEF Bad
  <2> QED BY <1>1, <2>1, SmallestSubset
<1>3. s # {}
  <2>1. SUFFICES ASSUME s = {} PROVE FALSE
    OBVIOUS
  <2> DEFINE F == [r \in SUBSET s |-> 0]
  <2>2. IsSum(F, w, s)
    BY <2>1 DEF IsSum
  <2> QED BY <2>2
<1>4. PICK x : x \in s
  BY <1>3
<1>5. PICK G : IsSum(G, w, s \ {x})
  <2>1. s \ {x} \in SUBSET T /\ s \ {x} \subseteq s /\ s \ {x} # s
    BY <1>4
  <2> QED BY <1>2, <2>1
<1> DEFINE F == [r \in SUBSET s |-> IF x \in r THEN w[x] + G[r \ {x}] ELSE G[r]]
<1>6. IsSum(F, w, s)
  <2>1. w[x] \in Int /\ G \in [SUBSET (s \ {x}) -> Int]
    BY <1>4, <1>5 DEF IsSum
  <2>2. F \in [SUBSET s -> Int] /\ F[{}] = 0
    BY <1>5, <2>1 DEF IsSum
  <2>3. ASSUME NEW r \in SUBSET s, NEW y \in r
        PROVE  F[r] = w[y] + F[r \ {y}]
    <3>0. w[y] \in Int
      BY <2>3
    <3>1. CASE y = x
      BY <3>1, <2>1
    <3>2. CASE y # x /\ x \notin r
      <4>1. r \in SUBSET (s \ {x}) /\ x \notin r \ {y}
        BY <3>2
      <4>2. G[r] = w[y] + G[r \ {y}]
        BY <1>5, <4>1 DEF IsSum
      <4> QED BY <4>1, <4>2, <3>2
    <3>3. CASE y # x /\ x \in r
      <4> DEFINE q == r \ {x}
      <4>1. /\ q \in SUBSET (s \ {x}) /\ y \in q
            /\ (r \ {y}) \ {x} = q \ {y} /\ x \in r \ {y}
        BY <3>3
      <4>2. G[q] = w[y] + G[q \ {y}]
        BY <1>5, <4>1 DEF IsSum
      <4>3. G[q] \in Int /\ G[q \ {y}] \in Int
        BY <2>1, <4>1
      <4>4. F[r] = w[x] + G[q] /\ F[r \ {y}] = w[x] + G[q \ {y}]
        BY <3>3, <4>1
      <4> QED BY <2>1, <3>0, <4>2, <4>3, <4>4
    <3> QED BY <3>1, <3>2, <3>3
  <2> QED BY <2>2, <2>3 DEF IsSum
<1> QED BY <1>2, <1>6

\* The sum over a set depends on the weights of its elements only.
LEMMA SumDepends ==
    ASSUME NEW T, IsFiniteSet(T), NEW w \in [T -> Int], NEW v \in [T -> Int],
           NEW F, NEW G, IsSum(F, w, T), IsSum(G, v, T),
           NEW S \in SUBSET T, \A x \in S : w[x] = v[x]
    PROVE  F[S] = G[S]
<1> DEFINE Bad == {s \in SUBSET S : F[s] # G[s]}
<1>1. SUFFICES ASSUME Bad # {} PROVE FALSE
  OBVIOUS
<1>2. PICK s \in Bad : \A r \in Bad : ~(r \subseteq s /\ r # s)
  <2>1. Bad \in SUBSET (SUBSET T)
    OBVIOUS
  <2> HIDE DEF Bad
  <2> QED BY <1>1, <2>1, SmallestSubset
<1>3. PICK x : x \in s
  BY <1>2 DEF IsSum
<1>4. s \ {x} \in SUBSET S /\ s \ {x} \subseteq s /\ s \ {x} # s
  BY <1>2, <1>3
<1>5. F[s \ {x}] = G[s \ {x}]
  BY <1>2, <1>4
<1>6. F[s] = w[x] + F[s \ {x}] /\ G[s] = v[x] + G[s \ {x}] /\ w[x] = v[x]
  BY <1>2, <1>3 DEF IsSum
<1> QED BY <1>2, <1>5, <1>6

\* The sum over two sets without a common element.
LEMMA SumOfUnion ==
    ASSUME NEW T, IsFiniteSet(T), NEW w \in [T -> Int], NEW F, IsSum(F, w, T),
           NEW A \in SUBSET T, NEW B \in SUBSET T, A \intersect B = {}
    PROVE  F[A \union B] = F[A] + F[B]
<1> DEFINE Bad == {s \in SUBSET B : F[A \union s] # F[A] + F[s]}
<1>0. F \in [SUBSET T -> Int]
  BY DEF IsSum
<1>1. SUFFICES ASSUME Bad # {} PROVE FALSE
  OBVIOUS
<1>2. PICK s \in Bad : \A r \in Bad : ~(r \subseteq s /\ r # s)
  <2>1. Bad \in SUBSET (SUBSET T)
    OBVIOUS
  <2> HIDE DEF Bad
  <2> QED BY <1>1, <2>1, SmallestSubset
<1>3. PICK x : x \in s
  <2>1. SUFFICES ASSUME s = {} PROVE FALSE
    OBVIOUS
  <2>2. F[s] = 0 /\ F[A] \in Int
    BY <1>0, <2>1 DEF IsSum
  <2>3. F[A \union s] # F[A] + F[s]
    BY <1>2
  <2>4. A \union s = A
    BY <2>1
  <2>5. F[A \union s] = F[A]
    BY <2>4
  <2> QED BY <2>2, <2>3, <2>5
<1>4. s \ {x} \in SUBSET B /\ s \ {x} \subseteq s /\ s \ {x} # s /\ s \in SUBSET T
  BY <1>2, <1>3
<1>5. F[A \union (s \ {x})] = F[A] + F[s \ {x}]
  BY <1>2, <1>4
<1>6. (A \union s) \ {x} = A \union (s \ {x}) /\ A \union s \in SUBSET T
  BY <1>3, <1>4
<1>7. F[A \union s] = w[x] + F[A \union (s \ {x})] /\ F[s] = w[x] + F[s \ {x}]
  BY <1>3, <1>4, <1>6 DEF IsSum
<1>8. /\ w[x] \in Int /\ F[A] \in Int /\ F[s \ {x}] \in Int
      /\ F[A \union (s \ {x})] \in Int
  BY <1>0, <1>3, <1>4
<1> QED BY <1>2, <1>5, <1>7, <1>8

-----------------------------------------------------------------------------
(* The load *)

Weights(m) == [t \in Tasks |-> m[t].weight]

\* The fold of LoadOf is the sum, whatever the order CHOOSE takes the tasks in.
LEMMA LoadIsSum ==
    ASSUME NEW m \in [Tasks -> Entry], NEW F, IsSum(F, Weights(m), Tasks)
    PROVE  LoadOf(m) = F[Members(m)]
<1> DEFINE M == Members(m)
           x(s) == CHOOSE t \in s : TRUE
           Folds(f) == f = [s \in SUBSET M |->
                IF s = {} THEN 0 ELSE m[x(s)].weight + f[s \ {x(s)}]]
           iter == CHOOSE f : Folds(f)
<1>1. LoadOf(m) = iter[M]
  BY DEF LoadOf, MapThenSumSet, MapThenFoldSet
<1>2. M \in SUBSET Tasks
  BY DEF Members
<1>3. \A s \in SUBSET M : s # {} => x(s) \in s /\ s \ {x(s)} \in SUBSET M
  OBVIOUS
<1>4. \A s \in SUBSET M : s # {} => F[s] = m[x(s)].weight + F[s \ {x(s)}]
  BY <1>2, <1>3 DEF IsSum, Weights
<1> HIDE DEF M, x
<1>5. Folds(iter)
  <2> DEFINE f == [s \in SUBSET M |-> F[s]]
  <2>1. F[{}] = 0
    BY DEF IsSum
  <2>2. Folds(f)
    BY <1>3, <1>4, <2>1
  <2> QED BY <2>2
<1> DEFINE Bad == {s \in SUBSET M : iter[s] # F[s]}
<1> HIDE DEF iter
<1>6. SUFFICES ASSUME Bad # {} PROVE FALSE
  <2>1. CASE iter[M] = F[M]
    BY <1>1, <2>1 DEF M
  <2>2. CASE iter[M] # F[M]
    BY <2>2
  <2> QED BY <2>1, <2>2
<1>7. PICK s \in Bad : \A r \in Bad : ~(r \subseteq s /\ r # s)
  <2>1. Bad \in SUBSET (SUBSET Tasks)
    BY <1>2
  <2> HIDE DEF Bad
  <2> QED BY <1>6, <2>1, SmallestSubset, SchedulerAssumption
<1>8. s # {}
  BY <1>5, <1>7 DEF IsSum
<1>9. s \ {x(s)} \in SUBSET M /\ s \ {x(s)} \subseteq s /\ s \ {x(s)} # s
  BY <1>3, <1>7, <1>8
<1>10. iter[s \ {x(s)}] = F[s \ {x(s)}]
  BY <1>7, <1>9
<1>11. iter[s] = m[x(s)].weight + iter[s \ {x(s)}]
  BY <1>5, <1>7, <1>8
<1> QED BY <1>4, <1>7, <1>8, <1>10, <1>11

\* The weights of entries are integers.
LEMMA WeightsAreInt ==
    ASSUME NEW m \in [Tasks -> Entry]
    PROVE  Weights(m) \in [Tasks -> Int]
<1>1. ASSUME NEW t \in Tasks PROVE m[t].weight \in Int
  <2>1. m[t] \in Entry
    OBVIOUS
  <2> QED BY <2>1 DEF Entry
<1> QED BY <1>1 DEF Weights

\* A load is an integer, and that of nobody is 0.
LEMMA LoadIsInt ==
    ASSUME NEW m \in [Tasks -> Entry]
    PROVE  LoadOf(m) \in Int /\ (Members(m) = {} => LoadOf(m) = 0)
<1>1. Weights(m) \in [Tasks -> Int] /\ IsFiniteSet(Tasks)
  BY WeightsAreInt, SchedulerAssumption
<1>2. PICK F : IsSum(F, Weights(m), Tasks)
  BY <1>1, SumExists
<1>3. LoadOf(m) = F[Members(m)] /\ Members(m) \in SUBSET Tasks
  BY <1>2, LoadIsSum DEF Members
<1> QED BY <1>2, <1>3 DEF IsSum

\* The load grows by the weight of a task that is added.
LEMMA LoadGrows ==
    ASSUME NEW m \in [Tasks -> Entry], NEW n \in [Tasks -> Entry], NEW t \in Tasks,
           t \notin Members(m), Members(n) = Members(m) \union {t},
           \A u \in Members(m) : n[u].weight = m[u].weight
    PROVE  LoadOf(n) = LoadOf(m) + n[t].weight
<1> DEFINE M == Members(m)
<1>1. /\ Weights(m) \in [Tasks -> Int] /\ Weights(n) \in [Tasks -> Int]
      /\ IsFiniteSet(Tasks)
  BY WeightsAreInt, SchedulerAssumption
<1>2. PICK F : IsSum(F, Weights(m), Tasks)
  BY <1>1, SumExists
<1>3. PICK G : IsSum(G, Weights(n), Tasks)
  BY <1>1, SumExists
<1>4. M \in SUBSET Tasks /\ LoadOf(m) = F[M] /\ LoadOf(n) = G[Members(n)]
  BY <1>2, <1>3, LoadIsSum DEF Members
<1>5. G[Members(n)] = n[t].weight + G[M]
  <2>1. G[Members(n)] = Weights(n)[t] + G[Members(n) \ {t}]
    BY <1>3, <1>4 DEF IsSum
  <2>2. Weights(n)[t] = n[t].weight /\ Members(n) \ {t} = M
    BY DEF Weights
  <2> QED BY <2>1, <2>2
<1>6. F[M] = G[M]
  <2>1. \A x \in M : Weights(m)[x] = Weights(n)[x]
    BY <1>4 DEF Weights
  <2> HIDE DEF M
  <2> QED BY <1>1, <1>2, <1>3, <1>4, <2>1, SumDepends
<1>7. F[M] \in Int /\ n[t].weight \in Int
  <2>1. n[t] \in Entry
    OBVIOUS
  <2> QED BY <1>2, <1>4, <2>1 DEF IsSum, Entry
<1> QED BY <1>4, <1>5, <1>6, <1>7

\* The load of two maps that no task is in both of.
LEMMA LoadOfMerged ==
    ASSUME NEW m \in [Tasks -> Entry], NEW n \in [Tasks -> Entry],
           Members(m) \intersect Members(n) = {},
           NEW r, r = [t \in Tasks |-> IF n[t].on THEN n[t] ELSE m[t]]
    PROVE  /\ LoadOf(r) = LoadOf(m) + LoadOf(n)
           /\ Members(r) = Members(m) \union Members(n)
<1> DEFINE M == Members(m)
           N == Members(n)
<1>1. r \in [Tasks -> Entry]
  OBVIOUS
<1>2. Members(r) = M \union N /\ M \in SUBSET Tasks /\ N \in SUBSET Tasks
  BY DEF Members
<1>3. /\ Weights(m) \in [Tasks -> Int] /\ Weights(n) \in [Tasks -> Int]
      /\ Weights(r) \in [Tasks -> Int] /\ IsFiniteSet(Tasks)
  BY <1>1, WeightsAreInt, SchedulerAssumption
<1>4. PICK F : IsSum(F, Weights(m), Tasks)
  BY <1>3, SumExists
<1>5. PICK G : IsSum(G, Weights(n), Tasks)
  BY <1>3, SumExists
<1>6. PICK H : IsSum(H, Weights(r), Tasks)
  BY <1>3, SumExists
<1>7. LoadOf(m) = F[M] /\ LoadOf(n) = G[N] /\ LoadOf(r) = H[M \union N]
  BY <1>1, <1>2, <1>4, <1>5, <1>6, LoadIsSum
<1>8. H[M \union N] = H[M] + H[N]
  <2>1. M \intersect N = {}
    OBVIOUS
  <2> DEFINE u == Weights(r)
  <2>2. u \in [Tasks -> Int] /\ IsSum(H, u, Tasks)
    BY <1>3, <1>6
  <2> HIDE DEF M, N, u
  <2> QED BY <1>2, <1>3, <2>1, <2>2, SumOfUnion, Z3
<1>9. H[M] = F[M]
  <2> DEFINE v == Weights(r)
             w == Weights(m)
  <2>1. \A x \in M : v[x] = w[x]
    BY DEF Weights, Members
  <2>2. /\ v \in [Tasks -> Int] /\ w \in [Tasks -> Int] /\ IsFiniteSet(Tasks)
        /\ IsSum(H, v, Tasks) /\ IsSum(F, w, Tasks) /\ M \in SUBSET Tasks
    BY <1>2, <1>3, <1>4, <1>6
  <2> HIDE DEF M, N, v, w
  <2> QED BY <2>1, <2>2, SumDepends, Z3
<1>10. H[N] = G[N]
  <2> DEFINE v == Weights(r)
             w == Weights(n)
  <2>1. \A x \in N : v[x] = w[x]
    BY DEF Weights, Members
  <2>2. /\ v \in [Tasks -> Int] /\ w \in [Tasks -> Int] /\ IsFiniteSet(Tasks)
        /\ IsSum(H, v, Tasks) /\ IsSum(G, w, Tasks) /\ N \in SUBSET Tasks
    BY <1>2, <1>3, <1>5, <1>6
  <2> HIDE DEF M, N, v, w
  <2> QED BY <2>1, <2>2, SumDepends, Z3
<1> QED BY <1>2, <1>7, <1>8, <1>9, <1>10

-----------------------------------------------------------------------------
(* What a round has done so far *)

\* The candidates are distinct and none of them runs.
QueueOrder ==
    /\ \A m, n \in DOMAIN queue : queue[m] = queue[n] => m = n
    /\ \A n \in DOMAIN queue : running[queue[n]] = Off
    /\ phase = "idle" => queue = <<>>

\* Only a candidate the walk has passed is picked or deferred.
WalkedTo(t) == \E n \in DOMAIN queue : n < next /\ queue[n] = t
WalkOrder ==
    /\ \A t \in Tasks : ~picks[t].on => picks[t] = Off
    /\ \A t \in Tasks : picks[t].on \/ deferred[t] # "no" => WalkedTo(t)
    /\ phase \in {"idle", "evaluate"} => picks = ForAll(Off) /\ next = 1
    /\ next >= 1
    /\ phase # "select" => deferred = ForAll("no")

\* What the selection has picked, beside what runs, stays within the budget
\* the round read.
PicksFit ==
    phase = "select" /\ Members(picks) # {} =>
        /\ Used <= round
        /\ Cardinality(Members(picks)) + Cardinality(Members(running))
               <= MaxConcurrent(round)

\* A candidate the selection has passed is picked, or still cannot be: the
\* claims and the load only grow during the walk.
LeftBehind ==
    phase = "select" => \A n \in DOMAIN queue : n < next =>
        \/ picks[queue[n]].on
        \/ PickKeys(queue[n]) \intersect Claimed # {}
        \/ ~Fits(queue[n])

\* A task deferred for capacity still does not fit.
DeferredIsLarge == \A t \in Tasks : deferred[t] = "capacity" => ~Fits(t)

RoundInv == /\ QueueOrder /\ WalkOrder /\ PicksFit
            /\ LeftBehind /\ DeferredIsLarge /\ OvertakenByLighter

\* The tasks of a map are finitely many.
LEMMA MembersAreFinite ==
    ASSUME NEW m
    PROVE  /\ IsFiniteSet(Members(m)) /\ Cardinality(Members(m)) \in Nat
           /\ Members(m) \in SUBSET Tasks
<1>1. Members(m) \in SUBSET Tasks
  BY DEF Members
<1> QED BY <1>1, SchedulerAssumption, FS_Subset, FS_CardinalityType

\* The running map is one of entries.
LEMMA RunningIsEntries ==
    ASSUME TypeOK
    PROVE  running \in [Tasks -> Entry]
BY OffIsEntry DEF TypeOK

\* Nobody of an empty map counts.
LEMMA NobodyOn == Members(ForAll(Off)) = {}
BY DEF Members, ForAll, Off

\* The counters of a round are integers.
LEMMA UsedIsInt ==
    ASSUME TypeOK
    PROVE  /\ Used \in Int /\ MaxConcurrent(round) \in Int /\ round \in Nat
           /\ LoadOf(running) \in Int /\ LoadOf(picks) \in Int
<1>1. running \in [Tasks -> Entry] /\ picks \in [Tasks -> Entry]
  BY RunningIsEntries DEF TypeOK
<1>2. LoadOf(running) \in Int /\ LoadOf(picks) \in Int
  BY <1>1, LoadIsInt
<1>3. round \in Nat
  BY DEF TypeOK
<1>4. MaxConcurrent(round) \in Int
  BY <1>3 DEF MaxConcurrent, SanitizedBudget
<1> QED BY <1>2, <1>3, <1>4 DEF Used

\* The weight of a candidate is on the scale, so that it counts.
LEMMA WeightOnScale ==
    ASSUME TypeOK, NEW t \in Tasks
    PROVE  WeightOf(t) \in 1 .. 4 /\ PickKeys(t) \in SUBSET Keys
<1>1. On(WeightOf(t), PickKeys(t)) \in RunningTask
  BY PickIsRunningTask
<1>2. PICK w \in 1 .. 4, ks \in SUBSET Keys :
        On(WeightOf(t), PickKeys(t)) = [on |-> TRUE, weight |-> w, keys |-> ks]
  BY <1>1 DEF RunningTask
<1>3. On(WeightOf(t), PickKeys(t)).weight = WeightOf(t)
  BY DEF On
<1>4. On(WeightOf(t), PickKeys(t)).keys = PickKeys(t)
  BY DEF On
<1> QED BY <1>2, <1>3, <1>4

\* What Pick does to the counters: the load grows by the weight of the pick
\* and one more task counts.
LEMMA PickCounts ==
    ASSUME TypeOK, WalkOrder, QueueOrder, Pick
    PROVE  /\ Here \in Tasks
           /\ Used' = Used + WeightOf(Here)
           /\ Members(picks') = Members(picks) \union {Here}
           /\ Cardinality(Members(picks')) = Cardinality(Members(picks)) + 1
           /\ Cardinality(Members(running')) = Cardinality(Members(running))
<1>1. Here \in Tasks /\ next \in DOMAIN queue
  BY HereIsTask DEF Pick, Walking
<1>2. picks[Here].on = FALSE
  <2>1. SUFFICES ASSUME picks[Here].on PROVE FALSE
    <3>1. picks[Here] \in Entry
      BY <1>1 DEF TypeOK
    <3>2. picks[Here].on \in BOOLEAN
      BY <3>1 DEF Entry
    <3> QED BY <3>2
  <2>2. PICK n \in DOMAIN queue : n < next /\ queue[n] = Here
    BY <1>1, <2>1 DEF WalkOrder, WalkedTo
  <2>3. n = next
    BY <1>1, <2>2 DEF QueueOrder, Here
  <2> QED BY <2>2, <2>3 DEF TypeOK
<1>3. WeightOf(Here) \in Int /\ PickKeys(Here) \in SUBSET Keys
  BY <1>1, WeightOnScale
<1>4. /\ picks \in [Tasks -> Entry] /\ UNCHANGED running
      /\ picks' = [picks EXCEPT ![Here] = On(WeightOf(Here), PickKeys(Here))]
  BY DEF Pick, Admit, TypeOK
<1>5. /\ LoadOf(picks') = LoadOf(picks) + WeightOf(Here)
      /\ Members(picks') = Members(picks) \union {Here}
  <2>1. /\ picks' \in [Tasks -> Entry] /\ picks'[Here].weight = WeightOf(Here)
        /\ Members(picks') = Members(picks) \union {Here}
        /\ Here \notin Members(picks)
        /\ \A u \in Members(picks) : picks'[u].weight = picks[u].weight
    <3>1. On(WeightOf(Here), PickKeys(Here)) \in Entry
      BY <1>3 DEF On, Entry
    <3>2. picks'[Here] = On(WeightOf(Here), PickKeys(Here))
      BY <1>1, <1>4
    <3>3. picks'[Here].weight = WeightOf(Here) /\ picks'[Here].on = TRUE
      BY <3>2 DEF On
    <3>4. /\ picks' \in [Tasks -> Entry]
          /\ \A u \in Tasks \ {Here} : picks'[u] = picks[u]
      BY <1>4, <3>1
    <3> QED BY <1>1, <1>2, <3>3, <3>4 DEF Members
  <2> DEFINE p == picks'
  <2>2. LoadOf(p) = LoadOf(picks) + p[Here].weight
    <3>1. /\ p \in [Tasks -> Entry] /\ picks \in [Tasks -> Entry]
          /\ Here \in Tasks /\ Here \notin Members(picks)
          /\ Members(p) = Members(picks) \union {Here}
          /\ \A u \in Members(picks) : p[u].weight = picks[u].weight
      BY <1>1, <1>4, <2>1
    <3> HIDE DEF p
    <3> QED BY <3>1, LoadGrows, Z3
  <2> QED BY <2>1, <2>2
<1>6. Here \notin Members(picks)
  BY <1>2 DEF Members
<1>7. Cardinality(Members(picks')) = Cardinality(Members(picks)) + 1
  BY <1>5, <1>6, MembersAreFinite, FS_AddElement
<1>8. LoadOf(running') = LoadOf(running) /\ Members(running') = Members(running)
  BY <1>4 DEF LoadOf, Members
<1>9. Used' = LoadOf(running') + LoadOf(picks')
  BY DEF Used
<1>10. Used' = Used + WeightOf(Here)
  BY <1>3, <1>5, <1>8, <1>9, UsedIsInt DEF Used
<1> QED BY <1>1, <1>5, <1>7, <1>8, <1>10

\* The weights and the keys of the candidates do not change while the
\* evaluations and the descriptions do not.
LEMMA CandidatesFrozen ==
    ASSUME UNCHANGED <<desc, evals>>, NEW t
    PROVE  WeightOf(t)' = WeightOf(t) /\ PickKeys(t)' = PickKeys(t)
BY DEF WeightOf, PickKeys

\* What does not fit, or is claimed, stays so while the load grows.
LEMMA GrowthKeepsOut ==
    ASSUME TypeOK, TypeOK', UNCHANGED <<desc, evals, round, running>>,
           NEW t \in Tasks,
           Used <= Used',
           Cardinality(Members(picks)) <= Cardinality(Members(picks')),
           \A u \in Tasks : picks[u].keys \subseteq picks'[u].keys
    PROVE  /\ ~Fits(t) => ~Fits(t)'
           /\ PickKeys(t) \intersect Claimed # {} =>
                  PickKeys(t)' \intersect Claimed' # {}
<1>1. WeightOf(t)' = WeightOf(t) /\ PickKeys(t)' = PickKeys(t)
  BY CandidatesFrozen
<1>2. ASSUME ~Fits(t), Fits(t)' PROVE FALSE
  <2>1. /\ Used' + WeightOf(t) <= round
        /\ ~(Cardinality(Members(picks')) + Cardinality(Members(running))
                 >= MaxConcurrent(round))
    BY <1>1, <1>2 DEF Fits, SlotsFull, MaxConcurrent, SanitizedBudget
  <2>2. /\ Used \in Int /\ Used' \in Int /\ WeightOf(t) \in Int /\ round \in Int
        /\ MaxConcurrent(round) \in Int
        /\ Cardinality(Members(picks)) \in Int
        /\ Cardinality(Members(picks')) \in Int
        /\ Cardinality(Members(running)) \in Int
    <3>1. Used' \in Int
      <4>1. running' \in [Tasks -> Entry] /\ picks' \in [Tasks -> Entry]
        BY OffIsEntry DEF TypeOK
      <4>2. LoadOf(running') \in Int /\ LoadOf(picks') \in Int
        BY <4>1, LoadIsInt
      <4> QED BY <4>2 DEF Used
    <3> QED BY <3>1, UsedIsInt, WeightOnScale, MembersAreFinite
  <2>3. /\ Used + WeightOf(t) <= round
        /\ ~(Cardinality(Members(picks)) + Cardinality(Members(running))
                 >= MaxConcurrent(round))
    BY <2>1, <2>2
  <2> QED BY <1>2, <2>3 DEF Fits, SlotsFull
<1>3. Claimed \subseteq Claimed'
  BY DEF Claimed, KeysOf
<1> QED BY <1>1, <1>2, <1>3

-----------------------------------------------------------------------------
(* The steps *)

\* A round that has not picked anything has nothing to answer for.
LEMMA RoundInvOutside ==
    TypeOK /\ QueueOrder /\ WalkOrder /\ phase # "select" => RoundInv
<1> SUFFICES ASSUME TypeOK, QueueOrder, WalkOrder, phase # "select"
             PROVE  RoundInv
  OBVIOUS
<1>1. \A t \in Tasks : deferred[t] = "no"
  BY DEF WalkOrder, ForAll
<1>2. PicksFit /\ LeftBehind
  BY DEF PicksFit, LeftBehind
<1>3. DeferredIsLarge
  BY <1>1 DEF DeferredIsLarge
<1>4. \A n \in DOMAIN queue : queue[n] \in Tasks
  BY DEF TypeOK
<1>5. OvertakenByLighter
  BY <1>1, <1>4 DEF OvertakenByLighter
<1> QED BY <1>2, <1>3, <1>5 DEF RoundInv

\* ... and so has one after a step.
LEMMA RoundInvOutsideNext ==
    (TypeOK /\ QueueOrder /\ WalkOrder /\ phase # "select")' => RoundInv'
BY RoundInvOutside, PTL

\* At the start there is no queue.
LEMMA InitRoundInv == Init => RoundInv
<1> SUFFICES ASSUME Init PROVE RoundInv
  OBVIOUS
<1>1. TypeOK
  BY InitInv DEF Inv
<1>2. QueueOrder
  BY DEF Init, QueueOrder
<1>3. WalkOrder
  BY DEF Init, WalkOrder, ForAll, Off
<1>4. phase # "select"
  BY DEF Init
<1> QED BY <1>1, <1>2, <1>3, <1>4, RoundInvOutside

\* Passing a candidate of the selection keeps what holds of the earlier ones.
LEMMA PassKeepsLeftBehind ==
    ASSUME TypeOK, TypeOK', LeftBehind, phase = "select", next \in DOMAIN queue,
           UNCHANGED <<desc, evals, round, running, queue>>, next' = next + 1,
           Used <= Used',
           Cardinality(Members(picks)) <= Cardinality(Members(picks')),
           \A u \in Tasks : picks[u].keys \subseteq picks'[u].keys,
           \A u \in Tasks : picks[u].on => picks'[u].on,
           \/ picks'[Here].on
           \/ PickKeys(Here) \intersect Claimed # {}
           \/ ~Fits(Here)
    PROVE  LeftBehind'
<1> SUFFICES ASSUME NEW n \in DOMAIN queue, n < next + 1
             PROVE  \/ picks'[queue[n]].on
                    \/ PickKeys(queue[n])' \intersect Claimed' # {}
                    \/ ~Fits(queue[n])'
  BY DEF LeftBehind
<1>1. queue[n] \in Tasks /\ n \in Nat /\ next \in Nat
  BY DEF TypeOK
<1>2. n < next \/ n = next
  BY <1>1
<1>3. \/ picks'[queue[n]].on
      \/ PickKeys(queue[n]) \intersect Claimed # {}
      \/ ~Fits(queue[n])
  BY <1>1, <1>2 DEF LeftBehind, Here
<1>4. /\ ~Fits(queue[n]) => ~Fits(queue[n])'
      /\ PickKeys(queue[n]) \intersect Claimed # {} =>
             PickKeys(queue[n])' \intersect Claimed' # {}
  BY <1>1, GrowthKeepsOut
<1> QED BY <1>3, <1>4

\* The walk passes a candidate that it defers.
LEMMA DeferKeepsRoundInv ==
    ASSUME Inv, Inv', RoundInv, phase = "select", next \in DOMAIN queue,
           NEW why \in {"conflict", "capacity"},
           why = "capacity" => ~Fits(Here),
           PickKeys(Here) \intersect Claimed # {} \/ ~Fits(Here),
           Defer(why), UNCHANGED <<budget, running, phase, walk, short, evals>>
    PROVE  RoundInv'
<1>1. /\ TypeOK /\ TypeOK' /\ QueueOrder /\ WalkOrder /\ PicksFit /\ LeftBehind
      /\ DeferredIsLarge /\ OvertakenByLighter /\ Here \in Tasks
  BY HereIsTask DEF Inv, RoundInv
<1>2. /\ next' = next + 1 /\ deferred' = [deferred EXCEPT ![Here] = why]
      /\ UNCHANGED <<picks, running, phase, queue, desc, round, evals>>
  BY DEF Defer, walk
<1>3. UNCHANGED <<Used, Claimed, SlotsFull>> /\ Used \in Int
  <2>1. UNCHANGED <<Used, Claimed>> /\ Used \in Int
    <3>1. LoadOf(running') = LoadOf(running) /\ LoadOf(picks') = LoadOf(picks)
      BY <1>2
    <3>2. KeysOf(running') = KeysOf(running) /\ KeysOf(picks') = KeysOf(picks)
      BY <1>2
    <3> QED BY <1>1, <3>1, <3>2, UsedIsInt DEF Used, Claimed
  <2>2. UNCHANGED SlotsFull
    BY <1>2 DEF SlotsFull, Members, MaxConcurrent, SanitizedBudget
  <2> QED BY <2>1, <2>2
<1>4. \A t \in Tasks : Fits(t)' = Fits(t) /\ WeightOf(t)' = WeightOf(t)
  BY <1>2, <1>3 DEF Fits, WeightOf
<1>5. \A t \in Tasks : deferred'[t] = IF t = Here THEN why ELSE deferred[t]
  BY <1>1, <1>2 DEF TypeOK
<1>6. next \in Nat /\ \A n \in DOMAIN queue : n \in Nat /\ queue[n] \in Tasks
  BY <1>1 DEF TypeOK
<1>7. QueueOrder'
  BY <1>1, <1>2 DEF QueueOrder
<1>8. WalkOrder'
  <2>1. \A t : WalkedTo(t) => WalkedTo(t)'
    BY <1>2, <1>6 DEF WalkedTo
  <2>2. \A t : t = Here => WalkedTo(t)'
    BY <1>2, <1>6 DEF WalkedTo, Here
  <2>3. next' >= 1
    BY <1>1, <1>2, <1>6 DEF WalkOrder
  <2> QED BY <1>1, <1>2, <1>5, <2>1, <2>2, <2>3 DEF WalkOrder
<1>9. PicksFit'
  BY <1>1, <1>2, <1>3
  DEF PicksFit, Members, MaxConcurrent, SanitizedBudget
<1>10. LeftBehind'
  <2>1. Used <= Used' /\ Cardinality(Members(picks)) <= Cardinality(Members(picks'))
    BY <1>2, <1>3, MembersAreFinite
  <2> QED BY <1>1, <1>2, <2>1, PassKeepsLeftBehind
<1>11. DeferredIsLarge'
  BY <1>1, <1>4, <1>5 DEF DeferredIsLarge
<1>12. OvertakenByLighter'
  <2> SUFFICES ASSUME NEW m \in DOMAIN queue, NEW n \in DOMAIN queue, m < n,
                      deferred'[queue[m]] = "capacity", picks[queue[n]].on
               PROVE  WeightOf(queue[n]) < WeightOf(queue[m])
    BY <1>2, <1>4, <1>6 DEF OvertakenByLighter
  <2>1. PICK k \in DOMAIN queue : k < next /\ queue[k] = queue[n]
    BY <1>1, <1>6 DEF WalkOrder, WalkedTo
  <2>2. n < next
    BY <1>1, <2>1 DEF QueueOrder
  <2>3. queue[m] # Here
    BY <1>1, <1>6, <2>2 DEF QueueOrder, Here
  <2> QED BY <1>1, <1>5, <1>6, <2>3 DEF OvertakenByLighter
<1> QED BY <1>7, <1>8, <1>9, <1>10, <1>11, <1>12 DEF RoundInv

\* The walk picks a candidate.
LEMMA PickKeepsRoundInv ==
    ASSUME Inv, Inv', RoundInv, Pick
    PROVE  RoundInv'
<1>1. /\ TypeOK /\ TypeOK' /\ QueueOrder /\ WalkOrder /\ PicksFit /\ LeftBehind
      /\ DeferredIsLarge /\ OvertakenByLighter
  BY DEF Inv, RoundInv
<1>2. /\ phase = "select" /\ next \in DOMAIN queue /\ Fits(Here)
      /\ next' = next + 1
      /\ picks' = [picks EXCEPT ![Here] = On(WeightOf(Here), PickKeys(Here))]
      /\ UNCHANGED <<deferred, running, phase, queue, desc, round, evals>>
  BY DEF Pick, Walking, Admit, walk
<1>3. /\ Here \in Tasks
      /\ Used' = Used + WeightOf(Here)
      /\ Members(picks') = Members(picks) \union {Here}
      /\ Cardinality(Members(picks')) = Cardinality(Members(picks)) + 1
      /\ Cardinality(Members(running')) = Cardinality(Members(running))
  BY <1>1, PickCounts
<1>4. /\ Used \in Int /\ Used' \in Int /\ round \in Nat
      /\ MaxConcurrent(round) \in Int
      /\ WeightOf(Here) \in 1 .. 4 /\ PickKeys(Here) \in SUBSET Keys
      /\ Cardinality(Members(picks)) \in Nat
      /\ Cardinality(Members(running)) \in Nat
  BY <1>1, <1>3, UsedIsInt, WeightOnScale, MembersAreFinite
<1>5. next \in Nat /\ \A n \in DOMAIN queue : n \in Nat /\ queue[n] \in Tasks
  BY <1>1 DEF TypeOK
<1>6. \A t \in Tasks : picks'[t] =
          IF t = Here THEN On(WeightOf(Here), PickKeys(Here)) ELSE picks[t]
  BY <1>1, <1>2 DEF TypeOK
<1>7. On(WeightOf(Here), PickKeys(Here)).on = TRUE
  BY DEF On
<1>8. ~WalkedTo(Here)
  <2> SUFFICES ASSUME WalkedTo(Here) PROVE FALSE
    OBVIOUS
  <2>1. PICK n \in DOMAIN queue : n < next /\ queue[n] = Here
    BY DEF WalkedTo
  <2>2. n = next
    BY <1>1, <1>2, <2>1 DEF QueueOrder, Here
  <2> QED BY <1>5, <2>1, <2>2
<1>9. Used <= Used' /\ Cardinality(Members(picks)) <= Cardinality(Members(picks'))
  BY <1>3, <1>4
<1>10. \A u \in Tasks : /\ picks[u].keys \subseteq picks'[u].keys
                        /\ picks[u].on => picks'[u].on
  <2>1. ASSUME NEW u \in Tasks PROVE picks[u].keys \subseteq picks'[u].keys
    <3>1. CASE u = Here
      <4>1. picks[u] = Off
        BY <1>1, <1>3, <1>8, <3>1 DEF WalkOrder
      <4> QED BY <4>1, OffIsEntry
    <3>2. CASE u # Here
      BY <1>6, <3>2
    <3> QED BY <3>1, <3>2
  <2> QED BY <1>6, <1>7, <2>1
<1>11. QueueOrder'
  BY <1>1, <1>2 DEF QueueOrder
<1>12. WalkOrder'
  <2>1. \A t : WalkedTo(t) => WalkedTo(t)'
    BY <1>2, <1>5 DEF WalkedTo
  <2>2. \A t : t = Here => WalkedTo(t)'
    BY <1>2, <1>5 DEF WalkedTo, Here
  <2>3. next' >= 1
    BY <1>1, <1>2, <1>5 DEF WalkOrder
  <2> QED BY <1>1, <1>2, <1>6, <1>7, <2>1, <2>2, <2>3 DEF WalkOrder
<1>13. PicksFit'
  <2>1. Used + WeightOf(Here) <= round
    BY <1>2 DEF Fits
  <2>2. ~(Cardinality(Members(picks)) + Cardinality(Members(running))
               >= MaxConcurrent(round))
    BY <1>2 DEF Fits, SlotsFull
  <2>3. MaxConcurrent(round') = MaxConcurrent(round)
    BY <1>2 DEF MaxConcurrent, SanitizedBudget
  <2>4. /\ Used' <= round'
        /\ Cardinality(Members(picks')) + Cardinality(Members(running'))
               <= MaxConcurrent(round')
    BY <1>2, <1>3, <1>4, <2>1, <2>2, <2>3
  <2> QED BY <2>4 DEF PicksFit
<1>14. LeftBehind'
  <2>1. picks'[Here].on
    BY <1>3, <1>6, <1>7
  <2> QED BY <1>1, <1>2, <1>9, <1>10, <2>1, PassKeepsLeftBehind
<1>15. DeferredIsLarge'
  <2>1. ASSUME NEW t \in Tasks, deferred'[t] = "capacity" PROVE ~Fits(t)'
    BY <1>1, <1>2, <1>9, <1>10, <2>1, GrowthKeepsOut DEF DeferredIsLarge
  <2> QED BY <2>1 DEF DeferredIsLarge
<1>16. OvertakenByLighter'
  <2> SUFFICES ASSUME NEW m \in DOMAIN queue, NEW n \in DOMAIN queue, m < n,
                      deferred[queue[m]] = "capacity", picks'[queue[n]].on
               PROVE  WeightOf(queue[n])' < WeightOf(queue[m])'
    BY <1>2 DEF OvertakenByLighter
  <2>1. /\ WeightOf(queue[n])' = WeightOf(queue[n])
        /\ WeightOf(queue[m])' = WeightOf(queue[m])
    BY <1>2, CandidatesFrozen
  <2>2. CASE queue[n] = Here
    <3>1. ~Fits(queue[m]) /\ ~SlotsFull /\ Used + WeightOf(Here) <= round
      BY <1>1, <1>2, <1>5 DEF DeferredIsLarge, Fits
    <3>2. ~(Used + WeightOf(queue[m]) <= round)
      BY <3>1 DEF Fits
    <3>3. WeightOf(queue[m]) \in 1 .. 4
      BY <1>1, <1>5, WeightOnScale
    <3> QED BY <1>4, <2>1, <2>2, <3>1, <3>2, <3>3
  <2>3. CASE queue[n] # Here
    BY <1>1, <1>5, <1>6, <2>1, <2>3 DEF OvertakenByLighter
  <2> QED BY <2>2, <2>3
<1> QED BY <1>11, <1>12, <1>13, <1>14, <1>15, <1>16 DEF RoundInv

\* Every step keeps it: the steps outside a selection, then those within.
LEMMA StepRoundInv == Inv /\ RoundInv /\ [Next]_vars => RoundInv'
<1> SUFFICES ASSUME Inv, RoundInv, [Next]_vars PROVE RoundInv'
  OBVIOUS
<1>i. Inv'
  BY StepInv
<1>t. TypeOK /\ QueueOrder /\ WalkOrder /\ TypeOK'
  BY <1>i DEF Inv, RoundInv
<1>n. next \in Nat /\ \A n \in DOMAIN queue : n \in Nat /\ queue[n] \in Tasks
  BY <1>t DEF TypeOK
<1>o. ForAll(Off) \in [Tasks -> {Off}] /\ Off.on = FALSE
  BY DEF ForAll, Off
<1>1. ASSUME NEW t \in Tasks, Finish(t) PROVE RoundInv'
  <2>1. UNCHANGED <<phase, queue, next, picks, deferred>> /\ phase # "select"
    BY <1>1 DEF Finish, walk, Waiting
  <2>2. running' = [running EXCEPT ![t] = Off]
    BY <1>1 DEF Finish
  <2>3. QueueOrder'
    BY <1>t, <1>n, <2>1, <2>2 DEF QueueOrder, TypeOK
  <2>4. WalkOrder'
    BY <1>t, <2>1 DEF WalkOrder, WalkedTo
  <2> QED BY <1>t, <2>1, <2>3, <2>4, RoundInvOutsideNext
<1>2. ASSUME NEW b \in Budgets, Reload(b) PROVE RoundInv'
  <2>1. /\ UNCHANGED <<running, phase, queue, next, picks, deferred>>
        /\ phase # "select"
    BY <1>2 DEF Reload, walk, Waiting
  <2>2. QueueOrder' /\ WalkOrder'
    BY <1>t, <2>1 DEF QueueOrder, WalkOrder, WalkedTo
  <2> QED BY <1>t, <2>1, <2>2, RoundInvOutsideNext
<1>3. CASE StartRound
  <2>1. /\ queue' \in Queues /\ phase = "idle" /\ phase' = "shortlist"
        /\ UNCHANGED <<running, next, picks, deferred>>
    BY <1>3 DEF StartRound
  <2>2. QueueOrder'
    <3>1. \A m, n \in DOMAIN queue' : queue'[m] = queue'[n] => m = n
      BY <2>1 DEF Queues
    <3>2. ASSUME NEW n \in DOMAIN queue' PROVE running[queue'[n]] = Off
      <4>1. queue'[n] \in Tasks \ Members(running)
        BY <2>1 DEF Queues
      <4>2. running[queue'[n]] \in {Off} \union RunningTask
        BY <1>t, <4>1 DEF TypeOK
      <4> QED BY <4>1, <4>2 DEF Members, RunningTask
    <3> QED BY <2>1, <3>1, <3>2 DEF QueueOrder
  <2>3. WalkOrder'
    BY <1>t, <1>o, <2>1 DEF WalkOrder, ForAll
  <2> QED BY <1>t, <2>1, <2>2, <2>3, RoundInvOutsideNext
<1>4. CASE Shortlist
  <2>1. /\ phase = "shortlist" /\ next \in DOMAIN queue /\ next' = next + 1
        /\ UNCHANGED <<running, phase, queue, deferred>>
        /\ \/ UNCHANGED picks
           \/ picks' = [picks EXCEPT ![Here] =
                            On(AssumedWeight(Here), desc[Here].keys)]
    BY <1>4 DEF Shortlist, Walking, Admit, walk
  <2>2. QueueOrder'
    BY <1>t, <2>1 DEF QueueOrder
  <2>3. Here \in Tasks /\ On(AssumedWeight(Here), desc[Here].keys).on = TRUE
    BY <1>t, <2>1, HereIsTask DEF On
  <2>4. \A t \in Tasks : t # Here => picks'[t] = picks[t]
    BY <1>t, <2>1 DEF TypeOK
  <2>5. picks'[Here].on \/ picks'[Here] = picks[Here]
    BY <1>t, <2>1, <2>3 DEF TypeOK
  <2>6. \A t : WalkedTo(t) \/ t = Here => WalkedTo(t)'
    BY <1>n, <2>1 DEF WalkedTo, Here
  <2>7. WalkOrder'
    <3>1. next' >= 1
      BY <1>t, <1>n, <2>1 DEF WalkOrder
    <3> QED BY <1>t, <2>1, <2>4, <2>5, <2>6, <3>1 DEF WalkOrder
  <2> QED BY <1>t, <2>1, <2>2, <2>7, RoundInvOutsideNext
<1>5. CASE Shortlisted
  <2>1. /\ phase = "shortlist" /\ phase' = "evaluate"
        /\ picks' = ForAll(Off) /\ next' = 1
        /\ UNCHANGED <<running, queue, deferred>>
    BY <1>5 DEF Shortlisted, walk
  <2>2. QueueOrder'
    BY <1>t, <2>1 DEF QueueOrder
  <2>3. WalkOrder'
    BY <1>t, <1>o, <2>1 DEF WalkOrder, ForAll
  <2> QED BY <1>t, <2>1, <2>2, <2>3, RoundInvOutsideNext
<1>6. CASE Evaluated
  <2>1. /\ phase = "evaluate" /\ phase' = "select"
        /\ UNCHANGED <<running, queue, next, picks, deferred>>
    BY <1>6 DEF Evaluated, walk
  <2>2. picks = ForAll(Off) /\ next = 1 /\ deferred = ForAll("no")
    BY <1>t, <2>1 DEF WalkOrder
  <2>3. QueueOrder' /\ WalkOrder'
    BY <1>t, <2>1, <2>2 DEF QueueOrder, WalkOrder, WalkedTo
  <2>4. PicksFit'
    BY <2>1, <2>2, NobodyOn DEF PicksFit
  <2>5. LeftBehind'
    <3>1. \A n \in DOMAIN queue : n \in Nat /\ n >= 1
      BY <1>t DEF TypeOK
    <3>2. \A n \in DOMAIN queue' : ~(n < next')
      BY <2>1, <2>2, <3>1
    <3> QED BY <3>2 DEF LeftBehind
  <2>6. DeferredIsLarge' /\ OvertakenByLighter'
    <3>1. \A t \in Tasks : deferred'[t] = "no"
      BY <2>1, <2>2 DEF ForAll
    <3> QED BY <1>n, <2>1, <3>1 DEF DeferredIsLarge, OvertakenByLighter
  <2> QED BY <2>3, <2>4, <2>5, <2>6 DEF RoundInv
<1>7. CASE DeferConflicting
  <2>1. /\ phase = "select" /\ next \in DOMAIN queue
        /\ PickKeys(Here) \intersect Claimed # {} /\ Defer("conflict")
        /\ UNCHANGED <<budget, running, phase, walk, short, evals>>
    BY <1>7 DEF DeferConflicting, Walking
  <2> QED BY <1>i, <2>1, DeferKeepsRoundInv
<1>8. CASE DeferLarge
  <2>1. /\ phase = "select" /\ next \in DOMAIN queue
        /\ ~Fits(Here) /\ Defer("capacity")
        /\ UNCHANGED <<budget, running, phase, walk, short, evals>>
    BY <1>8 DEF DeferLarge, Walking
  <2> QED BY <1>i, <2>1, DeferKeepsRoundInv
<1>9. CASE Pick
  BY <1>i, <1>9, PickKeepsRoundInv
<1>10. CASE Register
  <2>1. /\ phase' = "idle" /\ queue' = <<>> /\ picks' = ForAll(Off) /\ next' = 1
        /\ deferred' = ForAll("no")
    BY <1>10 DEF Register, Reset
  <2>2. QueueOrder'
    BY <2>1 DEF QueueOrder
  <2>3. WalkOrder'
    BY <1>o, <2>1 DEF WalkOrder, ForAll
  <2> QED BY <1>t, <2>1, <2>2, <2>3, RoundInvOutsideNext
<1>11. CASE LegacySelect
  <2>1. /\ phase = "idle" /\ queue = <<>>
        /\ UNCHANGED <<phase, queue, next, picks, deferred>>
    BY <1>t, <1>11 DEF LegacySelect, walk, QueueOrder
  <2>2. QueueOrder'
    BY <2>1 DEF QueueOrder
  <2>3. WalkOrder'
    BY <1>t, <2>1 DEF WalkOrder, WalkedTo
  <2> QED BY <1>t, <2>1, <2>2, <2>3, RoundInvOutsideNext
<1>12. CASE UNCHANGED vars
  BY <1>12
  DEF RoundInv, vars, walk, QueueOrder, WalkOrder, WalkedTo, PicksFit,
      LeftBehind, DeferredIsLarge, OvertakenByLighter, Used, Fits, SlotsFull,
      WeightOf, PickKeys, Claimed
<1> QED BY <1>1, <1>2, <1>3, <1>4, <1>5, <1>6, <1>7, <1>8, <1>9, <1>10, <1>11, <1>12
        DEF Next

\* The round's invariant holds in every reachable state.
THEOREM RoundInvariance == Spec => [](Inv /\ RoundInv)
BY InitInv, InitRoundInv, StepInv, StepRoundInv, PTL DEF Spec

\* When a walk is over, a candidate was left behind only for a claimed key or
\* because it does not fit beside what was picked after it was looked at
\* (selectTasks walks on after a task that does not fit).
THEOREM OnlyWhatDoesNotFitIsLeft == Spec => []NothingElseFits
<1>1. Inv /\ RoundInv => NothingElseFits
  <2> SUFFICES ASSUME Inv, RoundInv, Selected, NEW n \in DOMAIN queue
               PROVE  \/ picks[queue[n]].on
                      \/ PickKeys(queue[n]) \intersect Claimed # {}
                      \/ ~Fits(queue[n])
    BY DEF NothingElseFits
  <2>1. /\ phase = "select" /\ next \notin DOMAIN queue
        /\ queue \in Seq(Tasks) /\ next \in Nat /\ next >= 1
    BY DEF Selected, Inv, TypeOK, RoundInv, WalkOrder
  <2>2. n < next
    BY <2>1
  <2> QED BY <2>1, <2>2 DEF RoundInv, LeftBehind
<1> QED BY RoundInvariance, <1>1, PTL

\* A round that has started has candidates.
HasCandidates == phase # "idle" => queue # <<>>

LEMMA StepHasCandidates == TypeOK /\ HasCandidates /\ [Next]_vars => HasCandidates'
<1> SUFFICES ASSUME TypeOK, HasCandidates, [Next]_vars PROVE HasCandidates'
  OBVIOUS
<1>1. CASE StartRound
  <2>1. PICK n \in 1 .. Cardinality(Tasks \ Members(running)) :
             queue' \in [1 .. n -> Tasks \ Members(running)]
    BY <1>1 DEF StartRound, Queues
  <2>2. 1 \in DOMAIN queue'
    BY <2>1
  <2> QED BY <2>2 DEF HasCandidates
<1>2. CASE Register
  BY <1>2 DEF Register, Reset, HasCandidates
<1>3. ASSUME UNCHANGED queue, phase # "idle" \/ phase' = phase
      PROVE  HasCandidates'
  BY <1>3 DEF HasCandidates
<1>4. CASE Shortlist \/ Shortlisted \/ Evaluated
  BY <1>3, <1>4 DEF Shortlist, Shortlisted, Evaluated, Walking, walk
<1>5. CASE DeferConflicting \/ DeferLarge \/ Pick
  BY <1>3, <1>5 DEF DeferConflicting, DeferLarge, Pick, walk
<1>6. CASE LegacySelect
  BY <1>3, <1>6 DEF LegacySelect, walk
<1>7. ASSUME NEW t \in Tasks, Finish(t) PROVE HasCandidates'
  BY <1>3, <1>7 DEF Finish, walk
<1>8. ASSUME NEW b \in Budgets, Reload(b) PROVE HasCandidates'
  BY <1>3, <1>8 DEF Reload, walk
<1>9. CASE UNCHANGED vars
  BY <1>3, <1>9 DEF vars, walk
<1> QED BY <1>1, <1>2, <1>4, <1>5, <1>6, <1>7, <1>8, <1>9 DEF Next

\* When nothing runs and the budget is at least one slot, the round starts a
\* task: if it picked none, its first candidate would fit, because the weight
\* is clamped to the scale (selectTasks, clampWeight).
THEOREM IdleAgentStarts == Spec => []IdleStarts
<1>1. Inv /\ RoundInv /\ HasCandidates => IdleStarts
  <2> SUFFICES ASSUME Inv, RoundInv, HasCandidates, Selected,
                      Members(running) = {}, round >= Slot, Members(picks) = {}
               PROVE  FALSE
    BY DEF IdleStarts
  <2> DEFINE t == queue[1]
  <2>1. /\ phase = "select" /\ next \notin DOMAIN queue
        /\ queue \in Seq(Tasks) /\ next \in Nat /\ next >= 1
        /\ queue # <<>>
    BY DEF Selected, Inv, TypeOK, RoundInv, WalkOrder, HasCandidates
  <2>2. 1 \in DOMAIN queue /\ 1 < next /\ t \in Tasks
    BY <2>1
  <2>3. /\ running \in [Tasks -> Entry] /\ picks \in [Tasks -> Entry]
        /\ \A u \in Tasks : running[u] \in {Off} \union RunningTask
        /\ \A u \in Tasks : picks[u] \in {Off} \union RunningTask
    BY <2>1, RunningIsEntries DEF Inv, TypeOK, PicksInScale
  <2>4. Used = 0
    BY <2>3, LoadIsInt DEF Used
  <2>5. Claimed = {}
    <3>1. \A u \in Tasks : ~running[u].on /\ ~picks[u].on
      BY DEF Members
    <3>2. \A u \in Tasks : running[u] = Off /\ picks[u] = Off
      BY <2>3, <3>1 DEF RunningTask
    <3> QED BY <3>2, OffIsEntry DEF Claimed, KeysOf
  <2>6. ~SlotsFull
    <3>1. Cardinality(Members(picks)) + Cardinality(Members(running)) = 0
      BY FS_EmptySet
    <3>2. round \in Nat /\ MaxConcurrent(round) = (round + 3) \div 4
      BY UsedIsInt DEF Inv, MaxConcurrent, SanitizedBudget
    <3> QED BY <3>1, <3>2 DEF SlotsFull
  <2>7. Fits(t)
    <3>1. WeightOf(t) \in 1 .. 4
      BY <2>2, WeightOnScale DEF Inv
    <3>2. round \in Nat
      BY UsedIsInt DEF Inv
    <3> QED BY <2>4, <2>6, <3>1, <3>2 DEF Fits
  <2>8. ~picks[t].on
    BY <2>2 DEF Members
  <2> QED BY <2>1, <2>2, <2>5, <2>7, <2>8 DEF RoundInv, LeftBehind
<1>2. Init => HasCandidates
  BY DEF Init, HasCandidates
<1>3. Spec => []HasCandidates
  <2>1. Spec => []TypeOK
    BY TypeCorrect
  <2> QED BY <1>2, <2>1, StepHasCandidates, PTL DEF Spec
<1> QED BY RoundInvariance, <1>1, <1>3, PTL

\* A walk starts what it can.
THEOREM WalkStartsWhatItCan == Spec => []StartsWhatItCan
<1>1. NothingElseFits /\ IdleStarts => StartsWhatItCan
  BY DEF StartsWhatItCan
<1> QED BY OnlyWhatDoesNotFitIsLeft, IdleAgentStarts, <1>1, PTL

\* A task deferred for capacity is overtaken only by a lighter one.
THEOREM OnlyLighterTasksOvertake == Spec => []OvertakenByLighter
<1>1. RoundInv => OvertakenByLighter
  BY DEF RoundInv
<1> QED BY RoundInvariance, <1>1, PTL

-----------------------------------------------------------------------------
(* The starts *)

\* The selection registers what fits the budget the round read.
LEMMA RegisterFits ==
    ASSUME Inv, RoundInv, Register, ~(Members(running') \subseteq Members(running))
    PROVE  /\ phase = "select"
           /\ Cardinality(Members(running')) <= MaxConcurrent(round)
           /\ LoadOf(running') <= round
<1>1. /\ TypeOK /\ QueueOrder /\ WalkOrder /\ PicksFit /\ phase = "select"
      /\ running' = [t \in Tasks |-> IF picks[t].on THEN picks[t] ELSE running[t]]
  BY DEF Inv, RoundInv, Register, Selected
<1>2. running \in [Tasks -> Entry] /\ picks \in [Tasks -> Entry]
  BY <1>1, RunningIsEntries DEF TypeOK
<1>3. Members(running) \intersect Members(picks) = {}
  <2> SUFFICES ASSUME NEW t \in Tasks, running[t].on, picks[t].on PROVE FALSE
    BY DEF Members
  <2>1. running[t] = Off
    BY <1>1 DEF WalkOrder, WalkedTo, QueueOrder
  <2> QED BY <2>1 DEF Off
<1>4. /\ LoadOf(running') = LoadOf(running) + LoadOf(picks)
      /\ Members(running') = Members(running) \union Members(picks)
  BY <1>1, <1>2, <1>3, LoadOfMerged
<1>5. Members(picks) # {}
  BY <1>4
<1>6. /\ Used <= round
      /\ Cardinality(Members(picks)) + Cardinality(Members(running))
             <= MaxConcurrent(round)
  BY <1>1, <1>5 DEF PicksFit
<1>7. Cardinality(Members(running')) =
          Cardinality(Members(running)) + Cardinality(Members(picks))
  <2>1. Cardinality({}) = 0
    BY FS_EmptySet
  <2>2. Cardinality(Members(running) \union Members(picks)) =
            Cardinality(Members(running)) + Cardinality(Members(picks))
                - Cardinality({})
    BY <1>3, MembersAreFinite, FS_Union
  <2> QED BY <1>4, <2>1, <2>2, MembersAreFinite
<1>8. Cardinality(Members(running)) \in Nat /\ Cardinality(Members(picks)) \in Nat
  BY MembersAreFinite
<1>9. LoadOf(running') <= round
  BY <1>4, <1>6 DEF Used
<1>10. Cardinality(Members(running')) <= MaxConcurrent(round)
  BY <1>6, <1>7, <1>8
<1> QED BY <1>1, <1>9, <1>10

\* The tasks at the first k places of an order are at most k.
LEMMA FirstPlaces ==
    ASSUME NEW q \in Seq(Tasks), NEW k \in Nat,
           NEW S, S = {q[n] : n \in {n \in DOMAIN q : n <= k}}
    PROVE  IsFiniteSet(S) /\ Cardinality(S) <= k
<1> DEFINE D == {n \in DOMAIN q : n <= k}
           f == [n \in D |-> q[n]]
<1>1. D \in SUBSET (1 .. k)
  OBVIOUS
<1>2. IsFiniteSet(1 .. k) /\ Cardinality(1 .. k) = k
  BY FS_Interval
<1>3. IsFiniteSet(D) /\ Cardinality(D) <= k
  BY <1>1, <1>2, FS_Subset
<1>4. f \in Surjection(D, S)
  BY DEF Surjection
<1>5. IsFiniteSet(S) /\ Cardinality(S) <= Cardinality(D)
  BY <1>3, <1>4, FS_Surjection
<1>6. Cardinality(S) \in Nat /\ Cardinality(D) \in Nat
  BY <1>3, <1>5, FS_CardinalityType
<1> QED BY <1>3, <1>5, <1>6

\* What the free slots of the raw budget admit is within the cap.
LEMMA LegacyTakeFits ==
    ASSUME NEW b \in Nat, NEW r \in Nat, NEW free, free = b - 4 * r,
           NEW c \in Nat, c <= r + LegacyTake(free)
    PROVE  /\ LegacyTake(free) \in Nat
           /\ LegacyTake(free) # 0 => c <= MaxConcurrent(SanitizedBudget(b))
<1>1. free \in Int
  OBVIOUS
<1>2. LegacyTake(free) \in Nat
  BY <1>1 DEF LegacyTake
<1>3. ASSUME LegacyTake(free) # 0 PROVE c <= MaxConcurrent(SanitizedBudget(b))
  <2>1. free > 0 /\ b > 0
    BY <1>1, <1>3 DEF LegacyTake
  <2>2. MaxConcurrent(SanitizedBudget(b)) = (b + 3) \div 4
    BY <2>1 DEF MaxConcurrent, SanitizedBudget
  <2>3. CASE free < 4
    <3>1. c <= r + 1
      BY <1>1, <2>1, <2>3 DEF LegacyTake
    <3> QED BY <2>1, <2>2, <3>1
  <2>4. CASE free >= 4
    <3>1. c <= r + (free \div 4)
      BY <1>1, <2>1, <2>4 DEF LegacyTake
    <3> QED BY <2>1, <2>2, <3>1
  <2> QED BY <1>1, <2>3, <2>4
<1> QED BY <1>2, <1>3

\* The kill switch keeps the process cap.
LEMMA LegacyFits ==
    ASSUME Inv, LegacySelect, ~(Members(running') \subseteq Members(running))
    PROVE  /\ phase = "idle"
           /\ Cardinality(Members(running'))
                  <= MaxConcurrent(SanitizedBudget(budget))
<1> DEFINE r == Cardinality(Members(running))
           free == budget - Slot * r
           k == LegacyTake(free)
<1>1. PICK q \in Queues :
        running' = [t \in Tasks |->
             IF \E n \in DOMAIN q : n <= k /\ q[n] = t
             THEN On(DefaultWeight, {}) ELSE running[t]]
  BY DEF LegacySelect
<1>2. q \in Seq(Tasks) /\ budget \in Nat /\ r \in Nat
  BY QueuesAreSequences, MembersAreFinite, SchedulerAssumption DEF Inv, TypeOK
<1>3. k \in Nat
  <2>1. free \in Int
    BY <1>2
  <2> QED BY <2>1 DEF LegacyTake
<1> DEFINE S == {q[n] : n \in {n \in DOMAIN q : n <= k}}
<1>4. IsFiniteSet(S) /\ Cardinality(S) <= k
  <2> HIDE DEF k
  <2> QED BY <1>2, <1>3, FirstPlaces
<1>5. Members(running') \subseteq Members(running) \union S
  <2> HIDE DEF k
  <2> QED BY <1>1 DEF Members
<1>6. Cardinality(Members(running')) <= r + k
  <2> HIDE DEF k, S
  <2>1. /\ IsFiniteSet(Members(running) \union S)
        /\ Cardinality(Members(running) \union S) = r + Cardinality(S)
              - Cardinality(Members(running) \intersect S)
    BY <1>4, MembersAreFinite, FS_Union
  <2>2. Cardinality(Members(running')) <= Cardinality(Members(running) \union S)
    BY <1>5, <2>1, FS_Subset
  <2>3. IsFiniteSet(Members(running) \intersect S)
    BY <1>4, FS_Subset
  <2>4. /\ Cardinality(S) \in Nat
        /\ Cardinality(Members(running) \intersect S) \in Nat
        /\ Cardinality(Members(running')) \in Nat
    BY <1>4, <2>3, FS_CardinalityType, MembersAreFinite
  <2> HIDE DEF r
  <2> QED BY <1>2, <1>3, <1>4, <2>1, <2>2, <2>4
<1>7. k # 0
  <2>1. S # {}
    <3> HIDE DEF S
    <3> QED BY <1>5
  <2>2. PICK n \in DOMAIN q : n <= k
    BY <2>1
  <2> HIDE DEF k
  <2> QED BY <1>2, <1>3, <2>2
<1>8. Cardinality(Members(running')) \in Nat
  BY MembersAreFinite
<1>9. phase = "idle"
  BY DEF LegacySelect
<1>10. Cardinality(Members(running')) <= MaxConcurrent(SanitizedBudget(budget))
  <2> HIDE DEF r
  <2>1. free = budget - 4 * r
    OBVIOUS
  <2> HIDE DEF free
  <2> QED BY <1>2, <1>6, <1>7, <1>8, <2>1, LegacyTakeFits
<1> QED BY <1>9, <1>10

\* A step that starts tasks leaves the running tasks within the budget.
StartsFit ==
    Members(running') \ Members(running) # {} =>
         LET b == IF phase = "select" THEN round ELSE SanitizedBudget(budget) IN
         /\ Cardinality(Members(running')) <= MaxConcurrent(b)
         /\ phase = "select" => LoadOf(running') <= b

\* Only Register and LegacySelect start tasks.
LEMMA StepFits == Inv /\ RoundInv /\ [Next]_vars => [StartsFit]_vars
<1> SUFFICES ASSUME Inv, RoundInv, Next, Members(running') \ Members(running) # {}
             PROVE  StartsFit
  BY DEF StartsFit
<1>1. ~(Members(running') \subseteq Members(running))
  OBVIOUS
<1>2. ASSUME NEW t \in Tasks, Finish(t) PROVE FALSE
  <2>1. \A u \in Tasks : running'[u].on => running[u].on
    BY <1>2 DEF Finish, Inv, TypeOK, Off
  <2> QED BY <1>1, <2>1 DEF Members
<1>3. ASSUME UNCHANGED running PROVE FALSE
  BY <1>1, <1>3
<1>4. CASE Register
  BY <1>1, <1>4, RegisterFits DEF StartsFit
<1>5. CASE LegacySelect
  BY <1>1, <1>5, LegacyFits DEF StartsFit
<1>6. ASSUME NEW b \in Budgets, Reload(b) PROVE UNCHANGED running
  BY <1>6 DEF Reload
<1>7. StartRound \/ Shortlist \/ Shortlisted \/ Evaluated => UNCHANGED running
  BY DEF StartRound, Shortlist, Shortlisted, Evaluated
<1>8. DeferConflicting \/ DeferLarge \/ Pick => UNCHANGED running
  BY DEF DeferConflicting, DeferLarge, Pick
<1> QED BY <1>2, <1>3, <1>4, <1>5, <1>6, <1>7, <1>8 DEF Next

\* A round that starts tasks leaves the running weight within the budget it
\* read and the processes within its cap, whatever ended or was reloaded during
\* the evaluations (selectTasks, maxConcurrentTasks, selectTasksLegacy).
THEOREM StartedTasksFit == Spec => RoundFits
<1>1. Spec => [][StartsFit]_vars
  BY RoundInvariance, StepFits, PTL DEF Spec
<1> QED BY <1>1 DEF RoundFits, StartsFit
=============================================================================
