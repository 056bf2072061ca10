-------------------------- MODULE ProcessGroupProofs --------------------------
(***************************************************************************)
(* Proofs about ProcessGroup, for any number of tasks and prompts: who     *)
(* may be signalled, that an abort wins every race, and that no CLI is     *)
(* left when the agent process exits.  That every run settles is liveness, *)
(* and stays with TLC.                                                     *)
(***************************************************************************)
EXTENDS ProcessGroup, TLAPS

\* A run belongs to a caller, and only tasks have other runs than a primary one.
LEMMA RunsOfCallers ==
    /\ \A r \in Runs : /\ r = <<r[1], r[2]>> /\ r[1] \in Callers /\ r[2] \in Kinds
                       /\ r[1] \in Tasks \/ r[2] = "primary"
    /\ \A t \in Tasks : t \in Callers
BY DEF Runs, Callers, Kinds

\* A run that is about to be started follows all the runs behind its caller.
LEMMA UpcomingIsNext ==
    ASSUME NEW r \in Runs, r[2] \in Upcoming(r[1])
    PROVE  /\ stage[r[1]] \in {"ready", "listed", "failed", "relisted"}
           /\ r[2] \notin Behind(stage[r[1]])
           /\ \A kind \in Behind(stage[r[1]]) : kind \in Behind(r[2])
BY DEF Upcoming, Behind, Kinds, Listings

\* The run a caller starts is neither registered nor settled, and no other run of
\* the caller is registered.
LEMMA UpcomingIsNew ==
    ASSUME Inv, NEW r \in Runs, r[2] \in Upcoming(r[1])
    PROVE  r \notin settled /\ \A q \in live : q[1] # r[1]
<1>1. r \notin settled
  BY UpcomingIsNext DEF Inv, SettledIsBehind
<1>2. ASSUME NEW q \in live, q[1] = r[1] PROVE FALSE
  <2>1. q[2] \in Kinds /\ stage[q[1]] = q[2]
    BY RunsOfCallers DEF Inv, TypeOK, LiveIsAwaited
  <2> QED BY <1>2, <2>1, UpcomingIsNext DEF Kinds, Listings
<1> QED BY <1>1, <1>2

\* Where a caller is once its run has ended.
LEMMA ConcludedStage ==
    ASSUME NEW r \in Runs, NEW outcome \in Over
    PROVE  LET s == Concluded(r, outcome) IN
           /\ s \in Stage
           /\ r[1] \notin Tasks => s \in Over
           /\ s \in Over => s = outcome
           /\ s \notin Kinds
           /\ r[2] \in Behind(s)
           /\ \A kind \in Behind(r[2]) : kind \in Behind(s)
<1>1. /\ r[2] \in {"listing", "relisting", "primary", "fallback"}
      /\ r[1] \in Tasks \/ r[2] = "primary"
  BY RunsOfCallers DEF Kinds, Listings
<1> QED BY <1>1 DEF Concluded, Behind, Stage, Over, Kinds, Listings

\* A signal leaves a part of the processes of every group.
LEMMA SignalShrinks ==
    ASSUME Inv, NEW rs, NEW sig, Signal(rs, sig)
    PROVE  /\ alive' \in [Runs -> SUBSET Process]
           /\ \A r \in Runs : alive'[r] \subseteq alive[r]
BY DEF Signal, Inv, TypeOK

\* Processes that only end keep what is known of the groups.
LEMMA ShrinkingKeepsOpen ==
    ASSUME Inv, UNCHANGED <<live, overflown, app>>,
           \A r \in Runs : alive'[r] \subseteq alive[r]
    PROVE  OpenIsLive'
BY DEF Inv, OpenIsLive, Closed

-----------------------------------------------------------------------------

\* Nothing is spawned at first.
LEMMA InvInit == Init => Inv
<1> SUFFICES ASSUME Init PROVE Inv
  OBVIOUS
<1>1. TypeOK
  BY DEF Init, TypeOK, Stage, App
<1>2. SignalsOnlyLive /\ LiveIsAwaited
  BY DEF Init, SignalsOnlyLive, LiveIsAwaited
<1>3. AbortWins
  BY RunsOfCallers DEF Init, AbortWins, Over
<1>4. SettledIsBehind
  BY DEF Init, SettledIsBehind
<1>5. OpenIsLive
  BY DEF Init, OpenIsLive, Closed
<1>6. StartupInOrder
  BY DEF Init, StartupInOrder, Callers
<1> QED BY <1>1, <1>2, <1>3, <1>4, <1>5, <1>6 DEF Inv

\* A step of the startup: an exit only after every check has settled.
LEMMA StartupKeepsInv ==
    ASSUME Inv, StartupFails \/ Started \/ KilledAtStartup
    PROVE  Inv'
<1>1. /\ UNCHANGED <<callers, alive, live, settled, timers, flags>>
      /\ app' \in App
  BY DEF StartupFails, Started, KilledAtStartup, App
<1>2. TypeOK' /\ SignalsOnlyLive' /\ AbortWins' /\ LiveIsAwaited' /\ SettledIsBehind'
  BY <1>1 DEF Inv, TypeOK, SignalsOnlyLive, AbortWins, LiveIsAwaited, SettledIsBehind,
              callers, flags
<1>3. app' = "exited" => live = {}
  <2> SUFFICES ASSUME app' = "exited", NEW r \in live PROVE FALSE
    OBVIOUS
  <2>1. CASE app = "exited"
    BY <2>1 DEF StartupFails, Started, KilledAtStartup
  <2>2. CASE app # "exited"
    <3>1. app = "starting"
      BY DEF StartupFails, Started, KilledAtStartup
    <3>2. PICK p \in Probes : stage[p] = "error"
      BY <2>2 DEF StartupFails, Started, KilledAtStartup
    <3>3. r[1] \in Callers /\ stage[r[1]] \in Kinds
      BY RunsOfCallers DEF Inv, TypeOK, LiveIsAwaited
    <3> QED BY <3>1, <3>2, <3>3 DEF Inv, StartupInOrder, Kinds, Listings
  <2> QED BY <2>1, <2>2
<1>4. OpenIsLive'
  BY <1>1, <1>3 DEF Inv, OpenIsLive, Closed, flags
<1>5. StartupInOrder'
  BY <1>1 DEF StartupFails, Started, KilledAtStartup, StartupInOrder
<1> QED BY <1>2, <1>4, <1>5 DEF Inv

\* A run that was started, or only called for, and is over now.
LEMMA SettlingKeepsInv ==
    ASSUME Inv, NEW r \in Runs, NEW outcome \in Over,
           \A q \in live : q[1] = r[1] => q = r,
           \A kind \in Behind(stage[r[1]]) : kind \in Behind(r[2]),
           signal[r[1]] /\ Heeds(r) => outcome = "aborted",
           app = "starting" =>
               r[1] \in Probes /\ \A p \in Probes \ {r[1]} : stage[p] \in {"ready", "ok"},
           "leader" \notin alive[r] /\ (r \in overflown \/ Closed(r)),
           settled' = settled \union {r}, live' = live \ {r},
           stage' = [stage EXCEPT ![r[1]] = Concluded(r, outcome)],
           timers' \in [Runs -> SUBSET Timer],
           \A q \in Runs : timers'[q] # {} => q # r /\ timers[q] # {},
           timedOut' \in [Runs -> BOOLEAN], aborted' \in [Runs -> BOOLEAN],
           \A q \in Runs \ {r} : aborted'[q] = aborted[q],
           UNCHANGED <<signal, alive, overflown, app>>
    PROVE  Inv'
<1> DEFINE s == Concluded(r, outcome)
<1>1. r[1] \in Callers /\ r[2] \in Kinds /\ \A q \in Runs : q[1] \in Callers
  BY RunsOfCallers
<1>2. /\ s \in Stage /\ (r[1] \notin Tasks => s \in Over) /\ (s \in Over => s = outcome)
      /\ s \notin Kinds /\ r[2] \in Behind(s) /\ \A kind \in Behind(r[2]) : kind \in Behind(s)
  BY ConcludedStage
<1>3. stage' = [stage EXCEPT ![r[1]] = s]
  OBVIOUS
<1> HIDE DEF s
<1>4. TypeOK'
  <2>1. stage' \in [Callers -> Stage]
    BY <1>2, <1>3 DEF Inv, TypeOK
  <2>2. \A c \in Callers \ Tasks : stage'[c] \in {"ready", "primary"} \union Over
    BY <1>2, <1>3 DEF Inv, TypeOK
  <2> QED BY <2>1, <2>2 DEF Inv, TypeOK
<1>5. SignalsOnlyLive'
  BY DEF Inv, TypeOK, SignalsOnlyLive
<1>6. AbortWins'
  <2> SUFFICES ASSUME NEW t \in Tasks, signal[t], stage'[t] \in Over
               PROVE  stage'[t] = "aborted"
    BY DEF AbortWins
  <2>1. t \in Callers  BY RunsOfCallers
  <2>2. CASE t = r[1]
    <3>1. stage'[t] = s  BY <1>3, <2>1, <2>2 DEF Inv, TypeOK
    <3>2. s = outcome  BY <1>2, <3>1
    <3>3. r[2] \notin Listings
      BY <1>2, <3>1 DEF s, Concluded, Listings, Over
    <3> QED BY <2>2, <3>1, <3>2, <3>3 DEF Heeds
  <2>3. CASE t # r[1]
    <3>1. stage'[t] = stage[t]  BY <1>3, <2>1, <2>3 DEF Inv, TypeOK
    <3> QED BY <3>1 DEF Inv, AbortWins
  <2> QED BY <2>2, <2>3
<1>7. StartupInOrder'
  <2> SUFFICES ASSUME app = "starting" PROVE StartupInOrder'
    BY DEF StartupInOrder
  <2>1. \A c \in Callers : c # r[1] => stage'[c] = stage[c]
    BY <1>3 DEF Inv, TypeOK
  <2>2. r[1] \in Probes /\ \A p \in Probes \ {r[1]} : stage'[p] \in {"ready", "ok"}
    BY <2>1 DEF Callers
  <2>3. \A p, q \in Probes :
          p = q \/ {stage'[p], stage'[q]} \intersect {"ready", "ok"} # {}
    BY <2>2
  <2>4. \A c \in Callers \ Probes : stage'[c] = "ready"
    BY <2>1, <2>2 DEF Inv, StartupInOrder
  <2> QED BY <2>3, <2>4 DEF StartupInOrder
<1>8. LiveIsAwaited'
  <2>1. \A q \in live' : q \in live /\ q # r /\ q \in Runs /\ q[1] # r[1]
    BY DEF Inv, TypeOK
  <2>2. \A q \in live' : stage'[q[1]] = stage[q[1]] /\ aborted'[q] = aborted[q]
    BY <1>1, <1>3, <2>1 DEF Inv, TypeOK
  <2> QED BY <2>1, <2>2 DEF Inv, LiveIsAwaited, Heeds
<1>9. SettledIsBehind'
  <2> SUFFICES ASSUME NEW q \in settled \union {r} PROVE q[2] \in Behind(stage'[q[1]])
    BY DEF SettledIsBehind
  <2>1. q \in Runs  BY DEF Inv, TypeOK
  <2>2. CASE q[1] # r[1]
    <3>1. stage'[q[1]] = stage[q[1]]  BY <1>1, <1>3, <2>1, <2>2 DEF Inv, TypeOK
    <3> QED BY <2>2, <3>1 DEF Inv, SettledIsBehind
  <2>3. CASE q[1] = r[1]
    <3>1. stage'[q[1]] = s  BY <1>1, <1>3, <2>3 DEF Inv, TypeOK
    <3>2. q = r \/ q[2] \in Behind(stage[r[1]])
      BY <2>3 DEF Inv, SettledIsBehind
    <3> QED BY <1>2, <3>1, <3>2
  <2> QED BY <2>2, <2>3
<1>10. OpenIsLive'
  BY DEF Inv, OpenIsLive, Closed
<1> QED BY <1>4, <1>5, <1>6, <1>7, <1>8, <1>9, <1>10 DEF Inv

\* A call that is rejected, or fails, before anything is spawned.
LEMMA CallFailsKeepsInv ==
    ASSUME Inv, NEW r \in Runs, RejectAborted(r) \/ SpawnFails(r)
    PROVE  Inv'
<1> DEFINE outcome == IF RejectAborted(r) THEN "aborted" ELSE "error"
<1>1. /\ Serving(r[1]) /\ r[2] \in Upcoming(r[1])
      /\ signal[r[1]] /\ Heeds(r) => outcome = "aborted"
      /\ settled' = settled \union {r} /\ Conclude(r, outcome)
      /\ UNCHANGED <<signal, alive, live, timers, flags, app>>
  BY DEF RejectAborted, SpawnFails, Calls
<1>2. outcome \in Over
  BY DEF Over
<1> HIDE DEF outcome
<1>3. r \notin settled /\ r \notin live /\ \A q \in live : q[1] # r[1]
  BY <1>1, UpcomingIsNew
<1>4. \A kind \in Behind(stage[r[1]]) : kind \in Behind(r[2])
  BY <1>1, UpcomingIsNext
<1>5. "leader" \notin alive[r] /\ (r \in overflown \/ Closed(r)) /\ timers[r] = {}
  BY <1>3 DEF Inv, OpenIsLive, SignalsOnlyLive
<1>6. live' = live \ {r}
  BY <1>1, <1>3
<1>7. app = "starting" =>
        r[1] \in Probes /\ \A p \in Probes \ {r[1]} : stage[p] \in {"ready", "ok"}
  BY <1>1 DEF Serving
<1>8. /\ timers' \in [Runs -> SUBSET Timer]
      /\ timedOut' \in [Runs -> BOOLEAN] /\ aborted' \in [Runs -> BOOLEAN]
      /\ aborted' = aborted /\ overflown' = overflown
      /\ \A q \in Runs : timers'[q] # {} => q # r /\ timers[q] # {}
  BY <1>1, <1>5 DEF Inv, TypeOK, flags
<1>9. stage' = [stage EXCEPT ![r[1]] = Concluded(r, outcome)]
  BY <1>1 DEF Conclude
<1> QED BY <1>1, <1>2, <1>3, <1>4, <1>5, <1>6, <1>7, <1>8, <1>9, SettlingKeepsInv

\* A spawn keeps the invariant.
LEMMA SpawnKeepsInv ==
    ASSUME Inv, NEW r \in Runs, Spawn(r)
    PROVE  Inv'
<1>1. /\ Serving(r[1]) /\ r[2] \in Upcoming(r[1]) /\ ~(Heeds(r) /\ signal[r[1]])
      /\ alive' = [alive EXCEPT ![r] = {"leader"}]
      /\ live' = live \union {r}
      /\ timers' = [timers EXCEPT ![r] = {"terminate"}]
      /\ stage' = [stage EXCEPT ![r[1]] = r[2]]
      /\ UNCHANGED <<signal, settled, flags, app>>
  BY DEF Spawn, Calls
<1>2. r \notin settled /\ \A q \in live : q[1] # r[1]
  BY <1>1, UpcomingIsNew
<1>3. r[1] \in Callers /\ r[2] \in Kinds /\ (r[1] \in Tasks \/ r[2] = "primary")
      /\ \A q \in Runs : q[1] \in Callers
  BY RunsOfCallers
<1>4. TypeOK'
  <2>1. stage' \in [Callers -> Stage]
    BY <1>1, <1>3 DEF Inv, TypeOK, Stage
  <2>2. \A c \in Callers \ Tasks : stage'[c] \in {"ready", "primary"} \union Over
    BY <1>1, <1>3 DEF Inv, TypeOK
  <2>3. alive' \in [Runs -> SUBSET Process] /\ timers' \in [Runs -> SUBSET Timer]
    BY <1>1 DEF Inv, TypeOK, Process, Timer
  <2> QED BY <1>1, <2>1, <2>2, <2>3 DEF Inv, TypeOK, flags
<1>5. SignalsOnlyLive'
  BY <1>1, <1>2 DEF Inv, TypeOK, SignalsOnlyLive
<1>6. AbortWins'
  <2>1. r[2] \notin Over
    BY <1>3 DEF Kinds, Listings, Over
  <2> QED BY <1>1, <2>1, RunsOfCallers DEF Inv, TypeOK, AbortWins
<1>7. StartupInOrder'
  <2> SUFFICES ASSUME app = "starting" PROVE StartupInOrder'
    BY <1>1 DEF StartupInOrder
  <2>1. \A c \in Callers : c # r[1] => stage'[c] = stage[c]
    BY <1>1 DEF Inv, TypeOK
  <2>2. r[1] \in Probes /\ \A p \in Probes \ {r[1]} : stage'[p] \in {"ready", "ok"}
    BY <1>1, <2>1 DEF Callers, Serving
  <2>3. \A p, q \in Probes :
          p = q \/ {stage'[p], stage'[q]} \intersect {"ready", "ok"} # {}
    BY <2>2
  <2>4. \A c \in Callers \ Probes : stage'[c] = "ready"
    BY <2>1, <2>2 DEF Inv, StartupInOrder
  <2> QED BY <2>3, <2>4 DEF StartupInOrder
<1>8. LiveIsAwaited'
  <2>1. \A q \in live : stage'[q[1]] = stage[q[1]]
    BY <1>1, <1>2, <1>3 DEF Inv, TypeOK
  <2>2. stage'[r[1]] = r[2]
    BY <1>1, <1>3 DEF Inv, TypeOK
  <2> QED BY <1>1, <2>1, <2>2 DEF Inv, LiveIsAwaited, Heeds, flags
<1>9. SettledIsBehind'
  <2> SUFFICES ASSUME NEW q \in settled PROVE q[2] \in Behind(stage'[q[1]])
    BY <1>1 DEF SettledIsBehind
  <2>1. q \in Runs /\ q[2] \in Behind(stage[q[1]])
    BY DEF Inv, TypeOK, SettledIsBehind
  <2>2. CASE q[1] # r[1]
    BY <1>1, <1>3, <2>1, <2>2 DEF Inv, TypeOK
  <2>3. CASE q[1] = r[1]
    BY <1>1, <1>3, <2>1, <2>3, UpcomingIsNext DEF Inv, TypeOK
  <2> QED BY <2>2, <2>3
<1>10. OpenIsLive'
  <2>1. app # "exited"
    BY <1>1 DEF Serving
  <2> QED BY <1>1, <2>1 DEF Inv, TypeOK, OpenIsLive, Closed, flags
<1> QED BY <1>4, <1>5, <1>6, <1>7, <1>8, <1>9, <1>10 DEF Inv

\* The end of a run keeps the invariant.
LEMMA CallbackKeepsInv ==
    ASSUME Inv, NEW r \in Runs, NEW ok \in BOOLEAN, Callback(r, ok)
    PROVE  Inv'
<1> DEFINE outcome == Outcome(r, ok)
<1>1. /\ r \in live /\ Reported(r)
      /\ settled' = settled \union {r} /\ live' = live \ {r}
      /\ timers' = [timers EXCEPT ![r] = {}]
      /\ timedOut' = [timedOut EXCEPT ![r] = FALSE]
      /\ aborted' = [aborted EXCEPT ![r] = FALSE]
      /\ stage' = [stage EXCEPT ![r[1]] = Concluded(r, outcome)]
      /\ UNCHANGED <<signal, alive, overflown, app>>
  BY DEF Callback, Conclude, Forget
<1>2. outcome \in Over /\ (aborted[r] => outcome = "aborted")
  BY DEF Outcome, Over
<1> HIDE DEF outcome
<1>3. r[2] \in Kinds /\ r[1] \in Callers
  BY RunsOfCallers
<1>4. stage[r[1]] = r[2] /\ (signal[r[1]] /\ Heeds(r) => outcome = "aborted")
  BY <1>1, <1>2 DEF Inv, LiveIsAwaited
<1>5. \A q \in live : q[1] = r[1] => q = r
  BY <1>4, RunsOfCallers DEF Inv, LiveIsAwaited, TypeOK
<1>6. "leader" \notin alive[r] /\ (r \in overflown \/ Closed(r))
  BY <1>1 DEF Reported, Closed
<1>7. app = "starting" =>
        r[1] \in Probes /\ \A p \in Probes \ {r[1]} : stage[p] \in {"ready", "ok"}
  <2> SUFFICES ASSUME app = "starting"
               PROVE  r[1] \in Probes /\ \A p \in Probes \ {r[1]} : stage[p] \in {"ready", "ok"}
    OBVIOUS
  <2>1. stage[r[1]] \notin {"ready", "ok"}
    BY <1>3, <1>4 DEF Kinds, Listings
  <2>2. r[1] \in Probes
    BY <1>3, <2>1 DEF Inv, StartupInOrder
  <2> QED BY <2>1, <2>2 DEF Inv, StartupInOrder
<1>8. /\ timers' \in [Runs -> SUBSET Timer]
      /\ timedOut' \in [Runs -> BOOLEAN] /\ aborted' \in [Runs -> BOOLEAN]
      /\ \A q \in Runs \ {r} : aborted'[q] = aborted[q]
      /\ \A q \in Runs : timers'[q] # {} => q # r /\ timers[q] # {}
  BY <1>1 DEF Inv, TypeOK
<1> QED BY <1>1, <1>2, <1>4, <1>5, <1>6, <1>7, <1>8, SettlingKeepsInv

\* An output that grows too large only excuses its run.
LEMMA OverflowKeepsInv ==
    ASSUME Inv, NEW r \in Runs, Overflow(r)
    PROVE  Inv'
<1>1. /\ overflown' = overflown \union {r}
      /\ UNCHANGED <<callers, alive, live, settled, timers, timedOut, aborted, app>>
  BY DEF Overflow
<1>2. TypeOK' /\ OpenIsLive'
  BY <1>1 DEF Inv, TypeOK, OpenIsLive, Closed, callers
<1>3. /\ SignalsOnlyLive' /\ AbortWins' /\ StartupInOrder' /\ LiveIsAwaited'
      /\ SettledIsBehind'
  BY <1>1 DEF Inv, SignalsOnlyLive, AbortWins, StartupInOrder, LiveIsAwaited, SettledIsBehind,
              callers
<1> QED BY <1>2, <1>3 DEF Inv

\* A step that signals groups and arms or clears timers of registered runs.
LEMMA SignallingKeepsInv ==
    ASSUME Inv, NEW rs, NEW sig, Signal(rs, sig),
           UNCHANGED <<stage, live, settled, overflown, app>>,
           signal' \in [Callers -> BOOLEAN],
           timers' \in [Runs -> SUBSET Timer],
           timedOut' \in [Runs -> BOOLEAN], aborted' \in [Runs -> BOOLEAN],
           \A r \in Runs : timers'[r] # {} => r \in live,
           \A t \in Tasks : signal'[t] /\ stage[t] \in Over => signal[t],
           \A r \in live : signal'[r[1]] /\ Heeds(r) => aborted'[r]
    PROVE  Inv'
<1>1. alive' \in [Runs -> SUBSET Process] /\ \A r \in Runs : alive'[r] \subseteq alive[r]
  BY SignalShrinks
<1>2. OpenIsLive'
  BY <1>1, ShrinkingKeepsOpen
<1>3. TypeOK'
  BY <1>1 DEF Inv, TypeOK
<1>4. SignalsOnlyLive' /\ AbortWins' /\ StartupInOrder'
  BY DEF Inv, SignalsOnlyLive, AbortWins, StartupInOrder
<1>5. LiveIsAwaited' /\ SettledIsBehind'
  BY DEF Inv, LiveIsAwaited, SettledIsBehind, Heeds
<1> QED BY <1>2, <1>3, <1>4, <1>5 DEF Inv

\* An abort keeps the invariant.
LEMMA AbortKeepsInv ==
    ASSUME Inv, NEW t \in Tasks, Abort(t)
    PROVE  Inv'
<1> DEFINE heard == {r \in live \ settled : r[1] = t /\ Heeds(r)}
<1>1. /\ stage[t] \notin Over
      /\ signal' = [signal EXCEPT ![t] = TRUE]
      /\ aborted' = [r \in Runs |-> r \in heard \/ aborted[r]]
      /\ Signal(heard, "SIGTERM")
      /\ timers' = [r \in Runs |->
            timers[r] \union (IF r \in heard THEN {"abortKill"} ELSE {})]
      /\ UNCHANGED <<stage, live, settled, timedOut, overflown, app>>
  BY DEF Abort
<1>2. \A r \in live : r[1] = t /\ Heeds(r) => r \in heard
  BY DEF Inv, SignalsOnlyLive
<1>3. t \in Callers
  BY RunsOfCallers
<1>4. \A r \in heard : r \in live
  OBVIOUS
<1> HIDE DEF heard
<1>5. signal' \in [Callers -> BOOLEAN] /\ aborted' \in [Runs -> BOOLEAN]
        /\ timers' \in [Runs -> SUBSET Timer] /\ timedOut' \in [Runs -> BOOLEAN]
  <2>1. signal' \in [Callers -> BOOLEAN] /\ aborted' \in [Runs -> BOOLEAN]
    BY <1>1 DEF Inv, TypeOK
  <2>2. timers' \in [Runs -> SUBSET Timer] /\ timedOut' \in [Runs -> BOOLEAN]
    BY <1>1 DEF Inv, TypeOK, Timer
  <2> QED BY <2>1, <2>2
<1>6. \A r \in Runs : timers'[r] # {} => r \in live
  BY <1>1, <1>4 DEF Inv, SignalsOnlyLive
<1>7. \A u \in Tasks : signal'[u] /\ stage[u] \in Over => signal[u]
  BY <1>1, RunsOfCallers DEF Inv, TypeOK
<1>8. \A r \in live : signal'[r[1]] /\ Heeds(r) => aborted'[r]
  <2> SUFFICES ASSUME NEW r \in live, signal'[r[1]], Heeds(r) PROVE aborted'[r]
    OBVIOUS
  <2>1. r \in Runs /\ r[1] \in Callers
    BY RunsOfCallers DEF Inv, TypeOK
  <2>2. CASE r[1] = t
    BY <1>1, <1>2, <2>1, <2>2
  <2>3. CASE r[1] # t
    <3>1. signal[r[1]]
      BY <1>1, <2>1, <2>3 DEF Inv, TypeOK
    <3>2. aborted[r]
      BY <3>1 DEF Inv, LiveIsAwaited
    <3> QED BY <1>1, <2>1, <3>2
  <2> QED BY <2>2, <2>3
<1> QED BY <1>1, <1>5, <1>6, <1>7, <1>8, SignallingKeepsInv

\* A timer of a run, its SIGTERM or its SIGKILL.
LEMMA TimerKeepsInv ==
    ASSUME Inv, NEW r \in Runs,
           Terminate(r) \/ \E timer \in Timer : Kill(r, timer)
    PROVE  Inv'
<1>1. r \in live
  BY DEF Terminate, Kill, Fires, Inv, SignalsOnlyLive
<1>2. /\ timers' \in [Runs -> SUBSET Timer]
      /\ timedOut' \in [Runs -> BOOLEAN] /\ aborted' \in [Runs -> BOOLEAN]
      /\ aborted' = aborted
      /\ \A q \in Runs : q # r => timers'[q] = timers[q]
  <2>1. CASE Terminate(r)
    BY <2>1 DEF Terminate, Inv, TypeOK, Timer
  <2>2. CASE \E timer \in Timer : Kill(r, timer)
    BY <2>2 DEF Kill, Inv, TypeOK, flags
  <2> QED BY <2>1, <2>2
<1>3. UNCHANGED <<stage, signal, live, settled, overflown, app>> /\ \E sig : Signal({r}, sig)
  BY DEF Terminate, Kill, callers, flags
<1>4. PICK sig : Signal({r}, sig)
  BY <1>3
<1>5. \A q \in Runs : timers'[q] # {} => q \in live
  BY <1>1, <1>2 DEF Inv, SignalsOnlyLive
<1>6. \A q \in live : signal'[q[1]] /\ Heeds(q) => aborted'[q]
  BY <1>2, <1>3 DEF Inv, LiveIsAwaited
<1>7. signal' \in [Callers -> BOOLEAN] /\ \A t \in Tasks : signal'[t] => signal[t]
  BY <1>3 DEF Inv, TypeOK
<1> QED BY <1>2, <1>3, <1>4, <1>5, <1>6, <1>7, SignallingKeepsInv

\* The shutdown: what it signals is registered, and nothing else is open.
LEMMA ShutdownKeepsInv ==
    ASSUME Inv, Shutdown \/ AllGone \/ Deadline
    PROVE  Inv'
<1>1. /\ UNCHANGED <<callers, live, settled, timers, flags>>
      /\ app' \in {"stopping", "exited"}
      /\ alive' \in [Runs -> SUBSET Process]
      /\ \A r \in Runs : alive'[r] \subseteq alive[r]
  <2>1. CASE Shutdown
    BY <2>1, SignalShrinks DEF Shutdown
  <2>2. CASE AllGone
    BY <2>2 DEF AllGone, Inv, TypeOK
  <2>3. CASE Deadline
    BY <2>3, SignalShrinks DEF Deadline
  <2> QED BY <2>1, <2>2, <2>3
<1>2. OpenIsLive'
  <2> SUFFICES ASSUME NEW r \in Runs,
                      "leader" \in alive'[r] \/ (~Closed(r)' /\ r \notin overflown)
               PROVE  r \in live /\ app' # "exited"
    BY <1>1 DEF OpenIsLive, flags
  <2>1. "leader" \in alive[r] \/ (~Closed(r) /\ r \notin overflown)
    BY <1>1 DEF Closed
  <2>2. r \in live
    BY <2>1 DEF Inv, OpenIsLive
  <2>3. ~Deadline
    BY <2>2 DEF Deadline, Signal, Closed
  <2> QED BY <2>2, <2>3 DEF Shutdown, AllGone
<1>3. TypeOK'
  BY <1>1 DEF Inv, TypeOK, App, callers, flags
<1>4. SignalsOnlyLive' /\ AbortWins' /\ LiveIsAwaited' /\ SettledIsBehind'
  BY <1>1 DEF Inv, SignalsOnlyLive, AbortWins, LiveIsAwaited, SettledIsBehind, callers, flags
<1>5. StartupInOrder'
  BY <1>1 DEF StartupInOrder
<1> QED BY <1>2, <1>3, <1>4, <1>5 DEF Inv

\* A child shares the output of a process that has it, and what ends is gone.
LEMMA ProcessKeepsInv ==
    ASSUME Inv, NEW r \in Runs, ChildStarts(r) \/ Exits(r)
    PROVE  Inv'
<1>1. UNCHANGED <<callers, live, settled, timers, flags, app>>
  BY DEF ChildStarts, Exits
<1>2. alive' \in [Runs -> SUBSET Process]
  BY DEF ChildStarts, Exits, Children, Process, Inv, TypeOK
<1>3. OpenIsLive'
  <2>1. CASE ChildStarts(r)
    <3>1. PICK p \in Children \ alive[r] :
              (p = "child" => ~Closed(r)) /\ alive' = [alive EXCEPT ![r] = @ \union {p}]
      BY <2>1 DEF ChildStarts
    <3>2. alive'[r] = alive[r] \union {p} /\ \A q \in Runs \ {r} : alive'[q] = alive[q]
      BY <3>1 DEF Inv, TypeOK
    <3>3. ("leader" \in alive'[r] => "leader" \in alive[r]) /\ (Closed(r) => Closed(r)')
      BY <3>1, <3>2 DEF Children, Closed
    <3> QED BY <1>1, <3>2, <3>3 DEF Inv, OpenIsLive, Closed, flags
  <2>2. CASE Exits(r)
    <3>1. \A q \in Runs : alive'[q] \subseteq alive[q]
      BY <2>2 DEF Exits, Inv, TypeOK
    <3> QED BY <1>1, <3>1, ShrinkingKeepsOpen DEF flags
  <2> QED BY <2>1, <2>2
<1>4. TypeOK'
  BY <1>1, <1>2 DEF Inv, TypeOK, callers, flags
<1>5. /\ SignalsOnlyLive' /\ AbortWins' /\ StartupInOrder' /\ LiveIsAwaited'
      /\ SettledIsBehind'
  BY <1>1 DEF Inv, SignalsOnlyLive, AbortWins, StartupInOrder, LiveIsAwaited, SettledIsBehind,
              callers, flags
<1> QED BY <1>3, <1>4, <1>5 DEF Inv

-----------------------------------------------------------------------------

\* Every step of the startup, the callers, the CLIs and the shutdown keeps the
\* invariant.
LEMMA InvNext ==
    ASSUME Inv, [Next]_vars
    PROVE  Inv'
<1>1. ASSUME NEW r \in Runs, RejectAborted(r) \/ SpawnFails(r) PROVE Inv'
  BY <1>1, CallFailsKeepsInv
<1>2. ASSUME NEW r \in Runs, Spawn(r) PROVE Inv'
  BY <1>2, SpawnKeepsInv
<1>3. ASSUME NEW r \in Runs, NEW ok \in BOOLEAN, Callback(r, ok) PROVE Inv'
  BY <1>3, CallbackKeepsInv
<1>4. ASSUME NEW r \in Runs, Overflow(r) PROVE Inv'
  BY <1>4, OverflowKeepsInv
<1>5. ASSUME NEW r \in Runs, Terminate(r) \/ \E timer \in Timer : Kill(r, timer) PROVE Inv'
  BY <1>5, TimerKeepsInv
<1>6. ASSUME NEW r \in Runs, ChildStarts(r) \/ Exits(r) PROVE Inv'
  BY <1>6, ProcessKeepsInv
<1>7. ASSUME NEW t \in Tasks, Abort(t) PROVE Inv'
  BY <1>7, AbortKeepsInv
<1>8. CASE Shutdown \/ AllGone \/ Deadline
  BY <1>8, ShutdownKeepsInv
<1>9. CASE StartupFails \/ Started \/ KilledAtStartup
  BY <1>9, StartupKeepsInv
<1>10. CASE UNCHANGED vars
  BY <1>10 DEF vars, callers, flags, Inv, TypeOK, SignalsOnlyLive, AbortWins, StartupInOrder,
               LiveIsAwaited, SettledIsBehind, OpenIsLive, Closed
<1> QED BY <1>1, <1>2, <1>3, <1>4, <1>5, <1>6, <1>7, <1>8, <1>9, <1>10
        DEF Next, Finished, RunSteps

\* The invariant holds for every set of tasks and prompts.
THEOREM Invariance == Spec => []Inv
<1>1. Inv /\ [Next]_vars => Inv'
  BY InvNext
<1> QED BY InvInit, <1>1, PTL DEF Spec

\* TypeOK: every variable stays in its type.
THEOREM Typing == Spec => []TypeOK
<1>1. Inv => TypeOK
  BY DEF Inv
<1> QED BY Invariance, <1>1, PTL

\* SignalsOnlyLive: no timer and no shutdown signals a group whose run has
\* settled.
THEOREM SignalSafety == Spec => []SignalsOnlyLive
<1>1. Inv => SignalsOnlyLive
  BY DEF Inv
<1> QED BY Invariance, <1>1, PTL

\* AbortWins: a task that was aborted while its CLI ran ends as aborted.
THEOREM AbortSafety == Spec => []AbortWins
<1>1. Inv => AbortWins
  BY DEF Inv
<1> QED BY Invariance, <1>1, PTL

\* CliGoneAtExit: no CLI outlives an agent that exits, neither by its shutdown nor by
\* a failed startup, and no child that shares an output that was not too large.
THEOREM ShutdownSafety == Spec => []CliGoneAtExit
<1>1. Inv => CliGoneAtExit
  BY DEF Inv, CliGoneAtExit, OpenIsLive
<1> QED BY Invariance, <1>1, PTL
===============================================================================
