-------------------------- MODULE RunningLabelProofs --------------------------
(***************************************************************************)
(* The running label is shown while its task is worked on, for every       *)
(* number of labels, edits, faults and crashes.                            *)
(***************************************************************************)
EXTENDS RunningLabel, TLAPS

\* The run has a request under way only while it adds or clears its label.
QuietRun == run.at \in {"off", "working"} => Answered("run")

\* What is added is the label of the run, and it is there once that is answered.
AddsItsLabel ==
    run.at = "adding" =>
        IF Answered("run")
        THEN faults = 0 /\ ~overlap => run.label \in labels \union {""}
        ELSE request["run"].add = {run.label} /\ request["run"].remove = {}

\* The reconciliation writes next to a run only when the run came second; it
\* looks for a label, and ends with the process.
KeptApart ==
    /\ run.at # "off" /\ ~overlap => recon.at # "writing"
    /\ recon.at # "writing" => Answered("reconcile")
    /\ recon.at = "listed" => recon.label \in Label
    /\ ~up => recon.at = "off"

Inv == TypeOK /\ QuietRun /\ AddsItsLabel /\ KeptApart /\ ShownWhileWorking

-----------------------------------------------------------------------------

Request == [at : {"none", "sent", "read", "write"}, add : SUBSET Label,
            remove : SUBSET Label, read : SUBSET Label]

\* The bounds are natural numbers.
LEMMA BoundsAreNat == MaxEdits \in Nat /\ MaxFaults \in Nat /\ MaxCrashes \in Nat
BY Zenon, RunningLabelAssumption DEF RunningLabelAssumption

\* A writer without a request.
LEMMA NoRequestIsRequest == NoRequest \in Request /\ NoRequest.at = "none"
BY DEF NoRequest, Request

\* A request that is made keeps the requests typed and leaves the other writer alone.
LEMMA RequestedType ==
    ASSUME TypeOK, NEW w \in Writers, NEW r \in Request, Requested(w, r)
    PROVE  /\ request' \in [Writers -> Request]
           /\ request'[w] = r
           /\ \A v \in Writers \ {w} : request'[v] = request[v]
BY DEF TypeOK, Request, Requested

\* A request that is sent is a request.
LEMMA SendType ==
    ASSUME TypeOK, NEW w \in Writers, NEW add \in SUBSET Label, NEW remove \in SUBSET Label,
           Send(w, add, remove)
    PROVE  /\ request' \in [Writers -> Request]
           /\ request'[w].at = "sent" /\ request'[w].add = add /\ request'[w].remove = remove
           /\ \A v \in Writers \ {w} : request'[v] = request[v]
<1> DEFINE r == [NoRequest EXCEPT !.at = "sent", !.add = add, !.remove = remove]
<1>1. r \in Request /\ r.at = "sent" /\ r.add = add /\ r.remove = remove
  BY DEF NoRequest, Request
<1>2. Requested(w, r)
  BY DEF Send
<1> HIDE DEF r
<1> QED BY <1>1, <1>2, RequestedType

\* A run or a reconciliation that only moves on keeps its type and its label.
LEMMA RunTypes ==
    ASSUME TypeOK
    PROVE  /\ \A s \in {"off", "adding", "working", "clearing"} :
                 /\ [run EXCEPT !.at = s] \in
                        [at : {"off", "adding", "working", "clearing"}, label : Setting]
                 /\ [run EXCEPT !.at = s].at = s
                 /\ [run EXCEPT !.at = s].label = run.label
           /\ \A s \in {"off", "armed", "listed", "writing"} :
                 /\ [recon EXCEPT !.at = s] \in
                        [at : {"off", "armed", "listed", "writing"}, label : Setting]
                 /\ [recon EXCEPT !.at = s].at = s
                 /\ [recon EXCEPT !.at = s].label = recon.label
BY DEF TypeOK

-----------------------------------------------------------------------------

\* No run works and no request is open at first.
LEMMA InvInit == Init => Inv
<1> SUFFICES ASSUME Init PROVE Inv
  OBVIOUS
<1>1. NoRun \in [at : {"off", "adding", "working", "clearing"}, label : Setting]
        /\ NoRun.at = "off"
  BY DEF NoRun, Setting
<1>2. recon \in [at : {"off", "armed", "listed", "writing"}, label : Setting]
        /\ recon.at \in {"off", "armed"}
  BY DEF Init, Armed, Setting
<1>3. request \in [Writers -> Request] /\ \A w \in Writers : request[w].at = "none"
  BY NoRequestIsRequest DEF Init
<1>4. edits \in 0 .. MaxEdits /\ faults \in 0 .. MaxFaults /\ crashes \in 0 .. MaxCrashes
  <2>1. edits = 0 /\ faults = 0 /\ crashes = 0
    BY DEF Init
  <2> QED BY <2>1, BoundsAreNat
<1>5. up \in BOOLEAN /\ overlap \in BOOLEAN /\ renamed \in BOOLEAN /\ patch \in BOOLEAN
  BY Zenon DEF Init
<1>6. TypeOK
  BY <1>1, <1>2, <1>3, <1>4, <1>5 DEF Init, TypeOK, Request
<1> QED BY <1>1, <1>2, <1>3, <1>6
        DEF Init, Inv, QuietRun, AddsItsLabel, KeptApart, ShownWhileWorking, Answered, Writers

\* The answer of a request: the label of the run is there, and nobody else's
\* request takes it away.
LEMMA AnswerInv ==
    ASSUME Inv, NEW w \in Writers, Answer(w) \/ Lost(w)
    PROVE  Inv'
<1> USE DEF Writers, Answered
<1>1. request[w] \in Request
  BY DEF Inv, TypeOK, Request
<1>2. /\ UNCHANGED <<patch, up, setting, run, recon, overlap, renamed, edits, crashes>>
      /\ request' \in [Writers -> Request]
      /\ \A v \in Writers \ {w} : request'[v] = request[v]
      /\ request[w].at # "none"
      /\ request'[w].at = "none" \/ (request'[w].add = request[w].add
                                       /\ request'[w].remove = request[w].remove)
  <2>1. \/ Requested(w, NoRequest)
        \/ Requested(w, [request[w] EXCEPT !.at = "read"])
        \/ Requested(w, [request[w] EXCEPT !.at = "write", !.read = labels])
    BY DEF Answer, Applied, NoEndpoint, Reads, Writes, Lost
  <2>2. /\ [request[w] EXCEPT !.at = "read"] \in Request
        /\ [request[w] EXCEPT !.at = "read"].add = request[w].add
        /\ [request[w] EXCEPT !.at = "read"].remove = request[w].remove
    BY <1>1 DEF Request
  <2>3. /\ [request[w] EXCEPT !.at = "write", !.read = labels] \in Request
        /\ [request[w] EXCEPT !.at = "write", !.read = labels].add = request[w].add
        /\ [request[w] EXCEPT !.at = "write", !.read = labels].remove = request[w].remove
    BY <1>1 DEF Request, Inv, TypeOK
  <2>4. UNCHANGED <<patch, up, setting, run, recon, overlap, renamed, edits, crashes>>
    BY DEF Answer, Applied, NoEndpoint, Reads, Writes, Lost, RequestUnchanged
  <2>5. request[w].at # "none"
    BY DEF Answer, Applied, NoEndpoint, Reads, Writes, Lost
  <2>6. CASE Requested(w, NoRequest)
    BY <2>4, <2>5, <2>6, NoRequestIsRequest, RequestedType DEF Inv
  <2>7. CASE Requested(w, [request[w] EXCEPT !.at = "read"])
    BY <2>2, <2>4, <2>5, <2>7, RequestedType DEF Inv
  <2>8. CASE Requested(w, [request[w] EXCEPT !.at = "write", !.read = labels])
    BY <2>3, <2>4, <2>5, <2>8, RequestedType DEF Inv
  <2> QED BY <2>1, <2>6, <2>7, <2>8
<1>3. /\ labels' \in SUBSET Label /\ faults' \in 0 .. MaxFaults
      /\ faults' = faults \/ faults' # 0
  <2>1. labels' \in SUBSET Label
    BY <1>1 DEF Answer, Applied, NoEndpoint, Reads, Writes, Lost, Mutated, Request, Inv, TypeOK
  <2>2. faults \in 0 .. MaxFaults
    BY DEF Inv, TypeOK
  <2>3. faults' = faults \/ (faults < MaxFaults /\ faults' = faults + 1)
    BY DEF Answer, Applied, NoEndpoint, Reads, Writes, Lost
  <2> QED BY <2>1, <2>2, <2>3, BoundsAreNat
<1>4. TypeOK'
  BY <1>2, <1>3 DEF Inv, TypeOK, Request
<1>5. QuietRun' /\ KeptApart'
  BY <1>2 DEF Inv, QuietRun, KeptApart
<1>6. CASE w = "run"
  <2>1. run.at \notin {"off", "working"}
    BY <1>2, <1>6 DEF Inv, QuietRun
  <2>2. ASSUME run.at = "adding", request'[w].at = "none", faults' = 0
        PROVE  run.label \in labels'
    <3>1. request["run"].add = {run.label}
      BY <2>2, <1>2, <1>6 DEF Inv, AddsItsLabel
    <3>2. CASE Applied(w) \/ Writes(w)
      BY <3>1, <3>2, <1>6 DEF Applied, Writes, Mutated
    <3>3. CASE NoEndpoint(w)
      <4>1. [request[w] EXCEPT !.at = "read"] \in Request
              /\ [request[w] EXCEPT !.at = "read"].at = "read"
        BY <1>1 DEF Request
      <4>2. Requested(w, [request[w] EXCEPT !.at = "read"])
        BY <3>3 DEF NoEndpoint
      <4> QED BY <2>2, <4>1, <4>2, RequestedType DEF Inv
    <3>4. CASE Reads(w)
      <4> DEFINE r == [request[w] EXCEPT !.at = "write", !.read = labels]
      <4>1. r \in Request /\ r.at = "write"
        BY <1>1 DEF Request, Inv, TypeOK
      <4>2. Mutated(request[w], labels) = labels \/ Requested(w, r)
        BY <3>4 DEF Reads
      <4>3. ~Requested(w, r)
        <5> HIDE DEF r
        <5> QED BY <2>2, <4>1, RequestedType DEF Inv
      <4> QED BY <3>1, <3>4, <4>2, <4>3, <1>6 DEF Reads, Mutated
    <3>5. CASE Lost(w)
      <4>1. faults \in 0 .. MaxFaults /\ faults' = faults + 1
        BY <3>5 DEF Lost, Inv, TypeOK
      <4> QED BY <4>1, <2>2, BoundsAreNat
    <3> QED BY <3>2, <3>3, <3>4, <3>5 DEF Answer
  <2> QED BY <1>2, <1>4, <1>5, <1>6, <2>1, <2>2
          DEF Inv, AddsItsLabel, ShownWhileWorking
<1>7. CASE w = "reconcile"
  <2>1. recon.at = "writing" /\ (run.at = "off" \/ overlap)
    BY <1>2, <1>7 DEF Inv, KeptApart
  <2> QED BY <1>2, <1>3, <1>4, <1>5, <1>7, <2>1 DEF Inv, AddsItsLabel, ShownWhileWorking
<1> QED BY <1>6, <1>7

\* A pick keeps the invariant.
LEMMA PickInv == Inv /\ Pick => Inv'
<1> SUFFICES ASSUME Inv, Pick PROVE Inv'
  OBVIOUS
<1> USE DEF Writers, Answered
<1>1. UNCHANGED <<labels, patch, up, setting, recon, renamed, bounds>> /\ overlap' \in BOOLEAN
        /\ (~overlap' => recon.at # "writing")
  BY DEF Pick, RunUnchanged
<1>2. run' \in [at : {"off", "adding", "working", "clearing"}, label : Setting]
        /\ run'.at = "adding" /\ run'.label = setting
  BY DEF Pick, Inv, TypeOK
<1>3. request' \in [Writers -> Request]
        /\ request'["reconcile"] = request["reconcile"]
        /\ IF setting = "" THEN request'["run"].at = "none"
           ELSE request'["run"].at = "sent" /\ request'["run"].add = {setting}
                  /\ request'["run"].remove = {}
  <2>1. CASE setting = ""
    BY <2>1 DEF Pick, Inv, TypeOK, QuietRun, Request
  <2>2. CASE setting # ""
    <3>1. Send("run", {setting}, {}) /\ {setting} \in SUBSET Label
      BY <2>2 DEF Pick, Inv, TypeOK, Setting, Label
    <3>2. TypeOK /\ "run" \in Writers /\ {} \in SUBSET Label
              /\ "reconcile" \in Writers \ {"run"}
      BY DEF Inv
    <3> QED BY <2>2, <3>1, <3>2, SendType
  <2> QED BY <2>1, <2>2
<1>4. TypeOK'
  BY <1>1, <1>2, <1>3 DEF Inv, TypeOK, Request, bounds
<1> QED BY <1>1, <1>2, <1>3, <1>4
        DEF Inv, QuietRun, AddsItsLabel, KeptApart, ShownWhileWorking

\* The steps of the run keep the invariant.
LEMMA RunInv == Inv /\ Run => Inv'
<1> SUFFICES ASSUME Inv, Run PROVE Inv'
  OBVIOUS
<1> USE DEF Writers, Answered
<1>1. UNCHANGED <<labels, patch, up, setting, recon, overlap, renamed, bounds>>
  BY DEF Run, Work, Clear, RunEnds, RunUnchanged
<1>2. CASE Work
  <2>1. run' \in [at : {"off", "adding", "working", "clearing"}, label : Setting]
          /\ run'.at = "working" /\ run'.label = run.label
          /\ run.at = "adding" /\ request["run"].at = "none" /\ UNCHANGED request
    BY <1>2, RunTypes DEF Work, Inv
  <2>2. TypeOK'
    BY <1>1, <2>1 DEF Inv, TypeOK, bounds
  <2> QED BY <1>1, <2>1, <2>2
          DEF Inv, QuietRun, AddsItsLabel, KeptApart, ShownWhileWorking, bounds
<1>3. CASE Clear
  <2>1. run' \in [at : {"off", "adding", "working", "clearing"}, label : Setting]
          /\ run'.at = "clearing" /\ run.at = "working"
    BY <1>3, RunTypes DEF Clear, Inv
  <2>2. request' \in [Writers -> Request] /\ request'["reconcile"] = request["reconcile"]
    <3>1. CASE run.label = ""
      BY <1>3, <3>1 DEF Clear, Inv, TypeOK, Request
    <3>2. CASE run.label # ""
      <4>1. Send("run", {}, {run.label}) /\ {run.label} \in SUBSET Label
        BY <1>3, <3>2 DEF Clear, Inv, TypeOK, Setting, Label
      <4> QED BY <4>1, SendType DEF Inv
    <3> QED BY <3>1, <3>2
  <2>3. TypeOK'
    BY <1>1, <2>1, <2>2 DEF Inv, TypeOK, Request, bounds
  <2> QED BY <1>1, <2>1, <2>2, <2>3
          DEF Inv, QuietRun, AddsItsLabel, KeptApart, ShownWhileWorking
<1>4. CASE RunEnds
  <2>1. run' \in [at : {"off", "adding", "working", "clearing"}, label : Setting]
          /\ run'.at = "off" /\ request["run"].at = "none" /\ UNCHANGED request
    BY <1>4 DEF RunEnds, NoRun, Setting
  <2>2. TypeOK'
    BY <1>1, <2>1 DEF Inv, TypeOK, bounds
  <2> QED BY <1>1, <2>1, <2>2
          DEF Inv, QuietRun, AddsItsLabel, KeptApart, ShownWhileWorking
<1> QED BY <1>2, <1>3, <1>4 DEF Run

\* The steps of the reconciliation keep the invariant.
LEMMA ReconcileInv == Inv /\ (Reconcile \/ ListFails) => Inv'
<1> SUFFICES ASSUME Inv, Reconcile \/ ListFails PROVE Inv'
  OBVIOUS
<1> USE DEF Writers, Answered
<1>1. UNCHANGED <<labels, patch, up, setting, run, overlap, renamed, edits, crashes>>
  BY DEF Reconcile, List, Remove, Reconciled, ListFails, ReconcileUnchanged
<1>2. faults' \in 0 .. MaxFaults /\ (faults' = faults \/ faults' # 0)
  <2>1. faults \in 0 .. MaxFaults
    BY DEF Inv, TypeOK
  <2>2. faults' = faults \/ (faults < MaxFaults /\ faults' = faults + 1)
    BY DEF Reconcile, List, Remove, Reconciled, ListFails, ReconcileUnchanged
  <2> QED BY <2>1, <2>2, BoundsAreNat
<1>3. CASE List
  <2>1. recon' \in [at : {"off", "armed", "listed", "writing"}, label : Setting]
          /\ recon'.at \in {"listed", "off"} /\ (recon'.at = "listed" => recon'.label \in Label)
          /\ recon.at = "armed" /\ UNCHANGED request
    BY <1>3 DEF List, Inv, TypeOK
  <2>2. TypeOK'
    BY <1>1, <1>2, <2>1 DEF Inv, TypeOK
  <2> QED BY <1>1, <1>2, <2>1, <2>2
          DEF Inv, QuietRun, AddsItsLabel, KeptApart, ShownWhileWorking
<1>4. CASE Remove /\ run.at = "off"
  <2>1. recon' \in [at : {"off", "armed", "listed", "writing"}, label : Setting]
          /\ recon'.at = "writing" /\ up
    BY <1>4, RunTypes DEF Remove, Inv
  <2>2. Send("reconcile", {}, {recon.label}) /\ {recon.label} \in SUBSET Label
    BY <1>4 DEF Remove, Inv, KeptApart
  <2>3. request' \in [Writers -> Request] /\ request'["run"] = request["run"]
    BY <2>2, SendType DEF Inv
  <2>4. TypeOK'
    BY <1>1, <1>2, <2>1, <2>3 DEF Inv, TypeOK, Request
  <2> QED BY <1>1, <1>4, <2>1, <2>3, <2>4
          DEF Inv, QuietRun, AddsItsLabel, KeptApart, ShownWhileWorking
<1>5. CASE (Remove /\ run.at # "off") \/ Reconciled \/ ListFails
  <2>1. recon' = [recon EXCEPT !.at = "off"] /\ UNCHANGED request
          /\ request["reconcile"].at = "none"
    BY <1>5 DEF Remove, Reconciled, ListFails, Inv, KeptApart
  <2>2. recon' \in [at : {"off", "armed", "listed", "writing"}, label : Setting]
          /\ recon'.at = "off"
    BY <2>1, RunTypes DEF Inv
  <2>3. TypeOK'
    BY <1>1, <1>2, <2>1, <2>2 DEF Inv, TypeOK
  <2> QED BY <1>1, <1>2, <2>1, <2>2, <2>3
          DEF Inv, QuietRun, AddsItsLabel, KeptApart, ShownWhileWorking
<1> QED BY <1>3, <1>4, <1>5 DEF Reconcile

\* Users change their own labels; a crash ends the run and every request.
LEMMA EnvironmentInv == Inv /\ (UserEdits \/ Rename \/ Crash \/ Restart) => Inv'
<1> SUFFICES ASSUME Inv, UserEdits \/ Rename \/ Crash \/ Restart PROVE Inv'
  OBVIOUS
<1> USE DEF Writers, Answered
<1>1. CASE UserEdits
  <2>1. UNCHANGED <<patch, agent, overlap, renamed, faults, crashes>>
          /\ edits' \in 0 .. MaxEdits /\ labels' \in SUBSET Label
    <3>1. edits \in 0 .. MaxEdits /\ labels \in SUBSET Label
      BY DEF Inv, TypeOK
    <3>2. UNCHANGED <<patch, agent, overlap, renamed, faults, crashes>>
            /\ edits < MaxEdits /\ edits' = edits + 1
      BY <1>1 DEF UserEdits, Edit
    <3>3. labels' \in SUBSET Label
      BY <1>1, <3>1 DEF UserEdits, Label
    <3> QED BY <3>1, <3>2, <3>3, BoundsAreNat
  <2>2. \A l \in RunningLabels : l \in labels => l \in labels'
    BY <1>1, RunningLabelAssumption DEF UserEdits, Edit
  <2>3. run.label \in RunningLabels \union {""}
    BY DEF Inv, TypeOK, Setting
  <2>4. TypeOK'
    BY <2>1 DEF Inv, TypeOK, agent
  <2> QED BY <2>1, <2>2, <2>3, <2>4
          DEF Inv, QuietRun, AddsItsLabel, KeptApart, ShownWhileWorking, agent
<1>2. CASE Rename
  <2>1. UNCHANGED <<labels, patch, up, run, recon, request, overlap, faults, crashes>>
          /\ edits' \in 0 .. MaxEdits /\ setting' \in Setting /\ renamed' \in BOOLEAN
    <3>1. edits \in 0 .. MaxEdits
      BY DEF Inv, TypeOK
    <3>2. edits < MaxEdits /\ edits' = edits + 1
      BY <1>2 DEF Rename, Edit
    <3>3. UNCHANGED <<labels, patch, up, run, recon, request, overlap, faults, crashes>>
            /\ setting' \in Setting /\ renamed' = TRUE
      BY <1>2 DEF Rename, Edit
    <3> QED BY <3>1, <3>2, <3>3, BoundsAreNat
  <2>2. TypeOK'
    BY <2>1 DEF Inv, TypeOK
  <2> QED BY <2>1, <2>2 DEF Inv, QuietRun, AddsItsLabel, KeptApart, ShownWhileWorking
<1>3. CASE Crash
  <2>1. /\ UNCHANGED <<labels, patch, setting, renamed, edits, faults>>
        /\ up' \in BOOLEAN /\ overlap' \in BOOLEAN /\ crashes' \in 0 .. MaxCrashes
        /\ run' \in [at : {"off", "adding", "working", "clearing"}, label : Setting]
        /\ recon' \in [at : {"off", "armed", "listed", "writing"}, label : Setting]
        /\ run'.at = "off" /\ recon'.at = "off"
    <3>1. crashes \in 0 .. MaxCrashes
      BY DEF Inv, TypeOK
    <3>2. crashes < MaxCrashes /\ crashes' = crashes + 1
      BY <1>3 DEF Crash
    <3>3. UNCHANGED <<labels, patch, setting, renamed, edits, faults>>
            /\ up' = FALSE /\ overlap' = FALSE
      BY <1>3 DEF Crash
    <3>4. /\ run' \in [at : {"off", "adding", "working", "clearing"}, label : Setting]
          /\ recon' \in [at : {"off", "armed", "listed", "writing"}, label : Setting]
          /\ run'.at = "off" /\ recon'.at = "off"
      BY <1>3 DEF Crash, NoRun, Setting
    <3>5. crashes' \in 0 .. MaxCrashes
      BY <3>1, <3>2, BoundsAreNat
    <3> QED BY <3>3, <3>4, <3>5
  <2>2. request' \in [Writers -> Request] /\ \A w \in Writers : request'[w].at = "none"
    BY <1>3, NoRequestIsRequest DEF Crash
  <2>3. TypeOK'
    BY <2>1, <2>2 DEF Inv, TypeOK, Request
  <2> QED BY <2>1, <2>2, <2>3
          DEF Inv, QuietRun, AddsItsLabel, KeptApart, ShownWhileWorking
<1>4. CASE Restart
  <2>1. /\ UNCHANGED <<labels, patch, setting, run, request, overlap, renamed, bounds>>
        /\ up' = TRUE
        /\ recon' \in [at : {"off", "armed", "listed", "writing"}, label : Setting]
        /\ recon'.at \in {"off", "armed"}
    BY <1>4 DEF Restart, Armed, Setting
  <2>2. TypeOK'
    BY <2>1 DEF Inv, TypeOK, bounds
  <2>3. request["reconcile"].at = "none"
    BY <1>4 DEF Restart, Inv, KeptApart
  <2> QED BY <2>1, <2>2, <2>3
          DEF Inv, QuietRun, AddsItsLabel, KeptApart, ShownWhileWorking, bounds
<1> QED BY <1>1, <1>2, <1>3, <1>4

\* Every step of the run, the reconciliation and the server keeps the invariant.
LEMMA InvNext == Inv /\ [Next]_vars => Inv'
<1>1. Inv /\ UNCHANGED vars => Inv'
  <2> SUFFICES ASSUME Inv, UNCHANGED vars PROVE Inv'
    OBVIOUS
  <2>1. UNCHANGED <<labels, patch, up, setting, run, recon, request, overlap, renamed,
                    edits, faults, crashes>>
    BY DEF vars, agent, bounds
  <2>2. TypeOK'
    BY <2>1 DEF Inv, TypeOK
  <2> QED BY <2>1, <2>2
          DEF Inv, QuietRun, AddsItsLabel, KeptApart, ShownWhileWorking, Answered, Writers
<1> QED BY <1>1, AnswerInv, PickInv, RunInv, ReconcileInv, EnvironmentInv DEF Next

\* The inductive invariant holds.
THEOREM Invariance == Spec => []Inv
<1>1. Inv /\ [Next]_vars => Inv'
  BY InvNext
<1> QED BY InvInit, <1>1, PTL DEF Spec

\* TypeOK: every variable stays in its type.
THEOREM Typing == Spec => []TypeOK
<1>1. Inv => TypeOK
  BY DEF Inv
<1> QED BY Invariance, <1>1, PTL

\* ShownWhileWorking: no reconciliation and no reload takes the label from a
\* task whose CLI works, unless a request failed or the run was picked in the
\* middle of the reconciliation of its own task.
THEOREM LabelShown == Spec => []ShownWhileWorking
<1>1. Inv => ShownWhileWorking
  BY DEF Inv
<1> QED BY Invariance, <1>1, PTL
===============================================================================
