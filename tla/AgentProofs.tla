---------------------------- MODULE AgentProofs ----------------------------
(***************************************************************************)
(* Proofs about Agent, for every set of tasks and every configuration: its *)
(* inductive invariant, the properties that follow from it, and that Agent *)
(* keeps the safety half of Delivery: each step of the loop, of the runs,  *)
(* of the users and of the crashes is a step of Delivery or leaves its     *)
(* state alone.                                                            *)
(***************************************************************************)
EXTENDS AgentDelivery, AgentInv, TLAPS, FiniteSetTheorems

-----------------------------------------------------------------------------
(* The operations on a record *)

\* Every store operation yields a record of the same run (FinalizationStore
\* scheduleRetry, markCommentPosted, persist, load).
LEMMA RecordOperations ==
    ASSUME NEW rec \in Record
    PROVE  /\ MarkedPosted(rec) \in Record /\ MarkedPosted(rec).run = rec.run
           /\ RetryScheduled(rec) \in Record /\ RetryScheduled(rec).run = rec.run
           /\ Persisted(rec) \in Record /\ Persisted(rec).run = rec.run
           /\ Reloaded(rec) \in Record /\ Reloaded(rec).run = rec.run
  <1>1. MarkedPosted(rec) \in Record /\ MarkedPosted(rec).run = rec.run
    BY DEF Record, MarkedPosted
  <1>2. RetryScheduled(rec) \in Record /\ RetryScheduled(rec).run = rec.run
    <2> DEFINE n == rec.attempts + 1
    <2>1. n \in Nat  BY DEF Record
    <2>2. RetryScheduled(rec) = [rec EXCEPT !.attempts = n, !.due = FALSE]
      BY DEF RetryScheduled
    <2> HIDE DEF n
    <2> QED  BY <2>1, <2>2 DEF Record
  <1>3. Persisted(rec) \in Record /\ Persisted(rec).run = rec.run
    BY DEF Record, Persisted
  <1>4. Reloaded(rec) \in Record /\ Reloaded(rec).run = rec.run
    BY DEF Record, Reloaded
  <1> QED  BY <1>1, <1>2, <1>3, <1>4

\* The record of a run that just ended is a record of that run.
LEMMA NewRecordType ==
    ASSUME NEW r \in Nat \ {0}
    PROVE  NewRecord(r) \in Record
  BY DEF Record, NewRecord

\* The sentinel is told from a record by its run number.
LEMMA NoRecordRun ==
    /\ NoRecord.run = 0 /\ ~NoRecord.posted /\ NoRecord \notin Record
    /\ \A rec \in Record : rec.run \in Nat /\ rec.run # 0
  BY DEF Record, NoRecord
-----------------------------------------------------------------------------
(* The helpers of the finalizer *)

AtStep == FinStep \union RunStep \union {"off"}
Stored == Record \union {NoRecord}

\* Goto moves one actor on one task (every await of the source).
LEMMA GotoMoves ==
    ASSUME TypeOK, NEW a \in Actors, NEW t \in Tasks, NEW s \in AtStep,
           Goto(a, t, s)
    PROVE  /\ at' \in [Actors -> [Tasks -> AtStep]]
           /\ at'[a][t] = s
           /\ \A b \in Actors, u \in Tasks :
                b # a \/ u # t => at'[b][u] = at[b][u]
  BY DEF TypeOK, Goto, AtStep

\* The steps that follow the summary (finalizeCompletedTask, its tail).
LEMMA AfterSummarySteps ==
    \A f : AfterSummary(f) \in {"move", "status", "delete"}
  BY DEF AfterSummary

\* The steps a delivery begins with, and what the record says of each.
LEMMA EntrySteps ==
    ASSUME NEW rec
    PROVE  /\ Entry(rec) \in {"delete", "move", "status", "check", "post"}
           /\ Entry(rec) = "post" => /\ rec # NoRecord /\ ~rec.posted
                                      /\ ~ChecksDuplicate(rec)
           /\ Entry(rec) \in {"move", "status"} => rec # NoRecord /\ rec.posted
           /\ rec # NoRecord /\ ~rec.posted => Entry(rec) # "delete"
  <1>1. AfterSummary("unread") \in {"move", "status", "delete"}
    BY AfterSummarySteps
  <1> QED  BY <1>1 DEF Entry

\* An exception leaves the finalizer with the record rescheduled, if there is
\* one, and on the failure path otherwise (Agent.processTask, its catch).
LEMMA ThrowsStep ==
    ASSUME TypeOK, NEW a \in Actors, NEW t \in Tasks, Throws(a, t)
    PROVE  /\ mem' \in [Tasks -> Stored] /\ wr' \in [Actors -> [Tasks -> Stored]]
           /\ got' \in [Actors -> [Tasks -> Status \union {"unread"}]]
           /\ at' \in [Actors -> [Tasks -> AtStep]]
           /\ \A u \in Tasks : u # t => mem'[u] = mem[u]
           /\ \A b \in Actors, u \in Tasks : b # a \/ u # t =>
                at'[b][u] = at[b][u] /\ wr'[b][u] = wr[b][u]
           /\ Pending(t) =>
                /\ at'[a][t] = "resched" /\ Pending(t)'
                /\ mem'[t].run = mem[t].run /\ mem'[t].posted = mem[t].posted
                /\ ChecksDuplicate(mem'[t])
                /\ wr'[a][t].run = mem[t].run /\ wr'[a][t].posted = mem[t].posted
           /\ ~Pending(t) =>
                /\ at'[a][t] = (IF a = "run" THEN "failNote" ELSE "off")
                /\ ~Pending(t)' /\ mem'[t] = mem[t] /\ wr'[a][t] = wr[a][t]
  <1>1. got' \in [Actors -> [Tasks -> Status \union {"unread"}]]
    BY DEF TypeOK, Throws
  <1>2. CASE Pending(t)
    <2>1. mem[t] \in Record  BY <1>2 DEF TypeOK, Pending
    <2> DEFINE rec == RetryScheduled(mem[t])
    <2>2. /\ rec \in Record /\ rec.run = mem[t].run
          /\ Persisted(rec) \in Record /\ Persisted(rec).run = mem[t].run
      BY <2>1, RecordOperations
    <2>3. rec.posted = mem[t].posted /\ Persisted(rec).posted = mem[t].posted
      BY <2>1 DEF RetryScheduled, Persisted, Record
    <2>4. rec.attempts > 0
      BY <2>1 DEF RetryScheduled, Record
    <2>5. ChecksDuplicate(rec)  BY <2>4 DEF ChecksDuplicate
    <2>6. /\ mem' = [mem EXCEPT ![t] = rec]
          /\ wr' = [wr EXCEPT ![a][t] = Persisted(rec)]
          /\ Goto(a, t, "resched")
      BY <1>2 DEF Throws
    <2>7. rec # NoRecord  BY <2>2, NoRecordRun
    <2>8. "resched" \in AtStep  BY DEF AtStep, FinStep
    <2> HIDE DEF rec
    <2>9. /\ at' \in [Actors -> [Tasks -> AtStep]] /\ at'[a][t] = "resched"
          /\ \A b \in Actors, u \in Tasks :
                b # a \/ u # t => at'[b][u] = at[b][u]
      BY <2>6, <2>8, GotoMoves
    <2>10. /\ mem' \in [Tasks -> Stored] /\ wr' \in [Actors -> [Tasks -> Stored]]
           /\ mem'[t] = rec /\ wr'[a][t] = Persisted(rec)
           /\ \A u \in Tasks : u # t => mem'[u] = mem[u]
           /\ \A b \in Actors, u \in Tasks :
                b # a \/ u # t => wr'[b][u] = wr[b][u]
      BY <2>2, <2>6 DEF TypeOK, Stored
    <2> QED
      BY <1>1, <1>2, <2>2, <2>3, <2>5, <2>7, <2>9, <2>10 DEF Pending
  <1>3. CASE ~Pending(t)
    <2> DEFINE s == IF a = "run" THEN "failNote" ELSE "off"
    <2>1. s \in AtStep  BY DEF AtStep, RunStep
    <2>2. Goto(a, t, s) /\ mem' = mem /\ wr' = wr  BY <1>3 DEF Throws
    <2> HIDE DEF s
    <2>3. /\ at' \in [Actors -> [Tasks -> AtStep]] /\ at'[a][t] = s
          /\ \A b \in Actors, u \in Tasks :
                b # a \/ u # t => at'[b][u] = at[b][u]
      BY <2>1, <2>2, GotoMoves
    <2>4. mem \in [Tasks -> Stored] /\ wr \in [Actors -> [Tasks -> Stored]]
      BY DEF TypeOK, Stored
    <2> QED  BY <1>1, <1>3, <2>2, <2>3, <2>4 DEF Pending, s
  <1> QED  BY <1>2, <1>3

\* Marking the summary as posted keeps the run of the record and starts its
\* write, or goes on without a record (FinalizationStore.markCommentPosted).
LEMMA MarkPostedStep ==
    ASSUME TypeOK, NEW a \in Actors, NEW t \in Tasks, NEW f, MarkPosted(a, t, f)
    PROVE  /\ mem' \in [Tasks -> Stored] /\ wr' \in [Actors -> [Tasks -> Stored]]
           /\ at' \in [Actors -> [Tasks -> AtStep]]
           /\ \A u \in Tasks : u # t => mem'[u] = mem[u]
           /\ \A b \in Actors, u \in Tasks : b # a \/ u # t =>
                at'[b][u] = at[b][u] /\ wr'[b][u] = wr[b][u]
           /\ Pending(t) =>
                /\ at'[a][t] = "mark" /\ Pending(t)'
                /\ mem'[t].run = mem[t].run /\ mem'[t].posted
                /\ wr'[a][t].run = mem[t].run
           /\ ~Pending(t) =>
                /\ at'[a][t] \in {"move", "status", "delete"}
                /\ ~Pending(t)' /\ mem'[t] = mem[t] /\ wr'[a][t] = wr[a][t]
  <1>1. CASE Pending(t)
    <2>1. mem[t] \in Record  BY <1>1 DEF TypeOK, Pending
    <2> DEFINE rec == MarkedPosted(mem[t])
    <2>2. /\ rec \in Record /\ rec.run = mem[t].run
          /\ Persisted(rec) \in Record /\ Persisted(rec).run = mem[t].run
      BY <2>1, RecordOperations
    <2>3. rec.posted  BY <2>1 DEF MarkedPosted, Record
    <2>4. /\ mem' = [mem EXCEPT ![t] = rec]
          /\ wr' = [wr EXCEPT ![a][t] = Persisted(rec)]
          /\ Goto(a, t, "mark")
      BY <1>1 DEF MarkPosted
    <2>5. rec # NoRecord  BY <2>2, NoRecordRun
    <2>6. "mark" \in AtStep  BY DEF AtStep, FinStep
    <2> HIDE DEF rec
    <2>7. /\ at' \in [Actors -> [Tasks -> AtStep]] /\ at'[a][t] = "mark"
          /\ \A b \in Actors, u \in Tasks :
                b # a \/ u # t => at'[b][u] = at[b][u]
      BY <2>4, <2>6, GotoMoves
    <2>8. /\ mem' \in [Tasks -> Stored] /\ wr' \in [Actors -> [Tasks -> Stored]]
          /\ mem'[t] = rec /\ wr'[a][t] = Persisted(rec)
          /\ \A u \in Tasks : u # t => mem'[u] = mem[u]
          /\ \A b \in Actors, u \in Tasks :
                b # a \/ u # t => wr'[b][u] = wr[b][u]
      BY <2>2, <2>4 DEF TypeOK, Stored
    <2> QED  BY <1>1, <2>2, <2>3, <2>5, <2>7, <2>8 DEF Pending
  <1>2. CASE ~Pending(t)
    <2>1. AfterSummary(f) \in {"move", "status", "delete"}
      BY AfterSummarySteps
    <2>2. AfterSummary(f) \in AtStep  BY <2>1 DEF AtStep, FinStep
    <2>3. Goto(a, t, AfterSummary(f)) /\ mem' = mem /\ wr' = wr
      BY <1>2 DEF MarkPosted
    <2>4. /\ at' \in [Actors -> [Tasks -> AtStep]]
          /\ at'[a][t] = AfterSummary(f)
          /\ \A b \in Actors, u \in Tasks :
                b # a \/ u # t => at'[b][u] = at[b][u]
      BY <2>2, <2>3, GotoMoves
    <2>5. mem \in [Tasks -> Stored] /\ wr \in [Actors -> [Tasks -> Stored]]
      BY DEF TypeOK, Stored
    <2> QED  BY <1>2, <2>1, <2>3, <2>4, <2>5 DEF Pending
  <1> QED  BY <1>1, <1>2

\* Goto and the stored records, for actions that write one record.
LEMMA StoredTypes ==
    ASSUME TypeOK
    PROVE  /\ NoRecord \in Stored /\ Record \subseteq Stored
           /\ mem \in [Tasks -> Stored] /\ disk \in [Tasks -> Stored]
           /\ wr \in [Actors -> [Tasks -> Stored]]
  BY DEF TypeOK, Stored

\* A fault is counted.
LEMMA FaultStep ==
    TypeOK /\ (Fault \/ UNCHANGED faults) => faults' \in Nat
  BY DEF TypeOK, Fault

\* A file write takes effect on its file only, or fails and is remembered.
LEMMA FileStep ==
    ASSUME TypeOK, NEW t \in Tasks, NEW w \in Stored,
           FileWritten(t, w) \/ FileFails(t)
    PROVE  /\ faults' \in Nat /\ diskOK' \in [Tasks -> BOOLEAN]
           /\ disk' \in [Tasks -> Stored]
           /\ \A u \in Tasks : u # t => disk'[u] = disk[u] /\ diskOK'[u] = diskOK[u]
           /\ disk'[t] = w \/ (disk'[t] = disk[t] /\ ~diskOK'[t])
  <1>1. CASE FileWritten(t, w)
    BY <1>1, StoredTypes DEF FileWritten, TypeOK
  <1>2. CASE FileFails(t)
    BY <1>2, StoredTypes, FaultStep DEF FileFails, TypeOK
  <1> QED  BY <1>1, <1>2

-----------------------------------------------------------------------------
(* Type correctness *)

\* The steps of the finalizer keep the types (Agent.finalizeCompletedTask).
LEMMA FinalizeType ==
    ASSUME TypeOK, NEW a \in Actors, NEW t \in Tasks, Finalize(a, t)
    PROVE  TypeOK'
  <1> USE DEF AtStep, Stored
  <1>0. {"off", "check", "post", "postApplied", "mark", "status", "move",
         "moveApplied", "delete", "resched", "clear", "failNote"} \subseteq AtStep
    BY DEF FinStep, RunStep
  <1>1. CASE Check(a, t)
    <2>1. /\ status' = status /\ assigned' = assigned /\ comments' = comments
          /\ twice' = twice /\ disk' = disk /\ up' = up /\ runs' = runs
          /\ aborted' = aborted /\ poll' = poll /\ snap' = snap /\ work' = work
          /\ moves' = moves /\ diskOK' = diskOK /\ retried' = retried
          /\ faults' \in Nat
      BY <1>1 DEF Check, Fault, planner, loop, TypeOK
    <2>2. CASE Throws(a, t)
      BY <2>1, <2>2, ThrowsStep DEF TypeOK
    <2>3. CASE got' = [got EXCEPT ![a][t] = status[t]] /\ MarkPosted(a, t, status[t])
      BY <2>1, <2>3, MarkPostedStep DEF TypeOK
    <2>4. CASE /\ got' = [got EXCEPT ![a][t] = status[t]]
               /\ UNCHANGED <<mem, wr>> /\ Goto(a, t, "post")
      BY <1>0, <2>1, <2>4, GotoMoves DEF TypeOK
    <2>5. CASE /\ mem' = [mem EXCEPT ![t] = NoRecord] /\ Goto(a, t, "delete")
               /\ UNCHANGED <<wr, got>>
      BY <1>0, <2>1, <2>5, GotoMoves DEF TypeOK
    <2> QED  BY <1>1, <2>2, <2>3, <2>4, <2>5 DEF Check
  <1>2. CASE PostApplied(a, t)
    <2>1. Delivered(a, t) \in Nat
      BY NoRecordRun DEF TypeOK, Delivered
    <2>2. comments' \in [Tasks -> SUBSET Nat] /\ twice' \in [Tasks -> SUBSET Nat]
      BY <1>2, <2>1 DEF PostApplied, TypeOK
    <2>3. Goto(a, t, "postApplied")  BY <1>2 DEF PostApplied
    <2> QED  BY <1>0, <1>2, <2>2, <2>3, GotoMoves DEF PostApplied, TypeOK, loop
  <1>3. CASE PostAnswered(a, t)
    <2>1. /\ status' = status /\ assigned' = assigned /\ comments' = comments
          /\ twice' = twice /\ disk' = disk /\ up' = up /\ runs' = runs
          /\ aborted' = aborted /\ poll' = poll /\ snap' = snap /\ work' = work
          /\ moves' = moves /\ diskOK' = diskOK /\ retried' = retried
          /\ faults' \in Nat
      BY <1>3 DEF PostAnswered, RequestFails, Fault, planner, loop, TypeOK
    <2>2. CASE Throws(a, t)
      BY <2>1, <2>2, ThrowsStep DEF TypeOK
    <2>3. CASE MarkPosted(a, t, got[a][t]) /\ UNCHANGED got
      BY <2>1, <2>3, MarkPostedStep DEF TypeOK
    <2> QED  BY <1>3, <2>2, <2>3 DEF PostAnswered
  <1>4. CASE Marked(a, t)
    <2>1. /\ status' = status /\ assigned' = assigned /\ comments' = comments
          /\ twice' = twice /\ up' = up /\ runs' = runs
          /\ aborted' = aborted /\ poll' = poll /\ snap' = snap /\ work' = work
          /\ moves' = moves /\ retried' = retried
      BY <1>4 DEF Marked, planner, loop
    <2>0. /\ faults' \in Nat /\ diskOK' \in [Tasks -> BOOLEAN]
          /\ disk' \in [Tasks -> Stored]
      <3>1. wr[a][t] \in Stored  BY DEF TypeOK
      <3> QED  BY <1>4, <3>1, FileStep DEF Marked
    <2>2. CASE Throws(a, t)
      BY <2>0, <2>1, <2>2, ThrowsStep DEF TypeOK
    <2>3. CASE /\ Goto(a, t, AfterSummary(got[a][t]))
               /\ wr' = [wr EXCEPT ![a][t] = NoRecord] /\ UNCHANGED <<mem, got>>
      BY <1>0, <2>0, <2>1, <2>3, GotoMoves, AfterSummarySteps DEF TypeOK
    <2> QED  BY <1>4, <2>2, <2>3 DEF Marked
  <1>5. CASE CheckAbort(a, t)
    <2>1. /\ status' = status /\ assigned' = assigned /\ comments' = comments
          /\ twice' = twice /\ disk' = disk /\ up' = up /\ runs' = runs
          /\ aborted' = aborted /\ poll' = poll /\ snap' = snap /\ work' = work
          /\ moves' = moves /\ diskOK' = diskOK /\ retried' = retried
          /\ faults' \in Nat
      BY <1>5 DEF CheckAbort, Fault, planner, loop, TypeOK
    <2>2. CASE Throws(a, t)
      BY <2>1, <2>2, ThrowsStep DEF TypeOK
    <2>3. CASE \/ Goto(a, t, "delete")
               \/ Goto(a, t, "move")
      <3>1. at' \in [Actors -> [Tasks -> AtStep]]
        BY <1>0, <2>3, GotoMoves
      <3>2. CASE Throws(a, t)  BY <2>2, <3>2
      <3>3. CASE wr' = wr /\ got' = got /\ mem' \in [Tasks -> Stored]
        BY <2>1, <3>1, <3>3 DEF TypeOK
      <3> QED  BY <1>5, <3>2, <3>3 DEF CheckAbort, TypeOK
    <2> QED  BY <1>5, <2>2, <2>3 DEF CheckAbort
  <1>6. CASE MoveApplied(a, t)
    <2>1. Goto(a, t, "moveApplied")  BY <1>6 DEF MoveApplied
    <2>2. status' \in [Tasks -> Status]
      BY <1>6 DEF MoveApplied, TypeOK, Status
    <2> QED  BY <1>0, <1>6, <2>1, <2>2, GotoMoves DEF MoveApplied, TypeOK, loop
  <1>7. CASE MoveAnswered(a, t)
    <2>1. /\ status' = status /\ assigned' = assigned /\ comments' = comments
          /\ twice' = twice /\ disk' = disk /\ up' = up /\ runs' = runs
          /\ aborted' = aborted /\ poll' = poll /\ snap' = snap /\ work' = work
          /\ moves' = moves /\ diskOK' = diskOK /\ retried' = retried
          /\ faults' \in Nat
      BY <1>7 DEF MoveAnswered, RequestFails, Fault, planner, loop, TypeOK
    <2>2. CASE Throws(a, t)
      BY <2>1, <2>2, ThrowsStep DEF TypeOK
    <2>3. CASE Goto(a, t, "delete") /\ UNCHANGED <<mem, wr, got>>
      BY <1>0, <2>1, <2>3, GotoMoves DEF TypeOK
    <2> QED  BY <1>7, <2>2, <2>3 DEF MoveAnswered
  <1>8. CASE Delete(a, t)
    <2>0. /\ faults' \in Nat /\ diskOK' \in [Tasks -> BOOLEAN]
          /\ disk' \in [Tasks -> Stored]
      BY <1>8, FileStep DEF Delete
    <2>1. /\ mem' \in [Tasks -> Stored]
          /\ got' \in [Actors -> [Tasks -> Status \union {"unread"}]]
      BY <1>8 DEF Delete, TypeOK
    <2>2. at' \in [Actors -> [Tasks -> AtStep]]
      BY <1>0, <1>8, GotoMoves DEF Delete
    <2> QED  BY <1>8, <2>0, <2>1, <2>2 DEF Delete, TypeOK, planner, loop
  <1>9. CASE Rescheduled(a, t)
    <2>0. /\ faults' \in Nat /\ diskOK' \in [Tasks -> BOOLEAN]
          /\ disk' \in [Tasks -> Stored]
      <3>1. wr[a][t] \in Stored  BY DEF TypeOK
      <3> QED  BY <1>9, <3>1, FileStep DEF Rescheduled
    <2>1. wr' \in [Actors -> [Tasks -> Stored]]
      BY <1>9 DEF Rescheduled, TypeOK
    <2>2. at' \in [Actors -> [Tasks -> AtStep]]
      BY <1>0, <1>9, GotoMoves DEF Rescheduled
    <2> QED  BY <1>9, <2>0, <2>1, <2>2 DEF Rescheduled, TypeOK, planner, loop
  <1> QED
    BY <1>1, <1>2, <1>3, <1>4, <1>5, <1>6, <1>7, <1>8, <1>9 DEF Finalize

\* The steps of processTask keep the types, given that a CLI run has a number.
LEMMA ProcessTaskType ==
    ASSUME TypeOK, CliHasRun, NEW t \in Tasks, ProcessTask(t)
    PROVE  TypeOK'
  <1> USE DEF AtStep, Stored
  <1>0. /\ {"off", "start", "cli", "record", "resched", "clear", "failNote",
            "failMove", "abortNote"} \subseteq AtStep
        /\ "run" \in Actors
    BY DEF FinStep, RunStep, Actors
  <1>1. CASE Begin(t)
    <2>1. at' \in [Actors -> [Tasks -> AtStep]] /\ faults' \in Nat
      BY <1>0, <1>1, GotoMoves, FaultStep DEF Begin
    <2> QED  BY <1>1, <2>1 DEF Begin, TypeOK, planner, loop
  <1>2. CASE Start(t)
    <2>1. at' \in [Actors -> [Tasks -> AtStep]] /\ faults' \in Nat
      BY <1>0, <1>2, GotoMoves, FaultStep DEF Start, RequestFails
    <2>2. status' \in [Tasks -> Status] /\ runs' \in [Tasks -> Nat]
      <3>1. status' \in [Tasks -> Status]  BY <1>2 DEF Start, TypeOK, Status
      <3>2. runs[t] + 1 \in Nat  BY DEF TypeOK
      <3>3. runs' \in [Tasks -> Nat]  BY <1>2, <3>2 DEF Start, TypeOK
      <3> QED  BY <3>1, <3>3
    <2> QED  BY <1>2, <2>1, <2>2 DEF Start, TypeOK, planner, loop
  <1>3. CASE StartFails(t)
    <2>1. at' \in [Actors -> [Tasks -> AtStep]] /\ faults' \in Nat
      BY <1>0, <1>3, GotoMoves, FaultStep DEF StartFails
    <2> QED  BY <1>3, <2>1 DEF StartFails, TypeOK, planner, loop
  <1>4. CASE CliEnds(t)
    <2> DEFINE rec == NewRecord(runs[t])
    <2>1. runs[t] \in Nat \ {0}  BY <1>4 DEF CliEnds, CliHasRun, TypeOK
    <2>2. rec \in Record /\ Persisted(rec) \in Record
      BY <2>1, NewRecordType, RecordOperations
    <2>3. /\ mem' = [mem EXCEPT ![t] = rec]
          /\ wr' = [wr EXCEPT !["run"][t] = Persisted(rec)]
      BY <1>4 DEF CliEnds
    <2> HIDE DEF rec
    <2>4. mem' \in [Tasks -> Stored] /\ wr' \in [Actors -> [Tasks -> Stored]]
      BY <1>0, <2>2, <2>3 DEF TypeOK
    <2>5. at' \in [Actors -> [Tasks -> AtStep]]
      BY <1>0, <1>4, GotoMoves DEF CliEnds
    <2> QED  BY <1>4, <2>4, <2>5 DEF CliEnds, TypeOK, planner, loop
  <1>5. CASE CliFails(t)
    <2>1. at' \in [Actors -> [Tasks -> AtStep]] /\ faults' \in Nat
      BY <1>0, <1>5, GotoMoves, FaultStep DEF CliFails
    <2> QED  BY <1>5, <2>1 DEF CliFails, TypeOK, planner, loop
  <1>6. CASE Recorded(t)
    <2>1. wr["run"][t] \in Stored /\ faults' \in Nat /\ diskOK' \in [Tasks -> BOOLEAN]
      <3>1. wr["run"][t] \in Stored  BY <1>0 DEF TypeOK
      <3> QED  BY <1>6, <3>1, FileStep DEF Recorded
    <2>2. disk' \in [Tasks -> Stored]
      BY <1>6, <2>1, FileStep DEF Recorded
    <2>3. CASE Throws("run", t)
      BY <1>0, <1>6, <2>1, <2>2, <2>3, ThrowsStep
         DEF Recorded, TypeOK, planner, loop
    <2>4. CASE /\ Goto("run", t, Entry(mem[t]))
               /\ wr' = [wr EXCEPT !["run"][t] = NoRecord] /\ UNCHANGED <<mem, got>>
      <3>1. Entry(mem[t]) \in AtStep  BY EntrySteps DEF FinStep
      <3>2. at' \in [Actors -> [Tasks -> AtStep]]
        BY <1>0, <2>4, <3>1, GotoMoves
      <3> QED  BY <1>6, <2>1, <2>2, <2>4, <3>2 DEF Recorded, TypeOK, planner, loop
    <2> QED  BY <1>6, <2>3, <2>4 DEF Recorded
  <1>7. CASE AbortNoted(t)
    <2>1. at' \in [Actors -> [Tasks -> AtStep]]
      BY <1>0, <1>7, GotoMoves DEF AbortNoted
    <2> QED  BY <1>7, <2>1 DEF AbortNoted, TypeOK, planner, loop
  <1>8. CASE FailNoted(t)
    <2>1. at' \in [Actors -> [Tasks -> AtStep]] /\ faults' \in Nat
      BY <1>0, <1>8, GotoMoves, FaultStep DEF FailNoted, RequestFails
    <2> QED  BY <1>8, <2>1 DEF FailNoted, TypeOK, planner, loop
  <1>9. CASE FailMoved(t)
    <2>1. at' \in [Actors -> [Tasks -> AtStep]] /\ faults' \in Nat
      BY <1>0, <1>9, GotoMoves, FaultStep DEF FailMoved, RequestFails
    <2>2. status' \in [Tasks -> Status]
      BY <1>9 DEF FailMoved, TypeOK, Status
    <2> QED  BY <1>9, <2>1, <2>2 DEF FailMoved, TypeOK, loop
  <1>10. CASE Clear(t)
    <2>1. at' \in [Actors -> [Tasks -> AtStep]]
      BY <1>0, <1>10, GotoMoves DEF Clear
    <2>2. aborted' \in [Tasks -> BOOLEAN]  BY <1>10 DEF Clear, TypeOK
    <2> QED  BY <1>10, <2>1, <2>2 DEF Clear, TypeOK, planner, loop
  <1> QED
    BY <1>1, <1>2, <1>3, <1>4, <1>5, <1>6, <1>7, <1>8, <1>9, <1>10
       DEF ProcessTask

\* The steps of the polling loop keep the types (Agent.pollOnce).
LEMMA PollType == TypeOK /\ Poll => TypeOK'
  <1> SUFFICES ASSUME TypeOK, Poll PROVE TypeOK'
    OBVIOUS
  <1> USE DEF AtStep, Stored
  <1>1. CASE PollLists
    <2>1. faults' \in Nat  BY <1>1, FaultStep DEF PollLists
    <2> QED  BY <1>1, <2>1 DEF PollLists, TypeOK, planner, process, PollStep
  <1>2. CASE PollPrunes
    BY <1>2 DEF PollPrunes, TypeOK, planner, PollStep
  <1>3. CASE PollPruned
    <2>1. /\ disk' \in [Tasks -> Stored] /\ faults' \in Nat
          /\ diskOK' \in [Tasks -> BOOLEAN]
      BY <1>3, FaultStep DEF PollPruned, TypeOK
    <2> QED  BY <1>3, <2>1 DEF PollPruned, TypeOK, planner, process, PollStep
  <1>4. CASE PollCollects
    BY <1>4 DEF PollCollects, TypeOK, planner, PollStep
  <1>5. CASE PollSelects
    <2>1. at' \in [Actors -> [Tasks -> AtStep]]
      BY <1>5 DEF PollSelects, TypeOK, RunStep, Actors
    <2> QED  BY <1>5, <2>1 DEF PollSelects, TypeOK, planner, PollStep
  <1>6. CASE PollFails
    <2>1. faults' \in Nat  BY <1>6, FaultStep DEF PollFails
    <2> QED  BY <1>6, <2>1 DEF PollFails, TypeOK, planner, process, PollStep
  <1>7. CASE PollRetries
    BY <1>7 DEF PollRetries, TypeOK, planner, process, PollStep
  <1>8. ASSUME NEW t \in Tasks, RetryNext(t) PROVE TypeOK'
    <2>1. at' \in [Actors -> [Tasks -> AtStep]]
      <3>1. "poll" \in Actors  BY DEF Actors
      <3>2. Entry(mem[t]) \in AtStep  BY EntrySteps DEF FinStep
      <3> QED  BY <1>8, <3>1, <3>2, GotoMoves DEF RetryNext, TypeOK
    <2> QED  BY <1>8, <2>1 DEF RetryNext, TypeOK, planner
  <1>9. CASE PollEnds
    BY <1>9 DEF PollEnds, TypeOK, planner, process, loop, PollStep
  <1> QED
    BY <1>1, <1>2, <1>3, <1>4, <1>5, <1>6, <1>7, <1>8, <1>9 DEF Poll

\* Timers, users, crashes and restarts keep the types.
LEMMA EnvironmentType == TypeOK /\ Environment => TypeOK'
  <1> SUFFICES ASSUME TypeOK, Environment PROVE TypeOK'
    OBVIOUS
  <1> USE DEF AtStep, Stored
  <1>1. ASSUME NEW t \in Tasks, TimePasses(t) PROVE TypeOK'
    <2>1. mem[t] \in Record  BY <1>1 DEF TimePasses, TypeOK, Pending
    <2>2. [mem[t] EXCEPT !.due = TRUE] \in Record  BY <2>1 DEF Record
    <2>3. mem' = [mem EXCEPT ![t] = [mem[t] EXCEPT !.due = TRUE]]
      BY <1>1 DEF TimePasses
    <2>4. mem' \in [Tasks -> Stored]  BY <2>2, <2>3 DEF TypeOK
    <2> QED  BY <1>1, <2>4 DEF TimePasses, TypeOK, planner, loop
  <1>2. ASSUME NEW t \in Tasks, Expires(t) PROVE TypeOK'
    <2>1. mem[t] \in Record  BY <1>2 DEF Expires, TypeOK, Pending
    <2>2. [mem[t] EXCEPT !.old = TRUE] \in Record  BY <2>1 DEF Record
    <2>3. mem' = [mem EXCEPT ![t] = [mem[t] EXCEPT !.old = TRUE]]
      BY <1>2 DEF Expires
    <2>4. mem' \in [Tasks -> Stored]  BY <2>2, <2>3 DEF TypeOK
    <2> QED  BY <1>2, <2>4 DEF Expires, TypeOK, planner, loop
  <1>3. ASSUME NEW t \in Tasks, UserActsOn(t) PROVE TypeOK'
    <2>1. moves' \in Nat  BY <1>3 DEF UserActsOn, TypeOK
    <2>2. status' \in [Tasks -> Status] /\ assigned' \in [Tasks -> BOOLEAN]
      BY <1>3 DEF UserActsOn, TypeOK, Status
    <2> QED  BY <1>3, <2>1, <2>2 DEF UserActsOn, TypeOK, process, loop
  <1>4. CASE Crash
    <2>1. faults' \in Nat  BY <1>4, FaultStep DEF Crash
    <2> QED  BY <1>4, <2>1 DEF Crash, TypeOK, planner, ForAll, PollStep
  <1>5. CASE Restart
    <2>1. \A t \in Tasks : disk[t] # NoRecord => Reloaded(disk[t]) \in Record
      BY RecordOperations DEF TypeOK
    <2>2. faults' \in Nat /\ diskOK' \in [Tasks -> BOOLEAN]
      BY <1>5, FaultStep DEF Restart, ForAll, TypeOK
    <2>3. mem' \in [Tasks -> Stored] /\ disk' \in [Tasks -> Stored]
      BY <1>5, <2>1 DEF Restart, TypeOK, ForAll
    <2> QED  BY <1>5, <2>2, <2>3 DEF Restart, TypeOK, planner, loop
  <1> QED  BY <1>1, <1>2, <1>3, <1>4, <1>5 DEF Environment

\* A process starts with well-typed state.
LEMMA InitType == Init => TypeOK
  BY DEF Init, TypeOK, ForAll, Status, PollStep, FinStep, RunStep

-----------------------------------------------------------------------------
(* Frames: what a step of one actor on one task leaves alone *)

\* A finalizer step by a on t touches its own location and write, the record
\* and the file of t, and never creates a record.
FinalizeFrame(a, t) ==
    /\ at[a][t] \in FinStep
    /\ at'[a][t] \in FinStep \union {IF a = "run" THEN "clear" ELSE "off",
                                     IF a = "run" THEN "failNote" ELSE "off"}
    /\ \A b \in Actors, u \in Tasks : b # a \/ u # t =>
         at'[b][u] = at[b][u] /\ wr'[b][u] = wr[b][u]
    /\ \A u \in Tasks : u # t =>
         /\ mem'[u] = mem[u] /\ comments'[u] = comments[u]
         /\ disk'[u] = disk[u] /\ diskOK'[u] = diskOK[u]
    /\ Pending(t)' => Pending(t) /\ mem'[t].run = mem[t].run
    /\ Pending(t) /\ ~Pending(t)' => at'[a][t] \notin FinStep \ {"delete"}
    /\ at[a][t] = "delete" => at'[a][t] \notin FinStep
    /\ UNCHANGED <<up, runs, poll, work, snap, retried>>

\* Every step of the finalizer stays within its frame.
LEMMA FinalizeIsFramed ==
    ASSUME TypeOK, NEW a \in Actors, NEW t \in Tasks, Finalize(a, t)
    PROVE  FinalizeFrame(a, t)
  <1> USE DEF AtStep, Stored
  <1>0. {"off", "check", "post", "postApplied", "mark", "status", "move",
         "moveApplied", "delete", "resched", "clear", "failNote"} \subseteq AtStep
    BY DEF FinStep, RunStep
  <1>1. CASE Check(a, t)
    <2>1. /\ disk' = disk /\ comments' = comments /\ up' = up /\ runs' = runs
          /\ diskOK' = diskOK
          /\ poll' = poll /\ snap' = snap /\ work' = work /\ retried' = retried
          /\ at[a][t] = "check"
      BY <1>1 DEF Check, planner, loop
    <2>2. CASE Throws(a, t)
      BY <2>1, <2>2, ThrowsStep DEF FinalizeFrame, FinStep
    <2>3. CASE MarkPosted(a, t, status[t])
      BY <2>1, <2>3, MarkPostedStep DEF FinalizeFrame, FinStep
    <2>4. CASE UNCHANGED <<mem, wr>> /\ Goto(a, t, "post")
      BY <1>0, <2>1, <2>4, GotoMoves DEF FinalizeFrame, FinStep, Pending
    <2>5. CASE /\ mem' = [mem EXCEPT ![t] = NoRecord] /\ Goto(a, t, "delete")
               /\ wr' = wr
      BY <1>0, <2>1, <2>5, GotoMoves DEF FinalizeFrame, FinStep, Pending, TypeOK
    <2> QED  BY <1>1, <2>2, <2>3, <2>4, <2>5 DEF Check
  <1>2. CASE PostApplied(a, t)
    BY <1>0, <1>2, GotoMoves
       DEF PostApplied, FinalizeFrame, FinStep, Pending, TypeOK, loop
  <1>3. CASE PostAnswered(a, t)
    <2>1. /\ disk' = disk /\ comments' = comments /\ up' = up /\ runs' = runs
          /\ diskOK' = diskOK
          /\ poll' = poll /\ snap' = snap /\ work' = work /\ retried' = retried
          /\ at[a][t] \in {"post", "postApplied"}
      BY <1>3 DEF PostAnswered, planner, loop
    <2>2. CASE Throws(a, t)
      BY <2>1, <2>2, ThrowsStep DEF FinalizeFrame, FinStep
    <2>3. CASE MarkPosted(a, t, got[a][t])
      BY <2>1, <2>3, MarkPostedStep DEF FinalizeFrame, FinStep
    <2> QED  BY <1>3, <2>2, <2>3 DEF PostAnswered
  <1>4. CASE Marked(a, t)
    <2>1. /\ comments' = comments /\ up' = up /\ runs' = runs
          /\ poll' = poll /\ snap' = snap /\ work' = work /\ retried' = retried
          /\ at[a][t] = "mark"
      BY <1>4 DEF Marked, planner, loop
    <2>2. \A u \in Tasks : u # t => disk'[u] = disk[u] /\ diskOK'[u] = diskOK[u]
      <3>1. wr[a][t] \in Stored  BY DEF TypeOK
      <3> QED  BY <1>4, <3>1, FileStep DEF Marked
    <2>3. CASE Throws(a, t)
      BY <2>1, <2>2, <2>3, ThrowsStep DEF FinalizeFrame, FinStep
    <2>4. CASE /\ Goto(a, t, AfterSummary(got[a][t])) /\ mem' = mem
               /\ wr' = [wr EXCEPT ![a][t] = NoRecord]
      <3>1. AfterSummary(got[a][t]) \in {"move", "status", "delete"}
        BY AfterSummarySteps
      <3> QED
        BY <1>0, <2>1, <2>2, <2>4, <3>1, GotoMoves
           DEF FinalizeFrame, FinStep, Pending, TypeOK
    <2> QED  BY <1>4, <2>3, <2>4 DEF Marked
  <1>5. CASE CheckAbort(a, t)
    <2>1. /\ disk' = disk /\ comments' = comments /\ up' = up /\ runs' = runs
          /\ diskOK' = diskOK
          /\ poll' = poll /\ snap' = snap /\ work' = work /\ retried' = retried
          /\ at[a][t] = "status"
      BY <1>5 DEF CheckAbort, planner, loop
    <2>2. CASE Throws(a, t)
      BY <2>1, <2>2, ThrowsStep DEF FinalizeFrame, FinStep
    <2>3. CASE /\ Goto(a, t, "delete") \/ Goto(a, t, "move")
               /\ mem' = mem /\ wr' = wr
      BY <1>0, <2>1, <2>3, GotoMoves DEF FinalizeFrame, FinStep, Pending
    <2>4. CASE /\ mem' = [mem EXCEPT ![t] = NoRecord] /\ Goto(a, t, "delete")
               /\ wr' = wr
      BY <1>0, <2>1, <2>4, GotoMoves DEF FinalizeFrame, FinStep, Pending, TypeOK
    <2> QED  BY <1>5, <2>2, <2>3, <2>4 DEF CheckAbort
  <1>6. CASE MoveApplied(a, t)
    BY <1>0, <1>6, GotoMoves
       DEF MoveApplied, FinalizeFrame, FinStep, Pending, loop
  <1>7. CASE MoveAnswered(a, t)
    <2>1. /\ disk' = disk /\ comments' = comments /\ up' = up /\ runs' = runs
          /\ diskOK' = diskOK
          /\ poll' = poll /\ snap' = snap /\ work' = work /\ retried' = retried
          /\ at[a][t] \in {"move", "moveApplied"}
      BY <1>7 DEF MoveAnswered, planner, loop
    <2>2. CASE Throws(a, t)
      BY <2>1, <2>2, ThrowsStep DEF FinalizeFrame, FinStep
    <2>3. CASE Goto(a, t, "delete") /\ UNCHANGED <<mem, wr>>
      BY <1>0, <2>1, <2>3, GotoMoves DEF FinalizeFrame, FinStep, Pending
    <2> QED  BY <1>7, <2>2, <2>3 DEF MoveAnswered
  <1>8. CASE Delete(a, t)
    <2>1. \A u \in Tasks : u # t => disk'[u] = disk[u] /\ diskOK'[u] = diskOK[u]
      BY <1>8, FileStep DEF Delete
    <2> QED
      BY <1>0, <1>8, <2>1, GotoMoves
         DEF Delete, FinalizeFrame, FinStep, Pending, TypeOK, planner, loop
  <1>9. CASE Rescheduled(a, t)
    <2>1. \A u \in Tasks : u # t => disk'[u] = disk[u] /\ diskOK'[u] = diskOK[u]
      <3>1. wr[a][t] \in Stored  BY DEF TypeOK
      <3> QED  BY <1>9, <3>1, FileStep DEF Rescheduled
    <2> QED
      BY <1>0, <1>9, <2>1, GotoMoves
         DEF Rescheduled, FinalizeFrame, FinStep, Pending, TypeOK, planner, loop
  <1> QED
    BY <1>1, <1>2, <1>3, <1>4, <1>5, <1>6, <1>7, <1>8, <1>9 DEF Finalize

\* A step of processTask outside the finalizer touches its own location and
\* write, the record and the file of t; only the end of the CLI creates a
\* record, and only its start gives the task a new run.
ProcessFrame(t) ==
    /\ at["run"][t] \in RunStep
    /\ at'["run"][t] \in AtStep
    /\ at'["run"][t] \in Early =>
         at["run"][t] \in Early /\ mem'[t] = mem[t]
    /\ \A u \in Tasks : at'["poll"][u] = at["poll"][u] /\ wr'["poll"][u] = wr["poll"][u]
    /\ \A u \in Tasks : u # t =>
         /\ mem'[u] = mem[u] /\ runs'[u] = runs[u]
         /\ disk'[u] = disk[u] /\ diskOK'[u] = diskOK[u]
         /\ at'["run"][u] = at["run"][u] /\ wr'["run"][u] = wr["run"][u]
    /\ Pending(t)' => Pending(t) \/ at["run"][t] = "cli"
    /\ UNCHANGED <<comments, twice, up, poll, work, snap, retried>>

\* Every other step of processTask stays within its frame.
LEMMA ProcessIsFramed ==
    ASSUME TypeOK, NEW t \in Tasks, ProcessTask(t)
    PROVE  ProcessFrame(t)
  <1> USE DEF AtStep, Stored
  <1>0. /\ {"off", "start", "cli", "record", "resched", "clear", "failNote",
            "failMove", "abortNote"} \subseteq AtStep
        /\ "run" \in Actors /\ "poll" \in Actors /\ "run" # "poll"
    BY DEF FinStep, RunStep, Actors
  <1>1. CASE Begin(t)
    BY <1>0, <1>1, GotoMoves
       DEF Begin, ProcessFrame, RunStep, Early, Pending, planner, loop
  <1>2. CASE Start(t)
    BY <1>0, <1>2, GotoMoves
       DEF Start, ProcessFrame, RunStep, Early, Pending, loop, TypeOK
  <1>3. CASE StartFails(t)
    BY <1>0, <1>3, GotoMoves
       DEF StartFails, ProcessFrame, RunStep, Early, Pending, planner, loop
  <1>4. CASE CliEnds(t)
    BY <1>0, <1>4, GotoMoves
       DEF CliEnds, ProcessFrame, RunStep, Early, Pending, planner, loop, TypeOK
  <1>5. CASE CliFails(t)
    BY <1>0, <1>5, GotoMoves
       DEF CliFails, ProcessFrame, RunStep, Early, Pending, planner, loop
  <1>6. CASE Recorded(t)
    <2>1. \A u \in Tasks : u # t => disk'[u] = disk[u] /\ diskOK'[u] = diskOK[u]
      <3>1. wr["run"][t] \in Stored  BY <1>0 DEF TypeOK
      <3> QED  BY <1>6, <3>1, FileStep DEF Recorded
    <2>2. /\ comments' = comments /\ twice' = twice /\ up' = up /\ runs' = runs
          /\ poll' = poll /\ work' = work /\ snap' = snap /\ retried' = retried
          /\ at["run"][t] = "record"
      BY <1>6 DEF Recorded, planner, loop
    <2>3. CASE Throws("run", t)
      BY <1>0, <2>1, <2>2, <2>3, ThrowsStep DEF ProcessFrame, RunStep, Early
    <2>4. CASE /\ Goto("run", t, Entry(mem[t])) /\ mem' = mem
               /\ wr' = [wr EXCEPT !["run"][t] = NoRecord]
      <3>1. /\ Entry(mem[t]) \in FinStep /\ Entry(mem[t]) \notin Early
        BY EntrySteps DEF FinStep, Early
      <3> QED
        BY <1>0, <2>1, <2>2, <2>4, <3>1, GotoMoves
           DEF ProcessFrame, RunStep, Pending, TypeOK
    <2> QED  BY <1>6, <2>3, <2>4 DEF Recorded
  <1>7. CASE AbortNoted(t)
    BY <1>0, <1>7, GotoMoves
       DEF AbortNoted, ProcessFrame, RunStep, Early, Pending, planner, loop
  <1>8. CASE FailNoted(t)
    BY <1>0, <1>8, GotoMoves
       DEF FailNoted, ProcessFrame, RunStep, Early, Pending, planner, loop
  <1>9. CASE FailMoved(t)
    BY <1>0, <1>9, GotoMoves
       DEF FailMoved, ProcessFrame, RunStep, Early, Pending, loop
  <1>10. CASE Clear(t)
    BY <1>0, <1>10, GotoMoves
       DEF Clear, ProcessFrame, RunStep, Early, Pending, planner, loop
  <1> QED
    BY <1>1, <1>2, <1>3, <1>4, <1>5, <1>6, <1>7, <1>8, <1>9, <1>10
       DEF ProcessTask

-----------------------------------------------------------------------------
(* Who works on a task *)

\* The finalizer never opens a task to a second actor.
LEMMA FinalizeActors ==
    ASSUME TypeOK, ActorsInv, NEW a \in Actors, NEW t \in Tasks, Finalize(a, t)
    PROVE  ActorsInv'
  <1> USE DEF AtStep
  <1>0. FinalizeFrame(a, t) /\ a \in {"run", "poll"}
    BY FinalizeIsFramed DEF Actors
  <1>1. /\ \A u \in Tasks : Pending(u)' => Pending(u)
        /\ up' = up /\ poll' = poll /\ work' = work /\ retried' = retried
        /\ \A b \in Actors, u \in Tasks : b # a \/ u # t => at'[b][u] = at[b][u]
        /\ at[a][t] # "off" /\ at'[a][t] \notin Early
    BY <1>0 DEF FinalizeFrame, Pending, FinStep, Early
  <1>2. up' = TRUE
    BY <1>1 DEF ActorsInv, StoppedIsEmpty, TypeOK
  <1>3. RetryLoop'
    <2>1. CASE a = "run"
      BY <1>0, <1>1, <2>1 DEF FinalizeFrame, ActorsInv, RetryLoop, Actors, Pending
    <2>2. CASE a = "poll"
      <3>1. at'["poll"][t] # "off" /\ at'["poll"][t] # "delete" => Pending(t)'
        BY <1>0, <2>2 DEF FinalizeFrame, ActorsInv, RetryLoop, FinStep
      <3> QED
        BY <1>0, <1>1, <2>2, <3>1
           DEF FinalizeFrame, ActorsInv, RetryLoop, Actors, Pending
    <2> QED  BY <1>0, <2>1, <2>2
  <1>4. \A u \in Tasks : at["run"][u] = "off" => at'["run"][u] = "off"
    BY <1>0, <1>1 DEF Actors
  <1>5. CandidatesStayFree'
    BY <1>1, <1>4 DEF ActorsInv, CandidatesStayFree, TypeOK
  <1>6. \A u \in Tasks : at'["run"][u] \in Early => at["run"][u] \in Early
    BY <1>0, <1>1 DEF Actors
  <1>7. PrunedStayGone'
    BY <1>1, <1>6 DEF ActorsInv, PrunedStayGone, TypeOK
  <1>8. NoRunWhilePending'
    BY <1>1, <1>6 DEF ActorsInv, NoRunWhilePending, Early
  <1> QED
    BY <1>1, <1>2, <1>3, <1>5, <1>7, <1>8
       DEF ActorsInv, StoppedIsEmpty, RetriedLast

\* processTask never opens a task to a second actor.
LEMMA ProcessTaskActors ==
    ASSUME TypeOK, ActorsInv, NEW t \in Tasks, ProcessTask(t)
    PROVE  ActorsInv'
  <1>0. ProcessFrame(t) /\ Actors = {"run", "poll"}
    BY ProcessIsFramed DEF Actors
  <1>1. /\ up' = up /\ poll' = poll /\ work' = work /\ retried' = retried
        /\ at["run"][t] \in RunStep /\ at["run"][t] # "off"
        /\ \A u \in Tasks : u # t => at'["run"][u] = at["run"][u]
        /\ \A u \in Tasks : at'["poll"][u] = at["poll"][u]
        /\ \A u \in Tasks : u # t => (Pending(u)' <=> Pending(u))
    BY <1>0 DEF ProcessFrame, RunStep, Pending
  <1>2. up' = TRUE
    BY <1>0, <1>1 DEF ActorsInv, StoppedIsEmpty, TypeOK
  <1>3. RetryLoop'
    BY <1>1 DEF ActorsInv, RetryLoop
  <1>4. CandidatesStayFree'
    BY <1>1 DEF ActorsInv, CandidatesStayFree, TypeOK
  <1>5. PrunedStayGone'
    <2>1. /\ at'["run"][t] \in Early => at["run"][t] \in Early
          /\ Pending(t)' => Pending(t) \/ at["run"][t] \in Early
      BY <1>0 DEF ProcessFrame, Early
    <2> QED  BY <1>1, <2>1 DEF ActorsInv, PrunedStayGone, TypeOK
  <1>6. NoRunWhilePending'
    <2>1. at'["run"][t] \in Early => ~Pending(t)'
      BY <1>0 DEF ProcessFrame, ActorsInv, NoRunWhilePending, Early, Pending
    <2> QED  BY <1>1, <2>1 DEF ActorsInv, NoRunWhilePending, Early
  <1> QED
    BY <1>1, <1>2, <1>3, <1>4, <1>5, <1>6 DEF ActorsInv, StoppedIsEmpty, RetriedLast

\* The poll hands a task over only while nobody works on it.
LEMMA PollActors == TypeOK /\ ActorsInv /\ Poll => ActorsInv'
  <1> SUFFICES ASSUME TypeOK, ActorsInv, Poll PROVE ActorsInv'
    OBVIOUS
  <1> USE DEF ActorsInv
  <1>0. Actors = {"run", "poll"} /\ Early = {"registered", "start", "cli"}
    BY DEF Actors, Early
  <1>1. CASE PollLists
    <2>1. /\ up' = up /\ mem' = mem /\ at' = at /\ work' = work /\ retried' = {}
          /\ up /\ poll = "idle" /\ poll' \in {"listed", "retry"}
      BY <1>1 DEF PollLists, process
    <2> QED
      BY <2>1 DEF StoppedIsEmpty, RetryLoop, CandidatesStayFree, PrunedStayGone,
                  RetriedLast, NoRunWhilePending, Pending
  <1>2. CASE PollPrunes
    <2>1. /\ up' = up /\ at' = at /\ retried' = retried
          /\ poll = "listed" /\ poll' = "pruning"
          /\ \A t \in work' : t \in Tasks /\ Pending(t) /\ mem'[t] = NoRecord
          /\ \A t \in Tasks : Pending(t)' => Pending(t)
      BY <1>2 DEF PollPrunes, Pending
    <2>2. PrunedStayGone'
      BY <1>0, <2>1 DEF PrunedStayGone, NoRunWhilePending, Pending
    <2> QED
      BY <2>1, <2>2 DEF StoppedIsEmpty, RetryLoop, CandidatesStayFree,
                  RetriedLast, NoRunWhilePending
  <1>3. CASE PollPruned
    BY <1>3 DEF PollPruned, process, StoppedIsEmpty, RetryLoop,
                CandidatesStayFree, PrunedStayGone, RetriedLast,
                NoRunWhilePending, Pending
  <1>4. CASE PollCollects
    <2>1. /\ up' = up /\ at' = at /\ mem' = mem /\ retried' = retried
          /\ poll = "pruned" /\ poll' \in {"retry", "select"}
          /\ \A t \in work' : t \in Tasks /\ ~Processing(t) /\ ~Pending(t)
      BY <1>4 DEF PollCollects, Candidate
    <2> QED
      BY <2>1 DEF StoppedIsEmpty, RetryLoop, CandidatesStayFree, PrunedStayGone,
                  RetriedLast, NoRunWhilePending, Pending, Processing
  <1>5. CASE PollSelects
    <2>1. /\ up' = up /\ mem' = mem /\ retried' = retried /\ work' = {}
          /\ poll = "select" /\ poll' = "retry"
      BY <1>5 DEF PollSelects
    <2>2. /\ \A t \in Tasks : at'["poll"][t] = at["poll"][t]
          /\ \A t \in Tasks : \/ at'["run"][t] = at["run"][t]
                              \/ t \in work /\ at'["run"][t] = "registered"
      BY <1>0, <1>5 DEF PollSelects, TypeOK
    <2>3. \A t \in Tasks : at["poll"][t] = "off"
      BY <2>1 DEF RetryLoop
    <2>4. up  BY <2>1 DEF StoppedIsEmpty, TypeOK
    <2>5. NoRunWhilePending'
      BY <2>1, <2>2 DEF CandidatesStayFree, NoRunWhilePending, Pending
    <2> QED
      BY <2>1, <2>2, <2>3, <2>4, <2>5
         DEF StoppedIsEmpty, RetryLoop, CandidatesStayFree, PrunedStayGone,
             RetriedLast
  <1>6. CASE PollFails
    BY <1>6 DEF PollFails, process, StoppedIsEmpty, RetryLoop,
                CandidatesStayFree, PrunedStayGone, RetriedLast,
                NoRunWhilePending, Pending
  <1>7. CASE PollRetries
    BY <1>7 DEF PollRetries, process, StoppedIsEmpty, RetryLoop,
                CandidatesStayFree, PrunedStayGone, RetriedLast,
                NoRunWhilePending, Pending
  <1>8. ASSUME NEW t \in Tasks, RetryNext(t) PROVE ActorsInv'
    <2>1. /\ up' = up /\ mem' = mem /\ poll = "retrying" /\ poll' = poll
          /\ \A u \in Tasks : at["poll"][u] = "off"
      BY <1>8 DEF RetryNext
    <2>2. CASE at' = at
      BY <1>8, <2>1, <2>2
         DEF StoppedIsEmpty, RetryLoop, CandidatesStayFree, PrunedStayGone,
             RetriedLast, NoRunWhilePending, Pending
    <2>3. CASE Pending(t) /\ ~Processing(t) /\ Goto("poll", t, Entry(mem[t]))
      <3>1. Entry(mem[t]) \in FinStep  BY EntrySteps DEF FinStep
      <3>2. /\ at'["poll"][t] = Entry(mem[t])
            /\ \A b \in Actors, u \in Tasks : b # "poll" \/ u # t =>
                 at'[b][u] = at[b][u]
        BY <1>0, <2>3, <3>1, GotoMoves DEF AtStep
      <3>3. /\ \A u \in Tasks : at'["run"][u] = at["run"][u]
            /\ at["run"][t] = "off"
            /\ \A u \in Tasks : u # t => at'["poll"][u] = "off"
        BY <1>0, <2>1, <2>3, <3>2 DEF Processing
      <3>4. up  BY <2>1 DEF StoppedIsEmpty, TypeOK
      <3> QED
        BY <2>1, <2>3, <3>1, <3>2, <3>3, <3>4
           DEF StoppedIsEmpty, RetryLoop, CandidatesStayFree, PrunedStayGone,
               RetriedLast, NoRunWhilePending, Pending
    <2> QED  BY <1>8, <2>2, <2>3 DEF RetryNext
  <1>9. CASE PollEnds
    BY <1>9 DEF PollEnds, process, loop, StoppedIsEmpty, RetryLoop,
                CandidatesStayFree, PrunedStayGone, RetriedLast,
                NoRunWhilePending, Pending
  <1> QED
    BY <1>1, <1>2, <1>3, <1>4, <1>5, <1>6, <1>7, <1>8, <1>9 DEF Poll

\* Timers, users, crashes and restarts leave the actors apart.
LEMMA EnvironmentActors == TypeOK /\ ActorsInv /\ Environment => ActorsInv'
  <1> SUFFICES ASSUME TypeOK, ActorsInv, Environment PROVE ActorsInv'
    OBVIOUS
  <1> USE DEF ActorsInv
  <1>1. ASSUME NEW t \in Tasks, TimePasses(t) \/ Expires(t) PROVE ActorsInv'
    <2>1. /\ up' = up /\ at' = at /\ retried' = retried /\ poll' = poll
          /\ work' = work /\ Pending(t)
          /\ \A u \in Tasks : Pending(u)' => Pending(u)
          /\ \A u \in Tasks : u # t => mem'[u] = mem[u]
      BY <1>1 DEF TimePasses, Expires, loop, TypeOK, Pending
    <2>2. Pending(t)'
      <3>1. mem[t] \in Record  BY <2>1 DEF TypeOK, Pending
      <3>2. mem'[t].run = mem[t].run
        BY <1>1, <3>1 DEF TimePasses, Expires, TypeOK, Record
      <3> QED  BY <3>1, <3>2, NoRecordRun DEF Pending
    <2>3. up  BY <2>1 DEF StoppedIsEmpty, TypeOK, Pending
    <2> QED
      BY <2>1, <2>2, <2>3
         DEF StoppedIsEmpty, RetryLoop, CandidatesStayFree, PrunedStayGone,
             RetriedLast, NoRunWhilePending, Pending, TypeOK
  <1>2. ASSUME NEW t \in Tasks, UserActsOn(t) PROVE ActorsInv'
    BY <1>2 DEF UserActsOn, process, loop, StoppedIsEmpty, RetryLoop,
                CandidatesStayFree, PrunedStayGone, RetriedLast,
                NoRunWhilePending, Pending
  <1>3. CASE Crash
    BY <1>3 DEF Crash, ForAll, StoppedIsEmpty, RetryLoop,
                CandidatesStayFree, PrunedStayGone, RetriedLast,
                NoRunWhilePending, Pending, Actors
  <1>4. CASE Restart
    BY <1>4 DEF Restart, loop, StoppedIsEmpty, RetryLoop,
                CandidatesStayFree, PrunedStayGone, RetriedLast,
                NoRunWhilePending, Pending, Actors
  <1> QED  BY <1>1, <1>2, <1>3, <1>4 DEF Environment

-----------------------------------------------------------------------------
(* What is delivered *)

\* DeliveryInv, OwnWrite and PendingSurvivesCrash, one task at a time.
DeliveryAt(t) ==
    /\ \A r \in comments[t] : r <= runs[t]
    /\ mem[t].run <= runs[t] /\ disk[t].run <= runs[t]
    /\ \A a \in Actors : wr[a][t].run <= runs[t]
    /\ Pending(t) /\ at["run"][t] \in FinStep \union {"record"} =>
         mem[t].run = runs[t]
    /\ \A a \in Actors : Pending(t) /\ at[a][t] \in Writing =>
         wr[a][t].run = mem[t].run
    /\ at["run"][t] = "cli" => runs[t] \notin comments[t]
    /\ FirstPost(t) => mem[t].run \notin comments[t]
    /\ \A a \in Actors :
         at[a][t] = "post" => Delivered(a, t) \notin comments[t]
    /\ \A a \in Actors :
         at[a][t] \in PastPost => Delivered(a, t) \in comments[t]
    /\ \A a \in Actors : wr[a][t].posted => wr[a][t].run \in comments[t]
    /\ mem[t].posted => mem[t].run \in comments[t]
    /\ disk[t].posted => disk[t].run \in comments[t]
    /\ twice[t] = {}
    /\ diskOK[t] /\ Pending(t) /\ at["run"][t] # "record" =>
         disk[t].run = mem[t].run

\* The delivery invariant is the conjunction of those of the tasks.
LEMMA DeliveryByTask ==
    DeliveryInv /\ OwnWrite /\ PendingSurvivesCrash
        <=> \A t \in Tasks : DeliveryAt(t)
  BY DEF DeliveryInv, RunsAreStarted, OwnRecord, NotPostedYet, PostedByNow,
         WritesTellTruth, PostedFlagIsTrue, SummaryAtMostOnce, OwnWrite,
         PendingSurvivesCrash, DeliveryAt

\* The run numbers and flags of stored records are well typed.
LEMMA StoredFields ==
    ASSUME TypeOK, NEW t \in Tasks
    PROVE  /\ mem[t] \in Stored /\ disk[t] \in Stored
           /\ \A a \in Actors : wr[a][t] \in Stored
           /\ mem[t].run \in Nat /\ disk[t].run \in Nat
           /\ \A a \in Actors : wr[a][t].run \in Nat
           /\ runs[t] \in Nat /\ comments[t] \in SUBSET Nat
           /\ Pending(t) <=> mem[t].run # 0
  <1>1. ASSUME NEW rec \in Stored PROVE rec.run \in Nat
    <2>1. CASE rec = NoRecord  BY <2>1, NoRecordRun
    <2>2. CASE rec \in Record  BY <2>2, NoRecordRun
    <2> QED  BY <2>1, <2>2 DEF Stored
  <1>2. /\ mem[t] \in Stored /\ disk[t] \in Stored
        /\ \A a \in Actors : wr[a][t] \in Stored
    BY DEF TypeOK, Stored
  <1>3. Pending(t) <=> mem[t].run # 0
    BY <1>2, NoRecordRun DEF Pending, Stored
  <1> QED  BY <1>1, <1>2, <1>3 DEF TypeOK

\* What is unchanged for a task keeps what is known of its delivery.
LEMMA DeliveryUntouched ==
    ASSUME NEW t \in Tasks, DeliveryAt(t), diskOK'[t] => diskOK[t],
           mem'[t] = mem[t], disk'[t] = disk[t], runs'[t] = runs[t],
           comments'[t] = comments[t], twice'[t] = twice[t],
           \A a \in Actors : at'[a][t] = at[a][t] /\ wr'[a][t] = wr[a][t]
    PROVE  DeliveryAt(t)'
  <1>1. /\ Pending(t)' <=> Pending(t)
        /\ FirstPost(t)' <=> FirstPost(t)
        /\ \A a \in Actors : Delivered(a, t)' = Delivered(a, t)
    BY DEF Pending, FirstPost, Delivered, ChecksDuplicate
  <1>2. "run" \in Actors  BY DEF Actors
  <1> QED  BY <1>1, <1>2 DEF DeliveryAt

\* Who delivers what while a, in the finalizer, works on t: the other actor
\* is not there, and a delivers the record the store holds.
LEMMA SoleFinalizer ==
    ASSUME TypeOK, TypeOK', ActorsInv, ActorsInv',
           NEW a \in Actors, NEW t \in Tasks, FinalizeFrame(a, t), DeliveryAt(t)
    PROVE  /\ \A b \in Actors : b # a => at[b][t] = "off" /\ at'[b][t] = "off"
           /\ Pending(t) => Delivered(a, t) = mem[t].run
           /\ Delivered(a, t) <= runs[t] /\ Delivered(a, t) \in Nat
           /\ runs'[t] = runs[t]
           /\ at'[a][t] \in FinStep \ {"delete"} =>
                Delivered(a, t)' = Delivered(a, t)
           /\ at'[a][t] \in {"clear", "failNote", "off"} \union FinStep
           /\ at'["run"][t] \notin {"cli", "record"}
           /\ at["run"][t] \notin {"cli", "record"}
  <1>1. a \in {"run", "poll"} /\ Actors = {"run", "poll"}  BY DEF Actors
  <1>2. at[a][t] \in FinStep /\ at[a][t] # "off" /\ runs' = runs
    BY DEF FinalizeFrame, FinStep
  <1>3. \A b \in Actors : b # a => at[b][t] = "off" /\ at'[b][t] = "off"
    BY <1>1, <1>2 DEF ActorsInv, RetryLoop, FinalizeFrame
  <1>4. Pending(t) => Delivered(a, t) = mem[t].run
    BY <1>1, <1>2 DEF DeliveryAt, Delivered
  <1>5. Delivered(a, t) <= runs[t] /\ Delivered(a, t) \in Nat
    BY StoredFields DEF DeliveryAt, Delivered
  <1>6. ASSUME at'[a][t] \in FinStep \ {"delete"}
        PROVE  Delivered(a, t)' = Delivered(a, t)
    <2>1. CASE a = "run"  BY <1>2, <2>1 DEF Delivered
    <2>2. CASE a = "poll"
      <3>1. Pending(t)'  BY <1>6, <2>2 DEF ActorsInv, RetryLoop, FinStep
      <3> QED  BY <2>2, <3>1 DEF Delivered, FinalizeFrame
    <2> QED  BY <1>1, <2>1, <2>2
  <1>7. at'[a][t] \in {"clear", "failNote", "off"} \union FinStep
    BY <1>1 DEF FinalizeFrame
  <1>8. at'["run"][t] \notin {"cli", "record"} /\ at["run"][t] \notin {"cli", "record"}
    BY <1>1, <1>2, <1>3, <1>7 DEF FinStep
  <1> QED  BY <1>2, <1>3, <1>4, <1>5, <1>6, <1>7, <1>8

\* What a finalizer step must show to keep what is known of the delivery.
LEMMA FinalizerKeepsDelivery ==
    ASSUME TypeOK, TypeOK', ActorsInv, ActorsInv',
           NEW a \in Actors, NEW t \in Tasks, FinalizeFrame(a, t), DeliveryAt(t),
           comments'[t] \subseteq comments[t] \union {Delivered(a, t)},
           comments[t] \subseteq comments'[t],
           twice'[t] = twice[t],
           Pending(t)' /\ mem'[t].posted => Delivered(a, t) \in comments'[t],
           \/ wr'[a][t] = wr[a][t]
           \/ wr'[a][t] = NoRecord
           \/ /\ Pending(t) /\ wr'[a][t].run = mem[t].run
              /\ wr'[a][t].posted => Delivered(a, t) \in comments'[t],
           Pending(t)' /\ at'[a][t] \in Writing => wr'[a][t].run = mem[t].run,
           FirstPost(t)' => Delivered(a, t) \notin comments'[t],
           at'[a][t] = "post" => Delivered(a, t) \notin comments'[t],
           at'[a][t] \in PastPost => Delivered(a, t) \in comments'[t],
           disk'[t] \in {disk[t], wr[a][t], NoRecord},
           diskOK'[t] /\ Pending(t)' => disk'[t].run = mem[t].run
    PROVE  DeliveryAt(t)'
  <1> DEFINE Due == Delivered(a, t)
  <1>1. /\ \A b \in Actors : b # a => at'[b][t] = "off" /\ wr'[b][t] = wr[b][t]
        /\ Pending(t) => Due = mem[t].run
        /\ Due <= runs[t] /\ runs'[t] = runs[t] /\ Due \in Nat
        /\ at'[a][t] \in FinStep \ {"delete"} => Delivered(a, t)' = Due
        /\ at'["run"][t] \notin {"cli", "record"}
    BY SoleFinalizer DEF FinalizeFrame
  <1>2. Pending(t)' => Pending(t) /\ mem'[t].run = mem[t].run
    BY DEF FinalizeFrame
  <1>3. /\ mem[t].run \in Nat /\ disk[t].run \in Nat /\ runs[t] \in Nat
        /\ \A b \in Actors : wr[b][t].run \in Nat
        /\ Pending(t) <=> mem[t].run # 0
        /\ Pending(t)' <=> mem'[t].run # 0
        /\ NoRecord.run = 0 /\ ~NoRecord.posted
    BY StoredFields, NoRecordRun DEF TypeOK, Stored, Pending
  <1> HIDE DEF Due
  <1>4. \A r \in comments'[t] : r <= runs'[t]
    BY <1>1 DEF DeliveryAt, Due
  <1>5. /\ mem'[t].run <= runs'[t] /\ disk'[t].run <= runs'[t]
        /\ \A b \in Actors : wr'[b][t].run <= runs'[t]
    BY <1>1, <1>2, <1>3 DEF DeliveryAt
  <1>6. Pending(t)' /\ at'["run"][t] \in FinStep \union {"record"} =>
          mem'[t].run = runs'[t]
    <2>1. "run" \in Actors /\ "off" \notin FinStep \union {"record"}
      BY DEF Actors, FinStep
    <2>2. CASE a = "run"
      BY <1>1, <1>2, <2>2 DEF DeliveryAt, FinalizeFrame
    <2>3. CASE a # "run"
      BY <1>1, <2>1, <2>3
    <2> QED  BY <2>2, <2>3
  <1>7. \A b \in Actors : Pending(t)' /\ at'[b][t] \in Writing =>
          wr'[b][t].run = mem'[t].run
    BY <1>1, <1>2 DEF Writing
  <1>8. FirstPost(t)' => mem'[t].run \notin comments'[t]
    BY <1>1, <1>2 DEF FirstPost, Due
  <1>9. \A b \in Actors :
          /\ at'[b][t] = "post" => Delivered(b, t)' \notin comments'[t]
          /\ at'[b][t] \in PastPost => Delivered(b, t)' \in comments'[t]
    BY <1>1 DEF PastPost, FinStep, Due
  <1>10. \A b \in Actors : wr'[b][t].posted => wr'[b][t].run \in comments'[t]
    BY <1>1, <1>3 DEF DeliveryAt, Due
  <1>11. mem'[t].posted => mem'[t].run \in comments'[t]
    BY <1>1, <1>2, <1>3 DEF Due, Pending
  <1>12. disk'[t].posted => disk'[t].run \in comments'[t]
    BY <1>3 DEF DeliveryAt
  <1>13. twice'[t] = {}  BY DEF DeliveryAt
  <1>14. diskOK'[t] /\ Pending(t)' /\ at'["run"][t] # "record" =>
           disk'[t].run = mem'[t].run
    BY <1>2
  <1> QED
    BY <1>1, <1>4, <1>5, <1>6, <1>7, <1>8, <1>9, <1>10, <1>11, <1>12, <1>13, <1>14
       DEF DeliveryAt

\* Each step of the finalizer keeps what is known of its delivery: the flag,
\* the comment, the record and the file stay in agreement.
LEMMA FinalizeDelivery ==
    ASSUME TypeOK, TypeOK', ActorsInv, ActorsInv',
           NEW a \in Actors, NEW t \in Tasks, Finalize(a, t), DeliveryAt(t)
    PROVE  DeliveryAt(t)'
  <1> USE DEF AtStep, Stored
  <1> DEFINE Due == Delivered(a, t)
  <1>0. /\ FinalizeFrame(a, t)
        /\ {"off", "check", "post", "postApplied", "mark", "status", "move",
            "moveApplied", "delete", "resched", "clear", "failNote"} \subseteq AtStep
    BY FinalizeIsFramed DEF FinStep, RunStep
  <1>a. /\ \A b \in Actors : b # a => at[b][t] = "off" /\ at'[b][t] = "off"
        /\ Pending(t) => Due = mem[t].run
        /\ at["run"][t] \notin {"cli", "record"}
    BY <1>0, SoleFinalizer
  <1>b. /\ Pending(t)' => Pending(t) /\ mem'[t].run = mem[t].run
    BY <1>0 DEF FinalizeFrame
  <1>c. /\ diskOK[t] /\ Pending(t) => disk[t].run = mem[t].run
        /\ Pending(t) /\ at[a][t] \in Writing => wr[a][t].run = mem[t].run
        /\ mem[t].posted => mem[t].run \in comments[t]
        /\ at[a][t] \in PastPost => Due \in comments[t]
        /\ at[a][t] = "post" => Due \notin comments[t]
        /\ FirstPost(t) => mem[t].run \notin comments[t]
    BY <1>a DEF DeliveryAt
  <1> HIDE DEF Due
  \* The end of a step that throws: the record is rescheduled.
  <1>d. ASSUME Throws(a, t), comments'[t] = comments[t], twice'[t] = twice[t],
               disk'[t] \in {disk[t], wr[a][t]},
               diskOK'[t] => diskOK[t] /\ disk'[t] = disk[t]
        PROVE  DeliveryAt(t)'
    <2>1. /\ at'[a][t] \notin PastPost /\ at'[a][t] # "post"
          /\ Pending(t) => Pending(t)' /\ ~FirstPost(t)'
      BY <1>d, ThrowsStep DEF PastPost, FirstPost
    <2>2. ~FirstPost(t)'
      BY <1>b, <2>1 DEF FirstPost
    <2>3. Pending(t)' /\ mem'[t].posted => Due \in comments'[t]
      BY <1>a, <1>b, <1>c, <1>d, ThrowsStep
    <2>4. \/ wr'[a][t] = wr[a][t]
          \/ /\ Pending(t) /\ wr'[a][t].run = mem[t].run
             /\ wr'[a][t].posted => Due \in comments'[t]
      BY <1>a, <1>c, <1>d, ThrowsStep
    <2>5. Pending(t)' /\ at'[a][t] \in Writing => wr'[a][t].run = mem[t].run
      BY <1>b, <1>d, ThrowsStep
    <2>6. diskOK'[t] /\ Pending(t)' => disk'[t].run = mem[t].run
      BY <1>b, <1>c, <1>d
    <2> QED
      BY <1>0, <1>d, <2>1, <2>2, <2>3, <2>4, <2>5, <2>6, FinalizerKeepsDelivery
         DEF Due
  \* The end of a step that marks the summary as posted.
  <1>e. ASSUME NEW f, MarkPosted(a, t, f), Due \in comments[t],
               comments'[t] = comments[t], twice'[t] = twice[t],
               disk'[t] = disk[t], diskOK' = diskOK
        PROVE  DeliveryAt(t)'
    <2>1. /\ at'[a][t] # "post"
          /\ Pending(t) => mem'[t].posted
      BY <1>e, MarkPostedStep
    <2>2. ~FirstPost(t)'
      BY <1>b, <2>1 DEF FirstPost
    <2>4. \/ wr'[a][t] = wr[a][t]
          \/ Pending(t) /\ wr'[a][t].run = mem[t].run
      BY <1>e, MarkPostedStep
    <2>5. Pending(t)' /\ at'[a][t] \in Writing => wr'[a][t].run = mem[t].run
      BY <1>b, <1>e, MarkPostedStep
    <2>6. diskOK'[t] /\ Pending(t)' => disk'[t].run = mem[t].run
      BY <1>b, <1>c, <1>e
    <2> QED
      BY <1>0, <1>e, <2>1, <2>2, <2>4, <2>5, <2>6, FinalizerKeepsDelivery
         DEF Due
  \* A step that only moves a, the record being kept or dropped.
  <1>f. ASSUME at'[a][t] \notin Writing \union {"post", "postApplied"},
               at'[a][t] \in PastPost => at[a][t] \in PastPost,
               at[a][t] # "postApplied",
               mem'[t] \in {mem[t], NoRecord}, wr'[a][t] \in {wr[a][t], NoRecord},
               comments'[t] = comments[t], twice'[t] = twice[t],
               disk'[t] \in {disk[t], wr[a][t], NoRecord},
               diskOK'[t] /\ Pending(t)' => disk'[t].run = mem[t].run
        PROVE  DeliveryAt(t)'
    <2>1. Pending(t)' => mem'[t] = mem[t]
      BY <1>f DEF Pending
    <2>2. FirstPost(t)' => FirstPost(t)
      BY <1>a, <1>f, <2>1 DEF FirstPost, ChecksDuplicate, Pending
    <2>3. FirstPost(t)' => Due \notin comments'[t]
      BY <1>a, <1>c, <1>f, <2>2 DEF FirstPost
    <2>4. Pending(t)' /\ mem'[t].posted => Due \in comments'[t]
      BY <1>a, <1>b, <1>c, <1>f, <2>1
    <2>5. at'[a][t] \in PastPost => Due \in comments'[t]
      BY <1>c, <1>f
    <2> QED
      BY <1>0, <1>f, <2>3, <2>4, <2>5, FinalizerKeepsDelivery DEF Due
  <1>1. CASE Check(a, t)
    <2>1. /\ comments' = comments /\ twice' = twice /\ disk' = disk
          /\ diskOK' = diskOK /\ at[a][t] = "check"
      BY <1>1 DEF Check, planner
    <2>2. CASE Throws(a, t)  BY <1>d, <2>1, <2>2
    <2>3. CASE Due \in comments[t] /\ MarkPosted(a, t, status[t])
      BY <1>e, <2>1, <2>3
    <2>4. CASE Due \notin comments[t] /\ UNCHANGED <<mem, wr>> /\ Goto(a, t, "post")
      <3>1. at'[a][t] = "post"  BY <1>0, <2>4, GotoMoves
      <3>2. Pending(t)' /\ mem'[t].posted => Due \in comments'[t]
        BY <1>a, <1>b, <1>c, <2>1, <2>4
      <3>3. diskOK'[t] /\ Pending(t)' => disk'[t].run = mem[t].run
        BY <1>b, <1>c, <2>1
      <3> QED
        BY <1>0, <2>1, <2>4, <3>1, <3>2, <3>3, FinalizerKeepsDelivery
           DEF Due, Writing, PastPost
    <2>5. CASE /\ mem' = [mem EXCEPT ![t] = NoRecord] /\ Goto(a, t, "delete")
               /\ wr' = wr
      <3>1. at'[a][t] = "delete" /\ mem'[t] = NoRecord
        BY <1>0, <2>5, GotoMoves DEF TypeOK
      <3> QED  BY <1>f, <2>1, <2>5, <3>1 DEF Writing, PastPost, Pending
    <2> QED  BY <1>1, <2>2, <2>3, <2>4, <2>5 DEF Check, Due
  <1>2. CASE PostApplied(a, t)
    <2>1. /\ at[a][t] = "post" /\ Due \notin comments[t]
          /\ comments'[t] = comments[t] \union {Due} /\ twice' = twice
          /\ disk' = disk /\ diskOK' = diskOK /\ mem' = mem /\ wr' = wr
      BY <1>2, <1>c DEF PostApplied, TypeOK, Due
    <2>2. at'[a][t] = "postApplied"
      BY <1>0, <1>2, GotoMoves DEF PostApplied
    <2>3. ~FirstPost(t)'  BY <2>2 DEF FirstPost
    <2>4. diskOK'[t] /\ Pending(t)' => disk'[t].run = mem[t].run
      BY <1>b, <1>c, <2>1
    <2> QED
      BY <1>0, <2>1, <2>2, <2>3, <2>4, FinalizerKeepsDelivery DEF Due, Writing
  <1>3. CASE PostAnswered(a, t)
    <2>1. /\ comments' = comments /\ twice' = twice
          /\ disk' = disk /\ diskOK' = diskOK
      BY <1>3 DEF PostAnswered, planner
    <2>2. CASE Throws(a, t)  BY <1>d, <2>1, <2>2
    <2>3. CASE at[a][t] = "postApplied" /\ MarkPosted(a, t, got[a][t])
      <3>1. Due \in comments[t]  BY <1>c, <2>3 DEF PastPost
      <3> QED  BY <1>e, <2>1, <2>3, <3>1
    <2> QED  BY <1>3, <2>2, <2>3 DEF PostAnswered
  <1>4. CASE Marked(a, t)
    <2>1. comments' = comments /\ twice' = twice /\ at[a][t] = "mark"
      BY <1>4 DEF Marked, planner
    <2>2. CASE FileFails(t) /\ Throws(a, t)
      BY <1>d, <2>1, <2>2 DEF FileFails, TypeOK
    <2>3. CASE /\ FileWritten(t, wr[a][t])
               /\ Goto(a, t, AfterSummary(got[a][t])) /\ mem' = mem
               /\ wr' = [wr EXCEPT ![a][t] = NoRecord]
      <3>1. /\ at'[a][t] \in {"move", "status", "delete"}
            /\ disk'[t] = wr[a][t] /\ wr'[a][t] = NoRecord
        <4>1. AfterSummary(got[a][t]) \in {"move", "status", "delete"}
          BY AfterSummarySteps
        <4>2. at'[a][t] = AfterSummary(got[a][t])
          BY <1>0, <2>3, <4>1, GotoMoves
        <4>3. disk'[t] = wr[a][t] /\ wr'[a][t] = NoRecord
          BY <2>3 DEF FileWritten, TypeOK
        <4> QED  BY <4>1, <4>2, <4>3
      <3>2. diskOK'[t] /\ Pending(t)' => disk'[t].run = mem[t].run
        BY <1>b, <1>c, <2>1, <3>1 DEF Writing
      <3> QED  BY <1>f, <2>1, <2>3, <3>1, <3>2 DEF Writing, PastPost
    <2> QED  BY <1>4, <2>2, <2>3 DEF Marked
  <1>5. CASE CheckAbort(a, t)
    <2>1. /\ comments' = comments /\ twice' = twice /\ disk' = disk
          /\ diskOK' = diskOK /\ at[a][t] = "status"
      BY <1>5 DEF CheckAbort, planner
    <2>2. CASE Throws(a, t)  BY <1>d, <2>1, <2>2
    <2>3. CASE /\ Goto(a, t, "delete") \/ Goto(a, t, "move")
               /\ mem' = mem /\ wr' = wr
      <3>1. at'[a][t] \in {"delete", "move"}
        BY <1>0, <2>3, GotoMoves
      <3> QED  BY <1>b, <1>c, <1>f, <2>1, <2>3, <3>1 DEF Writing, PastPost
    <2>4. CASE /\ mem' = [mem EXCEPT ![t] = NoRecord] /\ Goto(a, t, "delete")
               /\ wr' = wr
      <3>1. at'[a][t] = "delete" /\ mem'[t] = NoRecord
        BY <1>0, <2>4, GotoMoves DEF TypeOK
      <3> QED  BY <1>f, <2>1, <2>4, <3>1 DEF Writing, PastPost, Pending
    <2> QED  BY <1>5, <2>2, <2>3, <2>4 DEF CheckAbort
  <1>6. CASE MoveApplied(a, t)
    <2>1. /\ comments' = comments /\ twice' = twice
          /\ disk' = disk /\ diskOK' = diskOK /\ mem' = mem /\ wr' = wr /\ at[a][t] = "move"
          /\ at'[a][t] = "moveApplied"
      BY <1>0, <1>6, GotoMoves DEF MoveApplied
    <2> QED  BY <1>b, <1>c, <1>f, <2>1 DEF Writing, PastPost
  <1>7. CASE MoveAnswered(a, t)
    <2>1. /\ comments' = comments /\ twice' = twice /\ disk' = disk
          /\ diskOK' = diskOK /\ at[a][t] \in {"move", "moveApplied"}
      BY <1>7 DEF MoveAnswered, planner
    <2>2. CASE Throws(a, t)  BY <1>d, <2>1, <2>2
    <2>3. CASE Goto(a, t, "delete") /\ UNCHANGED <<mem, wr>>
      <3>1. at'[a][t] = "delete"  BY <1>0, <2>3, GotoMoves
      <3> QED  BY <1>b, <1>c, <1>f, <2>1, <2>3, <3>1 DEF Writing, PastPost
    <2> QED  BY <1>7, <2>2, <2>3 DEF MoveAnswered
  <1>8. CASE Delete(a, t)
    <2>1. /\ comments' = comments /\ twice' = twice /\ wr' = wr
          /\ mem'[t] = NoRecord /\ at[a][t] = "delete"
      BY <1>8 DEF Delete, planner, TypeOK
    <2>2. at'[a][t] \in {"clear", "off"}
      BY <1>0, <1>8, GotoMoves DEF Delete
    <2>3. disk'[t] \in {disk[t], NoRecord}
      BY <1>8, FileStep DEF Delete
    <2> QED  BY <1>f, <2>1, <2>2, <2>3 DEF Writing, PastPost, Pending
  <1>9. CASE Rescheduled(a, t)
    <2>1. /\ comments' = comments /\ twice' = twice /\ mem' = mem
          /\ wr'[a][t] = NoRecord /\ at[a][t] = "resched"
          /\ at'[a][t] \in {"clear", "off"}
      BY <1>0, <1>9, GotoMoves DEF Rescheduled, planner, TypeOK
    <2>2. disk'[t] = wr[a][t] \/ (disk'[t] = disk[t] /\ ~diskOK'[t])
      <3>1. wr[a][t] \in Stored  BY DEF TypeOK
      <3> QED  BY <1>9, <3>1, FileStep DEF Rescheduled
    <2>3. diskOK'[t] /\ Pending(t)' => disk'[t].run = mem[t].run
      BY <1>b, <1>c, <2>1, <2>2 DEF Writing
    <2> QED  BY <1>f, <2>1, <2>2, <2>3 DEF Writing, PastPost
  <1> QED
    BY <1>1, <1>2, <1>3, <1>4, <1>5, <1>6, <1>7, <1>8, <1>9 DEF Finalize

\* A new run, the end of its CLI and the first write of its record keep what is
\* known of the delivery.
LEMMA ProcessTaskDelivery ==
    ASSUME TypeOK, TypeOK', CliHasRun, ActorsInv, ActorsInv',
           NEW t \in Tasks, ProcessTask(t), DeliveryAt(t)
    PROVE  DeliveryAt(t)'
  <1> USE DEF AtStep, Stored
  <1>0. /\ ProcessFrame(t) /\ Actors = {"run", "poll"}
        /\ {"off", "start", "cli", "record", "resched", "clear", "failNote",
            "failMove", "abortNote"} \subseteq AtStep
    BY ProcessIsFramed DEF Actors, FinStep, RunStep
  <1>a. /\ at["poll"][t] = "off" /\ at'["poll"][t] = "off"
        /\ wr'["poll"][t] = wr["poll"][t] /\ comments' = comments /\ twice' = twice
    BY <1>0 DEF ProcessFrame, ActorsInv, RetryLoop, RunStep
  <1>b. /\ mem[t].run \in Nat /\ disk[t].run \in Nat /\ runs[t] \in Nat
        /\ \A a \in Actors : wr[a][t].run \in Nat
        /\ comments[t] \in SUBSET Nat
        /\ NoRecord.run = 0 /\ ~NoRecord.posted
    BY StoredFields, NoRecordRun
  \* A step between the start of the run and its CLI, or on the failure path.
  <1>c. ASSUME UNCHANGED <<mem, wr, disk, diskOK, runs>>, at["run"][t] # "record",
               at'["run"][t] \in {"start", "clear", "failNote", "failMove",
                                  "abortNote", "off"}
        PROVE  DeliveryAt(t)'
    <2>1. Pending(t)' <=> Pending(t)  BY <1>c DEF Pending
    <2>2. FirstPost(t)' => FirstPost(t)
      BY <1>0, <1>a, <1>c, <2>1 DEF FirstPost, ChecksDuplicate, ProcessFrame, RunStep
    <2> QED
      BY <1>0, <1>a, <1>c, <2>1, <2>2
         DEF DeliveryAt, FinStep, Writing, PastPost
  <1>1. CASE Begin(t)
    BY <1>0, <1>1, <1>c, GotoMoves DEF Begin, planner
  <1>2. CASE Start(t)
    <2>1. /\ mem' = mem /\ wr' = wr /\ disk' = disk /\ diskOK' = diskOK
          /\ runs'[t] = runs[t] + 1 /\ at["run"][t] = "start"
      BY <1>2 DEF Start, TypeOK
    <2>2. at'["run"][t] = "cli"  BY <1>0, <1>2, GotoMoves DEF Start
    <2>3. ~Pending(t)' /\ ~FirstPost(t)'
      BY <2>1 DEF ActorsInv, NoRunWhilePending, Pending, FirstPost
    <2>4. \A n \in Nat : n <= runs[t] => n <= runs'[t] /\ n # runs'[t]
      BY <1>b, <2>1
    <2>5. \A r \in comments[t] : r <= runs'[t] /\ r # runs'[t]
      BY <1>b, <2>4 DEF DeliveryAt
    <2>6. /\ mem'[t].run <= runs'[t] /\ disk'[t].run <= runs'[t]
          /\ \A a \in Actors : wr'[a][t].run <= runs'[t]
      BY <1>b, <2>1, <2>4 DEF DeliveryAt
    <2> QED
      BY <1>0, <1>a, <2>1, <2>2, <2>3, <2>5, <2>6
         DEF DeliveryAt, Writing, PastPost
  <1>3. CASE StartFails(t)
    BY <1>0, <1>3, <1>c, GotoMoves DEF StartFails, planner
  <1>4. CASE CliEnds(t)
    <2> DEFINE rec == NewRecord(runs[t])
    <2>1. runs[t] \in Nat \ {0} /\ at["run"][t] = "cli"
      BY <1>4 DEF CliEnds, CliHasRun, TypeOK
    <2>2. /\ rec.run = runs[t] /\ Persisted(rec).run = runs[t]
          /\ ~rec.posted /\ ~Persisted(rec).posted
      BY DEF NewRecord, Persisted
    <2>3. /\ mem'[t] = rec /\ wr'["run"][t] = Persisted(rec)
          /\ disk' = disk /\ diskOK' = diskOK /\ runs' = runs
      BY <1>0, <1>4 DEF CliEnds, TypeOK
    <2>4. at'["run"][t] = "record"  BY <1>0, <1>4, GotoMoves DEF CliEnds
    <2>5. runs[t] \notin comments[t]  BY <2>1 DEF DeliveryAt
    <2> HIDE DEF rec
    <2> QED
      BY <1>0, <1>a, <1>b, <2>2, <2>3, <2>4, <2>5
         DEF DeliveryAt, Writing, PastPost
  <1>5. CASE CliFails(t)
    BY <1>0, <1>5, <1>c, GotoMoves DEF CliFails, planner
  <1>6. CASE Recorded(t)
    <2>1. at["run"][t] = "record" /\ runs' = runs
      BY <1>6 DEF Recorded
    <2>2. Pending(t) => mem[t].run = runs[t] /\ wr["run"][t].run = mem[t].run
      BY <1>0, <2>1 DEF DeliveryAt, Writing
    <2>3. FirstPost(t) => mem[t].run \notin comments[t]
      BY DEF DeliveryAt
    <2>4. CASE FileFails(t) /\ Throws("run", t)
      <3>1. disk' = disk /\ ~diskOK'[t]  BY <2>4 DEF FileFails, TypeOK
      <3>2. CASE Pending(t)
        <4>1. /\ at'["run"][t] = "resched" /\ Pending(t)' /\ ~FirstPost(t)'
              /\ mem'[t].run = mem[t].run /\ mem'[t].posted = mem[t].posted
              /\ wr'["run"][t].run = mem[t].run
              /\ wr'["run"][t].posted = mem[t].posted
          BY <1>0, <2>4, <3>2, ThrowsStep DEF FirstPost
        <4> QED
          BY <1>0, <1>a, <1>b, <2>1, <2>2, <3>1, <3>2, <4>1
             DEF DeliveryAt, PastPost
      <3>3. CASE ~Pending(t)
        <4>1. /\ at'["run"][t] = "failNote" /\ ~Pending(t)' /\ ~FirstPost(t)'
              /\ mem'[t] = mem[t] /\ wr'["run"][t] = wr["run"][t]
          BY <1>0, <2>4, <3>3, ThrowsStep DEF FirstPost
        <4> QED
          BY <1>0, <1>a, <2>1, <3>1, <4>1 DEF DeliveryAt, PastPost
      <3> QED  BY <3>2, <3>3
    <2>5. CASE /\ FileWritten(t, wr["run"][t]) /\ Goto("run", t, Entry(mem[t]))
               /\ wr' = [wr EXCEPT !["run"][t] = NoRecord] /\ mem' = mem
      <3>1. /\ disk'[t] = wr["run"][t] /\ wr'["run"][t] = NoRecord
        BY <1>0, <2>5 DEF FileWritten, TypeOK
      <3>2. at'["run"][t] = Entry(mem[t])
        <4>1. Entry(mem[t]) \in AtStep  BY EntrySteps DEF FinStep
        <4> QED  BY <1>0, <2>5, <4>1, GotoMoves
      <3>3. /\ at'["run"][t] \in {"delete", "move", "status", "check", "post"}
            /\ at'["run"][t] = "post" => /\ Pending(t) /\ ~mem[t].posted
                                         /\ ~ChecksDuplicate(mem[t])
            /\ at'["run"][t] \in {"move", "status"} => Pending(t) /\ mem[t].posted
        BY <3>2, EntrySteps DEF Pending
      <3>4. FirstPost(t)
              <=> Pending(t) /\ ~mem[t].posted /\ ~ChecksDuplicate(mem[t])
        BY <1>0, <1>a, <2>1 DEF FirstPost
      <3>5. FirstPost(t)' => FirstPost(t)
        BY <2>5, <3>4 DEF FirstPost, ChecksDuplicate, Pending
      <3>6. at'["run"][t] = "post" => Delivered("run", t)' \notin comments'[t]
        BY <1>a, <2>1, <2>2, <2>3, <3>3, <3>4 DEF Delivered
      <3>7. at'["run"][t] \in PastPost => Delivered("run", t)' \in comments'[t]
        BY <1>a, <2>1, <2>2, <3>3 DEF Delivered, DeliveryAt, PastPost
      <3>8. Pending(t)' <=> Pending(t)  BY <2>5 DEF Pending
      <3>9. at'["run"][t] \notin Writing \union {"cli"}
        BY <3>3 DEF Writing
      <3> QED
        BY <1>0, <1>a, <1>b, <2>1, <2>2, <2>5, <3>1, <3>5, <3>6, <3>7, <3>8, <3>9
           DEF DeliveryAt, PastPost, Writing
    <2> QED  BY <1>6, <2>4, <2>5 DEF Recorded
  <1>7. CASE AbortNoted(t)
    BY <1>0, <1>7, <1>c, GotoMoves DEF AbortNoted, planner
  <1>8. CASE FailNoted(t)
    BY <1>0, <1>8, <1>c, GotoMoves DEF FailNoted, planner
  <1>9. CASE FailMoved(t)
    BY <1>0, <1>9, <1>c, GotoMoves DEF FailMoved
  <1>10. CASE Clear(t)
    BY <1>0, <1>10, <1>c, GotoMoves DEF Clear, planner
  <1> QED
    BY <1>1, <1>2, <1>3, <1>4, <1>5, <1>6, <1>7, <1>8, <1>9, <1>10
       DEF ProcessTask

\* Pruning, picking and retrying keep what is known of every delivery.
LEMMA PollDelivery ==
    ASSUME TypeOK, TypeOK', ActorsInv, ActorsInv', Poll,
           NEW t \in Tasks, DeliveryAt(t)
    PROVE  DeliveryAt(t)'
  <1> USE DEF AtStep, Stored
  <1>0. Actors = {"run", "poll"}  BY DEF Actors
  <1>1. CASE PollLists
    BY <1>1, DeliveryUntouched DEF PollLists, planner, process
  <1>2. CASE PollPrunes
    <2>1. /\ mem'[t] \in {mem[t], NoRecord} /\ comments' = comments
          /\ twice' = twice /\ disk' = disk /\ at' = at /\ wr' = wr
          /\ runs' = runs /\ diskOK' = diskOK
      BY <1>2 DEF PollPrunes, planner
    <2>2. CASE mem'[t] = mem[t]  BY <2>1, <2>2, DeliveryUntouched
    <2>3. CASE mem'[t] = NoRecord
      <3>1. ~Pending(t)' /\ ~FirstPost(t)'  BY <2>3 DEF Pending, FirstPost
      <3>2. NoRecord.run <= runs[t] /\ ~NoRecord.posted
        BY NoRecordRun, StoredFields
      <3>3. at["poll"][t] = "off"
        BY <1>2 DEF PollPrunes, ActorsInv, RetryLoop
      <3>4. /\ at["run"][t] = "post" => Delivered("run", t)' \notin comments[t]
            /\ at["run"][t] \in PastPost => Delivered("run", t)' \in comments[t]
        BY <1>0, <2>1 DEF DeliveryAt, Delivered
      <3> QED
        BY <1>0, <2>1, <2>3, <3>1, <3>2, <3>3, <3>4 DEF DeliveryAt, PastPost
    <2> QED  BY <2>1, <2>2, <2>3
  <1>3. CASE PollPruned
    <2>1. /\ mem' = mem /\ comments' = comments /\ twice' = twice
          /\ at' = at /\ wr' = wr /\ runs' = runs
      BY <1>3 DEF PollPruned, planner, process
    <2>2. \/ disk'[t] = disk[t] /\ (diskOK'[t] => diskOK[t])
          \/ t \in work /\ disk'[t] = NoRecord
      BY <1>3 DEF PollPruned
    <2>3. CASE disk'[t] = disk[t] /\ (diskOK'[t] => diskOK[t])
      BY <2>1, <2>3, DeliveryUntouched
    <2>4. CASE t \in work /\ disk'[t] = NoRecord
      <3>1. ~Pending(t)
        BY <1>3, <2>4 DEF PollPruned, ActorsInv, PrunedStayGone
      <3>2. ~Pending(t)' /\ (FirstPost(t)' <=> FirstPost(t))
        BY <2>1, <3>1 DEF Pending, FirstPost, ChecksDuplicate
      <3>3. NoRecord.run <= runs[t] /\ ~NoRecord.posted
        BY NoRecordRun, StoredFields
      <3>4. \A a \in Actors : Delivered(a, t)' = Delivered(a, t)
        BY <2>1 DEF Delivered
      <3> QED
        BY <1>0, <2>1, <2>4, <3>1, <3>2, <3>3, <3>4 DEF DeliveryAt
    <2> QED  BY <2>2, <2>3, <2>4
  <1>4. CASE PollCollects
    BY <1>4, DeliveryUntouched DEF PollCollects, planner
  <1>5. CASE PollSelects
    <2>1. /\ mem' = mem /\ comments' = comments /\ twice' = twice
          /\ wr' = wr /\ runs' = runs /\ disk' = disk /\ diskOK' = diskOK
          /\ at'["poll"][t] = at["poll"][t]
          /\ \/ at'["run"][t] = at["run"][t]
             \/ t \in work /\ at'["run"][t] = "registered"
      BY <1>0, <1>5 DEF PollSelects, TypeOK, planner
    <2>2. CASE at'["run"][t] = at["run"][t]
      BY <1>0, <2>1, <2>2, DeliveryUntouched
    <2>3. CASE t \in work /\ at'["run"][t] = "registered"
      <3>1. at["run"][t] = "off" /\ ~Pending(t)
        BY <1>5, <2>3 DEF PollSelects, ActorsInv, CandidatesStayFree
      <3>2. ~Pending(t)' /\ ~FirstPost(t)'
        BY <2>1, <3>1 DEF Pending, FirstPost
      <3>3. \A a \in Actors : Delivered(a, t)' = Delivered(a, t)
        BY <2>1 DEF Delivered
      <3> QED
        BY <1>0, <2>1, <2>3, <3>1, <3>2, <3>3
           DEF DeliveryAt, Writing, PastPost
    <2> QED  BY <2>1, <2>2, <2>3
  <1>6. CASE PollFails
    BY <1>6, DeliveryUntouched DEF PollFails, planner, process
  <1>7. CASE PollRetries
    BY <1>7, DeliveryUntouched DEF PollRetries, planner, process
  <1>8. ASSUME NEW u \in Tasks, RetryNext(u) PROVE DeliveryAt(t)'
    <2>1. /\ mem' = mem /\ comments' = comments /\ twice' = twice
          /\ wr' = wr /\ runs' = runs /\ disk' = disk /\ diskOK' = diskOK
          /\ at["poll"][t] = "off"
      BY <1>8 DEF RetryNext, planner
    <2>2. CASE at' = at  BY <2>1, <2>2, DeliveryUntouched
    <2>3. CASE /\ Pending(u) /\ ~Processing(u)
               /\ Goto("poll", u, Entry(mem[u]))
      <3>1. /\ at'["poll"][u] = Entry(mem[u])
            /\ \A b \in Actors, v \in Tasks : b # "poll" \/ v # u =>
                 at'[b][v] = at[b][v]
        <4>1. Entry(mem[u]) \in AtStep  BY EntrySteps DEF FinStep
        <4> QED  BY <1>0, <2>3, <4>1, GotoMoves
      <3>2. CASE u # t  BY <2>1, <3>1, <3>2, DeliveryUntouched
      <3>3. CASE u = t
        <4>1. /\ at["run"][t] = "off" /\ at'["run"][t] = "off" /\ Pending(t)
              /\ Pending(t)'
          BY <1>0, <2>1, <2>3, <3>1, <3>3 DEF Processing, Pending
        <4>2. /\ at'["poll"][t] \in {"delete", "move", "status", "check", "post"}
              /\ at'["poll"][t] = "post" =>
                   ~mem[t].posted /\ ~ChecksDuplicate(mem[t])
              /\ at'["poll"][t] \in {"move", "status"} => mem[t].posted
          BY <3>1, <3>3, EntrySteps
        <4>3. FirstPost(t) <=> ~mem[t].posted /\ ~ChecksDuplicate(mem[t])
          BY <1>0, <2>1, <4>1 DEF FirstPost
        <4>4. FirstPost(t)' => FirstPost(t)
          BY <2>1, <4>3 DEF FirstPost, ChecksDuplicate
        <4>5. Delivered("poll", t)' = mem[t].run /\ mem' = mem
          BY <2>1 DEF Delivered
        <4>6. /\ at'["poll"][t] = "post" =>
                   Delivered("poll", t)' \notin comments'[t]
              /\ at'["poll"][t] \in PastPost =>
                   Delivered("poll", t)' \in comments'[t]
          BY <2>1, <4>2, <4>3, <4>5 DEF DeliveryAt, PastPost
        <4> QED
          BY <1>0, <2>1, <4>1, <4>2, <4>4, <4>6
             DEF DeliveryAt, Writing, PastPost, FinStep
      <3> QED  BY <3>2, <3>3
    <2> QED  BY <1>8, <2>2, <2>3 DEF RetryNext
  <1>9. CASE PollEnds
    BY <1>9, DeliveryUntouched DEF PollEnds, planner, process
  <1> QED
    BY <1>1, <1>2, <1>3, <1>4, <1>5, <1>6, <1>7, <1>8, <1>9 DEF Poll

\* Timers, users, a crash and the reload of the files keep what is known of
\* every delivery.
LEMMA EnvironmentDelivery ==
    ASSUME TypeOK, TypeOK', ActorsInv, ActorsInv', Environment,
           NEW t \in Tasks, DeliveryAt(t)
    PROVE  DeliveryAt(t)'
  <1> USE DEF AtStep, Stored
  <1>0. Actors = {"run", "poll"}  BY DEF Actors
  <1>1. ASSUME NEW u \in Tasks, TimePasses(u) \/ Expires(u)
        PROVE  DeliveryAt(t)'
    <2>1. /\ comments' = comments /\ twice' = twice /\ wr' = wr
          /\ runs' = runs /\ disk' = disk /\ diskOK' = diskOK /\ at' = at
          /\ Pending(u) /\ \A v \in Tasks : v # u => mem'[v] = mem[v]
      BY <1>1 DEF TimePasses, Expires, planner, TypeOK
    <2>2. CASE u # t  BY <2>1, <2>2, DeliveryUntouched
    <2>3. CASE u = t
      <3>1. mem[t] \in Record  BY <2>1, <2>3 DEF TypeOK, Pending
      <3>2. /\ mem'[t].run = mem[t].run /\ mem'[t].posted = mem[t].posted
            /\ mem'[t].attempts = mem[t].attempts
            /\ mem'[t].resumed = mem[t].resumed
        BY <1>1, <2>3, <3>1 DEF TimePasses, Expires, TypeOK, Record
      <3>3. /\ ChecksDuplicate(mem'[t]) = ChecksDuplicate(mem[t])
            /\ Pending(t)' <=> Pending(t)
        BY <3>1, <3>2, NoRecordRun DEF ChecksDuplicate, Pending
      <3>4. FirstPost(t)' <=> FirstPost(t)
        BY <2>1, <3>2, <3>3 DEF FirstPost
      <3>5. \A a \in Actors : Delivered(a, t)' = Delivered(a, t)
        BY <2>1, <3>2 DEF Delivered
      <3> QED
        BY <1>0, <2>1, <3>2, <3>3, <3>4, <3>5 DEF DeliveryAt
    <2> QED  BY <2>2, <2>3
  <1>2. ASSUME NEW u \in Tasks, UserActsOn(u) PROVE DeliveryAt(t)'
    BY <1>2, DeliveryUntouched DEF UserActsOn, process
  <1>3. CASE Crash
    <2>1. /\ comments' = comments /\ twice' = twice /\ runs' = runs
          /\ disk' = disk /\ diskOK' = diskOK /\ mem'[t] = NoRecord
          /\ \A a \in Actors : at'[a][t] = "off" /\ wr'[a][t] = NoRecord
      BY <1>3 DEF Crash, ForAll, planner
    <2>2. ~Pending(t)' /\ ~FirstPost(t)'  BY <2>1 DEF Pending, FirstPost
    <2>3. NoRecord.run <= runs[t] /\ ~NoRecord.posted
      BY NoRecordRun, StoredFields
    <2> QED
      BY <1>0, <2>1, <2>2, <2>3 DEF DeliveryAt, PastPost
  <1>4. CASE Restart
    <2>1. /\ comments' = comments /\ twice' = twice /\ runs' = runs
          /\ at' = at /\ wr' = wr /\ \A a \in Actors : at[a][t] = "off"
      BY <1>4 DEF Restart, planner, ActorsInv, StoppedIsEmpty
    <2>2. \/ /\ disk'[t] \in {disk[t], NoRecord} /\ mem'[t] = NoRecord
          \/ /\ disk'[t] = disk[t] /\ disk[t] # NoRecord
             /\ mem'[t] = Reloaded(disk[t]) /\ (diskOK'[t] => diskOK[t])
      BY <1>4 DEF Restart, ForAll, TypeOK
    <2>3. NoRecord.run <= runs[t] /\ ~NoRecord.posted
      BY NoRecordRun, StoredFields
    <2>4. CASE disk'[t] \in {disk[t], NoRecord} /\ mem'[t] = NoRecord
      <3>1. ~Pending(t)' /\ ~FirstPost(t)'  BY <2>4 DEF Pending, FirstPost
      <3> QED
        BY <1>0, <2>1, <2>3, <2>4, <3>1 DEF DeliveryAt, PastPost
    <2>5. CASE /\ disk'[t] = disk[t] /\ disk[t] # NoRecord
               /\ mem'[t] = Reloaded(disk[t])
      <3>1. disk[t] \in Record  BY <2>5 DEF TypeOK
      <3>2. /\ mem'[t].run = disk[t].run /\ mem'[t].posted = disk[t].posted
            /\ mem'[t].resumed
        BY <2>5, <3>1 DEF Reloaded, Record
      <3>3. ~FirstPost(t)'  BY <3>2 DEF FirstPost, ChecksDuplicate
      <3> QED
        BY <1>0, <2>1, <2>5, <3>2, <3>3
           DEF DeliveryAt, PastPost, FinStep, Writing
    <2> QED  BY <2>2, <2>4, <2>5
  <1> QED  BY <1>1, <1>2, <1>3, <1>4 DEF Environment

-----------------------------------------------------------------------------
(* The inductive invariant *)

\* A CLI run keeps a number of its own.
LEMMA CliHasRunStep == TypeOK /\ CliHasRun /\ [Next]_vars => CliHasRun'
  <1> SUFFICES ASSUME TypeOK, CliHasRun, [Next]_vars PROVE CliHasRun'
    OBVIOUS
  <1>0. Actors = {"run", "poll"}  BY DEF Actors
  <1>1. ASSUME NEW a \in Actors, NEW t \in Tasks, Finalize(a, t)
        PROVE  CliHasRun'
    <2>1. FinalizeFrame(a, t)  BY <1>1, FinalizeIsFramed
    <2> QED
      BY <1>0, <2>1 DEF FinalizeFrame, CliHasRun, FinStep
  <1>2. ASSUME NEW t \in Tasks, ProcessTask(t) PROVE CliHasRun'
    <2>1. ProcessFrame(t)  BY <1>2, ProcessIsFramed
    <2>2. at'["run"][t] = "cli" => runs'[t] > 0
      <3>1. CASE Start(t)
        <4>1. runs'[t] = runs[t] + 1 /\ runs[t] \in Nat
          BY <3>1 DEF Start, TypeOK
        <4> QED  BY <4>1
      <3>2. CASE Recorded(t)
        <4>1. CASE Throws("run", t)
          BY <1>0, <4>1, ThrowsStep
        <4>2. CASE Goto("run", t, Entry(mem[t]))
          <5>1. Entry(mem[t]) \in AtStep /\ Entry(mem[t]) # "cli"
            BY EntrySteps DEF FinStep, AtStep
          <5> QED  BY <1>0, <4>2, <5>1, GotoMoves
        <4> QED  BY <3>2, <4>1, <4>2 DEF Recorded
      <3>3. CASE Begin(t) \/ StartFails(t) \/ CliEnds(t) \/ CliFails(t)
                 \/ AbortNoted(t) \/ FailNoted(t) \/ FailMoved(t) \/ Clear(t)
        <4>1. PICK s \in {"start", "off", "failNote", "record", "abortNote",
                          "clear", "failMove"} : Goto("run", t, s)
          BY <3>3 DEF Begin, StartFails, CliEnds, CliFails, AbortNoted,
                      FailNoted, FailMoved, Clear
        <4>2. at'["run"][t] = s
          BY <1>0, <4>1, GotoMoves DEF AtStep, FinStep, RunStep
        <4> QED  BY <4>2
      <3> QED  BY <1>2, <3>1, <3>2, <3>3 DEF ProcessTask
    <2> QED  BY <2>1, <2>2 DEF ProcessFrame, CliHasRun
  <1>3. CASE Poll
    <2>1. \A t \in Tasks : at'["run"][t] = "cli" => at["run"][t] = "cli"
      <3>1. CASE PollSelects
        BY <1>0, <3>1 DEF PollSelects, TypeOK
      <3>2. ASSUME NEW t \in Tasks, RetryNext(t)
            PROVE  \A u \in Tasks : at'["run"][u] = at["run"][u]
        <4>1. Entry(mem[t]) \in AtStep  BY EntrySteps DEF FinStep, AtStep
        <4> QED  BY <1>0, <3>2, <4>1, GotoMoves DEF RetryNext
      <3> QED
        BY <1>3, <3>1, <3>2
           DEF Poll, PollLists, PollPrunes, PollPruned, PollCollects, PollFails,
               PollRetries, PollEnds, process
    <2>2. runs' = runs
      BY <1>3 DEF Poll, PollLists, PollPrunes, PollPruned, PollCollects,
                  PollSelects, PollFails, PollRetries, RetryNext, PollEnds, process
    <2> QED  BY <2>1, <2>2 DEF CliHasRun
  <1>4. CASE Environment
    BY <1>4 DEF Environment, TimePasses, Expires, UserActsOn, Crash, Restart,
                process, ForAll, CliHasRun, Actors
  <1>5. CASE UNCHANGED vars
    BY <1>5 DEF vars, process, CliHasRun
  <1> QED  BY <1>1, <1>2, <1>3, <1>4, <1>5 DEF Next

\* Every step keeps the types.
LEMMA TypeStep == TypeOK /\ CliHasRun /\ [Next]_vars => TypeOK'
  <1> SUFFICES ASSUME TypeOK, CliHasRun, [Next]_vars PROVE TypeOK'
    OBVIOUS
  <1>1. CASE UNCHANGED vars
    BY <1>1 DEF vars, planner, process, loop, TypeOK
  <1> QED
    BY <1>1, FinalizeType, ProcessTaskType, PollType, EnvironmentType DEF Next

\* Every step keeps the actors apart.
LEMMA ActorsStep == TypeOK /\ ActorsInv /\ [Next]_vars => ActorsInv'
  <1> SUFFICES ASSUME TypeOK, ActorsInv, [Next]_vars PROVE ActorsInv'
    OBVIOUS
  <1>1. CASE UNCHANGED vars
    BY <1>1 DEF vars, planner, process, loop, ActorsInv, StoppedIsEmpty,
                RetryLoop, CandidatesStayFree, PrunedStayGone, RetriedLast,
                NoRunWhilePending, Pending
  <1> QED
    BY <1>1, FinalizeActors, ProcessTaskActors, PollActors, EnvironmentActors
       DEF Next

\* Every step keeps what is known of the delivery of every task.
LEMMA DeliveryStep ==
    ASSUME TypeOK, TypeOK', CliHasRun, ActorsInv, ActorsInv', [Next]_vars,
           NEW t \in Tasks, DeliveryAt(t)
    PROVE  DeliveryAt(t)'
  <1>0. Actors = {"run", "poll"}  BY DEF Actors
  <1>1. ASSUME NEW a \in Actors, NEW u \in Tasks, Finalize(a, u)
        PROVE  DeliveryAt(t)'
    <2>1. CASE u = t  BY <1>1, <2>1, FinalizeDelivery
    <2>2. CASE u # t
      <3>1. FinalizeFrame(a, u)  BY <1>1, FinalizeIsFramed
      <3>2. twice'[t] = twice[t]
        BY <1>1, <2>2 DEF Finalize, Check, PostApplied, PostAnswered, Marked,
             CheckAbort, MoveApplied, MoveAnswered, Delete, Rescheduled, planner,
             TypeOK
      <3> QED
        BY <2>2, <3>1, <3>2, DeliveryUntouched DEF FinalizeFrame
    <2> QED  BY <2>1, <2>2
  <1>2. ASSUME NEW u \in Tasks, ProcessTask(u) PROVE DeliveryAt(t)'
    <2>1. CASE u = t  BY <1>2, <2>1, ProcessTaskDelivery
    <2>2. CASE u # t
      <3>1. ProcessFrame(u)  BY <1>2, ProcessIsFramed
      <3> QED  BY <1>0, <2>2, <3>1, DeliveryUntouched DEF ProcessFrame
    <2> QED  BY <2>1, <2>2
  <1>3. CASE UNCHANGED vars
    BY <1>3, DeliveryUntouched DEF vars, planner, process
  <1> QED
    BY <1>1, <1>2, <1>3, PollDelivery, EnvironmentDelivery DEF Next

\* The inductive invariant holds initially.
LEMMA InvInit == Init => Inv
  <1> SUFFICES ASSUME Init PROVE Inv
    OBVIOUS
  <1>1. TypeOK /\ CliHasRun
    BY InitType DEF Init, CliHasRun, ForAll, Actors
  <1>2. ActorsInv
    BY DEF Init, ForAll, Actors, ActorsInv, StoppedIsEmpty, RetryLoop,
           CandidatesStayFree, PrunedStayGone, RetriedLast, NoRunWhilePending
  <1>3. ASSUME NEW t \in Tasks PROVE DeliveryAt(t)
    <2>1. /\ comments[t] = {} /\ twice[t] = {} /\ disk[t] = NoRecord
          /\ mem[t] = NoRecord /\ runs[t] = 0
          /\ \A a \in Actors : at[a][t] = "off" /\ wr[a][t] = NoRecord
      BY DEF Init, ForAll
    <2>2. ~Pending(t) /\ ~FirstPost(t)  BY <2>1 DEF Pending, FirstPost
    <2>3. NoRecord.run <= 0 /\ ~NoRecord.posted  BY NoRecordRun
    <2>4. "run" \in Actors  BY DEF Actors
    <2> QED  BY <2>1, <2>2, <2>3, <2>4 DEF DeliveryAt, PastPost
  <1> QED  BY <1>1, <1>2, <1>3, DeliveryByTask DEF Inv

\* The inductive invariant is kept by every step.
LEMMA InvStep == Inv /\ [Next]_vars => Inv'
  <1> SUFFICES ASSUME Inv, [Next]_vars PROVE Inv'
    OBVIOUS
  <1>1. TypeOK' /\ CliHasRun' /\ ActorsInv'
    BY TypeStep, CliHasRunStep, ActorsStep DEF Inv
  <1>2. \A t \in Tasks : DeliveryAt(t)  BY DeliveryByTask DEF Inv
  <1>3. \A t \in Tasks : DeliveryAt(t)'
    BY <1>1, <1>2, DeliveryStep DEF Inv
  <1>4. (DeliveryInv /\ OwnWrite /\ PendingSurvivesCrash)'
    BY <1>3
       DEF DeliveryInv, RunsAreStarted, OwnRecord, NotPostedYet, PostedByNow,
           WritesTellTruth, PostedFlagIsTrue, SummaryAtMostOnce, OwnWrite,
           PendingSurvivesCrash, DeliveryAt
  <1> QED  BY <1>1, <1>4 DEF Inv

\* Every behaviour satisfies the inductive invariant.
THEOREM Invariance == Spec => []Inv
  BY InvInit, InvStep, PTL DEF Spec

\* The variables of the model keep their types, whatever fails.
THEOREM TypeCorrect == Spec => []TypeOK
  <1>1. Inv => TypeOK  BY DEF Inv
  <1> QED  BY <1>1, Invariance, PTL

\* A finalization of a task is executed by one actor at a time
\* (Agent.retryDueFinalizations leaves the tasks being processed alone).
THEOREM SingleFinalizer == Spec => []OneFinalizer
  <1>1. Inv => OneFinalizer
    BY DEF Inv, ActorsInv, RetryLoop, OneFinalizer
  <1> QED  BY <1>1, Invariance, PTL

\* No CLI run of a task coexists with its pending finalization
\* (the candidates of Agent.pollOnce).
THEOREM RunsExcludePending == Spec => []NoRunWhilePending
  <1>1. Inv => NoRunWhilePending  BY DEF Inv, ActorsInv
  <1> QED  BY <1>1, Invariance, PTL

\* No summary is posted twice (the duplicate check of
\* Agent.finalizeCompletedTask and the flags of FinalizationStore).
THEOREM NoDuplicateSummary == Spec => []SummaryAtMostOnce
  <1>1. Inv => SummaryAtMostOnce  BY DEF Inv, DeliveryInv
  <1> QED  BY <1>1, Invariance, PTL

\* The posted flag, in memory and in the files, is never set without the
\* comment (FinalizationStore.markCommentPosted).
THEOREM FlagIsTrue == Spec => []PostedFlagIsTrue
  <1>1. Inv => PostedFlagIsTrue  BY DEF Inv, DeliveryInv
  <1> QED  BY <1>1, Invariance, PTL

\* The end status is applied only when the summary is among the comments
\* (the order of Agent.finalizeCompletedTask).
THEOREM SummaryBeforeDone == Spec => []DoneOnlyWithSummary
  <1>1. Inv => DoneOnlyWithSummary
    BY DEF Inv, DeliveryInv, PostedByNow, PastPost, DoneOnlyWithSummary
  <1> QED  BY <1>1, Invariance, PTL

\* A crash loses no pending finalization, unless the last operation on the file of
\* that very task failed (the writes of FinalizationStore keep the files behind the
\* map).
THEOREM FilesKeepPending == Spec => []PendingSurvivesCrash
  <1>1. Inv => PendingSurvivesCrash  BY DEF Inv
  <1> QED  BY <1>1, Invariance, PTL

-----------------------------------------------------------------------------
(* The order of the phases of a poll *)

\* A task whose record the retry loop took up is not picked again from the
\* list of the same poll (the retries follow the selection in
\* Agent.pollOnce).
THEOREM RetriesFollowSelection == Spec => NoPickAfterRetry
  <1> DEFINE A == \A t \in Tasks :
                    t \in retried /\ at["run"][t] = "off" /\ retried' = retried
                      => at'["run"][t] = "off"
  <1>1. Inv /\ [Next]_vars => [A]_vars
    <2> SUFFICES ASSUME Inv, [Next]_vars, NEW t \in Tasks, t \in retried,
                        at["run"][t] = "off", retried' = retried
                 PROVE  at'["run"][t] = "off"
      OBVIOUS
    <2>0. TypeOK /\ ActorsInv /\ Actors = {"run", "poll"}  BY DEF Inv, Actors
    <2>1. ASSUME NEW a \in Actors, NEW u \in Tasks, Finalize(a, u)
          PROVE  at'["run"][t] = "off"
      <3>1. FinalizeFrame(a, u)  BY <2>0, <2>1, FinalizeIsFramed
      <3> QED  BY <2>0, <3>1 DEF FinalizeFrame, FinStep
    <2>2. ASSUME NEW u \in Tasks, ProcessTask(u) PROVE at'["run"][t] = "off"
      <3>1. ProcessFrame(u)  BY <2>0, <2>2, ProcessIsFramed
      <3> QED  BY <3>1 DEF ProcessFrame, RunStep
    <2>3. CASE Poll
      <3>1. poll # "select"  BY <2>0 DEF ActorsInv, RetriedLast
      <3>2. ASSUME NEW u \in Tasks, RetryNext(u) PROVE at'["run"][t] = "off"
        <4>1. Entry(mem[u]) \in AtStep  BY EntrySteps DEF FinStep, AtStep
        <4> QED  BY <2>0, <3>2, <4>1, GotoMoves DEF RetryNext
      <3> QED
        BY <2>3, <3>1, <3>2
           DEF Poll, PollLists, PollPrunes, PollPruned, PollCollects,
               PollSelects, PollFails, PollRetries, PollEnds, process
    <2>4. CASE Environment
      BY <2>0, <2>4 DEF Environment, TimePasses, Expires, UserActsOn, Crash,
                  Restart, process, ForAll
    <2>5. CASE UNCHANGED vars
      BY <2>5 DEF vars, process
    <2> QED  BY <2>1, <2>2, <2>3, <2>4, <2>5 DEF Next
  <1> QED  BY <1>1, Invariance, PTL DEF Spec, NoPickAfterRetry

-----------------------------------------------------------------------------
(* Agent implements Delivery *)

\* No result may be given up: records do not expire and tasks are not unassigned.
Lossless == ~(CanExpire \/ "assign" \in UserActs)

\* The result a run is about to record is a new one.
NewResult(t) ==
    /\ at["run"][t] \in FinStep \union {"record"} => runs[t] > 0
    /\ at["run"][t] = "record" => runs[t] \notin comments[t]

\* A record is removed by its delivery only after its summary was posted.
DeletesDelivered(t) ==
    \A a \in Actors :
        at[a][t] = "delete" /\ Pending(t) => Delivered(a, t) \in comments[t]

\* No record gets old, in memory, in its file or on the way to it.
NeverOld(t) == ~mem[t].old /\ ~disk[t].old /\ \A a \in Actors : ~wr[a][t].old

\* Where no result may be given up, a run that is over has its record, and
\* there is no file without one: a restart brings back no result that is settled
\* or was never recorded.
RecordKept(t) ==
    /\ assigned[t] /\ NeverOld(t)
    /\ at["run"][t] \in FinStep \union {"record"} => Pending(t)
    /\ up /\ diskOK[t] /\ (~Pending(t) \/ at["run"][t] = "record") => disk[t] = NoRecord

\* ... and a poll prunes nothing.
NothingToPrune ==
    /\ poll = "listed" => \A t \in Tasks : snap[t] # "gone"
    /\ poll = "pruning" => work = {}

ResultsInv ==
    /\ \A t \in Tasks : NewResult(t) /\ DeletesDelivered(t)
    /\ Lossless => NothingToPrune /\ \A t \in Tasks : RecordKept(t)

-----------------------------------------------------------------------------
(* What a step does to the record of its task *)

\* The operations on a record, but the passing of its time-to-live, keep its age.
LEMMA AgeKept ==
    ASSUME NEW rec \in Record
    PROVE  /\ MarkedPosted(rec).old = rec.old /\ RetryScheduled(rec).old = rec.old
           /\ Persisted(rec).old = rec.old /\ Reloaded(rec).old = rec.old
           /\ Persisted(MarkedPosted(rec)).old = rec.old
           /\ Persisted(RetryScheduled(rec)).old = rec.old
<1>1. MarkedPosted(rec).old = rec.old /\ RetryScheduled(rec).old = rec.old
  BY DEF Record, MarkedPosted, RetryScheduled
<1>2. \A r \in Record : Persisted(r).old = r.old /\ Reloaded(r).old = r.old
  BY DEF Record, Persisted, Reloaded
<1> QED BY <1>1, <1>2, RecordOperations

\* A new record is not old, and neither is its first write.
LEMMA NewRecordIsNew ==
    ASSUME NEW r \in Nat \ {0}
    PROVE  /\ ~NewRecord(r).old /\ NewRecord(r).run = r
           /\ ~Persisted(NewRecord(r)).old
<1>1. NewRecord(r) \in Record /\ ~NewRecord(r).old /\ NewRecord(r).run = r
  BY DEF NewRecord, Record
<1> QED BY <1>1, AgeKept

\* An exception and the posted flag keep the age of the record.
LEMMA ThrowsAge ==
    ASSUME TypeOK, NEW a \in Actors, NEW t \in Tasks, Pending(t),
           Throws(a, t) \/ \E f : MarkPosted(a, t, f)
    PROVE  mem'[t].old = mem[t].old /\ wr'[a][t].old = mem[t].old
<1>1. mem[t] \in Record
  BY DEF TypeOK, Pending
<1>2. PICK rec \in {RetryScheduled(mem[t]), MarkedPosted(mem[t])} :
        mem' = [mem EXCEPT ![t] = rec] /\ wr' = [wr EXCEPT ![a][t] = Persisted(rec)]
  BY DEF Throws, MarkPosted
<1>3. rec.old = mem[t].old /\ Persisted(rec).old = mem[t].old
  BY <1>1, <1>2, AgeKept
<1>4. mem'[t] = rec /\ wr'[a][t] = Persisted(rec)
  BY <1>2 DEF TypeOK
<1> QED BY <1>3, <1>4

\* A delivery of a record, up to its removal, keeps the record; its file changes
\* to what is written.
LEMMA FinalizeEffect ==
    ASSUME TypeOK, NEW a \in Actors, NEW t \in Tasks, Finalize(a, t),
           assigned[t], Pending(t), at[a][t] # "delete"
    PROVE  /\ Pending(t)' /\ mem'[t].run = mem[t].run /\ mem'[t].old = mem[t].old
           /\ wr'[a][t].old \in {mem[t].old, wr[a][t].old, FALSE}
           /\ disk'[t] \in {disk[t], wr[a][t]}
           /\ assigned' = assigned /\ ~Delete(a, t)
<1>0. ~Delete(a, t) /\ NoRecord.old = FALSE
  BY DEF Delete, NoRecord
<1>1. CASE Throws(a, t) \/ \E f : MarkPosted(a, t, f)
  <2>1. Pending(t)' /\ mem'[t].run = mem[t].run
    BY <1>1, ThrowsStep, MarkPostedStep
  <2>2. disk'[t] \in {disk[t], wr[a][t]} /\ assigned' = assigned
    BY <1>0 DEF Finalize, Check, PostApplied, PostAnswered, Marked, CheckAbort, MoveApplied,
           MoveAnswered, Rescheduled, planner, FileWritten, FileFails, TypeOK
  <2> QED BY <1>0, <1>1, <2>1, <2>2, ThrowsAge
<1>2. CASE mem' = mem /\ (wr' = wr \/ wr' = [wr EXCEPT ![a][t] = NoRecord])
  <2>1. Pending(t)' /\ wr'[a][t] \in {wr[a][t], NoRecord}
    BY <1>2 DEF Pending, TypeOK
  <2>2. disk'[t] \in {disk[t], wr[a][t]} /\ assigned' = assigned
    BY <1>0 DEF Finalize, Check, PostApplied, PostAnswered, Marked, CheckAbort, MoveApplied,
           MoveAnswered, Rescheduled, planner, FileWritten, FileFails, TypeOK
  <2> QED BY <1>0, <1>2, <2>1, <2>2
<1>3. ASSUME NEW f, MarkPosted(a, t, f) PROVE \E g : MarkPosted(a, t, g)
  BY <1>3
<1>4. CASE Check(a, t) \/ PostAnswered(a, t)
  BY <1>1, <1>2, <1>3, <1>4 DEF Check, PostAnswered
<1>5. CASE CheckAbort(a, t) \/ MoveAnswered(a, t)
  BY <1>1, <1>2, <1>5 DEF CheckAbort, MoveAnswered
<1>6. CASE Marked(a, t) \/ Rescheduled(a, t)
  BY <1>1, <1>2, <1>6 DEF Marked, Rescheduled
<1>7. CASE PostApplied(a, t) \/ MoveApplied(a, t)
  BY <1>2, <1>7 DEF PostApplied, MoveApplied
<1> QED BY <1>0, <1>4, <1>5, <1>6, <1>7 DEF Finalize

\* The removal of a record takes its file along, unless that fails.
LEMMA DeleteEffect ==
    ASSUME TypeOK, NEW a \in Actors, NEW t \in Tasks, Delete(a, t)
    PROVE  /\ mem'[t] = NoRecord /\ wr' = wr /\ assigned' = assigned
           /\ disk'[t] = NoRecord \/ (disk'[t] = disk[t] /\ ~diskOK'[t])
           /\ at'[a][t] \in {"clear", "off"}
<1>1. mem'[t] = NoRecord /\ wr' = wr /\ assigned' = assigned
  BY DEF Delete, TypeOK, planner
<1>2. disk'[t] = NoRecord \/ (disk'[t] = disk[t] /\ ~diskOK'[t])
  BY DEF Delete, FileWritten, FileFails, TypeOK
<1>3. at'[a][t] \in {"clear", "off"}
  BY DEF Delete, Goto, TypeOK
<1> QED BY <1>1, <1>2, <1>3

\* A delivery turns to the removal of a record that is left only after the
\* summary, from a step that posts nothing.
LEMMA DeletionFollowsPost ==
    ASSUME TypeOK, NEW a \in Actors, NEW t \in Tasks, Finalize(a, t),
           at'[a][t] = "delete", Pending(t)'
    PROVE  at[a][t] \in PastPost /\ comments' = comments
<1>0. {"off", "check", "post", "postApplied", "mark", "status", "move", "moveApplied",
       "delete", "resched", "clear", "failNote"} \subseteq AtStep
  BY DEF AtStep, FinStep, RunStep
<1>1. ~Throws(a, t)
  BY ThrowsStep
<1>2. \A f : ~MarkPosted(a, t, f)
  BY MarkPostedStep
<1>3. CASE Check(a, t)
  <2>1. ~Goto(a, t, "post")
    BY <1>0, GotoMoves
  <2>2. mem' = [mem EXCEPT ![t] = NoRecord] => ~Pending(t)'
    BY DEF TypeOK, Pending
  <2> QED BY <1>1, <1>2, <1>3, <2>1, <2>2 DEF Check
<1>4. CASE PostApplied(a, t)
  BY <1>0, <1>4, GotoMoves DEF PostApplied
<1>5. CASE PostAnswered(a, t)
  BY <1>1, <1>2, <1>5 DEF PostAnswered
<1>6. CASE Marked(a, t) \/ CheckAbort(a, t)
  BY <1>6 DEF Marked, CheckAbort, PastPost, planner
<1>7. CASE MoveApplied(a, t)
  BY <1>0, <1>7, GotoMoves DEF MoveApplied
<1>8. CASE MoveAnswered(a, t)
  BY <1>1, <1>8 DEF MoveAnswered, PastPost, planner
<1>9. CASE Delete(a, t)
  BY <1>9, DeleteEffect
<1>10. CASE Rescheduled(a, t)
  BY <1>0, <1>10, GotoMoves DEF Rescheduled
<1> QED BY <1>3, <1>4, <1>5, <1>6, <1>7, <1>8, <1>9, <1>10 DEF Finalize

-----------------------------------------------------------------------------
(* The invariant of the results *)

\* What is known of a task that a step does not touch.
LEMMA ResultsUntouched ==
    ASSUME NEW t \in Tasks, mem'[t] = mem[t], disk'[t] = disk[t], runs'[t] = runs[t],
           comments'[t] = comments[t], assigned'[t] = assigned[t], up' = up,
           diskOK'[t] => diskOK[t],
           \A a \in Actors : at'[a][t] = at[a][t] /\ wr'[a][t] = wr[a][t]
    PROVE  /\ NewResult(t) => NewResult(t)'
           /\ DeletesDelivered(t) => DeletesDelivered(t)'
           /\ RecordKept(t) => RecordKept(t)'
<1>1. "run" \in Actors /\ \A a \in Actors : Delivered(a, t)' = Delivered(a, t)
  BY DEF Actors, Delivered
<1> QED BY <1>1 DEF NewResult, DeletesDelivered, RecordKept, NeverOld, Pending

\* A step of a delivery keeps what is known of the result it delivers.
LEMMA FinalizeResult ==
    ASSUME TypeOK, TypeOK', ActorsInv, ActorsInv', NEW a \in Actors, NEW t \in Tasks,
           Finalize(a, t), DeliveryAt(t), NewResult(t), DeletesDelivered(t)
    PROVE  NewResult(t)' /\ DeletesDelivered(t)'
<1>0. Actors = {"run", "poll"} /\ FinalizeFrame(a, t)
  BY FinalizeIsFramed DEF Actors
<1>1. /\ \A b \in Actors : b # a => at[b][t] = "off" /\ at'[b][t] = "off"
      /\ runs'[t] = runs[t]
      /\ Pending(t) => Delivered(a, t) = mem[t].run
      /\ at'["run"][t] # "record"
  BY <1>0, SoleFinalizer
<1>2. NewResult(t)'
  BY <1>0, <1>1 DEF NewResult, FinalizeFrame, FinStep
<1>3. ASSUME at'[a][t] = "delete", Pending(t)'
      PROVE  (Delivered(a, t) \in comments[t])'
  <2>1. at[a][t] \in PastPost /\ comments' = comments
    BY <1>3, DeletionFollowsPost
  <2>2. Pending(t) /\ mem'[t].run = mem[t].run
    BY <1>0, <1>3 DEF FinalizeFrame
  <2>3. Delivered(a, t) \in comments[t]
    BY <2>1 DEF DeliveryAt
  <2>4. Delivered(a, t)' = Delivered(a, t)
    BY <1>0, <1>1, <2>2 DEF Delivered
  <2> QED BY <2>1, <2>3, <2>4
<1>4. DeletesDelivered(t)'
  BY <1>1, <1>3 DEF DeletesDelivered
<1> QED BY <1>2, <1>4

\* ... and its record and file, where no result may be given up.
LEMMA FinalizeRecord ==
    ASSUME TypeOK, TypeOK', ActorsInv, ActorsInv', NEW a \in Actors, NEW t \in Tasks,
           Finalize(a, t), DeliveryAt(t), RecordKept(t)
    PROVE  RecordKept(t)'
<1>0. Actors = {"run", "poll"} /\ FinalizeFrame(a, t) /\ NoRecord.old = FALSE
  BY FinalizeIsFramed DEF Actors, NoRecord
<1>1. /\ \A b \in Actors : b # a => at[b][t] = "off" /\ at'[b][t] = "off"
      /\ at'["run"][t] # "record" /\ at["run"][t] # "record"
  BY <1>0, SoleFinalizer
<1>2. /\ \A b \in Actors : b # a => wr'[b][t] = wr[b][t]
      /\ up' = up
  BY <1>0 DEF FinalizeFrame
<1>3. CASE Delete(a, t)
  <2>1. at'["run"][t] \notin FinStep
    BY <1>0, <1>1, <1>3, DeleteEffect DEF FinStep
  <2>2. NeverOld(t)'
    BY <1>0, <1>3, DeleteEffect DEF RecordKept, NeverOld
  <2> QED BY <1>1, <1>3, <2>1, <2>2, DeleteEffect DEF RecordKept
<1>4. CASE ~Delete(a, t)
  <2>1. at[a][t] # "delete"
    BY <1>4 DEF Finalize, Check, PostApplied, PostAnswered, Marked, CheckAbort, MoveApplied,
                MoveAnswered, Rescheduled
  <2>2. Pending(t)
    BY <1>0, <2>1 DEF ActorsInv, RetryLoop, RecordKept, FinalizeFrame, FinStep
  <2>3. /\ Pending(t)' /\ mem'[t].old = mem[t].old
        /\ wr'[a][t].old \in {mem[t].old, wr[a][t].old, FALSE}
        /\ disk'[t] \in {disk[t], wr[a][t]} /\ assigned' = assigned
    BY <2>1, <2>2, FinalizeEffect DEF RecordKept
  <2>4. NeverOld(t)'
    BY <1>2, <2>3 DEF RecordKept, NeverOld
  <2> QED BY <1>1, <2>3, <2>4 DEF RecordKept
<1> QED BY <1>3, <1>4

\* A step of a run keeps what is known of the result it produces.
LEMMA ProcessResult ==
    ASSUME TypeOK, TypeOK', CliHasRun, ActorsInv, ActorsInv', NEW t \in Tasks,
           ProcessTask(t), DeliveryAt(t), NewResult(t)
    PROVE  NewResult(t)' /\ DeletesDelivered(t)'
<1>0. /\ Actors = {"run", "poll"} /\ ProcessFrame(t)
      /\ {"off", "start", "cli", "record", "clear", "failNote", "failMove",
          "abortNote"} \subseteq AtStep
  BY ProcessIsFramed DEF Actors, AtStep, RunStep
<1>1. at["poll"][t] = "off" /\ at'["poll"][t] = "off" /\ comments' = comments
  BY <1>0 DEF ActorsInv, RetryLoop, ProcessFrame, RunStep
<1>2. CASE CliEnds(t)
  <2>1. at["run"][t] = "cli" /\ at'["run"][t] = "record" /\ runs' = runs
    BY <1>0, <1>2, GotoMoves DEF CliEnds
  <2> QED BY <1>0, <1>1, <2>1 DEF CliHasRun, DeliveryAt, NewResult, DeletesDelivered
<1>3. CASE Recorded(t)
  <2>1. at["run"][t] = "record" /\ runs' = runs
    BY <1>3 DEF Recorded
  <2>2. at'["run"][t] # "record" /\ (at'["run"][t] = "delete" => ~Pending(t)')
    <3>1. CASE Throws("run", t)
      BY <1>0, <3>1, ThrowsStep
    <3>2. CASE Goto("run", t, Entry(mem[t])) /\ mem' = mem
      <4>1. Entry(mem[t]) \in FinStep
        BY EntrySteps DEF FinStep
      <4>2. at'["run"][t] = Entry(mem[t])
        BY <1>0, <3>2, <4>1, GotoMoves DEF AtStep
      <4>3. Entry(mem[t]) = "delete" => mem[t] = NoRecord
        BY DEF Entry, AfterSummary
      <4> QED BY <3>2, <4>1, <4>2, <4>3 DEF FinStep, Pending
    <3> QED BY <1>3, <3>1, <3>2 DEF Recorded
  <2> QED BY <1>0, <1>1, <2>1, <2>2 DEF NewResult, DeletesDelivered
<1>4. CASE ~CliEnds(t) /\ ~Recorded(t)
  <2>1. PICK s \in {"off", "start", "cli", "clear", "failNote", "failMove", "abortNote"} :
           Goto("run", t, s)
    BY <1>4 DEF ProcessTask, Begin, Start, StartFails, CliFails, AbortNoted, FailNoted,
                FailMoved, Clear
  <2>2. at'["run"][t] \notin FinStep \union {"record"}
    BY <1>0, <2>1, GotoMoves DEF FinStep
  <2> QED BY <1>0, <1>1, <2>2 DEF NewResult, DeletesDelivered, FinStep
<1> QED BY <1>2, <1>3, <1>4

\* A finished run still has its record after a step of the run.
LEMMA ProcessRecord ==
    ASSUME TypeOK, TypeOK', CliHasRun, ActorsInv, ActorsInv', NEW t \in Tasks,
           ProcessTask(t), DeliveryAt(t), RecordKept(t)
    PROVE  RecordKept(t)'
<1>0. /\ Actors = {"run", "poll"} /\ ProcessFrame(t) /\ NoRecord.old = FALSE
      /\ {"off", "start", "cli", "record", "clear", "failNote", "failMove",
          "abortNote"} \subseteq AtStep
  BY ProcessIsFramed DEF Actors, AtStep, RunStep, NoRecord
<1>1. /\ up' = up /\ wr'["poll"][t] = wr["poll"][t]
      /\ assigned' = assigned
  BY <1>0 DEF ProcessFrame, ProcessTask, Begin, Start, StartFails, CliEnds, CliFails,
              Recorded, AbortNoted, FailNoted, FailMoved, Clear, planner
<1>2. CASE CliEnds(t)
  <2>1. at["run"][t] = "cli" /\ ~Pending(t) /\ runs[t] \in Nat \ {0}
    BY <1>2 DEF CliEnds, ActorsInv, NoRunWhilePending, CliHasRun, TypeOK
  <2>2. /\ mem'[t] = NewRecord(runs[t]) /\ wr'["run"][t] = Persisted(NewRecord(runs[t]))
        /\ disk' = disk /\ diskOK' = diskOK
    BY <1>0, <1>2 DEF CliEnds, TypeOK
  <2>3. NeverOld(t)'
    BY <1>0, <1>1, <2>1, <2>2, NewRecordIsNew DEF RecordKept, NeverOld
  <2>4. Pending(t)'
    BY <2>1, <2>2, NewRecordType, NoRecordRun DEF Pending
  <2> QED BY <1>1, <2>1, <2>2, <2>3, <2>4 DEF RecordKept
<1>3. CASE Recorded(t)
  <2>1. at["run"][t] = "record" /\ Pending(t)
    BY <1>3 DEF Recorded, RecordKept
  <2>2. CASE FileFails(t) /\ Throws("run", t)
    <3>1. /\ Pending(t)' /\ disk' = disk /\ ~diskOK'[t]
          /\ mem'[t].old = mem[t].old /\ wr'["run"][t].old = mem[t].old
      BY <1>0, <2>1, <2>2, ThrowsStep, ThrowsAge DEF FileFails, TypeOK
    <3>2. NeverOld(t)'
      BY <1>0, <1>1, <3>1 DEF RecordKept, NeverOld
    <3> QED BY <1>1, <3>1, <3>2 DEF RecordKept
  <2>3. CASE /\ FileWritten(t, wr["run"][t]) /\ Goto("run", t, Entry(mem[t]))
             /\ wr' = [wr EXCEPT !["run"][t] = NoRecord] /\ mem' = mem
    <3>1. Pending(t)' /\ disk'[t] = wr["run"][t] /\ wr'["run"][t] = NoRecord
      BY <1>0, <2>1, <2>3 DEF FileWritten, TypeOK, Pending
    <3>2. at'["run"][t] # "record"
      <4>1. Entry(mem[t]) \in FinStep
        BY EntrySteps DEF FinStep
      <4> QED BY <1>0, <2>3, <4>1, GotoMoves DEF FinStep, AtStep
    <3>3. NeverOld(t)'
      BY <1>0, <1>1, <2>3, <3>1 DEF RecordKept, NeverOld
    <3> QED BY <1>1, <3>1, <3>2, <3>3 DEF RecordKept
  <2> QED BY <1>3, <2>2, <2>3 DEF Recorded
<1>4. CASE ~CliEnds(t) /\ ~Recorded(t)
  <2>1. PICK s \in {"off", "start", "cli", "clear", "failNote", "failMove", "abortNote"} :
           Goto("run", t, s)
    BY <1>4 DEF ProcessTask, Begin, Start, StartFails, CliFails, AbortNoted, FailNoted,
                FailMoved, Clear
  <2>2. at'["run"][t] \notin FinStep \union {"record"}
    BY <1>0, <2>1, GotoMoves DEF FinStep
  <2>3. mem' = mem /\ disk' = disk /\ wr' = wr /\ diskOK' = diskOK
    BY <1>4 DEF ProcessTask, Begin, Start, StartFails, CliFails, AbortNoted, FailNoted,
                FailMoved, Clear
  <2>4. at["run"][t] # "record"
    BY <1>4 DEF ProcessTask, Begin, Start, StartFails, CliFails, AbortNoted, FailNoted,
                FailMoved, Clear
  <2> QED BY <1>0, <1>1, <2>2, <2>3, <2>4 DEF RecordKept, NeverOld, Pending
<1> QED BY <1>2, <1>3, <1>4

\* A poll touches no record but to prune it, and begins no delivery with the
\* removal of a record.
LEMMA PollResults ==
    ASSUME TypeOK, ActorsInv, Poll, ResultsInv
    PROVE  ResultsInv'
<1>0. Actors = {"run", "poll"} /\ NoRecord.old = FALSE
  BY DEF Actors, NoRecord
<1>1. /\ assigned' = assigned /\ comments' = comments /\ runs' = runs /\ up' = up
      /\ wr' = wr
  BY DEF Poll, PollLists, PollPrunes, PollPruned, PollCollects, PollSelects, PollFails,
         PollRetries, RetryNext, PollEnds, planner, process
<1>2. ASSUME NEW t \in Tasks
      PROVE  /\ at'["run"][t] \in {at["run"][t], "registered"}
             /\ at'["poll"][t] = "delete" /\ Pending(t) => at["poll"][t] = "delete"
  <2>1. CASE PollSelects
    BY <1>0, <2>1 DEF PollSelects, TypeOK
  <2>2. ASSUME NEW u \in Tasks, RetryNext(u)
        PROVE  /\ at'["run"][t] = at["run"][t]
               /\ at'["poll"][t] = "delete" /\ Pending(t) => at["poll"][t] = "delete"
    <3>1. Entry(mem[u]) \in AtStep
      BY EntrySteps DEF FinStep, AtStep
    <3>2. Entry(mem[u]) = "delete" => mem[u] = NoRecord
      BY DEF Entry, AfterSummary
    <3> QED BY <1>0, <2>2, <3>1, <3>2, GotoMoves DEF RetryNext, Pending
  <2>3. CASE at' = at
    BY <2>3
  <2> QED
    BY <2>1, <2>2, <2>3 DEF Poll, PollLists, PollPrunes, PollPruned, PollCollects,
         PollFails, PollRetries, PollEnds, process
<1>3. ASSUME NEW t \in Tasks
      PROVE  mem'[t] \in {mem[t], NoRecord}
  BY DEF Poll, PollLists, PollPrunes, PollPruned, PollCollects, PollSelects, PollFails,
         PollRetries, RetryNext, PollEnds, process, TypeOK
<1>4. ASSUME NEW t \in Tasks PROVE NewResult(t)' /\ DeletesDelivered(t)'
  <2>1. NewResult(t)'
    BY <1>1, <1>2 DEF ResultsInv, NewResult, FinStep
  <2>2. ASSUME NEW a \in Actors, at'[a][t] = "delete", Pending(t)'
        PROVE  (Delivered(a, t) \in comments[t])'
    <3>1. mem'[t] = mem[t] /\ Pending(t)
      BY <1>3, <2>2 DEF Pending
    <3>2. at[a][t] = "delete"
      BY <1>0, <1>2, <2>2, <3>1
    <3> QED BY <1>1, <3>1, <3>2 DEF ResultsInv, DeletesDelivered, Delivered
  <2> QED BY <2>1, <2>2 DEF DeletesDelivered
<1>5. ASSUME Lossless PROVE NothingToPrune' /\ \A t \in Tasks : RecordKept(t)'
  <2>0. NothingToPrune /\ \A t \in Tasks : RecordKept(t)
    BY <1>5 DEF ResultsInv
  <2>1. NothingToPrune' /\ mem' = mem /\ disk' = disk /\ diskOK' = diskOK
    <3>1. CASE PollLists
      <4>1. disk' = disk /\ diskOK' = diskOK /\ mem' = mem /\ poll' \in {"listed", "retry"}
        BY <3>1 DEF PollLists, process
      <4>2. ASSUME poll' = "listed", NEW t \in Tasks PROVE snap'[t] # "gone"
        <5>1. snap'[t] = status[t]
          BY <2>0, <3>1, <4>2 DEF PollLists, RecordKept
        <5> QED BY <5>1 DEF TypeOK, Status
      <4> QED BY <4>1, <4>2 DEF NothingToPrune
    <3>2. CASE PollPrunes
      <4>1. work' = {}
        BY <2>0, <3>2 DEF PollPrunes, NothingToPrune, RecordKept, NeverOld
      <4>2. mem' = mem
        BY <3>2, <4>1 DEF PollPrunes, TypeOK
      <4> QED BY <3>2, <4>1, <4>2 DEF PollPrunes, NothingToPrune
    <3>3. CASE PollPruned
      <4>1. disk' = disk /\ diskOK' = diskOK
        BY <2>0, <3>3 DEF PollPruned, NothingToPrune, TypeOK
      <4> QED BY <3>3, <4>1 DEF PollPruned, NothingToPrune, process
    <3>4. CASE ~PollLists /\ ~PollPrunes /\ ~PollPruned
      <4>1. mem' = mem /\ disk' = disk /\ diskOK' = diskOK /\ poll' \notin {"listed", "pruning"}
        BY <3>4 DEF Poll, PollCollects, PollSelects, PollFails, PollRetries, RetryNext,
                    PollEnds, process
      <4> QED BY <4>1 DEF NothingToPrune
    <3> QED BY <3>1, <3>2, <3>3, <3>4
  <2>2. \A t \in Tasks : RecordKept(t)'
    BY <1>1, <1>2, <2>0, <2>1 DEF RecordKept, NeverOld, Pending, FinStep
  <2> QED BY <2>1, <2>2
<1> QED BY <1>4, <1>5 DEF ResultsInv, Lossless

\* Users, time, a crash and a restart.
LEMMA EnvironmentResults ==
    ASSUME TypeOK, ActorsInv, Environment, ResultsInv
    PROVE  ResultsInv'
<1>0. Actors = {"run", "poll"} /\ NoRecord.old = FALSE
  BY DEF Actors, NoRecord
<1>1. ASSUME NEW u \in Tasks, TimePasses(u) \/ Expires(u) PROVE ResultsInv'
  <2>1. /\ assigned' = assigned /\ comments' = comments /\ runs' = runs /\ up' = up
        /\ wr' = wr /\ diskOK' = diskOK /\ at' = at /\ disk' = disk
        /\ poll' = poll /\ snap' = snap /\ work' = work
    BY <1>1 DEF TimePasses, Expires, planner, loop
  <2>2. mem[u] \in Record /\ Pending(u)
    BY <1>1 DEF TimePasses, Expires, Pending, TypeOK
  <2>3. /\ mem'[u].run = mem[u].run /\ Pending(u)'
        /\ Lossless => mem'[u].old = mem[u].old
        /\ \A t \in Tasks \ {u} : mem'[t] = mem[t]
    <3>1. PICK rec : mem' = [mem EXCEPT ![u] = rec] /\ rec \in Record /\ rec.run = mem[u].run
                     /\ (Lossless => rec.old = mem[u].old)
      BY <1>1, <2>2 DEF TimePasses, Expires, Record, Lossless
    <3> QED BY <3>1, NoRecordRun DEF TypeOK, Pending
  <2>4. \A t \in Tasks : Pending(t)' = Pending(t) /\ mem'[t].run = mem[t].run
    BY <2>2, <2>3 DEF Pending
  <2>5. \A t \in Tasks : NewResult(t)' /\ DeletesDelivered(t)'
    BY <2>1, <2>4 DEF ResultsInv, NewResult, DeletesDelivered, Delivered
  <2>6. ASSUME Lossless PROVE NothingToPrune' /\ \A t \in Tasks : RecordKept(t)'
    <3>1. \A t \in Tasks : mem'[t].old = mem[t].old
      BY <2>3, <2>6
    <3> QED BY <2>1, <2>4, <2>6, <3>1 DEF ResultsInv, NothingToPrune, RecordKept, NeverOld
  <2> QED BY <2>5, <2>6 DEF ResultsInv, Lossless
<1>2. ASSUME NEW u \in Tasks, UserActsOn(u) PROVE ResultsInv'
  <2>1. /\ comments' = comments /\ runs' = runs /\ up' = up /\ mem' = mem
        /\ wr' = wr /\ diskOK' = diskOK /\ at' = at /\ disk' = disk
        /\ poll' = poll /\ snap' = snap /\ work' = work
        /\ Lossless => assigned' = assigned
    BY <1>2 DEF UserActsOn, process, loop, Lossless
  <2> QED
    BY <2>1 DEF ResultsInv, NewResult, DeletesDelivered, Delivered, Pending, NothingToPrune,
                RecordKept, NeverOld, Lossless
<1>3. CASE Crash
  <2>1. /\ assigned' = assigned /\ disk' = disk /\ ~up' /\ poll' = "idle"
        /\ \A t \in Tasks : mem'[t] = NoRecord
        /\ \A a \in Actors, t \in Tasks : at'[a][t] = "off" /\ wr'[a][t] = NoRecord
    BY <1>3 DEF Crash, ForAll, planner
  <2> QED
    BY <1>0, <2>1 DEF ResultsInv, NewResult, DeletesDelivered, NothingToPrune, RecordKept,
                      NeverOld, FinStep, Lossless
<1>4. CASE Restart
  <2>1. /\ assigned' = assigned /\ wr' = wr /\ at' = at /\ poll' = poll
        /\ poll = "idle" /\ \A a \in Actors, t \in Tasks : at[a][t] = "off"
    BY <1>4 DEF Restart, planner, loop, ActorsInv, StoppedIsEmpty
  <2>2. ASSUME NEW t \in Tasks
        PROVE  \/ /\ mem'[t] = NoRecord /\ disk'[t] \in {disk[t], NoRecord}
                  /\ diskOK'[t] => disk'[t] = NoRecord
               \/ /\ disk[t] # NoRecord /\ mem'[t] = Reloaded(disk[t])
                  /\ disk'[t] = disk[t]
    BY <1>4 DEF Restart, ForAll, TypeOK
  <2>3. ASSUME Lossless, NEW t \in Tasks PROVE RecordKept(t)'
    <3>1. RecordKept(t)
      BY <2>3 DEF ResultsInv
    <3>2. CASE mem'[t] = NoRecord /\ disk'[t] \in {disk[t], NoRecord}
               /\ (diskOK'[t] => disk'[t] = NoRecord)
      BY <1>0, <2>1, <3>1, <3>2 DEF RecordKept, NeverOld, FinStep
    <3>3. CASE disk[t] # NoRecord /\ mem'[t] = Reloaded(disk[t]) /\ disk'[t] = disk[t]
      <4>1. disk[t] \in Record
        BY <3>3 DEF TypeOK
      <4>2. Pending(t)' /\ mem'[t].old = disk[t].old
        BY <3>3, <4>1, AgeKept, RecordOperations, NoRecordRun DEF Pending
      <4> QED BY <1>0, <2>1, <3>1, <3>3, <4>2 DEF RecordKept, NeverOld, FinStep
    <3> QED BY <2>2, <3>2, <3>3
  <2>4. \A t \in Tasks : NewResult(t)' /\ DeletesDelivered(t)'
    BY <1>0, <2>1 DEF NewResult, DeletesDelivered, FinStep
  <2> QED BY <2>1, <2>3, <2>4 DEF ResultsInv, NothingToPrune, Lossless
<1> QED BY <1>1, <1>2, <1>3, <1>4 DEF Environment

\* There are no records and no results at first.
LEMMA ResultsInit == Init => ResultsInv
<1> SUFFICES ASSUME Init PROVE ResultsInv
  OBVIOUS
<1>1. /\ poll = "idle" /\ NoRecord.old = FALSE
      /\ \A t \in Tasks : assigned[t] /\ mem[t] = NoRecord /\ disk[t] = NoRecord
      /\ \A a \in Actors, t \in Tasks : at[a][t] = "off" /\ wr[a][t] = NoRecord
  BY DEF Init, ForAll, NoRecord
<1>2. "run" \in Actors
  BY DEF Actors
<1> QED
  BY <1>1, <1>2 DEF ResultsInv, NewResult, DeletesDelivered, NothingToPrune, RecordKept,
                    NeverOld, FinStep

\* Every step of the process keeps the results.
LEMMA ResultsStep == Inv /\ Inv' /\ ResultsInv /\ [Next]_vars => ResultsInv'
<1> SUFFICES ASSUME Inv, Inv', ResultsInv, [Next]_vars PROVE ResultsInv'
  OBVIOUS
<1>0. /\ TypeOK /\ TypeOK' /\ CliHasRun /\ ActorsInv /\ ActorsInv'
      /\ Actors = {"run", "poll"}
  BY DEF Inv, Actors
<1>1. \A t \in Tasks : DeliveryAt(t)
  BY DeliveryByTask DEF Inv
<1>2. ASSUME NEW a \in Actors, NEW u \in Tasks, Finalize(a, u) PROVE ResultsInv'
  <2>1. /\ FinalizeFrame(a, u)
        /\ poll' = poll /\ snap' = snap /\ work' = work
    BY <1>0, <1>2, FinalizeIsFramed DEF FinalizeFrame
  <2>2. assigned' = assigned
    BY <1>2 DEF Finalize, Check, PostApplied, PostAnswered, Marked, CheckAbort,
         MoveApplied, MoveAnswered, Delete, Rescheduled, planner
  <2>3. ASSUME NEW t \in Tasks
        PROVE  NewResult(t)' /\ DeletesDelivered(t)' /\ (Lossless => RecordKept(t)')
    <3>1. CASE t = u
      BY <1>0, <1>1, <1>2, <3>1, FinalizeResult, FinalizeRecord DEF ResultsInv
    <3>2. CASE t # u
      <4>1. /\ mem'[t] = mem[t] /\ disk'[t] = disk[t] /\ runs'[t] = runs[t]
            /\ comments'[t] = comments[t] /\ up' = up /\ diskOK'[t] = diskOK[t]
            /\ \A b \in Actors : at'[b][t] = at[b][t] /\ wr'[b][t] = wr[b][t]
        BY <2>1, <3>2 DEF FinalizeFrame
      <4> QED BY <2>2, <4>1, ResultsUntouched DEF ResultsInv
    <3> QED BY <3>1, <3>2
  <2> QED BY <2>1, <2>3 DEF ResultsInv, NothingToPrune, Lossless
<1>3. ASSUME NEW u \in Tasks, ProcessTask(u) PROVE ResultsInv'
  <2>1. /\ ProcessFrame(u)
        /\ poll' = poll /\ snap' = snap /\ work' = work
    BY <1>0, <1>3, ProcessIsFramed DEF ProcessFrame
  <2>2. assigned' = assigned
    BY <1>3 DEF ProcessTask, Begin, Start, StartFails, CliEnds, CliFails, Recorded,
         AbortNoted, FailNoted, FailMoved, Clear, planner
  <2>3. ASSUME NEW t \in Tasks
        PROVE  NewResult(t)' /\ DeletesDelivered(t)' /\ (Lossless => RecordKept(t)')
    <3>1. CASE t = u
      BY <1>0, <1>1, <1>3, <3>1, ProcessResult, ProcessRecord DEF ResultsInv
    <3>2. CASE t # u
      <4>1. /\ mem'[t] = mem[t] /\ disk'[t] = disk[t] /\ runs'[t] = runs[t]
            /\ comments'[t] = comments[t] /\ up' = up /\ diskOK'[t] = diskOK[t]
            /\ \A b \in Actors : at'[b][t] = at[b][t] /\ wr'[b][t] = wr[b][t]
        BY <1>0, <2>1, <3>2 DEF ProcessFrame
      <4> QED BY <2>2, <4>1, ResultsUntouched DEF ResultsInv
    <3> QED BY <3>1, <3>2
  <2> QED BY <2>1, <2>3 DEF ResultsInv, NothingToPrune, Lossless
<1>4. CASE UNCHANGED vars
  BY <1>4 DEF vars, planner, process, loop, ResultsInv, NewResult, DeletesDelivered,
              Delivered, Pending, NothingToPrune, RecordKept, NeverOld, Lossless
<1> QED BY <1>0, <1>2, <1>3, <1>4, PollResults, EnvironmentResults DEF Next

\* What the agent knows of its results, in every reachable state.
THEOREM ResultsKept == Spec => []ResultsInv
BY ResultsInit, ResultsStep, Invariance, PTL DEF Spec

-----------------------------------------------------------------------------
(* The result of a task, as Delivery sees it *)

Done == [t \in Tasks |-> status[t] = "done"]
Results == [t \in Tasks |-> Result(t)]
Postings == [t \in Tasks |-> Posts(t)]

\* The run of a record, or of no record, is a number.
LEMMA StoredRun == \A rec \in Record \union {NoRecord} : rec.run \in Nat
<1> SUFFICES ASSUME NEW rec \in Record \union {NoRecord} PROVE rec.run \in Nat
  OBVIOUS
<1>1. CASE rec = NoRecord  BY <1>1, NoRecordRun
<1>2. CASE rec \in Record  BY <1>2, NoRecordRun
<1> QED BY <1>1, <1>2

\* The result of a task is one of the runs that were started, or none.
LEMMA ResultsType ==
    ASSUME Inv'
    PROVE  \A t \in Tasks : Result(t)' \in Nat /\ Result(t)' <= runs'[t]
<1> SUFFICES ASSUME NEW t \in Tasks PROVE Result(t)' \in Nat /\ Result(t)' <= runs'[t]
  OBVIOUS
<1>1. /\ mem'[t].run \in Nat /\ disk'[t].run \in Nat /\ runs'[t] \in Nat
      /\ mem'[t].run <= runs'[t] /\ disk'[t].run <= runs'[t]
  BY StoredRun DEF Inv, TypeOK, DeliveryInv, RunsAreStarted
<1> QED BY <1>1 DEF Result

\* No summary is posted more than once, so each one is once in the bag.
LEMMA PostingsAre ==
    /\ Inv => Postings = [t \in Tasks |-> [r \in comments[t] |-> 1]]
    /\ Inv' => Postings' = [t \in Tasks |-> [r \in comments'[t] |-> 1]]
BY DEF Inv, DeliveryInv, SummaryAtMostOnce, Postings, Posts

\* A summary that was not posted makes its bag larger by one.
LEMMA PostingAdds ==
    ASSUME Inv, Inv', NEW t \in Tasks, NEW r, r \notin comments[t],
           comments' = [comments EXCEPT ![t] = @ \union {r}]
    PROVE  Postings' = [Postings EXCEPT ![t] = D!BagAdd(@, r)]
<1>1. Postings = [u \in Tasks |-> [q \in comments[u] |-> 1]]
  BY PostingsAre
<1>2. Postings' = [u \in Tasks |-> [q \in comments'[u] |-> 1]]
  BY PostingsAre
<1>3. comments \in [Tasks -> SUBSET Nat]
  BY DEF Inv, TypeOK
<1>4. D!BagAdd(Postings[t], r) = [q \in comments[t] \union {r} |-> 1]
  <2>1. Postings[t] = [q \in comments[t] |-> 1] /\ r \notin DOMAIN Postings[t]
    BY <1>1
  <2> QED BY <2>1 DEF D!BagAdd
<1> QED BY <1>1, <1>2, <1>3, <1>4

\* Where no result may be given up, and the file can be trusted, the result of a
\* task is the one of its file or of its record.
LEMMA LosslessResult ==
    ASSUME TypeOK, NEW t \in Tasks, DeliveryAt(t), RecordKept(t)
    PROVE  /\ up => Result(t) = IF at["run"][t] = "record" THEN 0 ELSE mem[t].run
           /\ diskOK[t] => Result(t) = disk[t].run
<1>1. up => Result(t) = IF at["run"][t] = "record" THEN 0 ELSE mem[t].run
  BY DEF Result, RecordKept, DeliveryAt, FinStep
<1>2. ~Pending(t) => mem[t].run = 0
  BY StoredFields
<1> QED BY <1>1, <1>2, NoRecordRun DEF Result, RecordKept, DeliveryAt

\* Every step may make the storage of a task safe or unsafe.
LEMMA AbstractStep ==
    ASSUME Inv',
           \/ \E t \in Tasks : \/ D!Begin(t) \/ D!Finish(t) \/ D!Post(t)
                               \/ D!Complete(t) \/ D!Settle(t) \/ D!Reopen(t)
           \/ D!Disturb
    PROVE  D!Next
<1>1. [t \in Tasks |-> ~diskOK'[t]] \in [Tasks -> BOOLEAN]
  OBVIOUS
<1> QED BY <1>1 DEF D!Next

\* A step that leaves alone what Delivery sees, but for results it may lose where
\* the configuration, or the file of their task, allows it.
LEMMA DisturbStep ==
    ASSUME Inv, Inv', comments' = comments, twice' = twice, status' = status,
           runs' = runs,
           \A t \in Tasks : \/ ~Lossless \/ ~diskOK[t] \/ ~diskOK'[t]
                            \/ Result(t)' = Result(t)
    PROVE  D!Next
<1>1. \A t \in Tasks : Result(t)' \in Nat /\ Result(t)' <= runs[t]
  BY ResultsType
<1>2. Results' \in [Tasks -> Nat] /\ \A t \in Tasks : Results'[t] <= runs[t]
  BY <1>1 DEF Results
<1>3. Postings' = Postings
  BY DEF Postings, Posts
<1>4. ASSUME NEW t \in Tasks, Results'[t] # Results[t]
      PROVE  \/ CanExpire \/ "assign" \in UserActs
             \/ ~diskOK[t] \/ ~diskOK'[t]
  BY <1>4 DEF Results, Lossless
<1>5. D!Disturb
  BY <1>2, <1>3, <1>4 DEF D!Disturb, Results, Postings
<1> QED BY <1>5, AbstractStep

\* A step that does not touch the results does not disturb them.
LEMMA QuietStep ==
    ASSUME Inv, Inv', Results' = Results, comments' = comments, twice' = twice,
           status' = status, runs' = runs
    PROVE  D!Next
<1>1. \A t \in Tasks : Results[t] = Result(t) /\ Results'[t] = Result(t)'
  BY DEF Results
<1> QED BY <1>1, DisturbStep

\* What a step does not touch of a task is its result before and after.
LEMMA ResultUntouched ==
    ASSUME NEW t \in Tasks, up' = up, up, mem'[t].run = mem[t].run, runs'[t] = runs[t],
           \/ at'["run"][t] = at["run"][t]
           \/ at["run"][t] \in FinStep /\ at'["run"][t] \in FinStep
           \/ at["run"][t] \notin FinStep \union {"record"}
              /\ at'["run"][t] \notin FinStep \union {"record"}
    PROVE  Result(t)' = Result(t)
BY DEF Result, FinStep

\* The summary is posted.
LEMMA PostIsPost ==
    ASSUME Inv, Inv', ResultsInv, NEW a \in Actors, NEW t \in Tasks, PostApplied(a, t)
    PROVE  D!Post(t)
<1>0. /\ TypeOK /\ TypeOK' /\ ActorsInv /\ ActorsInv' /\ DeliveryAt(t)
      /\ Actors = {"run", "poll"} /\ at[a][t] = "post" /\ at'[a][t] = "postApplied"
      /\ FinalizeFrame(a, t)
  <2>1. DeliveryAt(t)  BY DeliveryByTask DEF Inv
  <2>2. Finalize(a, t)  BY DEF Finalize
  <2>3. at[a][t] = "post" /\ at'[a][t] = "postApplied"
    BY GotoMoves DEF PostApplied, Inv, AtStep, FinStep
  <2> QED BY <2>1, <2>2, <2>3, FinalizeIsFramed DEF Inv, Actors
<1>1. up /\ up' = up
  BY <1>0 DEF ActorsInv, StoppedIsEmpty, FinalizeFrame
<1>2. Result(t) = Delivered(a, t) /\ Result(t) # 0 /\ Result(t) \notin comments[t]
  <2>1. Delivered(a, t) \notin comments[t]
    BY <1>0 DEF DeliveryAt
  <2>2. CASE a = "run"
    BY <1>0, <1>1, <2>1, <2>2 DEF ResultsInv, NewResult, Result, Delivered, FinStep, TypeOK
  <2>3. CASE a = "poll"
    <3>1. at["run"][t] = "off" /\ Pending(t)
      BY <1>0, <2>3 DEF ActorsInv, RetryLoop
    <3> QED BY <1>0, <1>1, <2>1, <2>3, <3>1, StoredFields DEF Result, Delivered, FinStep
  <2> QED BY <1>0, <2>2, <2>3
<1>3. Results' = Results
  <2> SUFFICES ASSUME NEW u \in Tasks PROVE Result(u)' = Result(u)
    BY DEF Results
  <2>1. /\ mem' = mem /\ runs' = runs
        /\ \/ at'["run"][u] = at["run"][u]
           \/ at["run"][u] \in FinStep /\ at'["run"][u] \in FinStep
    BY <1>0 DEF PostApplied, FinalizeFrame, FinStep
  <2> QED BY <1>1, <2>1, ResultUntouched
<1>4. Postings' = [Postings EXCEPT ![t] = D!BagAdd(@, Result(t))]
  <2>1. comments' = [comments EXCEPT ![t] = @ \union {Result(t)}]
    BY <1>2 DEF PostApplied
  <2> QED BY <1>2, <2>1, PostingAdds
<1>5. DOMAIN Postings[t] = comments[t]
  BY PostingsAre
<1>6. status' = status /\ runs' = runs
  BY DEF PostApplied
<1> QED BY <1>2, <1>3, <1>4, <1>5, <1>6 DEF D!Post, Results, Postings

\* The end status follows it.
LEMMA MoveIsComplete ==
    ASSUME Inv, Inv', ResultsInv, NEW a \in Actors, NEW t \in Tasks, MoveApplied(a, t)
    PROVE  D!Complete(t)
<1>0. /\ TypeOK /\ TypeOK' /\ ActorsInv /\ ActorsInv' /\ DeliveryAt(t)
      /\ Actors = {"run", "poll"} /\ at[a][t] = "move" /\ at'[a][t] = "moveApplied"
      /\ FinalizeFrame(a, t)
  <2>1. DeliveryAt(t)  BY DeliveryByTask DEF Inv
  <2>2. Finalize(a, t)  BY DEF Finalize
  <2>3. at[a][t] = "move" /\ at'[a][t] = "moveApplied"
    BY GotoMoves DEF MoveApplied, Inv, AtStep, FinStep
  <2> QED BY <2>1, <2>2, <2>3, FinalizeIsFramed DEF Inv, Actors
<1>1. up /\ up' = up
  BY <1>0 DEF ActorsInv, StoppedIsEmpty, FinalizeFrame
<1>2. Result(t) = Delivered(a, t) /\ Result(t) \in comments[t]
  <2>1. Delivered(a, t) \in comments[t]
    BY <1>0 DEF DeliveryAt, PastPost
  <2>2. CASE a = "run"
    BY <1>0, <1>1, <2>1, <2>2 DEF Result, Delivered, FinStep
  <2>3. CASE a = "poll"
    <3>1. at["run"][t] = "off"
      BY <1>0, <2>3 DEF ActorsInv, RetryLoop
    <3> QED BY <1>1, <2>1, <2>3, <3>1 DEF Result, Delivered, FinStep
  <2> QED BY <1>0, <2>2, <2>3
<1>3. Results' = Results
  <2> SUFFICES ASSUME NEW u \in Tasks PROVE Result(u)' = Result(u)
    BY DEF Results
  <2>1. /\ mem' = mem /\ runs' = runs
        /\ \/ at'["run"][u] = at["run"][u]
           \/ at["run"][u] \in FinStep /\ at'["run"][u] \in FinStep
    BY <1>0 DEF MoveApplied, FinalizeFrame, FinStep
  <2> QED BY <1>1, <2>1, ResultUntouched
<1>4. Done' = [Done EXCEPT ![t] = TRUE]
  BY <1>0 DEF MoveApplied, Done, TypeOK
<1>5. Postings' = Postings /\ runs' = runs
  BY DEF MoveApplied, Postings, Posts
<1>6. DOMAIN Postings[t] = comments[t]
  BY PostingsAre
<1> QED BY <1>2, <1>3, <1>4, <1>5, <1>6 DEF D!Complete, Results, Done, Postings

\* The record of a delivered result is removed, and the other steps of a delivery
\* keep its result.
LEMMA FinalizeRefines ==
    ASSUME Inv, Inv', ResultsInv, ResultsInv', NEW a \in Actors, NEW t \in Tasks,
           Finalize(a, t)
    PROVE  [D!Next]_(D!vars)
<1>0. /\ TypeOK /\ TypeOK' /\ ActorsInv /\ ActorsInv' /\ FinalizeFrame(a, t)
      /\ Actors = {"run", "poll"} /\ \A u \in Tasks : DeliveryAt(u)
  BY FinalizeIsFramed, DeliveryByTask DEF Inv, Actors
<1>1. CASE PostApplied(a, t)
  BY <1>1, PostIsPost, AbstractStep
<1>2. CASE MoveApplied(a, t)
  BY <1>2, MoveIsComplete, AbstractStep
<1>3. CASE ~PostApplied(a, t) /\ ~MoveApplied(a, t)
  <2>1. /\ comments' = comments /\ twice' = twice /\ status' = status
        /\ assigned' = assigned /\ up' = up /\ runs' = runs
    BY <1>0, <1>3 DEF FinalizeFrame, Finalize, Check, PostAnswered, Marked, CheckAbort,
                      MoveAnswered, Delete, Rescheduled, planner
  <2>2. CASE ~Lossless
    BY <2>1, <2>2, DisturbStep
  <2>3. CASE Lossless
    <3>1. RecordKept(t)
      BY <2>3 DEF ResultsInv
    <3>2. up
      BY <1>0 DEF ActorsInv, StoppedIsEmpty, FinalizeFrame, FinStep
    <3>3. at["run"][t] # "record" /\ at'["run"][t] # "record"
      BY <1>0, SoleFinalizer
    <3>4. ASSUME NEW u \in Tasks, u # t PROVE Result(u)' = Result(u)
      <4>1. /\ mem'[u] = mem[u] /\ at'["run"][u] = at["run"][u]
        BY <1>0, <3>4 DEF FinalizeFrame
      <4> QED BY <2>1, <3>2, <4>1, ResultUntouched
    <3>5. Result(t) = mem[t].run /\ Result(t)' = mem'[t].run
      <4>1. RecordKept(t)' /\ DeliveryAt(t)'
        BY <2>3, DeliveryByTask DEF ResultsInv, Inv, Lossless, DeliveryInv, RunsAreStarted,
             OwnRecord, NotPostedYet, PostedByNow, WritesTellTruth, PostedFlagIsTrue,
             SummaryAtMostOnce, OwnWrite, PendingSurvivesCrash, DeliveryAt
      <4>2. Result(t) = mem[t].run
        BY <1>0, <3>1, <3>2, <3>3, LosslessResult
      <4>3. Result(t)' = mem'[t].run
        BY <2>1, <3>2, <3>3, <4>1 DEF Result, RecordKept, DeliveryAt
      <4> QED BY <4>2, <4>3
    <3>6. CASE Delete(a, t) /\ Pending(t)
      <4>1. Delivered(a, t) \in comments[t]
        BY <3>6 DEF Delete, ResultsInv, DeletesDelivered
      <4>2. Delivered(a, t) = Result(t)
        BY <1>0, <3>5, <3>6, SoleFinalizer
      <4>3. Result(t)' = 0
        BY <1>0, <3>5, <3>6, DeleteEffect, NoRecordRun
      <4>4. Results' = [Results EXCEPT ![t] = 0]
        BY <3>4, <4>3 DEF Results
      <4>5. D!Settle(t)
        <5>1. Postings' = Postings /\ DOMAIN Postings[t] = comments[t]
          BY <2>1, PostingsAre DEF Postings, Posts
        <5> QED BY <2>1, <4>1, <4>2, <4>4, <5>1 DEF D!Settle, Results, Postings
      <4> QED BY <4>5, AbstractStep
    <3>7. CASE ~(Delete(a, t) /\ Pending(t))
      <4>1. mem'[t].run = mem[t].run
        <5>1. CASE Delete(a, t)
          BY <1>0, <3>7, <5>1, DeleteEffect DEF Pending
        <5>2. CASE ~Delete(a, t)
          <6>1. at[a][t] # "delete"
            BY <1>3, <5>2 DEF Finalize, Check, PostAnswered, Marked, CheckAbort, MoveAnswered,
                              Rescheduled
          <6>2. Pending(t)
            BY <1>0, <3>1, <6>1 DEF ActorsInv, RetryLoop, RecordKept, FinalizeFrame, FinStep
          <6> QED BY <1>0, <3>1, <6>1, <6>2, FinalizeEffect DEF RecordKept
        <5> QED BY <5>1, <5>2
      <4>2. Results' = Results
        BY <3>4, <3>5, <4>1 DEF Results
      <4> QED BY <2>1, <4>2, QuietStep
    <3> QED BY <3>6, <3>7
  <2> QED BY <2>2, <2>3
<1> QED BY <1>1, <1>2, <1>3

\* A status that is set to anything but the end status.
LEMMA ReopenStep ==
    ASSUME Inv, Inv', NEW t \in Tasks, NEW s, s # "done",
           status' = [status EXCEPT ![t] = s], Results' = Results,
           comments' = comments, twice' = twice, runs' = runs
    PROVE  D!Next
<1>1. Done' = [Done EXCEPT ![t] = FALSE]
  BY DEF Done, Inv, TypeOK
<1>2. Postings' = Postings
  BY DEF Postings, Posts
<1>3. D!Reopen(t)
  BY <1>1, <1>2 DEF D!Reopen, Done, Results, Postings
<1> QED BY <1>3, AbstractStep

\* A result is pending once its record is on the disk; before that a run only
\* moves its task.
LEMMA ProcessRefines ==
    ASSUME Inv, Inv', ResultsInv, ResultsInv', NEW t \in Tasks, ProcessTask(t)
    PROVE  [D!Next]_(D!vars)
<1>0. /\ TypeOK /\ TypeOK' /\ CliHasRun /\ ActorsInv /\ ActorsInv' /\ ProcessFrame(t)
      /\ Actors = {"run", "poll"} /\ DeliveryAt(t)
      /\ {"off", "start", "cli", "record", "clear", "failNote", "failMove",
          "abortNote"} \subseteq AtStep
  BY ProcessIsFramed, DeliveryByTask DEF Inv, Actors, AtStep, RunStep
<1>1. /\ comments' = comments /\ twice' = twice /\ up' = up /\ up
  BY <1>0 DEF ProcessFrame, ActorsInv, StoppedIsEmpty, RunStep
<1>p. Postings' = Postings /\ DOMAIN Postings[t] = comments[t]
  BY <1>1, PostingsAre DEF Postings, Posts
<1>2. ASSUME NEW u \in Tasks, u # t PROVE Result(u)' = Result(u)
  <2>1. mem'[u] = mem[u] /\ runs'[u] = runs[u] /\ at'["run"][u] = at["run"][u]
    BY <1>0, <1>2 DEF ProcessFrame
  <2> QED BY <1>1, <2>1, ResultUntouched
<1>3. CASE CliEnds(t)
  <2>1. at["run"][t] = "cli" /\ mem[t].run = 0
    <3>1. at["run"][t] = "cli"  BY <1>3 DEF CliEnds
    <3> QED BY <1>0, <3>1, StoredFields DEF ActorsInv, NoRunWhilePending
  <2>2. at'["run"][t] = "record" /\ status' = status /\ runs' = runs
    BY <1>0, <1>3, GotoMoves DEF CliEnds, planner
  <2>3. Result(t)' = Result(t)
    BY <1>1, <2>1, <2>2 DEF Result, FinStep
  <2>4. Results' = Results
    BY <1>2, <2>3 DEF Results
  <2> QED BY <1>1, <2>2, <2>4, QuietStep
<1>4. CASE Recorded(t)
  <2>1. status' = status /\ runs' = runs /\ at["run"][t] = "record"
    BY <1>4 DEF Recorded, planner
  <2>2. CASE ~Lossless
    BY <1>1, <2>1, <2>2, DisturbStep
  <2>3. CASE Lossless
    <3>1. Pending(t)
      BY <2>1, <2>3 DEF ResultsInv, RecordKept
    <3>2. at'["run"][t] \in FinStep
      <4>1. CASE Throws("run", t)
        BY <1>0, <3>1, <4>1, ThrowsStep DEF FinStep
      <4>2. CASE Goto("run", t, Entry(mem[t]))
        <5>1. Entry(mem[t]) \in FinStep
          BY EntrySteps DEF FinStep
        <5> QED BY <1>0, <4>2, <5>1, GotoMoves DEF AtStep
      <4> QED BY <1>4, <4>1, <4>2 DEF Recorded
    <3>3. Result(t) = 0 /\ Result(t)' = runs[t]
      BY <1>1, <2>1, <3>2 DEF Result, FinStep
    <3>4. runs[t] # 0 /\ runs[t] \notin comments[t]
      BY <1>0, <2>1 DEF ResultsInv, NewResult, TypeOK
    <3>5. Results' = [Results EXCEPT ![t] = runs[t]]
      BY <1>2, <3>3 DEF Results
    <3>6. D!Finish(t)
      BY <1>p, <2>1, <3>3, <3>4, <3>5 DEF D!Finish, Results, Postings
    <3> QED BY <3>6, AbstractStep
  <2> QED BY <2>2, <2>3
<1>5. CASE ~CliEnds(t) /\ ~Recorded(t)
  <2>1. PICK s \in {"off", "start", "cli", "clear", "failNote", "failMove", "abortNote"} :
           Goto("run", t, s)
    BY <1>5 DEF ProcessTask, Begin, Start, StartFails, CliFails, AbortNoted, FailNoted,
                FailMoved, Clear
  <2>2. at'["run"][t] \notin FinStep \union {"record"}
    BY <1>0, <2>1, GotoMoves DEF FinStep
  <2>3. at["run"][t] \notin FinStep \union {"record"} /\ mem' = mem
    BY <1>5 DEF ProcessTask, Begin, Start, StartFails, CliFails, AbortNoted, FailNoted,
                FailMoved, Clear, FinStep
  <2>4. Result(t)' = Result(t)
    BY <1>1, <2>2, <2>3 DEF Result
  <2>5. Results' = Results
    BY <1>2, <2>4 DEF Results
  <2>6. CASE Start(t)
    <3>1. Result(t) = 0
      <4>1. at["run"][t] = "start"  BY <2>6 DEF Start
      <4> QED
        BY <1>0, <1>1, <4>1, StoredFields
           DEF Result, FinStep, ActorsInv, NoRunWhilePending
    <3>2. runs' = [runs EXCEPT ![t] = @ + 1]
      BY <2>6 DEF Start
    <3>3. Done' \in {Done, [Done EXCEPT ![t] = FALSE]}
      <4>1. CASE status' = status
        BY <4>1 DEF Done
      <4>2. CASE status' = [status EXCEPT ![t] = "doing"]
        <5>1. status \in [Tasks -> Status]
          BY <1>0 DEF TypeOK
        <5>2. Done' = [Done EXCEPT ![t] = FALSE]
          BY <4>2, <5>1 DEF Done
        <5> QED BY <5>2
      <4> QED BY <2>6, <4>1, <4>2 DEF Start
    <3>4. D!Begin(t)
      BY <1>p, <2>5, <3>1, <3>2, <3>3 DEF D!Begin, Results, Done, Postings
    <3> QED BY <3>4, AbstractStep
  <2>7. CASE ~Start(t)
    <3>1. /\ runs' = runs
          /\ status' = status \/ status' = [status EXCEPT ![t] = "failed"]
      BY <1>5, <2>7 DEF ProcessTask, Begin, StartFails, CliFails, AbortNoted, FailNoted,
                        FailMoved, Clear, planner
    <3> QED BY <1>1, <2>5, <3>1, QuietStep, ReopenStep
  <2> QED BY <2>6, <2>7
<1> QED BY <1>3, <1>4, <1>5

\* A poll moves no result, unless it prunes records.
LEMMA PollRefines ==
    ASSUME Inv, Inv', ResultsInv, ResultsInv', Poll
    PROVE  [D!Next]_(D!vars)
<1>0. TypeOK /\ TypeOK' /\ ActorsInv /\ Actors = {"run", "poll"}
  BY DEF Inv, Actors
<1>1. /\ comments' = comments /\ twice' = twice /\ status' = status
      /\ up' = up /\ runs' = runs
  BY DEF Poll, PollLists, PollPrunes, PollPruned, PollCollects, PollSelects, PollFails,
         PollRetries, RetryNext, PollEnds, planner, process
<1>2. CASE ~Lossless
  BY <1>1, <1>2, DisturbStep
<1>3. CASE Lossless
  <2>2. up
    BY <1>0 DEF Poll, PollLists, PollPrunes, PollPruned, PollCollects, PollSelects, PollFails,
                PollRetries, RetryNext, PollEnds, ActorsInv, StoppedIsEmpty
  <2>3. mem' = mem
    <3>1. CASE PollPrunes
      <4>1. work' = {}
        BY <1>3, <3>1 DEF PollPrunes, ResultsInv, NothingToPrune, RecordKept, NeverOld
      <4> QED BY <1>0, <3>1, <4>1 DEF PollPrunes, TypeOK
    <3>2. CASE ~PollPrunes
      BY <3>2 DEF Poll, PollLists, PollPruned, PollCollects, PollSelects, PollFails,
                  PollRetries, RetryNext, PollEnds, process
    <3> QED BY <3>1, <3>2
  <2>4. ASSUME NEW t \in Tasks
        PROVE  \/ at'["run"][t] = at["run"][t]
               \/ at["run"][t] = "off" /\ at'["run"][t] = "registered"
    <3>1. CASE PollSelects
      BY <1>0, <3>1 DEF PollSelects, TypeOK, ActorsInv, CandidatesStayFree
    <3>2. ASSUME NEW u \in Tasks, RetryNext(u) PROVE at'["run"][t] = at["run"][t]
      <4>1. Entry(mem[u]) \in AtStep
        BY EntrySteps DEF FinStep, AtStep
      <4> QED BY <1>0, <3>2, <4>1, GotoMoves DEF RetryNext
    <3>3. CASE at' = at
      BY <3>3
    <3> QED
      BY <3>1, <3>2, <3>3 DEF Poll, PollLists, PollPrunes, PollPruned, PollCollects,
           PollFails, PollRetries, PollEnds, process
  <2>5. \A t \in Tasks : Result(t)' = Result(t)
    BY <1>1, <2>2, <2>3, <2>4, ResultUntouched DEF FinStep
  <2> QED BY <1>1, <2>5, DisturbStep
<1> QED BY <1>2, <1>3

\* Neither do time and users, and a crash or a restart takes the results over from
\* the records to their files and back.
LEMMA EnvironmentRefines ==
    ASSUME Inv, Inv', ResultsInv, ResultsInv', Environment
    PROVE  [D!Next]_(D!vars)
<1>0. /\ TypeOK /\ TypeOK' /\ ActorsInv /\ Actors = {"run", "poll"}
      /\ \A t \in Tasks : DeliveryAt(t)
  BY DeliveryByTask DEF Inv, Actors
<1>1. ASSUME NEW u \in Tasks, TimePasses(u) \/ Expires(u) PROVE [D!Next]_(D!vars)
  <2>1. /\ comments' = comments /\ twice' = twice /\ status' = status
        /\ up' = up /\ runs' = runs /\ at' = at /\ disk' = disk
    BY <1>1 DEF TimePasses, Expires, planner
  <2>2. \A t \in Tasks : mem'[t].run = mem[t].run
    <3>1. mem[u] \in Record
      BY <1>0, <1>1 DEF TimePasses, Expires, Pending, TypeOK
    <3>2. mem \in [Tasks -> Record \union {NoRecord}]
      BY <1>0 DEF TypeOK
    <3>3. [mem[u] EXCEPT !.due = TRUE].run = mem[u].run /\ [mem[u] EXCEPT !.old = TRUE].run = mem[u].run
      BY <3>1 DEF Record
    <3>4. CASE mem' = [mem EXCEPT ![u] = [mem[u] EXCEPT !.due = TRUE]]
      BY <3>2, <3>3, <3>4
    <3>5. CASE mem' = [mem EXCEPT ![u] = [mem[u] EXCEPT !.old = TRUE]]
      BY <3>2, <3>3, <3>5
    <3> QED BY <1>1, <3>4, <3>5 DEF TimePasses, Expires
  <2>3. Results' = Results
    BY <2>1, <2>2 DEF Results, Result
  <2> QED BY <2>1, <2>3, QuietStep
<1>2. ASSUME NEW u \in Tasks, UserActsOn(u) PROVE [D!Next]_(D!vars)
  <2>1. /\ comments' = comments /\ twice' = twice
        /\ up' = up /\ runs' = runs /\ at' = at /\ disk' = disk /\ mem' = mem
    BY <1>2 DEF UserActsOn, process
  <2>2. Results' = Results
    BY <2>1 DEF Results, Result
  <2>3. CASE status' = status
    BY <2>1, <2>2, <2>3, QuietStep
  <2>4. ASSUME NEW st \in {"todo", "abort"}, status' = [status EXCEPT ![u] = st]
        PROVE  D!Next
    BY <2>1, <2>2, <2>4, ReopenStep
  <2> QED BY <1>2, <2>3, <2>4 DEF UserActsOn
<1>3. CASE Crash
  <2>1. /\ comments' = comments /\ twice' = twice /\ status' = status
        /\ runs' = runs /\ up /\ ~up' /\ disk' = disk
    BY <1>3 DEF Crash, planner
  <2>2. ASSUME Lossless, NEW t \in Tasks, diskOK[t] PROVE Result(t)' = Result(t)
    <3>1. Result(t) = disk[t].run
      BY <1>0, <2>2, LosslessResult DEF ResultsInv
    <3> QED BY <2>1, <3>1 DEF Result
  <2> QED BY <2>1, <2>2, DisturbStep
<1>4. CASE Restart
  <2>1. /\ comments' = comments /\ twice' = twice /\ status' = status
        /\ runs' = runs /\ ~up /\ up' /\ at' = at
    BY <1>4 DEF Restart, planner
  <2>2. ASSUME NEW t \in Tasks, diskOK'[t] PROVE Result(t)' = Result(t)
    <3>1. mem'[t] = IF disk[t] = NoRecord THEN NoRecord ELSE Reloaded(disk[t])
      BY <1>0, <1>4, <2>2 DEF Restart, ForAll, TypeOK
    <3>2. mem'[t].run = disk[t].run
      <4>1. CASE disk[t] = NoRecord
        BY <3>1, <4>1
      <4>2. CASE disk[t] # NoRecord
        <5>1. disk[t] \in Record
          BY <1>0, <4>2 DEF TypeOK
        <5> QED BY <3>1, <4>2, <5>1, RecordOperations
      <4> QED BY <4>1, <4>2
    <3>3. at'["run"][t] = "off"
      BY <1>0, <2>1 DEF ActorsInv, StoppedIsEmpty
    <3> QED BY <2>1, <3>2, <3>3 DEF Result, FinStep
  <2> QED BY <2>1, <2>2, DisturbStep
<1> QED BY <1>1, <1>2, <1>3, <1>4 DEF Environment

-----------------------------------------------------------------------------

\* Agent implements the safety half of Delivery: the result of every run is posted
\* at most once, before its task is done, and it is forgotten only after that,
\* unless results may be given up or the last operation on the file of that very
\* task failed (finalizeCompletedTask and FinalizationStore over lost answers,
\* retries, crashes and restarts).
THEOREM Refinement == Spec => D!Promise
<1>1. Init => D!Init
  <2> SUFFICES ASSUME Init PROVE D!Init
    OBVIOUS
  <2>1. /\ up /\ runs = [t \in Tasks |-> 0]
        /\ \A t \in Tasks : /\ comments[t] = {} /\ diskOK[t]
                           /\ mem[t].run = 0 /\ status[t] # "done"
                           /\ at["run"][t] = "off"
    BY NoRecordRun DEF Init, ForAll, Actors
  <2>2. \A t \in Tasks : Result(t) = 0
    BY <2>1 DEF Result, FinStep
  <2>3. \A t \in Tasks : Posts(t) = [r \in {} |-> 1]
    BY <2>1 DEF Posts
  <2>4. /\ [t \in Tasks |-> Result(t)] = [t \in Tasks |-> 0]
        /\ [t \in Tasks |-> Posts(t)] = [t \in Tasks |-> [r \in {} |-> 1]]
    BY <2>2, <2>3
  <2>5. /\ [t \in Tasks |-> status[t] = "done"] = [t \in Tasks |-> FALSE]
        /\ [t \in Tasks |-> ~diskOK[t]] = [t \in Tasks |-> FALSE]
    BY <2>1
  <2> QED BY <2>1, <2>4, <2>5 DEF D!Init
<1>2. Inv /\ Inv' /\ ResultsInv /\ ResultsInv' /\ [Next]_vars => [D!Next]_(D!vars)
  <2> SUFFICES ASSUME Inv, Inv', ResultsInv, ResultsInv', [Next]_vars
               PROVE  [D!Next]_(D!vars)
    OBVIOUS
  <2>1. CASE UNCHANGED vars
    <3>1. Results' = Results
      BY <2>1 DEF vars, planner, process, Results, Result
    <3> QED BY <2>1, <3>1, QuietStep DEF vars, planner, process
  <2> QED BY <2>1, FinalizeRefines, ProcessRefines, PollRefines, EnvironmentRefines DEF Next
<1> QED BY <1>1, <1>2, Invariance, ResultsKept, PTL DEF Spec, D!Promise
=============================================================================
