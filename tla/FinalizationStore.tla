------------------------- MODULE FinalizationStore -------------------------
(***************************************************************************)
(* The records of src/agent/src/FinalizationStore.ts: one pending          *)
(* finalization per task whose CLI execution is over and whose delivery    *)
(* (summary comment, end status) is not.  The module holds the operations  *)
(* on one record; Agent.tla keeps the map of them in memory and the files  *)
(* they are persisted in.                                                  *)
(*                                                                         *)
(* A record names the run it delivers by its number, which stands for the  *)
(* title, summary, content version and statuses the source copies into it. *)
(* Time is abstracted to what the store compares it with: "due" says that  *)
(* nextRetryAt is not in the future, "old" that createdAt is more than the *)
(* time-to-live ago.                                                       *)
(***************************************************************************)
EXTENDS Naturals

Record == [run : Nat \ {0}, posted : BOOLEAN, attempts : Nat,
           resumed : BOOLEAN, due : BOOLEAN, old : BOOLEAN]

\* The absence of a record: in the Map, or of a file on the disk.
NoRecord == [run |-> 0, posted |-> FALSE, attempts |-> 0,
             resumed |-> FALSE, due |-> FALSE, old |-> FALSE]

\* record(): the record of a run that just ended.
NewRecord(r) == [run |-> r, posted |-> FALSE, attempts |-> 0,
                 resumed |-> FALSE, due |-> TRUE, old |-> FALSE]

\* markCommentPosted().
MarkedPosted(rec) == [rec EXCEPT !.posted = TRUE]

\* scheduleRetry(): one more attempt, and a retry time in the future.
RetryScheduled(rec) == [rec EXCEPT !.attempts = @ + 1, !.due = FALSE]

\* Mutant of Persisted: the creation time is not written.
PersistedWithoutCreation(rec) ==
    [f \in {"run", "posted", "attempts", "resumed", "due"} |->
        IF f \in {"resumed", "due"} THEN FALSE ELSE rec[f]]

\* persist(): what the JSON file keeps.  "resumed" is a runtime flag, and
\* the retry time that is written is never read back.
Persisted(rec) == [rec EXCEPT !.resumed = FALSE, !.due = FALSE]

\* load(): a reloaded record is due at once and remembers it was reloaded.
Reloaded(file) == [file EXCEPT !.resumed = TRUE, !.due = TRUE]

\* Mutant of ChecksDuplicate: a reloaded record is taken for a first attempt.
ChecksRetriesOnly(rec) == rec.attempts > 0

\* Whether this delivery attempt must look for an already posted summary
\* before it posts one: the very first attempt of a live process does not.
ChecksDuplicate(rec) == rec.attempts > 0 \/ rec.resumed
============================================================================
