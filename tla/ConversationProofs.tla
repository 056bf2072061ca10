-------------------------- MODULE ConversationProofs --------------------------
(***************************************************************************)
(* No comment is forgotten and none is answered twice, for any number of   *)
(* comments, rounds, deletions, failed requests and crashes.               *)
(***************************************************************************)
EXTENDS Conversation, WellFoundedInduction, TLAPS

Answers == {j \in 1 .. Len(comments) : comments[j].by = "answer"}

\* The run has a brief, and has neither recorded nor posted its answer.
Briefed == {"start", "cli", "check", "adjust", "record", "failure", "abort"}

\* What the process and its record know of the comments lies among them, and only
\* comments of the users are deleted.
Prefixes ==
    /\ run.known <= Len(comments) /\ run.mark <= run.known /\ record.mark <= Len(comments)
    /\ \A i \in deleted : comments[i].by = "user"

\* The watermark is what the last successful execution was given, or the first will be.
MarkIsUsed ==
    /\ run.at \in {"start", "cli"} => run.known = run.mark
    /\ run.at \in {"check", "adjust", "record"} => run.used = run.mark

\* A watermark lies before its comment, and all up to it is answered or deleted.
MarksAnswered ==
    /\ \A j \in Answers :
          comments[j].mark < j /\ UsersUpTo(comments[j].mark) \subseteq answered
    /\ UsersUpTo(record.mark) \subseteq answered

\* A run is given no brief while a record is pending, and posts its own.
OneDelivery ==
    /\ run.at = "post" => record.pending /\ ~record.shown
    /\ run.at = "delete" => record.shown
    /\ run.at \in Briefed => ~record.pending
    /\ run.at # "off" => up
    /\ record.shown => record.pending /\ \E j \in Answers : comments[j].mark = record.mark

\* What is answered lies below the watermark of an answer, or of the record.
AnsweredIsCovered ==
    \A i \in answered : \/ record.pending /\ i <= record.mark
                        \/ \E j \in Answers : i <= comments[j].mark

\* No answer has a higher watermark than the ones after it.
MarksGrow ==
    /\ \A j, k \in Answers : j < k => comments[j].mark <= comments[k].mark
    /\ \A j \in Answers :
         /\ record.pending /\ ~record.shown => comments[j].mark <= record.mark
         /\ run.at \in Briefed => comments[j].mark <= run.mark

\* A list that no run or delivery has outdated shows a comment nobody answered,
\* when it makes the poll pick the task.
ListIsRight ==
    run.at = "off" /\ poll.listed /\ ~poll.outdated /\ ~record.pending =>
        /\ \A j \in Answers : comments[j].mark <= Newest(poll.seen)
        /\ PickupPending(poll.seen) =>
               poll.seen = {} \/ \E i \in Users(poll.seen) : i \notin answered

Inv ==
    /\ TypeOK /\ Prefixes /\ MarkIsUsed /\ MarksAnswered /\ OneDelivery
    /\ AnsweredIsCovered
    /\ ~misled => MarksGrow /\ ListIsRight

-----------------------------------------------------------------------------
(* Types *)

RecordType == [pending : BOOLEAN, mark : Nat, shown : BOOLEAN]
PollType == [listed : BOOLEAN, seen : SUBSET (1 .. Len(comments)), outdated : BOOLEAN]
RunType == [at : RunStep, known : Nat, mark : Nat, rounds : 0 .. MaxRounds, used : Nat]

\* The bounds are natural numbers.
LEMMA BoundsAreNat ==
    MaxRounds \in Nat /\ MaxUserComments \in Nat /\ MaxNotes \in Nat /\ MaxFaults \in Nat
BY Zenon, ConversationAssumption DEF ConversationAssumption

\* No record, no poll and no run.
LEMMA Nothing ==
    /\ NoRecord \in RecordType /\ ~NoRecord.pending /\ ~NoRecord.shown /\ NoRecord.mark = 0
    /\ NoPoll \in PollType /\ ~NoPoll.listed /\ NoPoll.seen = {}
    /\ NoRun \in RunType /\ NoRun.at = "off" /\ NoRun.known = 0 /\ NoRun.mark = 0
BY BoundsAreNat DEF NoRecord, NoPoll, NoRun, RecordType, PollType, RunType, RunStep

\* The newest comment of some of the first ones is among them; of none, it is 0.
LEMMA NewestIs ==
    ASSUME NEW n \in Nat, NEW S \in SUBSET (1 .. n)
    PROVE  /\ Newest(S) \in 0 .. n
           /\ S = {} => Newest(S) = 0
           /\ S # {} => Newest(S) \in S /\ Newest(S) # 0 /\ \A j \in S : j <= Newest(S)
<1> DEFINE above == {k \in Nat : k <= n /\ n - k \in S}
<1>1. CASE S = {}
  BY <1>1 DEF Newest
<1>2. CASE S # {}
  <2>1. above \in SUBSET Nat /\ above # {} /\ \A k \in above : n - k \in S
    <3>1. PICK i \in S : TRUE
      BY <1>2
    <3>2. n - i \in above
      <4>1. n - i \in Nat /\ n - i <= n /\ n - (n - i) = i
        BY <3>1
      <4> QED BY <3>1, <4>1
    <3> QED BY <3>2
  <2>2. \A i \in S : n - i \in above
    <3>1. ASSUME NEW i \in S PROVE n - i \in Nat /\ n - i <= n /\ n - (n - i) = i
      OBVIOUS
    <3> QED BY <3>1
  <2> HIDE DEF above
  <2>3. PICK k \in above : \A m \in above : <<m, k>> \notin OpToRel(<, Nat)
    BY Zenon, <2>1, NatLessThanWellFounded, WFMin
  <2>4. \A m \in above : ~(m < k)
    <3>1. \A m \in above : m < k => <<m, k>> \in OpToRel(<, Nat)
      BY Zenon, <2>1 DEF OpToRel
    <3> QED BY <2>3, <3>1
  <2>5. n - k \in S /\ \A j \in S : j <= n - k
    <3>1. k \in Nat /\ n - k \in S
      BY <2>1
    <3>2. ASSUME NEW j \in S PROVE j <= n - k
      <4>1. n - j \in above /\ ~(n - j < k)
        BY <2>2, <2>4
      <4> QED BY <3>1, <4>1
    <3> QED BY <3>1, <3>2
  <2>6. PICK i \in S : \A j \in S : j <= i
    BY <2>5
  <2>7. Newest(S) \in S /\ \A j \in S : j <= Newest(S)
    BY Zenon, <1>2, <2>6 DEF Newest
  <2>8. Newest(S) \in 1 .. n
    BY <2>7
  <2>9. Newest(S) \in 0 .. n /\ Newest(S) # 0
    BY <2>8
  <2> QED BY Zenon, <1>2, <2>7, <2>9
<1> QED BY <1>1, <1>2

\* The newest comments of the list in progress, and of those that are not deleted.
LEMMA NewestSeen ==
    ASSUME TypeOK
    PROVE  /\ Newest(poll.seen) \in Nat /\ Newest(poll.seen) <= Len(comments)
           /\ Newest(Visible) \in Nat /\ Newest(Visible) <= Len(comments)
           /\ \A i \in Visible : i <= Newest(Visible)
<1>1. /\ Len(comments) \in Nat /\ poll.seen \in SUBSET (1 .. Len(comments))
      /\ Visible \in SUBSET (1 .. Len(comments))
  BY DEF TypeOK, Visible
<1> QED BY <1>1, NewestIs

\* A sequence of comments has a length.
LEMMA Lengths == TypeOK => Len(comments) \in Nat /\ comments \in Seq(Comment)
BY DEF TypeOK

\* A new comment comes last.
LEMMA PostedLast ==
    ASSUME TypeOK, NEW kind \in {"user", "note", "answer"}, NEW m \in Nat, Posted(kind, m)
    PROVE  /\ comments' \in Seq(Comment) /\ Len(comments') = Len(comments) + 1
           /\ \A i \in 1 .. Len(comments) : comments'[i] = comments[i]
           /\ comments'[Len(comments) + 1].by = kind
           /\ comments'[Len(comments) + 1].mark = m
           /\ deleted' = deleted
<1> DEFINE c == [by |-> kind, mark |-> m]
<1>1. c \in Comment /\ c.by = kind /\ c.mark = m
  BY DEF Comment
<1>2. comments \in Seq(Comment) /\ comments' = Append(comments, c) /\ deleted' = deleted
  BY DEF TypeOK, Posted
<1> HIDE DEF c
<1> QED BY <1>1, <1>2

\* The counters of faults and notes stay in their bounds.
LEMMA BoundsKept ==
    ASSUME TypeOK, Fine \/ Fault \/ Note
    PROVE  faults' \in 0 .. MaxFaults /\ notes' \in 0 .. MaxNotes
BY BoundsAreNat DEF TypeOK, Fine, Fault, Note, Disturbed, bounds

\* A run that only moves on keeps its brief, its watermark and its type.
LEMMA RunMoves ==
    ASSUME TypeOK, NEW s \in RunStep, Goto(s)
    PROVE  /\ run' \in RunType /\ run'.at = s
           /\ run'.known = run.known /\ run'.mark = run.mark /\ run'.used = run.used
BY DEF TypeOK, Goto, RunType

\* Every step of the polls, the runs, the users and the process keeps the types.
LEMMA TypeStep == TypeOK /\ [Next]_vars => TypeOK'
<1> SUFFICES ASSUME TypeOK, [Next]_vars PROVE TypeOK'
  OBVIOUS
<1>0. RunStep = {"off", "start", "cli", "check", "adjust", "record", "post", "delete",
                 "failure", "abort", "end"}
  BY DEF RunStep
<1>1. faults' \in 0 .. MaxFaults /\ notes' \in 0 .. MaxNotes
  <2>1. Fine \/ Fault \/ Note \/ UNCHANGED vars
    BY DEF Next, Poll, List, Pick, PollEnds, Retry, RetryUnanswered, Process, StartComment,
           CliEnds, Check, AdjustEnds, Record, PostSummary, DeleteRecord, PostFailure, PostAbort,
           RunEnds, Tick, CheckFails, PostFails, Lands, UserComments, UserDeletes, UserAborts, Crash, Restart,
           PollUnchanged, Fine
  <2> QED BY <2>1, BoundsKept DEF TypeOK, vars, bounds
<1>2. /\ comments' \in Seq(Comment) /\ Len(comments) <= Len(comments')
      /\ deleted' \in SUBSET (1 .. Len(comments'))
  <2>1. record.mark \in Nat /\ run.mark \in Nat /\ comments \in Seq(Comment)
        /\ deleted \in SUBSET (1 .. Len(comments)) /\ Len(comments) \in Nat
    BY DEF TypeOK
  <2>2. \/ comments' = comments /\ deleted' = deleted
        \/ UserDeletes
        \/ \E kind \in {"user", "note"} : Posted(kind, 0)
        \/ \E m \in {record.mark, run.mark} : Posted("answer", m)
    BY DEF Next, Poll, List, Pick, PollEnds, Retry, RetryUnanswered, Process, StartComment,
           CliEnds, Check, AdjustEnds, Record, PostSummary, DeleteRecord, PostFailure, PostAbort,
           RunEnds, Tick, CheckFails, PostFails, Lands, UserComments, UserAborts, Crash, Restart,
           PollUnchanged, thread, vars
  <2>3. CASE UserDeletes
    BY <2>1, <2>3 DEF UserDeletes, Users, Visible
  <2>4. ASSUME NEW kind \in {"user", "note", "answer"}, NEW m \in Nat, Posted(kind, m)
        PROVE  /\ comments' \in Seq(Comment) /\ Len(comments') = Len(comments) + 1
               /\ deleted' \in SUBSET (1 .. Len(comments'))
    <3>1. /\ comments' \in Seq(Comment) /\ Len(comments') = Len(comments) + 1
          /\ deleted' = deleted
      BY <2>4, PostedLast
    <3> QED BY <2>1, <3>1
  <2>5. CASE comments' = comments /\ deleted' = deleted
    BY <2>1, <2>5
  <2> QED BY <2>1, <2>2, <2>3, <2>4, <2>5
<1>3. record' \in RecordType
  <2>1. \/ record' \in {record, NoRecord}
        \/ record' = [record EXCEPT !.shown = TRUE]
        \/ record' = [pending |-> TRUE, mark |-> run.mark, shown |-> FALSE]
    BY DEF Next, Poll, List, Pick, PollEnds, Retry, RetryUnanswered, Process, StartComment,
           CliEnds, Check, AdjustEnds, Record, PostSummary, DeleteRecord, PostFailure, PostAbort,
           RunEnds, Tick, CheckFails, PostFails, Lands, UserComments, UserDeletes, UserAborts, Crash, Restart,
           PollUnchanged, Elsewhere, vars
  <2>2. record \in RecordType /\ run.mark \in Nat
    BY DEF RecordType, TypeOK
  <2>3. [record EXCEPT !.shown = TRUE] \in RecordType
    BY <2>2 DEF RecordType
  <2>4. [pending |-> TRUE, mark |-> run.mark, shown |-> FALSE] \in RecordType
    BY <2>2 DEF RecordType
  <2> QED BY <2>1, <2>2, <2>3, <2>4, Nothing
<1>4. poll' \in [listed : BOOLEAN, seen : SUBSET (1 .. Len(comments')), outdated : BOOLEAN]
  <2>0. /\ poll \in [listed : BOOLEAN, seen : SUBSET (1 .. Len(comments)), outdated : BOOLEAN]
        /\ 1 .. Len(comments) \subseteq 1 .. Len(comments')
    BY <1>2 DEF TypeOK
  <2>1. CASE List
    BY <2>0, <2>1 DEF List, Visible
  <2>2. CASE Outdated
    BY <2>0, <2>2 DEF Outdated
  <2>3. CASE poll' = poll
    BY <2>0, <2>3
  <2>4. CASE poll' = NoPoll
    BY <2>4 DEF NoPoll
  <2> QED
    BY <2>4, <2>1, <2>2, <2>3 DEF Next, Poll, Pick, PollEnds, Retry, RetryUnanswered, Process,
         StartComment, CliEnds, Check, AdjustEnds, Record, PostSummary, DeleteRecord, PostFailure,
         PostAbort, RunEnds, Tick, CheckFails, PostFails, Lands, UserComments, UserDeletes,
         UserAborts, Crash, Restart, agent, vars
<1>5. run' \in RunType
  <2>1. CASE \E s \in RunStep : Goto(s)
    BY <2>1, RunMoves
  <2>2. CASE run' \in {run, NoRun}
    BY <2>2, Nothing DEF TypeOK, RunType
  <2>3. CASE Pick
    BY <2>3, Nothing, NewestSeen, <1>0 DEF Pick, RunType
  <2>4. CASE CliEnds
    BY <1>0, <2>1, <2>4 DEF CliEnds, TypeOK, RunType
  <2>5. CASE Check
    <3>1. ASSUME run.rounds < MaxRounds, NEW n, n = run.rounds + 1,
                 run' = [run EXCEPT !.at = "adjust", !.rounds = n, !.known = Newest(Visible)]
          PROVE  run' \in RunType
      <4>1. n \in 0 .. MaxRounds /\ Newest(Visible) \in Nat
        BY <3>1, BoundsAreNat, NewestSeen DEF TypeOK
      <4> QED BY <1>0, <3>1, <4>1 DEF TypeOK, RunType
    <3> QED BY <1>0, <2>1, <2>5, <3>1 DEF Check
  <2>6. CASE AdjustEnds
    BY <1>0, <2>1, <2>6 DEF AdjustEnds, TypeOK, RunType
  <2> QED
    BY <1>0, <2>1, <2>2, <2>3, <2>4, <2>5, <2>6 DEF Next, Poll, List, PollEnds, Retry,
         RetryUnanswered, Process, StartComment, Record, PostSummary, DeleteRecord, PostFailure,
         PostAbort, RunEnds, Tick, CheckFails, PostFails, Lands, UserComments, UserDeletes, UserAborts, Crash,
         Restart, agent, vars
<1>6. late' \in Nat /\ up' \in BOOLEAN /\ misled' \in BOOLEAN
  <2>1. late' \in {late, late + 1} \/ (late > 0 /\ late' = late - 1)
    BY DEF Next, Poll, List, Pick, PollEnds, Retry, RetryUnanswered, Process, StartComment,
           CliEnds, Check, AdjustEnds, Record, PostSummary, DeleteRecord, PostFailure, PostAbort,
           RunEnds, Tick, CheckFails, PostFails, Lands, UserComments, UserDeletes, UserAborts, Crash, Restart,
           PollUnchanged, RunUnchanged, vars
  <2>2. up' \in {up, TRUE, FALSE}
    BY DEF Next, Poll, List, Pick, PollEnds, Retry, RetryUnanswered, Process, StartComment,
           CliEnds, Check, AdjustEnds, Record, PostSummary, DeleteRecord, PostFailure, PostAbort,
           RunEnds, Tick, CheckFails, PostFails, Lands, UserComments, UserDeletes, UserAborts, Crash, Restart,
           PollUnchanged, RunUnchanged, agent, vars
  <2>3. misled' = misled \/ misled' = (misled \/ poll.outdated)
    BY DEF Next, Poll, List, Pick, PollEnds, Retry, RetryUnanswered, Process, StartComment,
           CliEnds, Check, AdjustEnds, Record, PostSummary, DeleteRecord, PostFailure, PostAbort,
           RunEnds, Tick, CheckFails, PostFails, Lands, UserComments, UserDeletes, UserAborts, Crash, Restart,
           RunUnchanged, Elsewhere, history, vars
  <2>4. late' \in Nat
    BY <2>1 DEF TypeOK
  <2>5. up' \in BOOLEAN /\ misled' \in BOOLEAN
    BY Zenon, <2>2, <2>3 DEF TypeOK
  <2> QED BY <2>4, <2>5
<1>7. answered' \in SUBSET Nat
  <2>1. \A n \in Nat : UsersUpTo(n) \in SUBSET Nat
    BY DEF UsersUpTo, Users
  <2>2. run.used \in Nat /\ run.mark \in Nat
    BY DEF TypeOK
  <2>3. answered' \in {answered, answered \union UsersUpTo(run.used),
                       answered \union UsersUpTo(run.mark)}
    BY DEF Next, Poll, List, Pick, PollEnds, Retry, RetryUnanswered, Process, StartComment,
           CliEnds, Check, AdjustEnds, Record, PostSummary, DeleteRecord, PostFailure, PostAbort,
           RunEnds, Tick, CheckFails, PostFails, Lands, UserComments, UserDeletes, UserAborts, Crash,
           Restart, PollUnchanged, Elsewhere, history, vars
  <2> QED BY <2>1, <2>2, <2>3 DEF TypeOK
<1> QED
  BY <1>1, <1>2, <1>3, <1>4, <1>5, <1>6, <1>7 DEF TypeOK, RecordType, RunType

-----------------------------------------------------------------------------
(* What a step does to the comments *)

\* A step adds no answer: it leaves the comments alone, or a user deletes some of the
\* users', or a user or a note of the agent comes last.
QuietComments ==
    \/ /\ comments' = comments /\ deleted \subseteq deleted'
       /\ \A i \in deleted' \ deleted : comments[i].by = "user"
    \/ \E kind \in {"user", "note"} : Posted(kind, 0)

\* The first comments are what they were, but for those that are deleted.
PrefixKept ==
    /\ Len(comments) \in Nat /\ Len(comments') \in Nat /\ Len(comments) <= Len(comments')
    /\ \A i \in 1 .. Len(comments) : comments'[i] = comments[i]
    /\ deleted \subseteq deleted' /\ \A i \in deleted' : comments'[i].by = "user"
    /\ \A n \in Nat : n <= Len(comments) => UsersUpTo(n)' \subseteq UsersUpTo(n)

\* The comments only grow: what is known of the first ones holds on.
LEMMA CommentsGrow ==
    ASSUME TypeOK, TypeOK', Prefixes, QuietComments \/ \E m \in Nat : Posted("answer", m)
    PROVE  PrefixKept
<1>1. /\ Len(comments) \in Nat /\ Len(comments') \in Nat /\ Len(comments) <= Len(comments')
      /\ \A i \in 1 .. Len(comments) : comments'[i] = comments[i]
      /\ deleted \subseteq deleted'
  <2>1. CASE comments' = comments /\ deleted \subseteq deleted'
    BY <2>1, Lengths
  <2>2. ASSUME NEW kind \in {"user", "note", "answer"}, NEW m \in Nat, Posted(kind, m)
        PROVE  <1>1!1 /\ <1>1!2 /\ <1>1!3
    BY <2>2, PostedLast, Lengths
  <2> QED BY <2>1, <2>2 DEF QuietComments
<1>2. \A i \in deleted' : comments'[i].by = "user"
  <2>1. \A i \in deleted : i \in 1 .. Len(comments) /\ comments[i].by = "user"
    BY DEF TypeOK, Prefixes
  <2>2. ASSUME NEW i \in deleted' PROVE i \in deleted \/ comments'[i].by = "user"
    BY PostedLast DEF QuietComments
  <2> QED BY <1>1, <2>1, <2>2
<1>3. ASSUME NEW n \in Nat, n <= Len(comments) PROVE UsersUpTo(n)' \subseteq UsersUpTo(n)
  BY <1>1, <1>3 DEF Users, UsersUpTo
<1> QED BY <1>1, <1>2, <1>3 DEF PrefixKept

\* A list shows the same as long as it is not replaced.
LEMMA SeenKept ==
    ASSUME TypeOK, PrefixKept, poll' = poll
    PROVE  /\ Newest(poll.seen)' = Newest(poll.seen)
           /\ Users(poll.seen)' = Users(poll.seen)
           /\ PickupPending(poll.seen)' <=> PickupPending(poll.seen)
<1>1. poll.seen \in SUBSET (1 .. Len(comments)) /\ Len(comments) \in Nat
  BY DEF TypeOK, PrefixKept
<1>2. Newest(poll.seen)' = Newest(poll.seen)
  OBVIOUS
<1>3. Users(poll.seen)' = Users(poll.seen)
  BY <1>1 DEF Users, PrefixKept
<1>4. poll.seen = {} \/ comments'[Newest(poll.seen)] = comments[Newest(poll.seen)]
  BY <1>1, NewestIs DEF PrefixKept
<1>5. PickupPending(poll.seen)' <=> PickupPending(poll.seen)
  BY <1>2, <1>3, <1>4 DEF PickupPending
<1> QED BY <1>2, <1>3, <1>5

\* A user or a note adds nothing to the answers.
LEMMA QuietAnswers ==
    ASSUME TypeOK, QuietComments
    PROVE  Answers' = Answers /\ \A j \in Answers : comments'[j] = comments[j]
<1>1. CASE comments' = comments
  BY <1>1 DEF Answers
<1>2. ASSUME NEW kind \in {"user", "note"}, Posted(kind, 0)
      PROVE  Answers' = Answers /\ \A j \in Answers : comments'[j] = comments[j]
  <2>1. /\ Len(comments) \in Nat /\ Len(comments') = Len(comments) + 1
        /\ \A i \in 1 .. Len(comments) : comments'[i] = comments[i]
        /\ comments'[Len(comments) + 1].by # "answer"
    BY <1>2, PostedLast DEF TypeOK
  <2> QED BY <2>1 DEF Answers
<1> QED BY <1>1, <1>2 DEF QuietComments

\* An answer is added to the answers, in the last place.
LEMMA NewAnswer ==
    ASSUME TypeOK, NEW m \in Nat, Posted("answer", m)
    PROVE  /\ Len(comments) \in Nat /\ Len(comments') = Len(comments) + 1
           /\ Answers' = Answers \union {Len(comments) + 1}
           /\ comments'[Len(comments) + 1].mark = m
           /\ \A j \in Answers : comments'[j] = comments[j]
           /\ deleted' = deleted
<1>1. /\ Len(comments) \in Nat /\ Len(comments') = Len(comments) + 1
      /\ \A i \in 1 .. Len(comments) : comments'[i] = comments[i]
      /\ comments'[Len(comments) + 1].by = "answer"
      /\ comments'[Len(comments) + 1].mark = m /\ deleted' = deleted
  BY PostedLast, Lengths
<1> QED BY <1>1 DEF Answers

\* The types of what is compared with a watermark.
LEMMA MarksAreNat ==
    ASSUME TypeOK
    PROVE  /\ \A j \in Answers : j \in 1 .. Len(comments) /\ comments[j].mark \in Nat
           /\ Len(comments) \in Nat
           /\ record.mark \in Nat /\ run.mark \in Nat /\ run.known \in Nat
           /\ run.used \in Nat
           /\ \A i \in answered : i \in Nat
<1>1. \A j \in Answers : j \in 1 .. Len(comments) /\ comments[j] \in Comment
  BY DEF TypeOK, Answers
<1>2. \A j \in Answers : comments[j].mark \in Nat
  BY <1>1 DEF Comment
<1>3. /\ Len(comments) \in Nat
      /\ record.mark \in Nat /\ run.mark \in Nat /\ run.known \in Nat
      /\ run.used \in Nat
  BY DEF TypeOK
<1>4. \A i \in answered : i \in Nat
  BY DEF TypeOK
<1> QED BY <1>1, <1>2, <1>3, <1>4

\* What a step that posts no answer keeps of the answers, when it records nothing.
LEMMA QuietKeeps ==
    ASSUME Inv, TypeOK', QuietComments, UNCHANGED <<record, answered>>
    PROVE  MarksAnswered' /\ AnsweredIsCovered'
<1>1. TypeOK /\ PrefixKept /\ Answers' = Answers /\ \A j \in Answers : comments'[j] = comments[j]
  BY CommentsGrow, QuietAnswers DEF Inv
<1>2. MarksAnswered'
  <2>1. ASSUME NEW j \in Answers
        PROVE  comments'[j].mark < j /\ (UsersUpTo(comments[j].mark) \subseteq answered)'
    <3>1. /\ comments'[j] = comments[j] /\ comments[j].mark \in Nat
          /\ j \in 1 .. Len(comments) /\ comments[j].mark < j
          /\ UsersUpTo(comments[j].mark) \subseteq answered
      BY <1>1, MarksAreNat DEF Inv, MarksAnswered
    <3> QED BY <1>1, <3>1 DEF Users, UsersUpTo, PrefixKept
  <2>2. (UsersUpTo(record.mark) \subseteq answered)'
    <3>1. /\ record.mark \in Nat /\ record.mark <= Len(comments)
          /\ UsersUpTo(record.mark) \subseteq answered
      BY <1>1, MarksAreNat DEF Inv, Prefixes, MarksAnswered
    <3> QED BY <1>1, <3>1 DEF Users, UsersUpTo, PrefixKept
  <2> QED BY <1>1, <2>1, <2>2 DEF MarksAnswered
<1>5. AnsweredIsCovered'
  BY <1>1 DEF Inv, AnsweredIsCovered
<1> QED BY <1>2, <1>5

\* The run keeps its brief, or drops it, and its watermark does not go back.
RunGoesOn ==
    /\ run'.known <= Len(comments') /\ run'.mark <= run'.known
    /\ run'.at \in {"start", "cli"} => run'.known = run'.mark
    /\ run'.at \in {"check", "adjust", "record"} => run'.used = run'.mark
    /\ run'.at \in Briefed => run.at \in Briefed /\ run.mark <= run'.mark
    /\ run'.at \in {"post", "delete"} => run'.at = run.at
    /\ run'.at # "off" => up'

\* The list of a poll is outdated when a run ends.
PollGoesOn ==
    \/ poll' = poll /\ (run'.at = "off" => run.at = "off")
    \/ ~poll'.listed \/ poll'.outdated

\* The steps that answer and record nothing, and move the run and the poll on.
LEMMA QuietStep ==
    ASSUME Inv, TypeOK', QuietComments, UNCHANGED <<record, answered, misled>>,
           RunGoesOn, PollGoesOn
    PROVE  Inv'
<1> USE DEF RunGoesOn, PollGoesOn
<1>1. /\ TypeOK /\ PrefixKept /\ Answers' = Answers
      /\ \A j \in Answers : comments'[j] = comments[j]
      /\ MarksAnswered' /\ AnsweredIsCovered'
  BY CommentsGrow, QuietAnswers, QuietKeeps DEF Inv
<1>2. Prefixes' /\ MarkIsUsed'
  <2>1. record.mark \in Nat
    BY DEF TypeOK
  <2> QED BY <1>1, <2>1 DEF Inv, Prefixes, MarkIsUsed, PrefixKept
<1>3. OneDelivery'
  BY <1>1 DEF Inv, OneDelivery, Briefed
<1>4. ASSUME ~misled PROVE MarksGrow' /\ ListIsRight'
  <2>0. MarksGrow /\ ListIsRight
    BY <1>4 DEF Inv
  <2>1. MarksGrow'
    <3>1. run.mark \in Nat /\ run'.mark \in Nat /\ \A j \in Answers : comments[j].mark \in Nat
      BY <1>1, MarksAreNat DEF TypeOK
    <3> QED BY <1>1, <2>0, <3>1 DEF MarksGrow
  <2>2. ListIsRight'
    <3>1. CASE ~poll'.listed \/ poll'.outdated
      BY <3>1 DEF ListIsRight
    <3>2. CASE poll' = poll /\ (run'.at = "off" => run.at = "off")
      <4> QED BY <1>1, <2>0, <3>2, SeenKept DEF ListIsRight
    <3> QED BY <3>1, <3>2
  <2> QED BY <2>1, <2>2
<1> QED BY <1>1, <1>2, <1>3, <1>4 DEF Inv

\* The steps of the users and the process that neither answer nor record.
LEMMA QuietActions ==
    ASSUME Inv, TypeOK',
           \/ PollEnds \/ StartComment \/ CliEnds \/ Check \/ CheckFails \/ AdjustEnds
           \/ PostFails \/ PostAbort \/ RunEnds \/ Tick \/ Lands \/ UserComments
           \/ UserDeletes \/ UserAborts \/ Crash \/ Restart
    PROVE  Inv'
<1>0. /\ TypeOK /\ Prefixes /\ MarkIsUsed /\ OneDelivery
      /\ \A s \in RunStep : Goto(s) => run'.at = s /\ run'.known = run.known
                                       /\ run'.mark = run.mark /\ run'.used = run.used
      /\ {"cli", "check", "record", "failure", "end", "abort"} \subseteq RunStep
  BY RunMoves DEF Inv, RunStep
<1>1. QuietComments /\ UNCHANGED <<record, answered, misled>>
  BY DEF PollEnds, StartComment, CliEnds, Check, CheckFails, AdjustEnds, PostFails, PostAbort,
         RunEnds, Tick, Lands, UserComments, UserDeletes, UserAborts, Crash, Restart,
         PollUnchanged, RunUnchanged, Elsewhere, history, thread, QuietComments, Users
<1>2. PrefixKept
  BY <1>0, <1>1, CommentsGrow
<1>3. run.known <= Len(comments') /\ run.mark <= run.known
  <2>1. run.known \in Nat
    BY <1>0, MarksAreNat
  <2> QED BY <1>0, <1>2, <2>1 DEF Prefixes, PrefixKept
<1>4. CASE PollEnds \/ Tick \/ Lands \/ UserComments \/ UserDeletes \/ Restart
  <2>1. run' = run /\ (up => up') /\ poll' \in {poll, NoPoll}
    BY <1>4 DEF PollEnds, Tick, Lands, UserComments, UserDeletes, Restart, PollUnchanged, agent
  <2>2. RunGoesOn
    BY <1>0, <1>3, <2>1 DEF RunGoesOn, MarkIsUsed, OneDelivery, TypeOK
  <2>3. PollGoesOn
    BY <2>1, Nothing DEF PollGoesOn
  <2> QED BY <1>1, <2>2, <2>3, QuietStep
<1>5. CASE StartComment \/ CheckFails \/ PostFails \/ PostAbort \/ UserAborts
  <2>1. PICK s \in {"cli", "record", "end", "abort"} :
           /\ Goto(s) /\ (s = "record" => run.at = "check") /\ (s = "cli" => run.at = "start")
           /\ (s \in {"cli", "abort"} => run.at \in Briefed)
    BY <1>5 DEF StartComment, CheckFails, PostFails, PostAbort, UserAborts, At, Briefed
  <2>2. up /\ up' = up /\ poll' = poll
    BY <1>5 DEF StartComment, CheckFails, PostFails, PostAbort, UserAborts, At, RunUnchanged
  <2>3. /\ run'.at = s /\ run'.known = run.known /\ run'.mark = run.mark
        /\ run'.used = run.used
    BY <1>0, <2>1
  <2>4. RunGoesOn
    BY <1>0, <1>3, <2>1, <2>2, <2>3, MarksAreNat DEF RunGoesOn, MarkIsUsed, Briefed
  <2>5. PollGoesOn
    BY <2>2, <2>3 DEF PollGoesOn
  <2> QED BY <1>1, <2>4, <2>5, QuietStep
<1>6. CASE CliEnds
  <2>1. run.at = "cli" /\ up /\ up' = up /\ poll' = poll
    BY <1>6 DEF CliEnds, At, RunUnchanged
  <2>2. /\ run'.known = run.known /\ run'.mark = run.mark
        /\ \/ run'.at = "check" /\ run'.used = run.known
           \/ run'.at = "failure"
    BY <1>0, <1>6 DEF CliEnds, TypeOK
  <2>3. RunGoesOn
    BY <1>0, <1>3, <2>1, <2>2, MarksAreNat DEF RunGoesOn, MarkIsUsed, Briefed
  <2>4. PollGoesOn
    BY <2>1, <2>2 DEF PollGoesOn
  <2> QED BY <1>1, <2>3, <2>4, QuietStep
<1>7. CASE Check
  <2>1. run.at = "check" /\ up /\ up' = up /\ poll' = poll /\ comments' = comments
    BY <1>7 DEF Check, At, RunUnchanged, thread
  <2>2. /\ run'.mark = run.mark /\ run'.used = run.used
        /\ \/ run'.known = run.known
           \/ New # {} /\ run'.known = Newest(Visible)
        /\ run'.at \in {"adjust", "record"}
    BY <1>0, <1>7 DEF Check, TypeOK
  <2>3. New # {} => run.known <= Newest(Visible) /\ Newest(Visible) <= Len(comments)
    <3>1. \A i \in New : i \in Visible /\ i > run.known
      BY DEF New, Users
    <3>2. \A i \in Visible : i \in Nat
      BY <1>0, Lengths DEF Visible
    <3>3. \A i \in Visible : i <= Newest(Visible)
      BY <1>0, NewestSeen
    <3> QED BY <1>0, <3>1, <3>2, <3>3, NewestSeen, MarksAreNat
  <2>4. run'.known <= Len(comments') /\ run.known <= run'.known /\ run'.known \in Nat
    BY <1>0, <1>3, <2>1, <2>2, <2>3, NewestSeen, MarksAreNat
  <2>5. RunGoesOn
    BY <1>0, <1>3, <2>1, <2>2, <2>4, MarksAreNat DEF RunGoesOn, MarkIsUsed, Briefed
  <2>6. PollGoesOn
    BY <2>1, <2>2 DEF PollGoesOn
  <2> QED BY <1>1, <2>5, <2>6, QuietStep
<1>8. CASE AdjustEnds
  <2>1. run.at = "adjust" /\ up /\ up' = up /\ poll' = poll
    BY <1>8 DEF AdjustEnds, At, RunUnchanged
  <2>2. /\ run'.known = run.known
        /\ \/ run'.at = "check" /\ run'.used = run.known /\ run'.mark = run.known
           \/ run'.at = "record" /\ run'.used = run.used /\ run'.mark = run.mark
    BY <1>0, <1>8 DEF AdjustEnds, TypeOK
  <2>3. RunGoesOn
    BY <1>0, <1>3, <2>1, <2>2, MarksAreNat DEF RunGoesOn, MarkIsUsed, Briefed
  <2>4. PollGoesOn
    BY <2>1, <2>2 DEF PollGoesOn
  <2> QED BY <1>1, <2>3, <2>4, QuietStep
<1>9. CASE RunEnds \/ Crash
  <2>1. run' = NoRun /\ (poll' = NoPoll \/ Outdated)
    BY <1>9 DEF RunEnds, Crash
  <2>2. RunGoesOn
    BY <1>0, <1>2, <2>1, Nothing DEF RunGoesOn, Briefed, PrefixKept
  <2>3. PollGoesOn
    <3>1. CASE poll' = NoPoll
      BY <3>1, Nothing DEF PollGoesOn
    <3>2. CASE Outdated
      <4>1. poll'.outdated <=> poll'.listed
        BY <1>0, <3>2 DEF Outdated, TypeOK
      <4> QED BY <4>1 DEF PollGoesOn
    <3> QED BY <2>1, <3>1, <3>2
  <2> QED BY <1>1, <2>2, <2>3, QuietStep
<1> QED BY <1>4, <1>5, <1>6, <1>7, <1>8, <1>9

-----------------------------------------------------------------------------
(* Lists, picks and answers *)

\* What is known of the answers when one is posted with the watermark m.
LEMMA AnswerKeeps ==
    ASSUME Inv, TypeOK', NEW m \in Nat, Posted("answer", m), m <= Len(comments),
           answered \subseteq answered', UsersUpTo(m) \subseteq answered'
    PROVE  /\ \A j \in Answers' :
                comments'[j].mark < j /\ (UsersUpTo(comments[j].mark) \subseteq answered)'
           /\ MarksGrow /\ (\A j \in Answers : comments[j].mark <= m) =>
                \A j, k \in Answers' : j < k => comments'[j].mark <= comments'[k].mark
<1>1. /\ TypeOK /\ PrefixKept
      /\ Len(comments) \in Nat /\ Len(comments') = Len(comments) + 1
      /\ Answers' = Answers \union {Len(comments) + 1}
      /\ comments'[Len(comments) + 1].mark = m
      /\ \A j \in Answers : comments'[j] = comments[j]
      /\ \A j \in Answers : j \in 1 .. Len(comments) /\ comments[j].mark \in Nat
  BY CommentsGrow, NewAnswer, MarksAreNat DEF Inv
<1>2. ASSUME NEW j \in Answers'
      PROVE  comments'[j].mark < j /\ (UsersUpTo(comments[j].mark) \subseteq answered)'
  <2>1. CASE j \in Answers
    <3>1. /\ comments'[j] = comments[j] /\ comments[j].mark \in Nat
          /\ j \in 1 .. Len(comments) /\ comments[j].mark < j
          /\ UsersUpTo(comments[j].mark) \subseteq answered
      BY <1>1, <2>1 DEF Inv, MarksAnswered
    <3> QED BY <1>1, <3>1 DEF Users, UsersUpTo, PrefixKept
  <2>2. CASE j = Len(comments) + 1
    BY <1>1, <2>2 DEF Users, UsersUpTo, PrefixKept
  <2> QED BY <1>1, <2>1, <2>2
<1>3. ASSUME MarksGrow, \A j \in Answers : comments[j].mark <= m,
             NEW j \in Answers', NEW k \in Answers', j < k
      PROVE  comments'[j].mark <= comments'[k].mark
  BY <1>1, <1>3 DEF MarksGrow
<1> QED BY <1>2, <1>3

\* A list that makes the poll pick the task shows a comment nobody answered: the last
\* comment, or one after the last watermark, which is the highest.
LEMMA ListStep ==
    ASSUME Inv, TypeOK', List
    PROVE  Inv'
<1>1. /\ TypeOK /\ run' = run
      /\ UNCHANGED <<comments, deleted, record, up, answered, misled>>
      /\ poll'.seen = Visible
  BY DEF List, PollUnchanged, thread, Inv
<1>2. Prefixes' /\ MarkIsUsed' /\ OneDelivery' /\ MarksAnswered' /\ AnsweredIsCovered'
  BY <1>1, MarksAreNat DEF Inv, Prefixes, MarkIsUsed, OneDelivery, MarksAnswered,
                           AnsweredIsCovered, Answers, Users, UsersUpTo
<1>3. ASSUME ~misled PROVE MarksGrow' /\ ListIsRight'
  <2> DEFINE n == Newest(Visible)
  <2>1. MarksGrow'
    BY <1>1, <1>3 DEF Inv, MarksGrow, Answers
  <2>2. /\ n \in Nat /\ Visible \in SUBSET (1 .. Len(comments)) /\ Len(comments) \in Nat
        /\ \A i \in Visible : i <= n
        /\ Visible # {} => n \in Visible
    BY <1>1, NewestSeen, NewestIs, MarksAreNat DEF Visible
  <2> HIDE DEF n
  <2>3. \A j \in Answers : j \in Visible /\ j <= n /\ comments[j].mark < j
    BY <1>1, <2>2, MarksAreNat DEF Inv, MarksAnswered, Answers, Prefixes, Visible
  <2>4. \A j \in Answers : comments[j].mark <= n
    BY <1>1, <2>2, <2>3, MarksAreNat
  <2>5. ASSUME ~record.pending, PickupPending(Visible), Visible # {}
        PROVE  \E i \in Users(Visible) : i \notin answered
    <3>1. ASSUME NEW i \in answered PROVE \E j \in Answers : i <= comments[j].mark
      BY <2>5, <3>1 DEF Inv, AnsweredIsCovered
    <3>2. CASE comments[n].by = "user"
      <4>1. n \in Users(Visible)
        BY <2>2, <2>5, <3>2 DEF Users
      <4>2. \A j \in Answers : comments[j].mark < n
        BY <1>1, <2>2, <2>3, MarksAreNat
      <4>3. n \notin answered
        BY <1>1, <2>2, <3>1, <4>2, MarksAreNat
      <4> QED BY <4>1, <4>3
    <3>3. CASE comments[n].by # "user"
      <4>1. comments[n].by = "answer" /\ \E i \in Users(Visible) : i > comments[n].mark
        BY <2>5, <3>3 DEF PickupPending, n
      <4>2. PICK i \in Users(Visible) : i > comments[n].mark
        BY <4>1
      <4>3. n \in Answers
        BY <2>2, <2>5, <4>1 DEF Answers
      <4>4. \A j \in Answers : comments[j].mark <= comments[n].mark
        <5>1. \A j \in Answers : j = n \/ j < n
          BY <1>1, <2>2, <2>3, MarksAreNat
        <5> QED BY <1>1, <1>3, <4>3, <5>1, MarksAreNat DEF Inv, MarksGrow
      <4>5. i \in Nat
        BY <2>2, <4>2 DEF Users
      <4>6. i \notin answered
        BY <1>1, <3>1, <4>2, <4>3, <4>4, <4>5, MarksAreNat
      <4> QED BY <4>2, <4>6
    <3> QED BY <3>2, <3>3
  <2>6. ListIsRight'
    <3>1. /\ Newest(poll.seen)' = n /\ Users(poll.seen)' = Users(Visible)
          /\ PickupPending(poll.seen)' <=> PickupPending(Visible)
      BY <1>1 DEF n, Users, PickupPending
    <3> QED BY <1>1, <2>4, <2>5, <3>1 DEF ListIsRight, Answers
  <2> QED BY <2>1, <2>6
<1> QED BY <1>1, <1>2, <1>3 DEF Inv

\* A pick with a list that is not outdated takes a watermark above all of the answers.
LEMMA PickStep ==
    ASSUME Inv, TypeOK', Pick
    PROVE  Inv'
<1>1. /\ TypeOK /\ UNCHANGED <<comments, deleted, record, up, answered>>
      /\ up /\ run.at = "off" /\ ~record.pending /\ poll.listed /\ poll' = NoPoll
      /\ misled' = (misled \/ poll.outdated)
  BY DEF Pick, Candidate, PollUnchanged, thread, Inv
<1> DEFINE n == Newest(poll.seen)
<1>2. /\ run'.at = "start" /\ run'.known = n /\ run'.mark = n
      /\ n \in Nat /\ n <= Len(comments)
  BY <1>1, Nothing, NewestSeen DEF Pick, RunType
<1> HIDE DEF n
<1>3. Prefixes' /\ MarkIsUsed' /\ OneDelivery' /\ MarksAnswered' /\ AnsweredIsCovered'
  BY <1>1, <1>2, MarksAreNat
     DEF Inv, Prefixes, MarkIsUsed, OneDelivery, MarksAnswered, AnsweredIsCovered, Answers,
         Users, UsersUpTo
<1>4. ASSUME ~misled' PROVE MarksGrow' /\ ListIsRight'
  <2>1. \A j \in Answers : comments[j].mark <= n
    BY <1>1, <1>4 DEF Inv, ListIsRight, n
  <2> QED BY <1>1, <1>2, <1>4, <2>1 DEF Inv, MarksGrow, ListIsRight, Answers
<1> QED BY <1>3, <1>4 DEF Inv

\* A step that posts an answer: of the pending record, or of a run that failed.
LEMMA AnswerStep ==
    ASSUME Inv, TypeOK', NEW m \in Nat, Posted("answer", m), m <= Len(comments),
           answered \subseteq answered', answered' \subseteq answered \union UsersUpTo(m),
           UsersUpTo(m) \subseteq answered', misled' = misled,
           record.pending => record.mark = m,
           \/ ~record'.pending /\ ~record'.shown /\ record'.mark \in {0, record.mark}
           \/ record'.pending /\ record'.shown /\ record'.mark = m,
           run'.known = run.known, run'.mark = run.mark,
           run'.at \in {"off", "delete", "end"}, run'.at # "off" => up',
           run'.at = "delete" => record'.shown,
           run'.at = "off" => \/ ~poll'.listed \/ poll'.outdated
                              \/ run.at = "off" /\ poll' = poll /\ record.pending /\ record'.pending,
           ~misled => \A j \in Answers : comments[j].mark <= m
    PROVE  Inv'
<1>1. /\ TypeOK /\ PrefixKept
      /\ Len(comments) \in Nat /\ Len(comments') = Len(comments) + 1
      /\ Answers' = Answers \union {Len(comments) + 1}
      /\ comments'[Len(comments) + 1].mark = m
      /\ \A j \in Answers : comments'[j] = comments[j]
      /\ \A j \in Answers : j \in 1 .. Len(comments) /\ comments[j].mark \in Nat
      /\ record.mark \in Nat /\ run.mark \in Nat /\ run.known \in Nat
  BY CommentsGrow, NewAnswer, MarksAreNat DEF Inv
<1>2. Prefixes'
  BY <1>1 DEF Inv, Prefixes, PrefixKept
<1>3. MarkIsUsed'
  BY DEF MarkIsUsed
<1>4. MarksAnswered'
  <2>1. \A j \in Answers' : comments'[j].mark < j /\ (UsersUpTo(comments[j].mark) \subseteq answered)'
    BY AnswerKeeps
  <2>2. record'.mark \in {0, m, record.mark}
    OBVIOUS
  <2>3. /\ UsersUpTo(0) \subseteq answered' /\ UsersUpTo(record.mark) \subseteq answered'
        /\ record.mark <= Len(comments) /\ 0 <= Len(comments)
    BY <1>1 DEF Users, UsersUpTo, Inv, MarksAnswered, Prefixes
  <2>4. (UsersUpTo(record.mark) \subseteq answered)'
    BY <1>1, <2>2, <2>3 DEF Users, UsersUpTo, PrefixKept
  <2> QED BY <2>1, <2>4 DEF MarksAnswered
<1>5. OneDelivery'
  BY <1>1 DEF Inv, OneDelivery, Briefed
<1>6. AnsweredIsCovered'
  <2>1. Len(comments) + 1 \in Answers'
    BY <1>1
  <2>2. ASSUME NEW i \in answered' PROVE \E j \in Answers' : i <= comments'[j].mark
    <3>1. CASE i \in UsersUpTo(m)
      BY <1>1, <2>1, <3>1 DEF Users, UsersUpTo
    <3>2. CASE i \in answered
      BY <1>1, <2>1, <3>2 DEF Inv, AnsweredIsCovered
    <3> QED BY <3>1, <3>2
  <2> QED BY <2>2 DEF AnsweredIsCovered
<1>7. ASSUME ~misled PROVE MarksGrow' /\ ListIsRight'
  <2>1. MarksGrow /\ ListIsRight /\ \A j \in Answers : comments[j].mark <= m
    BY <1>7 DEF Inv
  <2>2. MarksGrow'
    <3>1. \A j, k \in Answers' : j < k => comments'[j].mark <= comments'[k].mark
      BY <2>1, AnswerKeeps
    <3> QED BY <3>1 DEF MarksGrow, Briefed
  <2>3. ListIsRight'
    <3>1. CASE run'.at # "off" \/ ~poll'.listed \/ poll'.outdated
      BY <3>1 DEF ListIsRight
    <3>2. CASE /\ run.at = "off" /\ poll' = poll /\ record.pending /\ record'.pending
               /\ poll.listed /\ ~poll.outdated
      BY <1>1, <2>1, <3>2 DEF ListIsRight
    <3> QED BY <3>1, <3>2
  <2> QED BY <2>2, <2>3
<1> QED BY <1>2, <1>3, <1>4, <1>5, <1>6, <1>7 DEF Inv

\* The four steps that may post an answer: twice the delivery of a record, the first
\* attempt at it, and the failure comment.
LEMMA PostingSteps ==
    ASSUME Inv, TypeOK',
           \/ (Retry /\ ~record.shown) \/ RetryUnanswered \/ PostSummary
           \/ PostFailure /\ comments' # comments
    PROVE  Inv'
<1>0. /\ TypeOK /\ Prefixes /\ MarksAnswered /\ OneDelivery /\ (~misled => MarksGrow)
      /\ record.mark \in Nat /\ run.mark \in Nat /\ run.known \in Nat /\ Len(comments) \in Nat
  BY MarksAreNat DEF Inv
<1>1. CASE Retry /\ ~record.shown
  <2>1. /\ record.pending /\ run.at = "off" /\ Posted("answer", record.mark)
        /\ record' = NoRecord /\ run' = run /\ Outdated
        /\ answered' = answered /\ misled' = misled
    BY <1>1 DEF Retry, history
  <2>2. poll'.outdated <=> poll'.listed
    BY <1>0, <2>1 DEF Outdated, TypeOK
  <2>3. /\ record.mark <= Len(comments) /\ UsersUpTo(record.mark) \subseteq answered
        /\ ~misled => \A j \in Answers : comments[j].mark <= record.mark
    BY <1>0, <1>1, <2>1 DEF Prefixes, MarksAnswered, MarksGrow
  <2> QED BY <1>0, <2>1, <2>2, <2>3, Nothing, AnswerStep
<1>2. CASE RetryUnanswered
  <2>1. /\ record.pending /\ ~record.shown /\ run.at = "off" /\ Posted("answer", record.mark)
        /\ record' = [record EXCEPT !.shown = TRUE] /\ run' = run /\ poll' = poll
        /\ answered' = answered /\ misled' = misled
    BY <1>2 DEF RetryUnanswered, history, agent
  <2>2. record'.pending /\ record'.shown /\ record'.mark = record.mark
    BY <1>0, <2>1 DEF TypeOK
  <2>3. /\ record.mark <= Len(comments) /\ UsersUpTo(record.mark) \subseteq answered
        /\ ~misled => \A j \in Answers : comments[j].mark <= record.mark
    BY <1>0, <2>1 DEF Prefixes, MarksAnswered, MarksGrow
  <2> QED BY <1>0, <2>1, <2>2, <2>3, AnswerStep
<1>3. CASE PostSummary
  <2>1. /\ run.at = "post" /\ up /\ up' = up /\ Posted("answer", record.mark)
        /\ record' = [record EXCEPT !.shown = TRUE] /\ (Goto("delete") \/ Goto("end"))
        /\ poll' = poll /\ answered' = answered /\ misled' = misled
    BY <1>3 DEF PostSummary, At, RunUnchanged
  <2>2. record.pending /\ ~record.shown
    BY <1>0, <2>1 DEF OneDelivery
  <2>3. record'.pending /\ record'.shown /\ record'.mark = record.mark
    BY <1>0, <2>1, <2>2 DEF TypeOK
  <2>4. /\ run'.at \in {"delete", "end"} /\ run'.known = run.known /\ run'.mark = run.mark
    BY <1>0, <2>1, RunMoves DEF RunStep
  <2>5. /\ record.mark <= Len(comments) /\ UsersUpTo(record.mark) \subseteq answered
        /\ ~misled => \A j \in Answers : comments[j].mark <= record.mark
    BY <1>0, <2>2 DEF Prefixes, MarksAnswered, MarksGrow
  <2> QED BY <1>0, <2>1, <2>2, <2>3, <2>4, <2>5, AnswerStep
<1>4. CASE PostFailure /\ comments' # comments
  <2>1. /\ run.at = "failure" /\ up /\ up' = up /\ Posted("answer", run.mark)
        /\ answered' = answered \union UsersUpTo(run.mark) /\ Goto("end")
        /\ record' = record /\ poll' = poll /\ misled' = misled
    BY <1>4 DEF PostFailure, At, RunUnchanged, thread
  <2>2. ~record.pending /\ ~record.shown
    BY <1>0, <2>1 DEF OneDelivery, Briefed
  <2>3. /\ run'.at = "end" /\ run'.known = run.known /\ run'.mark = run.mark
    BY <1>0, <2>1, RunMoves DEF RunStep
  <2>4. /\ run.mark <= Len(comments)
        /\ ~misled => \A j \in Answers : comments[j].mark <= run.mark
    BY <1>0, <2>1 DEF Prefixes, MarksGrow, Briefed
  <2> QED BY <1>0, <2>1, <2>2, <2>3, <2>4, AnswerStep
<1> QED BY <1>1, <1>2, <1>3, <1>4

\* The record is written with the watermark of the last execution, which its answers
\* do not exceed; and is deleted when an answer carries that watermark.
LEMMA RecordSteps ==
    ASSUME Inv, TypeOK',
           \/ Record \/ DeleteRecord \/ (Retry /\ record.shown)
           \/ PostFailure /\ comments' = comments
    PROVE  Inv'
<1>0. /\ TypeOK /\ Prefixes /\ MarkIsUsed /\ MarksAnswered /\ OneDelivery /\ AnsweredIsCovered
      /\ (~misled => MarksGrow)
      /\ record.mark \in Nat /\ run.mark \in Nat /\ run.known \in Nat /\ Len(comments) \in Nat
     
      /\ \A j \in Answers : comments[j].mark \in Nat
      /\ comments' = comments /\ deleted' = deleted /\ misled' = misled
  BY MarksAreNat DEF Inv, Record, DeleteRecord, Retry, PostFailure, Posted, RunUnchanged,
                     history, thread
<1>1. CASE Record
  <2>1. /\ run.at = "record" /\ up /\ up' = up /\ run.used = run.mark
        /\ record' = [pending |-> TRUE, mark |-> run.mark, shown |-> FALSE]
        /\ answered' = answered \union UsersUpTo(run.mark) /\ Goto("post") /\ poll' = poll
    BY <1>0, <1>1 DEF Record, At, RunUnchanged, MarkIsUsed
  <2>2. run'.at = "post" /\ run'.known = run.known /\ run'.mark = run.mark
    BY <1>0, <2>1, RunMoves DEF RunStep
  <2>3. record'.pending /\ record'.mark = run.mark /\ ~record'.shown /\ ~record.pending
    BY <1>0, <2>1 DEF OneDelivery, Briefed
  <2>4. Prefixes' /\ MarkIsUsed'
    BY <1>0, <2>1, <2>2, <2>3 DEF Prefixes, MarkIsUsed
  <2>5. MarksAnswered'
    BY <1>0, <2>1, <2>3 DEF MarksAnswered, Answers, Users, UsersUpTo
  <2>6. OneDelivery'
    BY <1>0, <2>1, <2>2, <2>3 DEF OneDelivery, Briefed
  <2>7. AnsweredIsCovered'
    BY <1>0, <2>1, <2>3 DEF AnsweredIsCovered, Answers, Users, UsersUpTo
  <2>8. ASSUME ~misled PROVE MarksGrow' /\ ListIsRight'
    BY <1>0, <2>1, <2>2, <2>3, <2>8 DEF MarksGrow, ListIsRight, Answers, Briefed
  <2> QED BY <1>0, <2>4, <2>5, <2>6, <2>7, <2>8 DEF Inv
<1>2. CASE DeleteRecord \/ (Retry /\ record.shown)
  <2>1. /\ record' = NoRecord /\ answered' = answered /\ record.shown
        /\ run'.at \in {"off", "end"} /\ run'.known = run.known /\ run'.mark = run.mark
        /\ run'.at = "end" => up'
        /\ run'.at = "off" => ~poll'.listed \/ poll'.outdated
    <3>1. CASE DeleteRecord
      BY <1>0, <3>1, RunMoves DEF DeleteRecord, At, RunUnchanged, OneDelivery, RunStep
    <3>2. CASE Retry /\ record.shown
      BY <1>0, <3>2 DEF Retry, history, Outdated, TypeOK
    <3> QED BY <1>2, <3>1, <3>2
  <2>2. Prefixes' /\ MarkIsUsed'
    BY <1>0, <2>1, Nothing DEF Prefixes, MarkIsUsed
  <2>3. MarksAnswered'
    BY <1>0, <2>1, Nothing DEF MarksAnswered, Answers, Users, UsersUpTo
  <2>4. OneDelivery'
    BY <1>0, <2>1, Nothing DEF OneDelivery, Briefed
  <2>5. AnsweredIsCovered'
    <3>1. PICK j \in Answers : comments[j].mark = record.mark
      BY <1>0, <2>1 DEF OneDelivery
    <3>2. \A i \in answered : \E k \in Answers : i <= comments[k].mark
      BY <1>0, <3>1 DEF AnsweredIsCovered
    <3> QED BY <1>0, <2>1, <3>2 DEF AnsweredIsCovered, Answers
  <2>6. ASSUME ~misled PROVE MarksGrow' /\ ListIsRight'
    BY <1>0, <2>1, <2>6, Nothing DEF MarksGrow, ListIsRight, Answers, Briefed
  <2> QED BY <1>0, <2>2, <2>3, <2>4, <2>5, <2>6 DEF Inv
<1>3. CASE PostFailure /\ comments' = comments
  <2>1. /\ run.at = "failure" /\ up /\ up' = up /\ Goto("end")
        /\ record' = record /\ poll' = poll /\ answered' = answered
    <3>1. ~Posted("answer", run.mark)
      BY <1>0, PostedLast
    <3> QED BY <1>3, <3>1 DEF PostFailure, At, RunUnchanged
  <2>2. run'.at = "end" /\ run'.known = run.known /\ run'.mark = run.mark
    BY <1>0, <2>1, RunMoves DEF RunStep
  <2>3. RunGoesOn /\ PollGoesOn /\ QuietComments
    BY <1>0, <2>1, <2>2 DEF RunGoesOn, PollGoesOn, QuietComments, Prefixes, Briefed
  <2> QED BY <1>0, <2>1, <2>3, QuietStep
<1> QED BY <1>1, <1>2, <1>3

-----------------------------------------------------------------------------
(* The theorems *)

\* Nothing is known and nothing answered at first.
LEMMA InvInit == Init => Inv
<1> SUFFICES ASSUME Init PROVE Inv
  OBVIOUS
<1>1. /\ comments = <<>> /\ deleted = {} /\ answered = {} /\ record = NoRecord /\ run = NoRun /\ poll = NoPoll
      /\ up = TRUE /\ misled = FALSE /\ late = 0 /\ faults = 0 /\ notes = 0
  BY DEF Init
<1>2. comments \in Seq(Comment) /\ Len(comments) = 0
  BY <1>1
<1>3. TypeOK
  <2>1. /\ late \in Nat /\ faults \in 0 .. MaxFaults /\ notes \in 0 .. MaxNotes
        /\ answered \in SUBSET Nat
    BY <1>1, BoundsAreNat
  <2>2. up \in BOOLEAN /\ misled \in BOOLEAN
    BY Zenon, <1>1
  <2>3. record \in RecordType /\ poll \in PollType /\ run \in RunType /\ deleted \in SUBSET (1 .. Len(comments))
    BY Zenon, <1>1, Nothing
  <2> QED BY Zenon, <1>2, <2>1, <2>2, <2>3 DEF TypeOK, RecordType, PollType, RunType
<1>4. Answers = {} /\ UsersUpTo(0) = {}
  BY <1>2 DEF Answers, Users, UsersUpTo
<1>5. Prefixes /\ MarkIsUsed /\ MarksAnswered /\ OneDelivery /\ AnsweredIsCovered
  BY <1>1, <1>2, <1>4, Nothing
     DEF Prefixes, MarkIsUsed, MarksAnswered, OneDelivery, AnsweredIsCovered, Briefed
<1>6. MarksGrow /\ ListIsRight
  BY <1>1, <1>4, Nothing DEF MarksGrow, ListIsRight
<1> QED BY <1>3, <1>5, <1>6 DEF Inv

\* Every step of the polls, the runs, the users and the process keeps the invariant.
LEMMA InvStep == Inv /\ [Next]_vars => Inv'
<1> SUFFICES ASSUME Inv, [Next]_vars PROVE Inv'
  OBVIOUS
<1>1. TypeOK'
  BY TypeStep DEF Inv
<1>2. CASE UNCHANGED vars
  BY <1>1, <1>2 DEF Inv, vars, thread, agent, history, bounds, Prefixes, MarkIsUsed,
       MarksAnswered, OneDelivery, AnsweredIsCovered, MarksGrow, ListIsRight, Answers, Users,
       UsersUpTo, PickupPending
<1>3. CASE List
  BY <1>1, <1>3, ListStep
<1>4. CASE Pick
  BY <1>1, <1>4, PickStep
<1>5. CASE Retry
  <2>1. CASE record.shown
    BY <1>1, <1>5, <2>1, RecordSteps
  <2>2. CASE ~record.shown
    BY <1>1, <1>5, <2>2, PostingSteps
  <2> QED BY <2>1, <2>2
<1>6. CASE PostFailure
  <2>1. CASE comments' = comments
    BY <1>1, <1>6, <2>1, RecordSteps
  <2>2. CASE comments' # comments
    BY <1>1, <1>6, <2>2, PostingSteps
  <2> QED BY <2>1, <2>2
<1>7. CASE RetryUnanswered \/ PostSummary
  BY <1>1, <1>7, PostingSteps
<1>8. CASE Record \/ DeleteRecord
  BY <1>1, <1>8, RecordSteps
<1> QED
  BY <1>1, <1>2, <1>3, <1>4, <1>5, <1>6, <1>7, <1>8, QuietActions DEF Next, Poll, Process

\* The invariant holds for any number of comments, rounds, notes, faults and crashes.
THEOREM Invariance == Spec => []Inv
<1> QED BY InvInit, InvStep, PTL DEF Spec

\* The types of the comments, the record, the polls and the runs, in every state.
THEOREM Typing == Spec => []TypeOK
<1>1. Inv => TypeOK
  BY DEF Inv
<1> QED BY <1>1, Invariance, PTL

\* No comment of a user that stays is forgotten (AnsweredOrPending): the watermark of
\* the last answer is one all comments up to which are answered or deleted.
THEOREM NoneForgotten == Spec => []AnsweredOrPending
<1>1. Inv => AnsweredOrPending
  <2> SUFFICES ASSUME Inv, ~Blind, ~PickupPending(Visible) PROVE AllAnswered
    BY DEF AnsweredOrPending
  <2> DEFINE n == Newest(Visible)
  <2>1. /\ Visible # {} /\ n \in Visible /\ n # 0
        /\ Visible \in SUBSET (1 .. Len(comments)) /\ Len(comments) \in Nat
    BY NewestIs, MarksAreNat DEF PickupPending, Visible, Inv
  <2>2. /\ comments[n].by \notin {"user", "note"}
        /\ comments[n].mark \in Visible \union {0}
        /\ ~(comments[n].by = "answer" /\ \E i \in Users(Visible) : i > comments[n].mark)
    BY <2>1 DEF PickupPending, Blind
  <2> HIDE DEF n
  <2>3. n \in Answers
    <3>1. comments[n] \in Comment
      BY <2>1 DEF Inv, TypeOK
    <3> QED BY <2>1, <2>2, <3>1 DEF Answers, Comment
  <2>4. \A i \in Users(Visible) : ~(i > comments[n].mark)
    BY <2>2, <2>3 DEF Answers
  <2>5. comments[n].mark \in Nat /\ UsersUpTo(comments[n].mark) \subseteq answered
    BY <2>3, MarksAreNat DEF Inv, MarksAnswered
  <2>6. Users(Visible) \subseteq UsersUpTo(comments[n].mark)
    BY <2>1, <2>4, <2>5 DEF Users, UsersUpTo, Visible
  <2> QED BY <2>5, <2>6 DEF AllAnswered
<1> QED BY <1>1, Invariance, PTL

\* Each batch of comments triggers one run (OneRunPerBatch): a pick with a list that is
\* not outdated is for a comment no run has answered.
THEOREM OneRun == Spec => OneRunPerBatch
<1>1. Inv /\ Pick /\ ~misled' => poll.seen = {} \/ ~(Users(poll.seen) \subseteq answered)
  BY DEF Pick, Candidate, Inv, ListIsRight
<1>2. Inv /\ [Next]_vars =>
        [Pick /\ ~misled' => poll.seen = {} \/ ~(Users(poll.seen) \subseteq answered)]_vars
  BY <1>1
<1> QED BY <1>2, Invariance, PTL DEF Spec, OneRunPerBatch

===============================================================================
