---------------------------- MODULE AgentActions ----------------------------
(***************************************************************************)
(* The rules of the agent actions file (src/agent/src/AgentActions.ts):    *)
(* which projects a pattern matches, when two patterns overlap, which      *)
(* files are accepted and which action owns a task.                        *)
(*                                                                         *)
(* A pattern or a project name is a sequence of characters.  An entry of   *)
(* the file keeps the fields the rules between entries speak about, with   *)
(* the absent ones as NoStatus, and the defaults, which no such rule       *)
(* reads, are left out; a file with an unknown field or a value of the     *)
(* wrong kind is Garbage, like one that is no YAML.                        *)
(***************************************************************************)
EXTENDS Integers, Sequences, SequencesExt

CONSTANT Projects    \* the names of the projects of Planner

Names == Seq(STRING)

ASSUME ProjectsAssumption == Projects \subseteq Names

Star == "*"
NoStatus == "none"

\* An entry without the statuses it may leave out, and a file.
Entry(project, trigger, start) ==
    [project |-> project, trigger |-> trigger, start |-> start, end |-> NoStatus,
     error |-> NoStatus, inProgress |-> NoStatus]
File(actions) == [kind |-> "file", actions |-> actions]
Garbage == [File(<<>>) EXCEPT !.kind = "garbage"]
Missing == [File(<<>>) EXCEPT !.kind = "missing"]

Entries == [project : Names, trigger : {"status", "comments"}, start : STRING, end : STRING,
            error : STRING, inProgress : STRING]
Files == [kind : {"file", "garbage", "missing"}, actions : Seq(Entries)]

-----------------------------------------------------------------------------
(* Project patterns *)

\* A point of the scan: position g of the pattern and v of the name.  The last star
\* seen (starG, -1 for none) is the only point to go back to: it swallows one more
\* character of the name, from starV <= v on.
At(g, v, starG, starV) == [g |-> g, v |-> v, starG |-> starG, starV |-> starV]
Points(pattern, name) ==
    {s \in [g : 0 .. Len(pattern), v : 0 .. Len(name),
            starG : -1 .. Len(pattern) - 1, starV : 0 .. Len(name)] : s.starV <= s.v}

\* matchProjectPattern: a greedy scan.
MatchProjectPattern(pattern, name) ==
    LET P == Len(pattern)
        V == Len(name)
        Scan[s \in Points(pattern, name)] ==
            IF s.v = V THEN \A k \in s.g + 1 .. P : pattern[k] = Star
            ELSE IF s.g < P /\ pattern[s.g + 1] = Star
            THEN Scan[At(s.g + 1, s.v, s.g, s.v)]
            ELSE IF s.g < P /\ pattern[s.g + 1] = name[s.v + 1]
            THEN Scan[At(s.g + 1, s.v + 1, s.starG, s.starV)]
            ELSE s.starG # -1 /\ Scan[At(s.starG + 1, s.starV + 1, s.starG, s.starV + 1)]
    IN pattern = <<>> \/ Scan[At(0, 0, -1, 0)]

\* Mutant of Moves: a star does not absorb what the other pattern consumes.
MovesTogether(p, q, s) ==
    LET i == s[1]
        j == s[2]
        star1 == i < Len(p) /\ p[i + 1] = Star
        star2 == j < Len(q) /\ q[j + 1] = Star
        both  == i < Len(p) /\ j < Len(q)
    IN {t \in {<<i + 1, j>>, <<i, j + 1>>, <<i + 1, j + 1>>} :
            \/ t = <<i + 1, j>> /\ star1
            \/ t = <<i, j + 1>> /\ star2
            \/ t = <<i + 1, j + 1>> /\ both /\ (star1 \/ star2 \/ p[i + 1] = q[j + 1])}

\* projectPatternsMayOverlap: a walk over the positions in both patterns.  A star
\* may match nothing, or absorb what the other pattern consumes.
Moves(p, q, s) ==
    LET i == s[1]
        j == s[2]
        star1 == i < Len(p) /\ p[i + 1] = Star
        star2 == j < Len(q) /\ q[j + 1] = Star
        both  == i < Len(p) /\ j < Len(q)
    IN {t \in {<<i + 1, j>>, <<i, j + 1>>, <<i + 1, j + 1>>} :
            \/ t = <<i + 1, j>> /\ (star1 \/ (both /\ star2))
            \/ t = <<i, j + 1>> /\ (star2 \/ (both /\ star1))
            \/ t = <<i + 1, j + 1>> /\ both /\ (star1 \/ star2 \/ p[i + 1] = q[j + 1])}

ProjectPatternsMayOverlap(p, q) ==
    LET Visited[n \in 0 .. Len(p) + Len(q)] ==
            IF n = 0 THEN {<<0, 0>>}
            ELSE Visited[n - 1] \union UNION {Moves(p, q, s) : s \in Visited[n - 1]}
    IN p = <<>> \/ q = <<>> \/ <<Len(p), Len(q)>> \in Visited[Len(p) + Len(q)]

-----------------------------------------------------------------------------
(* Which files are accepted, parseAgentActions *)

\* A comments action never moves its task, a pipeline action ends somewhere.
EntryValid(e) ==
    IF e.trigger = "comments"
    THEN e.end = NoStatus /\ e.error = NoStatus /\ e.inProgress = NoStatus
    ELSE e.end # NoStatus

Duplicates(e, f) == e.project = f.project /\ e.start = f.start /\ e.trigger = f.trigger

\* Two actions of different triggers share a start status and a project.  Only a
\* comments action listed first, with a pattern of its own, is accepted.
Competes(first, second) ==
    /\ first.trigger # second.trigger /\ first.start = second.start
    /\ ProjectPatternsMayOverlap(first.project, second.project)
    /\ ~(first.trigger = "comments" /\ first.project # second.project)

Valid(file) ==
    /\ file.kind = "file"
    /\ \A j \in 1 .. Len(file.actions) :
        /\ EntryValid(file.actions[j])
        /\ \A i \in 1 .. j - 1 : /\ ~Duplicates(file.actions[i], file.actions[j])
                               /\ ~Competes(file.actions[i], file.actions[j])

-----------------------------------------------------------------------------
(* Which action owns a task *)

MatchesAction(e, status, project) ==
    e.start = status /\ MatchProjectPattern(e.project, project)

\* taskScopeProjectIds: the projects whose tasks a poll lists.
Scope(actions) ==
    LET bound == {p \in Projects : \E i \in 1 .. Len(actions) :
                                      MatchProjectPattern(actions[i].project, p)}
    IN IF (\E i \in 1 .. Len(actions) : actions[i].project = <<>>) \/ bound = {}
       THEN Projects ELSE bound

\* pollOnce: the first action that matches claims the task (0: none does).
Owner(actions, status, project) ==
    IF project \in Scope(actions)
    THEN SelectInSeq(actions, LAMBDA e : MatchesAction(e, status, project))
    ELSE 0
=============================================================================
