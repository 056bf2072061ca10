------------------------- MODULE AgentActionsManager -------------------------
(***************************************************************************)
(* The live agent actions (src/agent/src/AgentActionsManager.ts): the file *)
(* is loaded at startup, watched, and reloaded on every change; a file     *)
(* that is missing or invalid leaves the last valid configuration alone.   *)
(*                                                                         *)
(* An action is the code between two awaits: the event of the watcher, the *)
(* moment the file is read and the moment its content is used.             *)
(***************************************************************************)
EXTENDS AgentActions

CONSTANTS
    Contents,     \* the contents the file may have at startup
    Edits,        \* the contents it may be changed to
    MaxChanges,   \* bound: changes of the file
    MaxFaults     \* bound: reads that fail

ASSUME ManagerAssumption ==
    /\ Contents \subseteq Files /\ Missing \in Contents /\ Edits \subseteq Contents
    /\ MaxChanges \in Nat /\ MaxFaults \in Nat

VARIABLES
    file,          \* the actions file
    unseen,        \* it changed since the watcher looked at it
    phase,         \* of the process
    config,        \* the live configuration
    lastContent,
    reading,       \* the reload in progress: where it is, and what it has read
    reloadPending,
    (* history *)
    early,         \* the file changed before the watcher first looked at it
    failed,        \* the last reload could not read the file
    changes, faults

history == <<early, failed>>
bounds  == <<changes, faults>>
vars == <<file, unseen, phase, config, lastContent, reading, reloadPending, history, bounds>>

Parsed(content) == content.actions
Idle == [at |-> "idle", content |-> Missing]

TypeOK ==
    /\ file \in Contents /\ unseen \in BOOLEAN
    /\ phase \in {"starting", "loaded", "watching", "exited"}
    /\ config = Parsed(Missing) \/ \E c \in Contents : config = Parsed(c) /\ Valid(c)
    /\ lastContent \in Contents
    /\ reading \in [at : {"idle", "started", "read", "failed"}, content : Contents]
    /\ reloadPending \in BOOLEAN
    /\ early \in BOOLEAN /\ failed \in BOOLEAN
    /\ changes \in 0 .. MaxChanges /\ faults \in 0 .. MaxFaults

Init ==
    /\ file \in Contents /\ unseen = FALSE
    /\ phase = "starting"
    /\ config = Parsed(Missing) /\ lastContent = Missing
    /\ reading = Idle /\ reloadPending = FALSE
    /\ early = FALSE /\ failed = FALSE
    /\ changes = 0 /\ faults = 0

\* load(): an invalid file ends the process, a missing one leaves no action.
Load ==
    /\ phase = "starting"
    /\ \/ /\ Valid(file) \/ file = Missing
          /\ config' = Parsed(file) /\ lastContent' = file
          /\ phase' = "loaded"
       \/ /\ ~Valid(file) /\ file # Missing
          /\ phase' = "exited"
          /\ UNCHANGED <<config, lastContent>>
    /\ UNCHANGED <<file, unseen, reading, reloadPending, history, bounds>>

\* start(): later changes are told from what the watcher sees first.
Watch ==
    /\ phase = "loaded" /\ phase' = "watching"
    /\ unseen' = FALSE /\ early' = unseen
    /\ UNCHANGED <<file, config, lastContent, reading, reloadPending, failed, bounds>>

-----------------------------------------------------------------------------
(* reload() *)

\* Mutant of Notice: a change during a reload is left to it.
NoticeOnce ==
    /\ phase = "watching" /\ unseen
    /\ unseen' = FALSE
    /\ reading' = IF reading.at = "idle" THEN [reading EXCEPT !.at = "started"] ELSE reading
    /\ UNCHANGED <<file, phase, config, lastContent, reloadPending, history, bounds>>

\* The watcher notices a change.
Notice ==
    /\ phase = "watching" /\ unseen
    /\ unseen' = FALSE
    /\ IF reading.at = "idle"
       THEN reading' = [reading EXCEPT !.at = "started"] /\ UNCHANGED reloadPending
       ELSE reloadPending' = TRUE /\ UNCHANGED reading
    /\ UNCHANGED <<file, phase, config, lastContent, history, bounds>>

Read ==
    /\ reading.at = "started"
    /\ reading' = [at |-> "read", content |-> file]
    /\ UNCHANGED <<file, unseen, phase, config, lastContent, reloadPending, history, bounds>>

ReadFails ==
    /\ reading.at = "started" /\ faults < MaxFaults
    /\ faults' = faults + 1
    /\ reading' = [reading EXCEPT !.at = "failed"]
    /\ UNCHANGED <<file, unseen, phase, config, lastContent, reloadPending, history, changes>>

\* Mutant of Use: an invalid content is applied as well.
UseUnchecked ==
    LET content == reading.content
        fresh == reading.at = "read" /\ content # Missing /\ content # lastContent
    IN /\ lastContent' = IF fresh THEN content ELSE lastContent
       /\ config' = IF fresh THEN Parsed(content) ELSE config

\* reloadOnce uses what it has read: a file that is missing, unreadable, unchanged
\* or invalid changes nothing.
Use ==
    LET content == reading.content
        fresh == reading.at = "read" /\ content # Missing /\ content # lastContent
    IN /\ lastContent' = IF fresh THEN content ELSE lastContent
       /\ config' = IF fresh /\ Valid(content) THEN Parsed(content) ELSE config

\* A change that came in between starts the next reload.
ReloadEnds ==
    /\ reading.at \in {"read", "failed"}
    /\ Use
    /\ reading' = IF reloadPending THEN [Idle EXCEPT !.at = "started"] ELSE Idle
    /\ reloadPending' = FALSE
    /\ failed' = (reading.at = "failed")
    /\ UNCHANGED <<file, unseen, phase, early, bounds>>

Change ==
    /\ changes < MaxChanges /\ changes' = changes + 1
    /\ \E c \in Edits \ {file} : file' = c
    /\ unseen' = (phase # "starting")
    /\ UNCHANGED <<phase, config, lastContent, reading, reloadPending, history, faults>>

Next == Load \/ Watch \/ Notice \/ Read \/ ReadFails \/ ReloadEnds \/ Change

\* The watcher goes on, and a file is read or not.
Fairness == WF_vars(Load) /\ WF_vars(Watch) /\ WF_vars(Notice) /\ WF_vars(Read) /\ WF_vars(ReloadEnds)

Spec == Init /\ [][Next]_vars /\ Fairness

-----------------------------------------------------------------------------
(* Properties *)

\* What a pattern means: a star stands for any sequence of characters.
Glob(p, name) ==
    LET G[s \in (1 .. Len(p) + 1) \X (1 .. Len(name) + 1)] ==
            LET i == s[1]
                j == s[2]
            IN IF i > Len(p) THEN j > Len(name)
               ELSE IF p[i] = Star THEN \E k \in j .. Len(name) + 1 : G[<<i + 1, k>>]
               ELSE j <= Len(name) /\ p[i] = name[j] /\ G[<<i + 1, j + 1>>]
    IN p = <<>> \/ G[<<1, 1>>]

\* No conversation is silently taken over (AgentActions.ts:441-450): when a
\* comments action applies to a task, an action of the comments mode owns it,
\* whatever the order, the patterns and the reloads of the file.
ConversationsHeard ==
    \A p \in Projects : \A i \in 1 .. Len(config) :
        LET e == config[i]
            owner == Owner(config, e.start, p)
        IN e.trigger = "comments" /\ Glob(e.project, p) =>
               owner # 0 /\ config[owner].trigger = "comments"

\* The last content wins: once the file stays as it is and it is valid, its actions
\* become and stay the live ones, although changes overlap with slow reads; unless
\* its last read failed or it changed before the watcher first looked.
LatestApplied ==
    <>[](phase = "exited" \/ ~Valid(file) \/ failed \/ early \/ config = Parsed(file))
===============================================================================
