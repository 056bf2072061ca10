------------------------------- MODULE HotReload -------------------------------
(***************************************************************************)
(* The configuration file and the two jobs it drives: Config.reload and    *)
(* its watcher (Config.ts, App.ts), the timers re-armed after every reload *)
(* (HotReloadTimers.ts), the update of the agent's note (AgentNote.ts),    *)
(* the mirror of the configuration repository (AgentConfigRepository.ts)   *)
(* and the cached listing of its skills (CoreSkills.ts).                   *)
(*                                                                         *)
(* Time is left out: an armed timer may go off at any moment. An action is *)
(* the code between two awaits. A file is a record of settings, or Garbage *)
(* when it is no JSON; branch and folder are part of what a revision is.   *)
(***************************************************************************)
EXTENDS Integers, Sequences, SequencesExt

CONSTANTS
    Unset,          \* a key the file or the environment does not give
    Garbage,        \* a file that cannot be parsed
    Files,          \* the contents the configuration file may have
    Environment,    \* the settings given by environment variables
    Projects,       \* the Planner projects the agent sees
    Repositories,   \* the Git repositories a configuration may name
    MaxDelay,       \* MAX_DELAY_SECONDS
    Defaults,       \* the built-in settings
    MaxChanges, MaxReads, MaxRevisions, MaxFaults    \* bounds

Jobs == {"note", "sync"}
Keys == {"project", "noteInterval", "repository", "syncInterval"}

ASSUME HotReloadAssumption ==
    /\ \A f \in (Files \ {Garbage}) \union {Environment, Defaults} :
         DOMAIN f = Keys /\ f.repository \in Repositories \union {Unset}
    /\ MaxDelay \in Nat
    /\ Defaults.noteInterval \in 1 .. MaxDelay /\ Defaults.syncInterval \in 1 .. MaxDelay
    /\ MaxChanges \in Nat /\ MaxReads \in Nat /\ MaxRevisions \in Nat /\ MaxFaults \in Nat

\* The content of the mirror: nothing, something half done, or a revision.
NoTree == <<Unset, 0>>
Partial == <<Unset, 1>>
Trees == Repositories \X (0 .. MaxRevisions) \union {NoTree, Partial}
Empty == [origin |-> Unset, tree |-> NoTree]

VARIABLES
    file, unseen,       \* the configuration file, and a change the watcher has yet to see
    reads,              \* the reloads in progress, oldest first: what each has read
    config,             \* the live settings
    phase,              \* of the process
    configSyncEnabled,  \* the repository was configured when the timers were made
    interval,           \* seconds between the runs of each job, 0 when its timer is off
    running,            \* the jobs whose last tick is in progress
    noteRun,            \* the update of the note: where it is and for which project
    notes,              \* number of the agent's notes in each project
    syncRun,            \* the synchronisation: where it is, its repository and what it fetched
    disk,               \* DATA_DIR/agent-config
    remote,             \* the revision of each repository
    slot,               \* availableSkillsCache: the listing it holds
    (* history *)
    missed,             \* the content of the file is not the last one applied
    changes, faults

fileVars == <<file, unseen, reads, missed, changes>>
noteVars == <<noteRun, notes>>
syncVars == <<syncRun, disk, slot>>
vars == <<fileVars, config, phase, configSyncEnabled, interval, running,
          noteVars, syncVars, remote, faults>>

NoNote == [at |-> "idle", project |-> Unset, found |-> FALSE]
NoSync == [at |-> "idle", repository |-> Unset, head |-> 0]
NoSlot == [at |-> "none", key |-> Unset, dirs |-> NoTree, files |-> NoTree]

\* reload(): the file first, then the environment. A key that is left out, and a falsy
\* value of most keys, leaves the setting as it is.
FromFile(settings, content) ==
    [k \in Keys |-> IF content[k] # Unset THEN content[k] ELSE settings[k]]
FromEnvironment(settings) ==
    [k \in Keys |-> IF Environment[k] # Unset THEN Environment[k] ELSE settings[k]]
Reloaded(settings, content) == FromEnvironment(FromFile(settings, content))

TypeOK ==
    /\ file \in Files /\ unseen \in BOOLEAN /\ missed \in BOOLEAN
    /\ \A i \in 1 .. Len(reads) : reads[i] \in Files \union {Unset}
    /\ DOMAIN config = Keys
    /\ phase \in {"starting", "cloning", "prepared", "up", "exited"}
    /\ configSyncEnabled \in BOOLEAN
    /\ interval \in [Jobs -> 0 .. MaxDelay] /\ running \in SUBSET Jobs
    /\ noteRun.at \in {"idle", "resolve", "generate", "find", "write"}
    /\ notes \in [Projects -> Nat]
    /\ syncRun.at \in {"idle", "origin", "remove", "clone", "fetch", "checkout"}
    /\ disk.origin \in Repositories \union {Unset}
    /\ disk.tree \in Trees
    /\ remote \in [Repositories -> 0 .. MaxRevisions]
    /\ slot.at \in {"none", "dirs", "files", "listed"}
    /\ changes \in 0 .. MaxChanges /\ faults \in 0 .. MaxFaults

\* The disk may hold what an earlier process left on it.
Init ==
    /\ file \in Files \ {Garbage} /\ unseen = FALSE /\ reads = <<>> /\ missed = FALSE
    /\ config = Reloaded(Defaults, file)
    /\ phase = "starting" /\ configSyncEnabled = FALSE
    /\ interval = [j \in Jobs |-> 0] /\ running = {}
    /\ noteRun = NoNote /\ notes = [p \in Projects |-> 0]
    /\ syncRun = NoSync /\ slot = NoSlot
    /\ disk \in {Empty} \union {[origin |-> r, tree |-> <<r, 0>>] : r \in Repositories}
    /\ remote = [r \in Repositories |-> 0]
    /\ changes = 0 /\ faults = 0

-----------------------------------------------------------------------------
(* HotReloadTimers *)

\* Mutant of Normalized: an invalid value is taken as it is.
NormalizedUnchecked(enabled, value, fallback) == IF enabled THEN value ELSE 0

\* normalize(): 0 turns a job off, an invalid value stands for the default.
Normalized(enabled, value, fallback) ==
    IF ~enabled \/ value = 0 THEN 0
    ELSE IF value \in 1 .. MaxDelay THEN value ELSE fallback

\* The runs that begin: of the note, and of the synchronisation.
NoteBegins(settings) ==
    /\ noteRun' = [NoNote EXCEPT !.at = "resolve", !.project = settings.project]
    /\ running' = running \union {"note"}
    /\ UNCHANGED notes

\* apply(): the intervals of the live settings; the note is updated at once when its
\* timer was off.
Apply(settings, syncs) ==
    LET note == Normalized(settings.project # Unset, settings.noteInterval, Defaults.noteInterval)
        sync == Normalized(syncs, settings.syncInterval, Defaults.syncInterval)
    IN /\ interval' = [j \in Jobs |-> IF j = "note" THEN note ELSE sync]
       /\ IF interval["note"] = 0 /\ note > 0 /\ "note" \notin running
          THEN NoteBegins(settings)
          ELSE UNCHANGED <<running, noteVars>>

\* Mutant of Settles: a run that fails is not taken off.
SettlesOnSuccess(job, failed) == running' = IF failed THEN running ELSE running \ {job}

\* tick(): a run is over, whether it failed or not.
Settles(job, failed) == running' = running \ {job}

NoteTick ==
    /\ interval["note"] > 0 /\ "note" \notin running
    /\ NoteBegins(config)
    /\ UNCHANGED <<fileVars, config, phase, configSyncEnabled, interval, syncVars, remote, faults>>

SyncTick ==
    /\ interval["sync"] > 0 /\ "sync" \notin running
    /\ running' = running \union {"sync"}
    /\ syncRun' = [NoSync EXCEPT !.at = "origin", !.repository = config.repository]
    /\ UNCHANGED <<fileVars, config, phase, configSyncEnabled, interval, noteVars, disk, slot,
                   remote, faults>>

-----------------------------------------------------------------------------
(* The configuration file, its watcher and Config.reload *)

Change ==
    /\ changes < MaxChanges /\ changes' = changes + 1
    /\ phase # "exited"
    /\ \E f \in Files \ {file} : file' = f
    /\ unseen' = TRUE
    /\ UNCHANGED <<reads, missed, config, phase, configSyncEnabled, interval, running,
                   noteVars, syncVars, remote, faults>>

\* Every change starts a reload, also while an earlier one is reading.
Notice ==
    /\ unseen /\ phase # "exited" /\ Len(reads) < MaxReads
    /\ unseen' = FALSE
    /\ reads' = Append(reads, Unset)
    /\ missed' = (missed /\ reads # <<>>)
    /\ UNCHANGED <<file, changes, config, phase, configSyncEnabled, interval, running,
                   noteVars, syncVars, remote, faults>>

Read(i) ==
    /\ phase # "exited" /\ reads[i] = Unset
    /\ reads' = [reads EXCEPT ![i] = file]
    /\ UNCHANGED <<file, unseen, missed, changes, config, phase, configSyncEnabled, interval,
                   running, noteVars, syncVars, remote, faults>>

\* A reload whose read fails changes nothing.
ReadFails(i) ==
    /\ phase # "exited" /\ reads[i] = Unset /\ faults < MaxFaults
    /\ faults' = faults + 1 /\ missed' = (missed \/ i = Len(reads))
    /\ reads' = RemoveAt(reads, i)
    /\ UNCHANGED <<file, unseen, changes, config, phase, configSyncEnabled, interval, running,
                   noteVars, syncVars, remote>>

\* The content read is applied, and the timers with it once they exist. Reloads that
\* overlap may end in any order.
Reload(i) ==
    /\ phase # "exited" /\ reads[i] # Unset
    /\ reads' = RemoveAt(reads, i)
    /\ missed' = (missed \/ i > 1)
    /\ IF reads[i] = Garbage
       THEN UNCHANGED <<config, interval, running, noteVars>>
       ELSE /\ config' = Reloaded(config, reads[i])
            /\ IF phase = "up" THEN Apply(Reloaded(config, reads[i]), configSyncEnabled)
               ELSE UNCHANGED <<interval, running, noteVars>>
    /\ UNCHANGED <<file, unseen, changes, phase, configSyncEnabled, syncVars, remote, faults>>

-----------------------------------------------------------------------------
(* Startup *)

\* The repository is cloned before anything else runs, when one is configured.
Start ==
    /\ phase = "starting"
    /\ IF config.repository = Unset
       THEN phase' = "prepared" /\ UNCHANGED syncRun
       ELSE /\ phase' = "cloning"
            /\ syncRun' = [NoSync EXCEPT !.at = "origin", !.repository = config.repository]
    /\ UNCHANGED <<fileVars, config, configSyncEnabled, interval, running, noteVars, disk, slot,
                   remote, faults>>

TimersStart ==
    /\ phase = "prepared" /\ phase' = "up"
    /\ configSyncEnabled' = (config.repository # Unset)
    /\ Apply(config, config.repository # Unset)
    /\ UNCHANGED <<fileVars, config, syncVars, remote, faults>>

-----------------------------------------------------------------------------
(* AgentConfigRepository.sync *)

\* Mutant of SyncSettles: the listing is forgotten only after a success.
SyncSettlesQuietly(failed) ==
    /\ syncRun' = NoSync
    /\ slot' = IF failed THEN slot ELSE NoSlot
    /\ Settles("sync", failed)
    /\ phase' = IF phase # "cloning" THEN phase ELSE IF failed THEN "exited" ELSE "prepared"

\* The end of a synchronisation: the listing of the skills is forgotten, and a failure
\* of the first clone ends the process.
SyncSettles(failed) ==
    /\ syncRun' = NoSync
    /\ slot' = NoSlot
    /\ Settles("sync", failed)
    /\ phase' = IF phase # "cloning" THEN phase ELSE IF failed THEN "exited" ELSE "prepared"

SyncGoes(at) ==
    /\ syncRun' = [syncRun EXCEPT !.at = at]
    /\ UNCHANGED <<slot, running, phase>>

SyncUnchanged == UNCHANGED <<fileVars, config, configSyncEnabled, interval, noteVars, remote>>

\* A clone of another repository, or none, is replaced; else it is brought up to date.
Origin ==
    /\ syncRun.at = "origin"
    /\ SyncGoes(IF disk.origin = syncRun.repository THEN "fetch" ELSE "remove")
    /\ SyncUnchanged /\ UNCHANGED <<disk, faults>>

RemoveClone ==
    /\ syncRun.at = "remove"
    /\ disk' = Empty
    /\ SyncGoes("clone")
    /\ SyncUnchanged /\ UNCHANGED faults

Clone ==
    /\ syncRun.at = "clone"
    /\ disk' = [origin |-> syncRun.repository,
                tree |-> <<syncRun.repository, remote[syncRun.repository]>>]
    /\ SyncSettles(FALSE)
    /\ SyncUnchanged /\ UNCHANGED faults

Fetch ==
    /\ syncRun.at = "fetch"
    /\ syncRun' = [syncRun EXCEPT !.at = "checkout", !.head = remote[syncRun.repository]]
    /\ UNCHANGED <<slot, running, phase>>
    /\ SyncUnchanged /\ UNCHANGED <<disk, faults>>

Checkout ==
    /\ syncRun.at = "checkout"
    /\ disk' = [disk EXCEPT !.tree = <<syncRun.repository, syncRun.head>>]
    /\ SyncSettles(FALSE)
    /\ SyncUnchanged /\ UNCHANGED faults

\* The origins a directory may have that a step left half done.
Origins == [remove   |-> {disk.origin, Unset},
            clone    |-> {Unset, syncRun.repository},
            fetch    |-> {},
            checkout |-> {disk.origin}]

\* A git command or a removal fails, or is killed at its timeout, half way or before
\* it did anything; an origin that cannot be read counts as none.
SyncFails ==
    /\ syncRun.at # "idle" /\ faults < MaxFaults
    /\ faults' = faults + 1
    /\ IF syncRun.at = "origin"
       THEN SyncGoes("remove") /\ UNCHANGED disk
       ELSE /\ \/ \E o \in Origins[syncRun.at] : disk' = [origin |-> o, tree |-> Partial]
               \/ UNCHANGED disk
            /\ SyncSettles(TRUE)
    /\ SyncUnchanged

Push ==
    /\ \E r \in Repositories :
         remote[r] < MaxRevisions /\ remote' = [remote EXCEPT ![r] = @ + 1]
    /\ phase # "exited"
    /\ UNCHANGED <<fileVars, config, phase, configSyncEnabled, interval, running, noteVars,
                   syncVars, faults>>

-----------------------------------------------------------------------------
(* CoreSkills: the listing of the synced skills, for the prompts of the tasks *)

SkillsUnchanged ==
    UNCHANGED <<fileVars, config, phase, configSyncEnabled, interval, running, noteVars,
                syncRun, disk, remote, faults>>

\* listAvailableSkills: another setting makes the cache miss, and the listing that
\* begins is cached at once.
ListBegins ==
    /\ phase = "up"
    /\ slot.at = "none" \/ slot.key # config.repository
    /\ slot' = [NoSlot EXCEPT !.at = IF config.repository = Unset THEN "listed" ELSE "dirs",
                              !.key = config.repository]
    /\ SkillsUnchanged

\* listSkillsInDir: the directory, then its files. A listing the cache has forgotten
\* reaches its own prompt only.
ListDirs ==
    /\ slot.at = "dirs" /\ phase # "exited"
    /\ slot' = [slot EXCEPT !.at = "files", !.dirs = disk.tree]
    /\ SkillsUnchanged

ListFiles ==
    /\ slot.at = "files" /\ phase # "exited"
    /\ slot' = [slot EXCEPT !.at = "listed", !.files = disk.tree]
    /\ SkillsUnchanged

-----------------------------------------------------------------------------
(* AgentNote.update *)

NoteUnchanged ==
    UNCHANGED <<fileVars, config, phase, configSyncEnabled, interval, syncVars, remote>>

NoteSettles(failed) == noteRun' = NoNote /\ Settles("note", failed)

\* The project is looked up, and a project the agent does not see fails the update.
Resolve ==
    /\ noteRun.at = "resolve"
    /\ IF noteRun.project \in Projects
       THEN noteRun' = [noteRun EXCEPT !.at = "generate"] /\ UNCHANGED running
       ELSE NoteSettles(TRUE)
    /\ NoteUnchanged /\ UNCHANGED <<notes, faults>>

Generate ==
    /\ noteRun.at = "generate"
    /\ noteRun' = [noteRun EXCEPT !.at = "find"]
    /\ NoteUnchanged /\ UNCHANGED <<notes, running, faults>>

\* Mutant of Find: the agent's note is never recognised.
FindNone ==
    /\ noteRun.at = "find"
    /\ noteRun' = [noteRun EXCEPT !.at = "write", !.found = FALSE]
    /\ NoteUnchanged /\ UNCHANGED <<notes, running, faults>>

\* The notes of the project are listed last, right before the write.
Find ==
    /\ noteRun.at = "find"
    /\ noteRun' = [noteRun EXCEPT !.at = "write", !.found = notes[noteRun.project] > 0]
    /\ NoteUnchanged /\ UNCHANGED <<notes, running, faults>>

Written == IF noteRun.found THEN notes ELSE [notes EXCEPT ![noteRun.project] = @ + 1]

Write ==
    /\ noteRun.at = "write"
    /\ notes' = Written
    /\ NoteSettles(FALSE)
    /\ NoteUnchanged /\ UNCHANGED faults

\* A request fails, the prompt fails or answers nothing, or the answer of the write is
\* lost.
NoteFails ==
    /\ noteRun.at # "idle" /\ phase # "exited" /\ faults < MaxFaults
    /\ faults' = faults + 1
    /\ \/ UNCHANGED notes
       \/ noteRun.at = "write" /\ notes' = Written
    /\ NoteSettles(TRUE)
    /\ NoteUnchanged

-----------------------------------------------------------------------------
Next ==
    \/ Change \/ Notice \/ Push
    \/ \E i \in 1 .. Len(reads) : Read(i) \/ ReadFails(i) \/ Reload(i)
    \/ Start \/ TimersStart
    \/ NoteTick \/ Resolve \/ Generate \/ Find \/ Write \/ NoteFails
    \/ SyncTick \/ Origin \/ RemoveClone \/ Clone \/ Fetch \/ Checkout \/ SyncFails
    \/ ListBegins \/ ListDirs \/ ListFiles

\* The watcher and the timers go on, and every request, command and read ends.
Fairness ==
    /\ WF_vars(Notice)
    /\ WF_vars(\E i \in 1 .. Len(reads) : Read(i) \/ Reload(i))
    /\ WF_vars(Start \/ TimersStart)
    /\ WF_vars(NoteTick \/ Resolve \/ Generate \/ Find \/ Write)
    /\ WF_vars(SyncTick \/ Origin \/ RemoveClone \/ Clone \/ Fetch \/ Checkout)

Spec == Init /\ [][Next]_vars /\ Fairness

-----------------------------------------------------------------------------
(* Properties *)

\* The cached listing is that of the disk (CoreSkills.ts:14-19): whatever a
\* synchronisation changed while the skills were listed, and whichever of its steps
\* failed, a complete listing that is still cached when none is in progress read the
\* directory and the files that are there now, for the repository it is used for.
CacheIsCurrent ==
    slot.at = "listed" /\ syncRun.at = "idle" =>
        LET tree == IF slot.key = Unset THEN NoTree ELSE disk.tree
        IN slot.dirs = tree /\ slot.files = tree

\* The agent keeps one note per project (README.md:523), although the answer of the
\* creation may be lost, updates fail and reloads begin one while another is running.
OneNote == \A p \in Projects : notes[p] <= 1

\* The jobs follow the file (README.md:28-29): once it stays, an enabled note is in its
\* project and the mirror is that of the repository and its last revision, and a job
\* turned off no longer runs; unless the last read failed or was overtaken.
JobsFollowFile ==
    <>[](phase = "exited" \/ file = Garbage \/ missed \/
         LET wanted == Reloaded(config, file)
             note == wanted.project # Unset /\ wanted.noteInterval # 0
             sync == configSyncEnabled /\ wanted.syncInterval # 0
         IN /\ note /\ wanted.project \in Projects => notes[wanted.project] > 0
            /\ ~note => "note" \notin running
            /\ sync => disk.tree = <<wanted.repository, remote[wanted.repository]>>
            /\ ~sync => "sync" \notin running)
===============================================================================
