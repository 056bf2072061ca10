---------------------------- MODULE HotReloadProofs ----------------------------
(***************************************************************************)
(* The agent keeps one note per project, the cached listing of skills is   *)
(* that of the disk, and the settings, timers and mirror keep their types, *)
(* for any settings, files, projects, repositories, reloads and faults.    *)
(***************************************************************************)
EXTENDS HotReload, TLAPS

-----------------------------------------------------------------------------
(* The note *)

NoteSteps == {"idle", "resolve", "generate", "find", "write"}

\* An update has its place in the running jobs to itself, and what it found of the
\* project's notes still holds when it writes.
NoteInv ==
    /\ notes \in [Projects -> Nat]
    /\ noteRun \in [at : NoteSteps, project : {noteRun.project}, found : BOOLEAN]
    /\ noteRun.at # "idle" => "note" \in running
    /\ noteRun.at \in {"generate", "find", "write"} => noteRun.project \in Projects
    /\ noteRun.at = "write" => (noteRun.found <=> notes[noteRun.project] > 0)
    /\ OneNote

\* No update of the note.
LEMMA NoNoteIdle ==
    /\ NoNote.at = "idle"
    /\ NoNote \in [at : NoteSteps, project : {NoNote.project}, found : BOOLEAN]
<1>1. NoNote = [at |-> "idle", project |-> Unset, found |-> FALSE] /\ "idle" \in NoteSteps
  BY DEF NoNote, NoteSteps
<1>2. NoNote.at = "idle" /\ NoNote.project = Unset
  BY <1>1
<1>3. NoNote \in [at : NoteSteps, project : {Unset}, found : BOOLEAN]
  BY <1>1
<1> QED BY <1>2, <1>3

\* An update of the note begins when no other is running.
LEMMA NoteBeginsKeeps ==
    ASSUME NoteInv, NEW settings, NoteBegins(settings)
    PROVE  NoteInv'
<1> DEFINE p == settings.project
<1>1. NoNote \in [at : NoteSteps, project : {Unset, p}, found : BOOLEAN]
  BY DEF NoNote, NoteSteps
<1>2. noteRun' = [NoNote EXCEPT !.at = "resolve", !.project = p]
  BY DEF NoteBegins
<1>3. /\ noteRun' \in [at : NoteSteps, project : {p}, found : BOOLEAN]
      /\ noteRun'.at = "resolve" /\ noteRun'.project = p
  BY <1>1, <1>2 DEF NoteSteps
<1>4. "note" \in running' /\ notes' = notes
  BY DEF NoteBegins
<1> HIDE DEF p
<1> QED BY <1>3, <1>4 DEF NoteInv, OneNote

\* A step that leaves the note alone, and its mark among the running jobs.
LEMMA NoteKept ==
    ASSUME NoteInv, UNCHANGED noteVars, "note" \in running => "note" \in running'
    PROVE  NoteInv'
BY DEF NoteInv, noteVars, OneNote

\* An update that ends, with the note written or not.
LEMMA NoteEnds ==
    ASSUME NoteInv, NEW failed, NoteSettles(failed),
           notes' = notes \/ (noteRun.at = "write" /\ notes' = Written)
    PROVE  NoteInv'
<1>1. /\ notes' \in [Projects -> Nat] /\ (\A p \in Projects : notes'[p] <= 1)
  <2>1. CASE notes' = notes
    BY <2>1 DEF NoteInv, OneNote
  <2>2. CASE noteRun.at = "write" /\ notes' = Written
    <3>1. noteRun.project \in Projects /\ (noteRun.found <=> notes[noteRun.project] > 0)
      BY <2>2 DEF NoteInv
    <3>2. notes \in [Projects -> Nat] /\ \A p \in Projects : notes[p] <= 1
      BY DEF NoteInv, OneNote
    <3>3. CASE noteRun.found
      BY <2>2, <3>2, <3>3 DEF Written
    <3>4. CASE ~noteRun.found
      BY <2>2, <3>1, <3>2, <3>4 DEF Written
    <3> QED BY <3>3, <3>4
  <2> QED BY <2>1, <2>2
<1>2. noteRun' = NoNote
  BY DEF NoteSettles
<1> QED BY <1>1, <1>2, NoNoteIdle DEF NoteInv, OneNote

\* Every step of the process keeps the notes single.
LEMMA NoteStep == NoteInv /\ [Next]_vars => NoteInv'
<1> SUFFICES ASSUME NoteInv, [Next]_vars PROVE NoteInv'
  OBVIOUS
<1>1. ASSUME NEW settings, NEW syncs, Apply(settings, syncs) PROVE NoteInv'
  <2>1. NoteBegins(settings) \/ UNCHANGED <<running, noteVars>>
    BY <1>1 DEF Apply
  <2> QED BY <2>1, NoteBeginsKeeps, NoteKept
<1>2. CASE TimersStart
  BY <1>1, <1>2 DEF TimersStart
<1>3. CASE \E i \in 1 .. Len(reads) : Reload(i)
  <2>1. PICK i \in 1 .. Len(reads) : Reload(i)
    BY <1>3
  <2>2. \/ Apply(Reloaded(config, reads[i]), configSyncEnabled)
        \/ UNCHANGED <<running, noteVars>>
    BY <2>1 DEF Reload
  <2> QED BY <1>1, <2>2, NoteKept
<1>4. CASE NoteTick
  BY <1>4, NoteBeginsKeeps DEF NoteTick
<1>5. CASE Resolve
  <2>1. CASE noteRun.project \in Projects
    BY <1>5, <2>1 DEF Resolve, NoteInv, NoteSteps, OneNote
  <2>2. CASE noteRun.project \notin Projects
    BY <1>5, <2>2, NoteEnds DEF Resolve
  <2> QED BY <2>1, <2>2
<1>6. CASE Generate
  BY <1>6 DEF Generate, NoteInv, NoteSteps, OneNote
<1>7. CASE Find
  <2>1. (notes[noteRun.project] > 0) \in BOOLEAN
    BY <1>7 DEF Find, NoteInv
  <2> QED BY <1>7, <2>1 DEF Find, NoteInv, NoteSteps, OneNote
<1>8. CASE Write
  BY <1>8, NoteEnds DEF Write
<1>9. CASE NoteFails
  BY <1>9, NoteEnds DEF NoteFails
<1>10. CASE \/ Change \/ Notice \/ Push \/ Start \/ ListBegins \/ ListDirs \/ ListFiles
            \/ \E i \in 1 .. Len(reads) : Read(i) \/ ReadFails(i)
  <2>1. UNCHANGED noteVars /\ running' = running
    BY <1>10 DEF Change, Notice, Push, Start, ListBegins, ListDirs, ListFiles, Read, ReadFails,
                 SkillsUnchanged
  <2> QED BY <2>1, NoteKept
<1>11. CASE SyncTick \/ Origin \/ RemoveClone \/ Clone \/ Fetch \/ Checkout \/ SyncFails
  <2>1. UNCHANGED noteVars /\ running' \in {running, running \union {"sync"}, running \ {"sync"}}
    BY <1>11 DEF SyncTick, Origin, RemoveClone, Clone, Fetch, Checkout, SyncFails,
                 SyncUnchanged, SyncGoes, SyncSettles, Settles
  <2>2. "note" # "sync"
    OBVIOUS
  <2> QED BY <2>1, <2>2, NoteKept
<1>12. CASE UNCHANGED vars
  BY <1>12, NoteKept DEF vars
<1> QED
  BY <1>2, <1>3, <1>4, <1>5, <1>6, <1>7, <1>8, <1>9, <1>10, <1>11, <1>12 DEF Next

\* No update runs at the start.
LEMMA InitNote == Init => NoteInv
<1> SUFFICES ASSUME Init PROVE NoteInv
  OBVIOUS
<1>1. noteRun = NoNote /\ notes = [p \in Projects |-> 0]
  BY DEF Init
<1>2. notes \in [Projects -> Nat] /\ \A p \in Projects : notes[p] <= 1
  BY <1>1
<1> QED BY <1>1, <1>2, NoNoteIdle DEF NoteInv, OneNote

\* The agent keeps one note per project (OneNote): an update reads the notes of its
\* project right before it writes, and no other update runs in between.
THEOREM NoteOnce == Spec => []OneNote
<1>1. NoteInv => OneNote
  BY DEF NoteInv
<1> QED BY <1>1, InitNote, NoteStep, PTL DEF Spec

-----------------------------------------------------------------------------
(* The listing of the skills *)

\* A listing is only begun with a directory to read, and what it has read of it is there
\* as long as no synchronisation is in progress: each forgets the listing when it ends.
ListingInv ==
    /\ slot = [at |-> slot.at, key |-> slot.key, dirs |-> slot.dirs, files |-> slot.files]
    /\ syncRun = [at |-> syncRun.at, repository |-> syncRun.repository, head |-> syncRun.head]
    /\ slot.at \in {"dirs", "files"} => slot.key # Unset
    /\ slot.at = "listed" /\ slot.key = Unset => slot.dirs = NoTree /\ slot.files = NoTree
    /\ syncRun.at = "idle" =>
         /\ slot.at = "files" => slot.dirs = disk.tree
         /\ slot.at = "listed" /\ slot.key # Unset =>
              slot.dirs = disk.tree /\ slot.files = disk.tree

\* A synchronisation that goes on, and has the listing as it was.
LEMMA SyncKeepsListing ==
    ASSUME ListingInv, slot' = slot,
           syncRun' = [at |-> syncRun'.at, repository |-> syncRun'.repository, head |-> syncRun'.head],
           syncRun'.at # "idle"
    PROVE  ListingInv'
BY DEF ListingInv

\* The end of a synchronisation leaves no listing.
LEMMA NoListing ==
    ASSUME slot' = NoSlot, syncRun' = NoSync
    PROVE  ListingInv'
BY DEF ListingInv, NoSlot, NoSync

\* Every step of the process keeps the listing right or forgets it.
LEMMA ListingStep == ListingInv /\ [Next]_vars => ListingInv'
<1> SUFFICES ASSUME ListingInv, [Next]_vars PROVE ListingInv'
  OBVIOUS
<1>1. CASE ListBegins
  BY <1>1 DEF ListBegins, ListingInv, SkillsUnchanged, NoSlot
<1>2. CASE ListDirs
  BY <1>2 DEF ListDirs, ListingInv, SkillsUnchanged
<1>3. CASE ListFiles
  BY <1>3 DEF ListFiles, ListingInv, SkillsUnchanged
<1>4. ASSUME slot' = slot, NEW at \in {"remove", "clone", "fetch", "checkout"},
             syncRun' = [syncRun EXCEPT !.at = at]
      PROVE  ListingInv'
  <2>1. syncRun' = [at |-> at, repository |-> syncRun.repository, head |-> syncRun.head]
    BY <1>4 DEF ListingInv
  <2> QED BY <1>4, <2>1, SyncKeepsListing
<1>5. CASE SyncTick \/ Start
  <2>1. /\ slot' = slot
        /\ \/ syncRun' = [NoSync EXCEPT !.at = "origin", !.repository = config.repository]
           \/ UNCHANGED <<syncRun, disk>>
    BY <1>5 DEF SyncTick, Start, syncVars
  <2>2. CASE syncRun' = [NoSync EXCEPT !.at = "origin", !.repository = config.repository]
    <3>1. syncRun' = [at |-> "origin", repository |-> config.repository, head |-> 0]
      BY <2>2 DEF NoSync
    <3> QED BY <2>1, <3>1, SyncKeepsListing
  <2>3. CASE UNCHANGED <<syncRun, disk>>
    BY <2>1, <2>3 DEF ListingInv
  <2> QED BY <2>1, <2>2, <2>3
<1>6. CASE Fetch
  <2>1. syncRun' = [at |-> "checkout", repository |-> syncRun.repository,
                    head |-> remote[syncRun.repository]]
    BY <1>6 DEF Fetch, ListingInv
  <2> QED BY <1>6, <2>1, SyncKeepsListing DEF Fetch
<1>7. CASE Origin \/ RemoveClone
  BY <1>4, <1>7 DEF Origin, RemoveClone, SyncGoes
<1>8. CASE Clone \/ Checkout
  BY <1>8, NoListing DEF Clone, Checkout, SyncSettles
<1>9. CASE SyncFails
  BY <1>4, <1>9, NoListing DEF SyncFails, SyncGoes, SyncSettles
<1>10. CASE \/ Change \/ Notice \/ Push \/ TimersStart
            \/ \E i \in 1 .. Len(reads) : Read(i) \/ ReadFails(i) \/ Reload(i)
            \/ NoteTick \/ Resolve \/ Generate \/ Find \/ Write \/ NoteFails
            \/ UNCHANGED vars
  <2>1. UNCHANGED syncVars
    BY <1>10 DEF Change, Notice, Push, TimersStart, Read, ReadFails, Reload, NoteTick, Resolve,
                 Generate, Find, Write, NoteFails, NoteUnchanged, vars
  <2> QED BY <2>1 DEF syncVars, ListingInv
<1> QED
  BY <1>1, <1>2, <1>3, <1>5, <1>6, <1>7, <1>8, <1>9, <1>10 DEF Next

\* The cached listing is that of the disk (CacheIsCurrent): a listing that reads while a
\* synchronisation writes is forgotten at its end, whether it succeeds or not.
THEOREM CacheRight == Spec => []CacheIsCurrent
<1>1. Init => ListingInv
  BY DEF Init, ListingInv, NoSlot, NoSync
<1>2. ListingInv => CacheIsCurrent
  BY DEF ListingInv, CacheIsCurrent
<1> QED BY <1>1, <1>2, ListingStep, PTL DEF Spec

-----------------------------------------------------------------------------
(* The types *)

\* A reload that ends leaves the others in the order they were.
LEMMA RemoveAtInSeq ==
    ASSUME NEW S, NEW s \in Seq(S), NEW i \in 1 .. Len(s)
    PROVE  RemoveAt(s, i) \in Seq(S)
<1>1. /\ SubSeq(s, 1, i - 1) \in Seq(S)
      /\ SubSeq(s, i + 1, Len(s)) \in Seq(S)
  OBVIOUS
<1> QED BY <1>1 DEF RemoveAt

\* The configuration file and the reloads of it.
FileTypes ==
    /\ file \in Files /\ unseen \in BOOLEAN /\ missed \in BOOLEAN
    /\ reads \in Seq(Files \union {Unset})
    /\ changes \in 0 .. MaxChanges /\ faults \in 0 .. MaxFaults

\* Every step keeps them, also reloads that overlap and end in any order.
LEMMA FileStep == FileTypes /\ [Next]_vars => FileTypes'
<1> SUFFICES ASSUME FileTypes, [Next]_vars PROVE FileTypes'
  OBVIOUS
<1>t. /\ file \in Files /\ unseen \in BOOLEAN /\ missed \in BOOLEAN
      /\ reads \in Seq(Files \union {Unset})
      /\ changes \in 0 .. MaxChanges /\ faults \in 0 .. MaxFaults
      /\ MaxChanges \in Nat /\ MaxFaults \in Nat
  BY HotReloadAssumption DEF FileTypes
<1>1. CASE Change
  BY <1>t, <1>1 DEF Change, FileTypes
<1>2. CASE Notice
  <2>1. missed' \in BOOLEAN /\ unseen' \in BOOLEAN
    BY <1>2 DEF Notice
  <2>2. reads' \in Seq(Files \union {Unset})
    BY <1>t, <1>2 DEF Notice
  <2> QED BY <1>t, <1>2, <2>1, <2>2 DEF Notice, FileTypes
<1>3. ASSUME NEW i \in 1 .. Len(reads), Read(i) PROVE FileTypes'
  <2>1. reads' \in Seq(Files \union {Unset})
    BY <1>t, <1>3 DEF Read
  <2> QED BY <1>t, <1>3, <2>1 DEF Read, FileTypes
<1>4. ASSUME NEW i \in 1 .. Len(reads), ReadFails(i) PROVE FileTypes'
  <2>1. missed' \in BOOLEAN
    BY <1>4 DEF ReadFails
  <2>2. reads' \in Seq(Files \union {Unset})
    BY <1>t, <1>4, RemoveAtInSeq DEF ReadFails
  <2>3. faults' \in 0 .. MaxFaults
    BY <1>t, <1>4 DEF ReadFails
  <2> QED BY <1>t, <1>4, <2>1, <2>2, <2>3 DEF ReadFails, FileTypes
<1>5. ASSUME NEW i \in 1 .. Len(reads), Reload(i) PROVE FileTypes'
  <2>1. missed' \in BOOLEAN
    BY <1>5 DEF Reload
  <2>2. reads' \in Seq(Files \union {Unset})
    BY <1>t, <1>5, RemoveAtInSeq DEF Reload
  <2> QED BY <1>t, <1>5, <2>1, <2>2 DEF Reload, FileTypes
<1>6. CASE SyncFails \/ NoteFails
  <2>1. UNCHANGED fileVars /\ faults < MaxFaults /\ faults' = faults + 1
    BY <1>6 DEF SyncFails, NoteFails, SyncUnchanged, NoteUnchanged
  <2>2. faults' \in 0 .. MaxFaults
    BY <1>t, <2>1
  <2> QED BY <2>1, <2>2 DEF FileTypes, fileVars
<1>7. CASE \/ Push \/ Start \/ TimersStart \/ ListBegins \/ ListDirs \/ ListFiles
           \/ NoteTick \/ Resolve \/ Generate \/ Find \/ Write
           \/ SyncTick \/ Origin \/ RemoveClone \/ Clone \/ Fetch \/ Checkout
           \/ UNCHANGED vars
  <2>1. UNCHANGED <<fileVars, faults>>
    BY <1>7 DEF Push, Start, TimersStart, ListBegins, ListDirs, ListFiles, NoteTick,
                Resolve, Generate, Find, Write, SyncTick, Origin, RemoveClone, Clone, Fetch,
                Checkout, SyncUnchanged, NoteUnchanged, SkillsUnchanged, vars
  <2> QED BY <2>1 DEF FileTypes, fileVars
<1> QED BY <1>1, <1>2, <1>3, <1>4, <1>5, <1>6, <1>7 DEF Next

\* The settings and the timers: the mirror is only synchronised when it was enabled, and
\* a repository that was configured is never given up, only replaced.
JobTypes ==
    /\ DOMAIN config = Keys /\ config.repository \in Repositories \union {Unset}
    /\ configSyncEnabled \in BOOLEAN
    /\ configSyncEnabled => config.repository # Unset
    /\ interval \in [Jobs -> 0 .. MaxDelay]
    /\ interval["sync"] > 0 => configSyncEnabled
    /\ running \in SUBSET Jobs

\* A reload of some settings, none of which it takes back.
LEMMA ReloadedTypes ==
    ASSUME NEW settings, settings.repository \in Repositories \union {Unset},
           NEW content \in Files \ {Garbage}
    PROVE  /\ DOMAIN Reloaded(settings, content) = Keys
           /\ Reloaded(settings, content).repository \in Repositories \union {Unset}
           /\ settings.repository # Unset => Reloaded(settings, content).repository # Unset
<1>1. /\ content.repository \in Repositories \union {Unset}
      /\ Environment.repository \in Repositories \union {Unset}
  BY HotReloadAssumption
<1>2. FromFile(settings, content).repository =
        IF content.repository # Unset THEN content.repository ELSE settings.repository
  BY DEF FromFile, Keys
<1>3. Reloaded(settings, content).repository =
        IF Environment.repository # Unset THEN Environment.repository
        ELSE FromFile(settings, content).repository
  BY DEF Reloaded, FromEnvironment, Keys
<1>4. DOMAIN Reloaded(settings, content) = Keys
  BY DEF Reloaded, FromEnvironment
<1> QED BY <1>1, <1>2, <1>3, <1>4

\* An interval is within its limit, and 0 for a job that is not enabled.
LEMMA NormalizedInRange ==
    ASSUME NEW enabled, NEW value, NEW fallback \in 1 .. MaxDelay
    PROVE  /\ Normalized(enabled, value, fallback) \in 0 .. MaxDelay
           /\ Normalized(enabled, value, fallback) > 0 => enabled
BY HotReloadAssumption DEF Normalized

\* Arming the timers gives each an interval.
LEMMA ApplyTypes ==
    ASSUME NEW settings, NEW syncs \in BOOLEAN, Apply(settings, syncs), running \in SUBSET Jobs
    PROVE  /\ interval' \in [Jobs -> 0 .. MaxDelay] /\ (interval'["sync"] > 0 => syncs)
           /\ running' \in SUBSET Jobs
<1> DEFINE note == Normalized(settings.project # Unset, settings.noteInterval, Defaults.noteInterval)
           sync == Normalized(syncs, settings.syncInterval, Defaults.syncInterval)
<1>1. /\ note \in 0 .. MaxDelay /\ sync \in 0 .. MaxDelay /\ (sync > 0 => syncs)
  BY HotReloadAssumption, NormalizedInRange
<1>2. /\ interval' = [j \in Jobs |-> IF j = "note" THEN note ELSE sync]
      /\ running' = running \/ running' = running \union {"note"}
  BY DEF Apply, NoteBegins
<1> HIDE DEF note, sync
<1>3. interval' \in [Jobs -> 0 .. MaxDelay] /\ interval'["sync"] = sync
  BY <1>1, <1>2 DEF Jobs
<1> QED BY <1>1, <1>2, <1>3 DEF Jobs

\* Every step keeps them.
LEMMA JobStep == FileTypes /\ JobTypes /\ [Next]_vars => JobTypes'
<1> SUFFICES ASSUME FileTypes, JobTypes, [Next]_vars PROVE JobTypes'
  OBVIOUS
<1>1. ASSUME NEW i \in 1 .. Len(reads), Reload(i) PROVE JobTypes'
  <2>1. CASE UNCHANGED <<config, interval, running>>
    BY <1>1, <2>1 DEF Reload, JobTypes
  <2>2. CASE /\ reads[i] \notin {Garbage, Unset}
             /\ config' = Reloaded(config, reads[i])
             /\ \/ Apply(Reloaded(config, reads[i]), configSyncEnabled)
                \/ UNCHANGED <<interval, running>>
    <3>1. reads[i] \in Files \ {Garbage}
      BY <2>2 DEF FileTypes
    <3>2. /\ DOMAIN config' = Keys
          /\ config'.repository \in Repositories \union {Unset}
          /\ config.repository # Unset => config'.repository # Unset
      BY <2>2, <3>1, ReloadedTypes DEF JobTypes
    <3>3. /\ interval' \in [Jobs -> 0 .. MaxDelay]
          /\ interval'["sync"] > 0 => configSyncEnabled
          /\ running' \in SUBSET Jobs
      BY <2>2, ApplyTypes DEF JobTypes
    <3> QED BY <1>1, <3>2, <3>3 DEF JobTypes, Reload
  <2> QED BY <1>1, <2>1, <2>2 DEF Reload
<1>2. CASE TimersStart
  <2>1. (config.repository # Unset) \in BOOLEAN
    OBVIOUS
  <2>2. /\ interval' \in [Jobs -> 0 .. MaxDelay]
        /\ interval'["sync"] > 0 => config.repository # Unset
        /\ running' \in SUBSET Jobs
    BY <1>2, <2>1, ApplyTypes DEF TimersStart, JobTypes
  <2> QED BY <1>2, <2>1, <2>2 DEF TimersStart, JobTypes
<1>3. CASE \/ NoteTick \/ Resolve \/ Write \/ NoteFails
           \/ SyncTick \/ Clone \/ Checkout \/ SyncFails
  <2>1. UNCHANGED <<config, configSyncEnabled, interval>>
    BY <1>3 DEF NoteTick, Resolve, Write, NoteFails, SyncTick, Clone, Checkout, SyncFails,
                SyncUnchanged, NoteUnchanged
  <2>2. \/ running' = running
        \/ \E j \in Jobs : running' = running \union {j} \/ running' = running \ {j}
    BY <1>3 DEF NoteTick, NoteBegins, Resolve, Write, NoteFails, NoteSettles, SyncTick, Clone,
                Checkout, SyncFails, SyncGoes, SyncSettles, Settles, Jobs
  <2> QED BY <2>1, <2>2 DEF JobTypes
<1>4. CASE \/ Change \/ Notice \/ Push \/ Start \/ Generate \/ Find
           \/ \E i \in 1 .. Len(reads) : Read(i) \/ ReadFails(i)
           \/ Origin \/ RemoveClone \/ Fetch \/ ListBegins \/ ListDirs \/ ListFiles
           \/ UNCHANGED vars
  <2>1. UNCHANGED <<config, configSyncEnabled, interval, running>>
    BY <1>4 DEF Change, Notice, Push, Start, Generate, Find, Read, ReadFails, Origin,
                RemoveClone, Fetch, ListBegins, ListDirs, ListFiles, SyncGoes, SyncUnchanged,
                NoteUnchanged, SkillsUnchanged, vars
  <2> QED BY <2>1 DEF JobTypes
<1> QED BY <1>1, <1>2, <1>3, <1>4 DEF Next

\* The mirror: a synchronisation knows its repository, and writes its revisions only.
SyncSteps == {"idle", "origin", "remove", "clone", "fetch", "checkout"}
MirrorTypes ==
    /\ phase \in {"starting", "cloning", "prepared", "up", "exited"}
    /\ syncRun = [at |-> syncRun.at, repository |-> syncRun.repository, head |-> syncRun.head]
    /\ syncRun.at \in SyncSteps /\ syncRun.head \in 0 .. MaxRevisions
    /\ syncRun.at # "idle" => syncRun.repository \in Repositories
    /\ disk.origin \in Repositories \union {Unset} /\ disk.tree \in Trees
    /\ remote \in [Repositories -> 0 .. MaxRevisions]
    /\ slot.at \in {"none", "dirs", "files", "listed"}

\* What a synchronisation leaves on the disk.
LEMMA TreesOfRepository ==
    ASSUME NEW r \in Repositories, NEW n \in 0 .. MaxRevisions
    PROVE  <<r, n>> \in Trees /\ Partial \in Trees /\ NoTree \in Trees
BY DEF Trees

\* A synchronisation that goes on at another step.
LEMMA SyncGoesTypes ==
    ASSUME MirrorTypes, NEW at \in SyncSteps, syncRun' = [syncRun EXCEPT !.at = at],
           syncRun.at # "idle", UNCHANGED <<phase, remote, slot>>,
           disk'.origin \in Repositories \union {Unset}, disk'.tree \in Trees
    PROVE  MirrorTypes'
<1>1. syncRun' = [at |-> at, repository |-> syncRun.repository, head |-> syncRun.head]
  BY DEF MirrorTypes
<1> QED BY <1>1 DEF MirrorTypes

\* A synchronisation that ends.
LEMMA SyncSettlesTypes ==
    ASSUME MirrorTypes, NEW failed, SyncSettles(failed), UNCHANGED remote,
           disk'.origin \in Repositories \union {Unset}, disk'.tree \in Trees
    PROVE  MirrorTypes'
<1>1. syncRun' = [at |-> "idle", repository |-> Unset, head |-> 0]
  BY DEF SyncSettles, NoSync
<1>2. phase' \in {phase, "exited", "prepared"} /\ slot'.at = "none"
  BY DEF SyncSettles, NoSlot
<1>3. 0 \in 0 .. MaxRevisions
  BY HotReloadAssumption
<1> QED BY <1>1, <1>2, <1>3 DEF MirrorTypes, SyncSteps

\* A synchronisation that begins, of the configured repository.
LEMMA SyncBeginsTypes ==
    ASSUME MirrorTypes, NEW r \in Repositories,
           syncRun' = [at |-> "origin", repository |-> r, head |-> 0],
           phase' \in {phase, "cloning"}, UNCHANGED <<disk, remote, slot>>
    PROVE  MirrorTypes'
<1>1. 0 \in 0 .. MaxRevisions
  BY HotReloadAssumption
<1>2. phase' \in {"starting", "cloning", "prepared", "up", "exited"}
  BY DEF MirrorTypes
<1> QED BY <1>1, <1>2 DEF MirrorTypes, SyncSteps

\* Every step keeps them, a step that fails half way included.
LEMMA MirrorStep == JobTypes /\ MirrorTypes /\ ListingInv /\ [Next]_vars => MirrorTypes'
<1> SUFFICES ASSUME JobTypes, MirrorTypes, ListingInv, [Next]_vars PROVE MirrorTypes'
  OBVIOUS
<1>t. /\ disk.origin \in Repositories \union {Unset} /\ disk.tree \in Trees
      /\ remote \in [Repositories -> 0 .. MaxRevisions]
      /\ syncRun.at # "idle" => syncRun.repository \in Repositories
      /\ syncRun.head \in 0 .. MaxRevisions /\ syncRun.at \in SyncSteps
  BY DEF MirrorTypes
<1>b. ASSUME syncRun' = [NoSync EXCEPT !.at = "origin", !.repository = config.repository],
             config.repository # Unset, phase' \in {phase, "cloning"},
             UNCHANGED <<disk, remote, slot>>
      PROVE  MirrorTypes'
  <2>1. syncRun' = [at |-> "origin", repository |-> config.repository, head |-> 0]
    BY <1>b DEF NoSync
  <2>2. config.repository \in Repositories
    BY <1>b DEF JobTypes
  <2> QED BY <1>b, <2>1, <2>2, SyncBeginsTypes
<1>1. CASE Start
  <2>1. CASE config.repository = Unset
    BY <1>1, <2>1 DEF Start, MirrorTypes
  <2>2. CASE config.repository # Unset
    BY <1>1, <1>b, <2>2 DEF Start
  <2> QED BY <2>1, <2>2
<1>2. CASE SyncTick
  <2>1. config.repository # Unset
    BY <1>2 DEF SyncTick, JobTypes
  <2> QED BY <1>2, <1>b, <2>1 DEF SyncTick
<1>3. CASE Origin
  BY <1>t, <1>3, SyncGoesTypes DEF Origin, SyncGoes, SyncUnchanged, SyncSteps
<1>4. CASE RemoveClone
  <2>1. disk'.origin = Unset /\ disk'.tree = NoTree /\ NoTree \in Trees
    BY <1>4 DEF RemoveClone, Empty, Trees
  <2> QED BY <1>t, <1>4, <2>1, SyncGoesTypes DEF RemoveClone, SyncGoes, SyncUnchanged, SyncSteps
<1>5. CASE Clone
  <2>1. /\ disk'.origin \in Repositories /\ disk'.tree \in Trees
    BY <1>t, <1>5, TreesOfRepository DEF Clone
  <2> QED BY <1>5, <2>1, SyncSettlesTypes DEF Clone, SyncUnchanged
<1>6. CASE Fetch
  <2>1. syncRun' = [at |-> "checkout", repository |-> syncRun.repository,
                    head |-> remote[syncRun.repository]]
    BY <1>6 DEF Fetch, MirrorTypes
  <2>2. remote[syncRun.repository] \in 0 .. MaxRevisions
    BY <1>t, <1>6 DEF Fetch
  <2> QED BY <1>t, <1>6, <2>1, <2>2 DEF Fetch, MirrorTypes, SyncUnchanged, SyncSteps
<1>7. CASE Checkout
  <2>1. disk'.origin = disk.origin /\ disk'.tree \in Trees
    BY <1>t, <1>7, TreesOfRepository DEF Checkout
  <2> QED BY <1>t, <1>7, <2>1, SyncSettlesTypes DEF Checkout, SyncUnchanged
<1>8. CASE SyncFails
  <2>1. syncRun.at # "idle" /\ UNCHANGED remote
    BY <1>8 DEF SyncFails, SyncUnchanged
  <2>2. CASE SyncGoes("remove") /\ UNCHANGED disk
    BY <1>t, <2>1, <2>2, SyncGoesTypes DEF SyncGoes, SyncSteps
  <2>3. CASE SyncSettles(TRUE) /\ UNCHANGED disk
    BY <1>t, <2>1, <2>3, SyncSettlesTypes
  <2>4. ASSUME SyncSettles(TRUE), syncRun.at # "origin", NEW o \in Origins[syncRun.at],
               disk' = [origin |-> o, tree |-> Partial]
        PROVE  MirrorTypes'
    <3>1. Origins[syncRun.at] \subseteq {disk.origin, Unset, syncRun.repository}
      BY <1>t, <2>1, <2>4 DEF Origins, SyncSteps
    <3>2. o \in Repositories \union {Unset} /\ Partial \in Trees
      BY <1>t, <2>1, <2>4, <3>1 DEF Trees
    <3> QED BY <2>1, <2>4, <3>2, SyncSettlesTypes
  <2> QED BY <1>8, <2>2, <2>3, <2>4 DEF SyncFails
<1>9. CASE Push
  <2>1. remote' \in [Repositories -> 0 .. MaxRevisions]
    <3>1. PICK r \in Repositories : /\ remote[r] < MaxRevisions
                                    /\ remote' = [remote EXCEPT ![r] = remote[r] + 1]
      BY <1>9 DEF Push
    <3>2. remote[r] + 1 \in 0 .. MaxRevisions
      BY <1>t, <3>1, HotReloadAssumption
    <3> QED BY <1>t, <3>1, <3>2
  <2> QED BY <1>9, <2>1 DEF Push, syncVars, MirrorTypes
<1>10. CASE ListBegins \/ ListDirs \/ ListFiles
  <2>1. UNCHANGED <<phase, syncRun, disk, remote>>
    BY <1>10 DEF ListBegins, ListDirs, ListFiles, SkillsUnchanged
  <2>2. slot'.at \in {"none", "dirs", "files", "listed"}
    BY <1>10 DEF ListBegins, ListDirs, ListFiles, NoSlot, ListingInv
  <2> QED BY <2>1, <2>2 DEF MirrorTypes
<1>11. CASE TimersStart
  BY <1>11 DEF TimersStart, syncVars, MirrorTypes
<1>12. CASE \/ Change \/ Notice
            \/ \E i \in 1 .. Len(reads) : Read(i) \/ ReadFails(i) \/ Reload(i)
            \/ NoteTick \/ Resolve \/ Generate \/ Find \/ Write \/ NoteFails
            \/ UNCHANGED vars
  <2>1. UNCHANGED <<phase, syncVars, remote>>
    BY <1>12 DEF Change, Notice, Read, ReadFails, Reload, NoteTick, Resolve, Generate, Find,
                 Write, NoteFails, NoteUnchanged, vars
  <2> QED BY <2>1 DEF syncVars, MirrorTypes
<1> QED BY <1>1, <1>2, <1>3, <1>4, <1>5, <1>6, <1>7, <1>8, <1>9, <1>10, <1>11, <1>12
        DEF Next

\* The settings, the timers, the mirror and its listing keep their types
\* (HotReload.TypeOK): an interval stays within its limit whatever the file says, and no
\* synchronisation begins without a repository.
THEOREM TypeCorrect == Spec => []TypeOK
<1> DEFINE I == FileTypes /\ JobTypes /\ MirrorTypes /\ ListingInv /\ NoteInv
<1>1. Init => I
  <2> SUFFICES ASSUME Init PROVE I
    OBVIOUS
  <2>1. FileTypes
    <3>1. 0 \in 0 .. MaxChanges /\ 0 \in 0 .. MaxFaults
      BY HotReloadAssumption
    <3>2. /\ file \in Files /\ unseen = FALSE /\ missed = FALSE /\ reads = <<>>
          /\ changes = 0 /\ faults = 0
      BY DEF Init
    <3>3. unseen \in BOOLEAN /\ missed \in BOOLEAN
      BY <3>2
    <3>4. reads \in Seq(Files \union {Unset})
      BY <3>2
    <3>5. changes \in 0 .. MaxChanges /\ faults \in 0 .. MaxFaults
      BY <3>1, <3>2
    <3> QED BY <3>2, <3>3, <3>4, <3>5 DEF FileTypes
  <2>2. JobTypes
    <3>1. Defaults.repository \in Repositories \union {Unset} /\ 0 \in 0 .. MaxDelay
      BY HotReloadAssumption
    <3>2. file \in Files \ {Garbage}
      BY DEF Init
    <3>3. DOMAIN config = Keys /\ config.repository \in Repositories \union {Unset}
      BY <3>1, <3>2, ReloadedTypes DEF Init
    <3>4. /\ configSyncEnabled = FALSE /\ running = {}
          /\ interval \in [Jobs -> 0 .. MaxDelay] /\ interval["sync"] = 0
      BY <3>1 DEF Init, Jobs
    <3>5. configSyncEnabled \in BOOLEAN /\ ~configSyncEnabled /\ running \in SUBSET Jobs
      BY <3>4
    <3>6. ~(interval["sync"] > 0)
      BY <3>4
    <3> QED BY <3>3, <3>4, <3>5, <3>6 DEF JobTypes
  <2>3. MirrorTypes
    <3>1. syncRun = [at |-> "idle", repository |-> Unset, head |-> 0] /\ slot.at = "none"
      BY DEF Init, NoSync, NoSlot
    <3>2. 0 \in 0 .. MaxRevisions
      BY HotReloadAssumption
    <3>3. disk.origin \in Repositories \union {Unset} /\ disk.tree \in Trees
      BY <3>2, TreesOfRepository DEF Init, Empty, Trees
    <3> QED BY <3>1, <3>2, <3>3 DEF Init, MirrorTypes, SyncSteps
  <2>4. ListingInv
    BY DEF Init, ListingInv, NoSlot, NoSync
  <2>5. NoteInv
    BY InitNote
  <2> QED BY <2>1, <2>2, <2>3, <2>4, <2>5
<1>2. I /\ [Next]_vars => I'
  BY FileStep, JobStep, MirrorStep, ListingStep, NoteStep
<1>3. I => TypeOK
  BY DEF FileTypes, JobTypes, MirrorTypes, NoteInv, NoteSteps, SyncSteps, TypeOK
<1> QED BY <1>1, <1>2, <1>3, PTL DEF Spec
===============================================================================
