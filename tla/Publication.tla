---------------------------- MODULE Publication -----------------------------
(***************************************************************************)
(* The publication transaction of pipeline.py: staging, publishing by      *)
(* rename with backups, verified recovery copies, commit, clean-up, the    *)
(* rollback of the process that fails, and the recovery of the orphan a    *)
(* dead process leaves.  Every step touches the file system once; between  *)
(* any two steps, and in the middle of the steps that are not atomic, the  *)
(* step may raise (Fail) or the process may die (Crash).                   *)
(*                                                                         *)
(* The locks of _publication_lock admit one publisher at a time, and every *)
(* run recovers what is pending before it begins, so one transaction       *)
(* directory exists at a time.                                             *)
(***************************************************************************)
EXTENDS PublicationTypes, Naturals

CONSTANT AllowOverwrite     \* whether runs may pass --overwrite-snapshot

ASSUME OverwriteType == AllowOverwrite \in BOOLEAN

VARIABLES
    target,         \* the published paths
    root,           \* the transaction directory .publication-* exists
    staged,         \* artifacts whose staged file is still in it
    manifest,       \* "state" of manifest.json, or "none"
    pre,            \* "artifacts": the targets when the transaction was made
    new,            \* "published": what it is to publish
    writes,         \* artifacts it stages ("restore_candidates" follows from it)
    progress,       \* "progress": the flags set per artifact
    journal,        \* cleanup.json exists
    quarantined,    \* quarantine.json exists
    litter,         \* an _atomic_write died and left its temporary file
    backupDir,      \* backups/ exists
    backup,         \* the files of backups/
    recoveryDir,    \* recovery/: "none", "bare" (no manifest), "copying" or "ready"
    recovery,       \* the files of recovery/
    pc,             \* the next step of the live process
    actor,          \* who runs it: "none", "publisher" or "recovery"
    todo            \* artifacts the current loop has left

disk == <<target, staged, backupDir, backup, recoveryDir, recovery>>
recorded == <<pre, new, writes>>
files == <<root, manifest, progress, journal, quarantined, litter>>
control == <<pc, actor, todo>>
vars == <<disk, recorded, files, control>>

Flag == {"backup_intent", "backed_up", "publish_intent", "published"}

\* States recovery rolls back.
UndoneState == {"prepared", "publishing", "verified", "committing",
                "rolling_back", "rolled_back"}
ManifestState == UndoneState \cup {"none", "committed", "cleaning"}

Step == {"idle", "prepare", "publishing", "artifact", "backup", "backed_up",
         "publish_intent", "publish", "published", "start_copies", "copy",
         "verified", "drop_backups", "committing", "commit", "finish",
         "cleaning", "journal", "verify_cleanup", "drop_payload",
         "drop_manifest", "drop_journal", "drop_root", "rollback", "select",
         "restore", "move", "clear_backups", "clear_recovery", "rolled_back",
         "discard", "recover"}

-----------------------------------------------------------------------------
(* Helpers *)

PublishRank == [a \in Artifact |-> CASE a = "report" -> 1 [] a = "snapshot" -> 2
                                     [] a = "index" -> 3 [] a = "styles" -> 4]

\* The artifact publish() and _prepare_recovery_copy() take next.
IsNext(a) == a \in todo /\ \A b \in todo : PublishRank[a] <= PublishRank[b]

\* The artifact a restore plan takes next: the publish order reversed.
IsNextToRestore(a) == a \in todo /\ \A b \in todo : PublishRank[b] <= PublishRank[a]

\* _artifact_matches for every artifact.
TargetsMatch(version) == target = version

\* (Mutant) only the report gets a recovery copy.
RestoreCandidateReportOnly(a) == a = "report" /\ pre[a] # Absent

\* "restore_candidates" of the manifest.
RestoreCandidate(a) == a # "snapshot" /\ a \in writes /\ pre[a] # Absent

\* The recovery manifest the process accepts: the publisher wants a finished one.
RecoveryUsable ==
    recoveryDir \in (IF actor = "publisher" THEN {"ready"} ELSE {"ready", "copying"})

\* A complete copy of the old content: the recovery copy first, then the backup.
Source(a) ==
    CASE RecoveryUsable /\ recovery[a] = pre[a] -> "recovery"
      [] ~(RecoveryUsable /\ recovery[a] = pre[a]) /\ backup[a] = pre[a] -> "backup"
      [] OTHER -> "none"

\* Whether the target has to be rebuilt from a copy.
NeedsRestore(a) ==
    IF actor = "publisher"
    THEN /\ pre[a] # Absent
         /\ progress[a] \cap {"backed_up", "published"} # {} \/ backup[a] # Absent
    ELSE /\ target[a] # pre[a]
         /\ RestoreCandidate(a)
         /\ progress[a] # {} \/ backup[a] # Absent

\* Whether a target that did not exist before has to be removed.
NeedsRemoval(a) ==
    /\ pre[a] = Absent
    /\ IF actor = "publisher"
       THEN "published" \in progress[a] \/ a \in writes \ staged
       ELSE target[a] # Absent /\ progress[a] # {}

\* A transaction directory without manifest or journal that holds staging only.
PayloadIsSafe == ~litter /\ ~backupDir /\ recoveryDir = "none"

-----------------------------------------------------------------------------
(* The publisher *)

Init ==
    /\ target \in [Artifact -> Version]
    /\ pre = NoCopies /\ new = NoCopies /\ writes = {} /\ staged = {}
    /\ root = FALSE /\ manifest = "none" /\ journal = FALSE
    /\ quarantined = FALSE /\ litter = FALSE
    /\ progress = [a \in Artifact |-> {}]
    /\ backupDir = FALSE /\ backup = NoCopies
    /\ recoveryDir = "none" /\ recovery = NoCopies
    /\ pc = "idle" /\ actor = "none" /\ todo = {}

\* (Mutant) the snapshot is staged whether or not one is frozen.
MayStageAnySnapshot == TRUE

\* A frozen snapshot is staged again only by a run that overwrites it.
MayStageSnapshot == target["snapshot"] = Absent \/ AllowOverwrite

\* mkdtemp and the staging of the payload: always a report and an index page, a
\* snapshot when the date has none, a stylesheet when the project ships one.
Begin ==
    /\ pc = "idle" /\ ~root
    /\ \E w \in SUBSET Artifact :
        /\ {"report", "index"} \subseteq w
        /\ target["snapshot"] = Absent => "snapshot" \in w
        /\ "snapshot" \in w => MayStageSnapshot
        /\ writes' = w /\ staged' = w
        /\ \E v \in [w -> Content] :
            new' = [a \in Artifact |-> IF a \in w THEN v[a] ELSE target[a]]
    /\ pre' = target
    /\ root' = TRUE
    /\ pc' = "prepare" /\ actor' = "publisher"
    /\ UNCHANGED <<target, backupDir, backup, recoveryDir, recovery, manifest,
                   progress, journal, quarantined, litter, todo>>

\* An _atomic_write of manifest.json that changes nothing but its state.
WriteManifest(state) ==
    /\ manifest' = state
    /\ UNCHANGED <<disk, recorded, root, progress, journal, quarantined, litter>>

\* An _atomic_write of manifest.json after setting a progress flag.
WriteProgress(a, flag) ==
    /\ manifest' = "publishing"
    /\ progress' = [progress EXCEPT ![a] = @ \cup {flag}]
    /\ UNCHANGED <<disk, recorded, root, journal, quarantined, litter>>

GoTo(step) == pc' = step /\ UNCHANGED <<actor, todo>>

Prepare == pc = "prepare" /\ WriteManifest("prepared") /\ GoTo("publishing")

StartPublishing ==
    /\ pc = "publishing"
    /\ manifest' = "publishing" /\ backupDir' = TRUE
    /\ pc' = "artifact" /\ todo' = writes
    /\ UNCHANGED <<target, staged, backup, recoveryDir, recovery, recorded, root,
                   progress, journal, quarantined, litter, actor>>

\* Existing reports, index pages and stylesheets are backed up; the snapshot is not.
MustBackUp(a) == a # "snapshot" /\ target[a] # Absent

BackupIntent(a) ==
    /\ pc = "artifact" /\ IsNext(a) /\ MustBackUp(a)
    /\ WriteProgress(a, "backup_intent")
    /\ GoTo("backup")

BackUp(a) ==
    /\ pc = "backup" /\ IsNext(a)
    /\ backup' = [backup EXCEPT ![a] = target[a]]
    /\ target' = [target EXCEPT ![a] = Absent]
    /\ GoTo("backed_up")
    /\ UNCHANGED <<staged, backupDir, recoveryDir, recovery, recorded, files>>

BackedUp(a) ==
    /\ pc = "backed_up" /\ IsNext(a)
    /\ WriteProgress(a, "backed_up")
    /\ GoTo("publish_intent")

PublishIntent(a) ==
    /\ IsNext(a)
    /\ pc = "publish_intent" \/ (pc = "artifact" /\ ~MustBackUp(a))
    /\ WriteProgress(a, "publish_intent")
    /\ GoTo("publish")

\* os.replace of the staged file over the target.
Publish(a) ==
    /\ pc = "publish" /\ IsNext(a)
    /\ target' = [target EXCEPT ![a] = new[a]]
    /\ staged' = staged \ {a}
    /\ GoTo("published")
    /\ UNCHANGED <<backupDir, backup, recoveryDir, recovery, recorded, files>>

Published(a) ==
    /\ pc = "published" /\ IsNext(a)
    /\ WriteProgress(a, "published")
    /\ pc' = "artifact" /\ todo' = todo \ {a}
    /\ UNCHANGED actor

\* complete(): every target matches, then recovery/ is created.
Verify ==
    /\ pc = "artifact" /\ todo = {}
    /\ TargetsMatch(new)
    /\ recoveryDir' = "bare"
    /\ GoTo("start_copies")
    /\ UNCHANGED <<target, staged, backupDir, backup, recovery, recorded, files>>

StartCopies ==
    /\ pc = "start_copies"
    /\ recoveryDir' = "copying"
    /\ pc' = "copy" /\ todo' = {a \in Artifact : RestoreCandidate(a)}
    /\ UNCHANGED <<target, staged, backupDir, backup, recovery, recorded, files, actor>>

CopyBackup(a) ==
    /\ pc = "copy" /\ IsNext(a)
    /\ backup[a] = pre[a]
    /\ recovery' = [recovery EXCEPT ![a] = backup[a]]
    /\ todo' = todo \ {a}
    /\ UNCHANGED <<target, staged, backupDir, backup, recoveryDir, recorded, files,
                   pc, actor>>

CopiesReady ==
    /\ pc = "copy" /\ todo = {}
    /\ recoveryDir' = "ready"
    /\ GoTo("verified")
    /\ UNCHANGED <<target, staged, backupDir, backup, recovery, recorded, files>>

MarkVerified == pc = "verified" /\ WriteManifest("verified") /\ GoTo("drop_backups")

\* rmtree of backups/, by complete() and by rollback().
RemoveBackups ==
    /\ backupDir' = FALSE /\ backup' = NoCopies
    /\ UNCHANGED <<target, staged, recoveryDir, recovery, recorded, files>>

DropBackups == pc = "drop_backups" /\ RemoveBackups /\ GoTo("committing")

\* Between DropBackups and MarkCommitting the staged cache writes are committed.
MarkCommitting ==
    pc = "committing" /\ WriteManifest("committing") /\ GoTo("commit")

Commit == pc = "commit" /\ WriteManifest("committed") /\ GoTo("finish")

\* _finished = True: from here no failure rolls back.
Finish == pc = "finish" /\ GoTo("cleaning") /\ UNCHANGED <<disk, recorded, files>>

MarkCleaning == pc = "cleaning" /\ WriteManifest("cleaning") /\ GoTo("journal")

WriteJournal ==
    /\ pc = "journal"
    /\ journal' = TRUE
    /\ GoTo("verify_cleanup")
    /\ UNCHANGED <<disk, recorded, root, manifest, progress, quarantined, litter>>

-----------------------------------------------------------------------------
(* Releasing a committed transaction, by the publisher or by recovery *)

VerifyCleanup ==
    /\ pc = "verify_cleanup"
    /\ TargetsMatch(new)
    /\ GoTo("drop_payload")
    /\ UNCHANGED <<disk, recorded, files>>

DropPayload ==
    /\ pc = "drop_payload"
    /\ recoveryDir' = "none" /\ recovery' = NoCopies
    /\ backupDir' = FALSE /\ backup' = NoCopies
    /\ staged' = {}
    /\ GoTo("drop_manifest")
    /\ UNCHANGED <<target, recorded, files>>

DropManifest ==
    pc = "drop_manifest" /\ WriteManifest("none") /\ GoTo("drop_journal")

DropJournal ==
    /\ pc = "drop_journal"
    /\ journal' = FALSE
    /\ GoTo("drop_root")
    /\ UNCHANGED <<disk, recorded, root, manifest, progress, quarantined, litter>>

\* The directory and everything recorded in it are gone.
ForgetTransaction ==
    /\ root' = FALSE /\ manifest' = "none" /\ journal' = FALSE
    /\ quarantined' = FALSE /\ litter' = FALSE
    /\ progress' = [a \in Artifact |-> {}]
    /\ pre' = NoCopies /\ new' = NoCopies /\ writes' = {} /\ staged' = {}
    /\ backupDir' = FALSE /\ backup' = NoCopies
    /\ recoveryDir' = "none" /\ recovery' = NoCopies
    /\ UNCHANGED target

GoIdle == pc' = "idle" /\ actor' = "none" /\ todo' = {}

DropRoot == pc = "drop_root" /\ ~litter /\ ForgetTransaction /\ GoIdle

-----------------------------------------------------------------------------
(* Restoring the old contents, by rollback() or by recovery *)

StartRollback == pc = "rollback" /\ WriteManifest("rolling_back") /\ GoTo("select")

\* Every target that needs a copy has a complete one.
SourcesComplete == \A a \in Artifact : NeedsRestore(a) => Source(a) # "none"

\* rollback() chooses every source before it touches a target.
SelectSources ==
    /\ pc = "select" /\ SourcesComplete
    /\ pc' = "restore" /\ todo' = Artifact
    /\ UNCHANGED <<disk, recorded, files, actor>>

\* Recovery skips what already matches, and refuses what it cannot explain.
MayKeep(a) == ~NeedsRestore(a) /\ ~NeedsRemoval(a)
              /\ (actor = "recovery" => target[a] = pre[a])

KeepTarget(a) ==
    /\ pc = "restore" /\ IsNextToRestore(a)
    /\ MayKeep(a)
    /\ todo' = todo \ {a}
    /\ UNCHANGED <<disk, recorded, files, pc, actor>>

MayClear(a) == NeedsRemoval(a) \/ (NeedsRestore(a) /\ Source(a) # "none")

\* The new content is removed; the report directory goes file by file.
ClearTarget(a) ==
    /\ pc = "restore" /\ IsNextToRestore(a)
    /\ MayClear(a)
    /\ target' = [target EXCEPT ![a] = Absent]
    /\ IF NeedsRemoval(a)
       THEN pc' = "restore" /\ todo' = todo \ {a}
       ELSE pc' = "move" /\ UNCHANGED todo
    /\ UNCHANGED <<staged, backupDir, backup, recoveryDir, recovery, recorded, files,
                   actor>>

\* os.replace of the chosen copy onto the target.
MoveSource(a) ==
    /\ pc = "move" /\ IsNextToRestore(a)
    /\ \/ /\ Source(a) = "recovery"
          /\ target' = [target EXCEPT ![a] = recovery[a]]
          /\ recovery' = [recovery EXCEPT ![a] = Absent]
          /\ UNCHANGED backup
       \/ /\ Source(a) = "backup"
          /\ target' = [target EXCEPT ![a] = backup[a]]
          /\ backup' = [backup EXCEPT ![a] = Absent]
          /\ UNCHANGED recovery
    /\ pc' = "restore" /\ todo' = todo \ {a}
    /\ UNCHANGED <<staged, backupDir, recoveryDir, recorded, files, actor>>

AllRestored ==
    /\ pc = "restore" /\ todo = {}
    /\ TargetsMatch(pre)
    /\ GoTo(IF actor = "publisher" THEN "clear_backups" ELSE "discard")
    /\ UNCHANGED <<disk, recorded, files>>

\* No complete source, or a target nothing explains: the orphan is retained.
RestoreRefused ==
    /\ \/ pc = "select" /\ ~SourcesComplete
       \/ pc = "restore" /\ \E a \in todo :
             IsNextToRestore(a) /\ ~MayKeep(a) /\ ~MayClear(a)
       \/ pc = "restore" /\ todo = {} /\ ~TargetsMatch(pre)
    /\ GoIdle
    /\ UNCHANGED <<disk, recorded, files>>

ClearBackups == pc = "clear_backups" /\ RemoveBackups /\ GoTo("clear_recovery")

ClearRecovery ==
    /\ pc = "clear_recovery"
    /\ recoveryDir' = "none" /\ recovery' = NoCopies
    /\ GoTo("rolled_back")
    /\ UNCHANGED <<target, staged, backupDir, backup, recorded, files>>

MarkRolledBack ==
    pc = "rolled_back" /\ WriteManifest("rolled_back") /\ GoTo("discard")

Discard == pc = "discard" /\ ForgetTransaction /\ GoIdle

-----------------------------------------------------------------------------
(* The next run: _recover_pending_publications *)

StartRecovery ==
    /\ pc = "idle" /\ root
    /\ pc' = "recover" /\ actor' = "recovery"
    /\ UNCHANGED <<disk, recorded, files, todo>>

\* A transaction that never reached its commit is rolled back.
RecoverBackward ==
    /\ pc = "recover" /\ manifest \in UndoneState /\ ~litter
    /\ manifest' = "rolling_back"
    /\ IF recoveryDir = "bare"
       THEN GoIdle
       ELSE pc' = "restore" /\ todo' = Artifact /\ UNCHANGED actor
    /\ UNCHANGED <<disk, recorded, root, progress, journal, quarantined, litter>>

\* (Mutant) a clean-up whose manifest is already gone is not resumed.
MayReleaseWithManifest ==
    \/ manifest = "committed" /\ ~litter /\ ~backupDir /\ TargetsMatch(new)
    \/ manifest = "cleaning" /\ ~litter

\* A committed transaction without backups is released.
MayRelease ==
    \/ manifest = "committed" /\ ~litter /\ ~backupDir /\ TargetsMatch(new)
    \/ manifest = "cleaning" /\ ~litter
    \/ manifest = "none" /\ journal

RecoverForward ==
    /\ pc = "recover" /\ MayRelease
    /\ journal' = TRUE
    /\ GoTo("verify_cleanup")
    /\ UNCHANGED <<disk, recorded, root, manifest, progress, quarantined, litter>>

Unrecorded == manifest = "none" /\ ~journal

RecoverUnrecorded ==
    /\ pc = "recover" /\ Unrecorded /\ ~quarantined /\ PayloadIsSafe
    /\ GoTo("discard")
    /\ UNCHANGED <<disk, recorded, files>>

Quarantine ==
    /\ pc = "recover" /\ Unrecorded /\ ~quarantined /\ ~PayloadIsSafe
    /\ quarantined' = TRUE
    /\ GoIdle
    /\ UNCHANGED <<disk, recorded, root, manifest, progress, journal, litter>>

\* PublicationRollbackError: the run stops and the orphan stays.
Refuse ==
    /\ pc = "recover"
    /\ ~MayRelease
    /\ \/ manifest # "none" /\ litter
       \/ manifest \notin UndoneState /\ ~Unrecorded
       \/ Unrecorded /\ quarantined
    /\ GoIdle
    /\ UNCHANGED <<disk, recorded, files>>

-----------------------------------------------------------------------------
(* Failures and crashes *)

\* What an interrupted rmtree can leave of a set of copies.
Eroded(copies) ==
    {[a \in Artifact |-> IF a \notin kept THEN Absent
                         ELSE IF a \in torn THEN Partial ELSE copies[a]] :
        kept \in SUBSET {a \in Artifact : copies[a] # Absent}, torn \in SUBSET {"report"}}

Unchanged == UNCHANGED disk

\* The effect of a step that stops before it is complete.
BackupsEroded ==
    /\ pc \in {"drop_backups", "clear_backups"}
    /\ backup' \in Eroded(backup)
    /\ UNCHANGED <<target, staged, backupDir, recoveryDir, recovery>>

RecoveryEroded ==
    /\ pc \in {"clear_recovery", "drop_payload"}
    /\ recovery' \in Eroded(recovery)
    /\ recoveryDir' \in {recoveryDir, "bare"}
    /\ recoveryDir = "none" => recoveryDir' = "none"
    /\ UNCHANGED <<target, staged, backupDir, backup>>

CopyEroded ==
    /\ pc = "copy"
    /\ \E a \in todo : IsNext(a) /\ recovery' = [recovery EXCEPT ![a] = Partial]
    /\ UNCHANGED <<target, staged, backupDir, backup, recoveryDir>>

TargetEroded ==
    /\ pc = "restore" /\ IsNextToRestore("report")
    /\ MayClear("report") /\ target["report"] # Absent
    /\ target' = [target EXCEPT !["report"] = Partial]
    /\ UNCHANGED <<staged, backupDir, backup, recoveryDir, recovery>>

PartialEffect == Unchanged \/ BackupsEroded \/ RecoveryEroded \/ CopyEroded \/ TargetEroded

\* An interrupted rmtree of the transaction directory, in any order.  Every
\* target is whole by then, so of the copies only all or none are left.
RootEroded ==
    /\ pc = "discard"
    /\ manifest' \in {manifest, "none"}
    /\ journal' \in {journal, FALSE}
    /\ backupDir' \in {backupDir, FALSE} /\ recoveryDir' \in {recoveryDir, "bare", "none"}
    /\ recoveryDir = "none" => recoveryDir' = "none"
    /\ backup' \in {backup, NoCopies} /\ recovery' \in {recovery, NoCopies}
    /\ staged' = {}
    /\ UNCHANGED <<target, recorded, root, progress, quarantined, litter>>

\* An _atomic_write in the transaction directory that never reached its rename.
WritesNext ==
    \/ pc \in {"prepare", "publishing", "backed_up", "publish_intent", "published",
               "verified", "committing", "commit", "cleaning", "journal", "rollback",
               "rolled_back"}
    \/ pc = "artifact" /\ todo # {}
    \/ pc = "recover" /\ manifest # "none" /\ ~litter

LeaveLitter ==
    /\ WritesNext
    /\ litter' = TRUE
    /\ UNCHANGED <<disk, recorded, root, manifest, progress, journal, quarantined>>

\* Where an exception of the publisher takes it.
CannotUndo == {"cleaning", "journal", "verify_cleanup", "drop_payload", "drop_manifest",
               "drop_journal", "drop_root", "rollback", "select", "restore", "move",
               "clear_backups", "clear_recovery", "rolled_back"}

\* The flag of a move is set in memory before the manifest write that fails; the
\* manifest the rollback writes records it.
FlagRemembered ==
    /\ pc \in {"backed_up", "published"}
    /\ \E a \in Artifact : IsNext(a) /\ progress' = [progress EXCEPT ![a] = @ \cup {pc}]

\* (Mutant) a failure discards the directory, rolled back or not.
FailAndDiscard ==
    /\ pc \notin {"idle", "discard"} /\ actor = "publisher"
    /\ PartialEffect
    /\ GoTo("discard")
    /\ UNCHANGED <<recorded, root, manifest, progress, journal, quarantined, litter>>

Fail ==
    /\ pc \notin {"idle", "discard"}
    /\ PartialEffect
    /\ FlagRemembered \/ UNCHANGED progress
    /\ UNCHANGED <<recorded, root, manifest, journal, quarantined, litter>>
    /\ \/ /\ actor = "publisher" /\ pc \notin CannotUndo \cup {"prepare"}
          /\ pc' = "rollback" /\ todo' = {} /\ UNCHANGED actor
       \/ /\ actor = "publisher" /\ pc = "prepare"
          /\ GoTo("discard")
       \/ /\ actor = "recovery" \/ pc \in CannotUndo \cup {"publishing"}
          /\ GoIdle

Crash ==
    /\ pc # "idle"
    /\ \/ PartialEffect /\ UNCHANGED <<recorded, files>>
       \/ RootEroded
       \/ LeaveLitter
    /\ GoIdle

-----------------------------------------------------------------------------
(* Specification *)

Publisher ==
    \/ Begin \/ Prepare \/ StartPublishing
    \/ \E a \in Artifact :
        BackupIntent(a) \/ BackUp(a) \/ BackedUp(a) \/ PublishIntent(a)
        \/ Publish(a) \/ Published(a) \/ CopyBackup(a)
    \/ Verify \/ StartCopies \/ CopiesReady \/ MarkVerified \/ DropBackups
    \/ MarkCommitting \/ Commit \/ Finish \/ MarkCleaning \/ WriteJournal

Release == VerifyCleanup \/ DropPayload \/ DropManifest \/ DropJournal \/ DropRoot

Restore ==
    \/ StartRollback \/ SelectSources \/ AllRestored \/ RestoreRefused
    \/ \E a \in Artifact : KeepTarget(a) \/ ClearTarget(a) \/ MoveSource(a)
    \/ ClearBackups \/ ClearRecovery \/ MarkRolledBack \/ Discard

Recover ==
    \/ StartRecovery \/ RecoverBackward \/ RecoverForward \/ RecoverUnrecorded
    \/ Quarantine \/ Refuse

Next == Publisher \/ Release \/ Restore \/ Recover \/ Fail \/ Crash

Spec == Init /\ [][Next]_vars

-----------------------------------------------------------------------------
(* Properties *)

TypeOK ==
    /\ target \in [Artifact -> Copy]
    /\ root \in BOOLEAN /\ journal \in BOOLEAN
    /\ quarantined \in BOOLEAN /\ litter \in BOOLEAN /\ backupDir \in BOOLEAN
    /\ staged \subseteq Artifact /\ writes \subseteq Artifact /\ todo \subseteq Artifact
    /\ manifest \in ManifestState
    /\ pre \in [Artifact -> Version] /\ new \in [Artifact -> Version]
    /\ progress \in [Artifact -> SUBSET Flag]
    /\ recoveryDir \in {"none", "bare", "copying", "ready"}
    /\ backup \in [Artifact -> Copy] /\ recovery \in [Artifact -> Copy]
    /\ pc \in Step /\ actor \in {"none", "publisher", "recovery"}

\* A snapshot that existed and that the run overwrites.
Overwritten(a) == a = "snapshot" /\ a \in writes /\ pre[a] # Absent

\* The old content of a is still complete somewhere, or there was none.
Preserved(a) ==
    \/ pre[a] = Absent
    \/ pre[a] \in {target[a], backup[a]}
    \/ recoveryDir \in {"copying", "ready"} /\ recovery[a] = pre[a]

\* Until a transaction commits, no interleaving of failures, crashes, rollbacks
\* and recoveries loses the content an artifact had before it (an overwritten
\* snapshot excepted: publish() keeps no backup of it).
PreimageKept ==
    manifest \in UndoneState => \A a \in Artifact : Overwritten(a) \/ Preserved(a)

\* rollback() and the recovery of an orphan always find a complete source for
\* what they decide to restore, each by its own rules for accepting one.
RestoreFindsSource ==
    pc \in {"select", "restore", "move"} =>
        \A a \in (IF pc = "select" THEN Artifact ELSE todo) :
            NeedsRestore(a) => Overwritten(a) \/ Source(a) # "none"

\* The manifest and its clean-up journal go only when the old contents are all
\* back or the new ones all in place: whatever a crash leaves unrecorded, even
\* what is quarantined for good, the targets are one whole version.
UnrecordedIsWhole == root /\ Unrecorded => target \in {pre, new}

\* What a durable commit promised stays published until the journal is gone,
\* and a committed transaction holds no backups that recovery would refuse.
CommittedIsPublished ==
    manifest \in {"committed", "cleaning"} \/ journal => target = new /\ ~backupDir

\* Not decided: the next recovery rolls back, or the publisher still would.
Undecided ==
    \/ manifest \in UndoneState
    \/ manifest = "committed" /\ actor = "publisher" /\ pc \in {"finish", "rollback"}

\* What readers have once every pending transaction has been dealt with.
Settled == IF Undecided THEN pre ELSE target

Promise == INSTANCE PublicationAtomic WITH site <- Settled

\* The four artifacts change together, at the commit and never otherwise.
AllOrNothing == Promise!Spec

\* A directory a dead process left does not block the runs that follow.
OrphanBlocks ==
    \/ litter \/ quarantined
    \/ manifest \in UndoneState /\ recoveryDir = "bare"
    \/ Unrecorded /\ ~PayloadIsSafe

=============================================================================
