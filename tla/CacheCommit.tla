----------------------------- MODULE CacheCommit ----------------------------
(***************************************************************************)
(* The cache half of a daily run.  The responses a run fetched are staged  *)
(* and stored after its publication is verified, under a recovery journal  *)
(* .cache-recovery-* that holds the entries they replace; the journal is   *)
(* linked to the publication manifest, whose "committed" decides whether   *)
(* a committed journal is kept or restored.  Recovery replays the journal  *)
(* first and settles the publication afterwards.                           *)
(*                                                                         *)
(* Of the publication (module Publication) only the state of its manifest  *)
(* is kept.  One run at a time holds the date, site and cache locks; the   *)
(* cache lock keeps other processes out until the run ends or dies.  What  *)
(* it leaves is met by others: scans store into the cache whose journal is *)
(* pending, and a run that reuses a snapshot settles publications without  *)
(* looking at the cache.                                                   *)
(***************************************************************************)
EXTENDS Naturals

CONSTANTS
    Key,            \* the cache entries, numbered in the order they are staged
    Content,        \* what a run publishes and stores
    Absent          \* no such entry

ASSUME KeyType == Key \subseteq Nat
ASSUME ContentType == Absent \notin Content

VARIABLES
    cache,          \* the entries
    stored,         \* history: what the run has stored and no replay has restored
    dir,            \* the journal directory exists
    state,          \* "state" of its manifest.json, or "none"
    link,           \* "publication_manifest" names the publication
    entry,          \* per entry: not in it, or how far its preimage has got
    pre,            \* the entries the journal is to restore
    copy,           \* keys whose preimage file is in the journal
    temp,           \* keys whose preimage is there under a temporary name
    litter,         \* a manifest write died and left its temporary file
    new,            \* what the run stores and publishes
    publication,    \* the state of the publication manifest, or "none"
    report,         \* the run whose report was last released
    pc,             \* the next step of the live process
    actor,          \* who runs it
    todo            \* entries the current loop has left

stores == <<cache, stored>>
journal == <<dir, state, link, entry, pre, copy, temp, litter>>
site == <<publication, report, new>>
control == <<pc, actor, todo>>
vars == <<stores, journal, site, control>>

Entry == Content \cup {Absent}

JournalState == {"none", "preparing", "incomplete", "ready", "committing", "committed",
                 "restoring", "rolled_back"}
EntryState == {"none", "pending", "named", "ready"}

Step == {"idle", "mkdtemp", "preparing", "copy", "name", "move", "mark", "ready",
         "committing", "store", "committed", "publication", "publish", "finish",
         "unlink", "drop", "cleanup", "incomplete", "rollback", "replay", "restore",
         "rolled_back", "remove", "undo", "recover_publication"}

-----------------------------------------------------------------------------
(* Helpers *)

\* Entries are journalled and stored in the order they were staged.
IsNext(k) == k \in todo /\ \A j \in todo : k <= j

Batch == {k \in Key : entry[k] # "none"}

\* Mutant: whether the publication has committed is not asked.
AlwaysDurable == TRUE

\* _publication_commit_is_durable
Durable == link => publication = "committed"

NoEntry(value) == [k \in Key |-> value]

GoTo(step) == pc' = step /\ UNCHANGED <<actor, todo>>
GoIdle == pc' = "idle" /\ actor' = "none" /\ todo' = {}

\* _persist_recovery_manifest with a new state.
Persist(s) ==
    /\ state' = s
    /\ UNCHANGED <<stores, dir, link, entry, pre, copy, temp, litter, site>>

\* _persist_recovery_manifest with a new entry.
PersistEntry(k, s) ==
    /\ entry' = [entry EXCEPT ![k] = s]
    /\ UNCHANGED <<stores, dir, state, link, pre, copy, temp, litter, site>>

\* The journal directory and everything in it are gone.
RemoveJournal ==
    /\ dir' = FALSE /\ state' = "none" /\ link' = FALSE /\ litter' = FALSE
    /\ entry' = NoEntry("none") /\ pre' = NoEntry(Absent)
    /\ copy' = {} /\ temp' = {} /\ stored' = {}
    /\ UNCHANGED <<cache, site>>

-----------------------------------------------------------------------------
(* The run: _create_cache_recovery *)

Init ==
    /\ cache \in [Key -> Entry] /\ stored = {}
    /\ dir = FALSE /\ state = "none" /\ link = FALSE /\ litter = FALSE
    /\ entry = NoEntry("none") /\ pre = NoEntry(Absent) /\ copy = {} /\ temp = {}
    /\ publication = "none" /\ report \in Entry /\ new \in Content
    /\ pc = "idle" /\ actor = "none" /\ todo = {}

\* The publication is verified and the responses of a batch are staged.
Begin ==
    /\ pc = "idle" /\ ~dir /\ publication = "none"
    /\ publication' = "verified"
    /\ new' \in Content
    /\ todo' \in SUBSET Key
    /\ actor' = "run"
    /\ pc' = IF todo' = {} THEN "publication" ELSE "mkdtemp"
    /\ UNCHANGED <<stores, journal, report>>

MakeJournal ==
    /\ pc = "mkdtemp"
    /\ dir' = TRUE
    /\ GoTo("preparing")
    /\ UNCHANGED <<stores, state, link, entry, pre, copy, temp, litter, site>>

WritePreparing ==
    /\ pc = "preparing"
    /\ state' = "preparing" /\ link' = TRUE
    /\ entry' = [k \in Key |-> IF k \in todo THEN "pending" ELSE "none"]
    /\ pre' = [k \in Key |-> IF k \in todo THEN cache[k] ELSE Absent]
    /\ GoTo("copy")
    /\ UNCHANGED <<stores, dir, copy, temp, litter, site>>

\* A new entry has no preimage to copy.
SkipPreimage(k) ==
    /\ pc = "copy" /\ IsNext(k) /\ cache[k] = Absent
    /\ PersistEntry(k, "ready")
    /\ todo' = todo \ {k} /\ UNCHANGED <<pc, actor>>

CopyPreimage(k) ==
    /\ pc = "copy" /\ IsNext(k) /\ cache[k] # Absent
    /\ temp' = temp \cup {k}
    /\ GoTo("name")
    /\ UNCHANGED <<stores, dir, state, link, entry, pre, copy, litter, site>>

NamePreimage(k) ==
    /\ pc = "name" /\ IsNext(k)
    /\ PersistEntry(k, "named")
    /\ GoTo("move")

MovePreimage(k) ==
    /\ pc = "move" /\ IsNext(k)
    /\ temp' = temp \ {k} /\ copy' = copy \cup {k}
    /\ GoTo("mark")
    /\ UNCHANGED <<stores, dir, state, link, entry, pre, litter, site>>

MarkPreimage(k) ==
    /\ pc = "mark" /\ IsNext(k)
    /\ PersistEntry(k, "ready")
    /\ pc' = "copy" /\ todo' = todo \ {k} /\ UNCHANGED actor

\* Mutant: the journal is marked ready with preimages still to copy.
PreimagesHurried ==
    /\ pc = "copy"
    /\ GoTo("ready")
    /\ UNCHANGED <<stores, journal, site>>

PreimagesCopied ==
    /\ pc = "copy" /\ todo = {}
    /\ GoTo("ready")
    /\ UNCHANGED <<stores, journal, site>>

\* Mutant: the state of a journal version that had no "ready".
MarkPrepared == pc = "ready" /\ Persist("prepared") /\ GoTo("committing")

MarkReady == pc = "ready" /\ Persist("ready") /\ GoTo("committing")

-----------------------------------------------------------------------------
(* The run: commit_staged_cache_writes, then the publication's commit *)

MarkCommitting ==
    /\ pc = "committing"
    /\ Persist("committing")
    /\ pc' = "store" /\ todo' = Batch /\ UNCHANGED actor

Store(k) ==
    /\ pc = "store" /\ IsNext(k)
    /\ cache' = [cache EXCEPT ![k] = new]
    /\ stored' = stored \cup {k}
    /\ todo' = todo \ {k}
    /\ UNCHANGED <<journal, site, pc, actor>>

AllStored ==
    /\ pc = "store" /\ todo = {}
    /\ GoTo("committed")
    /\ UNCHANGED <<stores, journal, site>>

MarkCommitted == pc = "committed" /\ Persist("committed") /\ GoTo("publication")

PublicationCommitting ==
    /\ pc = "publication"
    /\ publication' = "committing"
    /\ GoTo("publish")
    /\ UNCHANGED <<stores, journal, report, new>>

PublicationCommitted ==
    /\ pc = "publish"
    /\ publication' = "committed"
    /\ GoTo("finish")
    /\ UNCHANGED <<stores, journal, report, new>>

\* _finished = True: from here no failure rolls back.
Finish ==
    /\ pc = "finish"
    /\ GoTo(IF dir THEN "unlink" ELSE "cleanup")
    /\ UNCHANGED <<stores, journal, site>>

\* finalize_staged_cache_commit
Unlink ==
    /\ pc = "unlink" /\ state = "committed"
    /\ link' = FALSE
    /\ GoTo("drop")
    /\ UNCHANGED <<stores, dir, state, entry, pre, copy, temp, litter, site>>

Drop == pc = "drop" /\ RemoveJournal /\ GoTo("cleanup")

\* The publication's cleanup(), or its recovery when it is committed.
ReleasePublication ==
    /\ publication = "committed"
    /\ publication' = "none" /\ report' = new
    /\ UNCHANGED <<stores, journal, new>>

Cleanup == pc = "cleanup" /\ ReleasePublication /\ GoIdle

-----------------------------------------------------------------------------
(* Undoing the run that failed *)

MarkIncomplete == pc = "incomplete" /\ Persist("incomplete") /\ GoTo("rollback")

\* rollback_staged_cache_commit
RollbackCache ==
    /\ pc = "rollback"
    /\ \/ ~dir /\ GoTo("undo") /\ UNCHANGED <<stores, journal, site>>
       \/ dir /\ state = "none" /\ GoTo("undo") /\ UNCHANGED <<stores, journal, site>>
       \/ dir /\ state # "none" /\ Persist("restoring")
          /\ pc' = "replay" /\ actor' = "rollback" /\ UNCHANGED todo

\* Mutant: the transaction directory stays when the publication is undone.
UndoKeepsPublication == UNCHANGED <<stores, journal, site>>

\* The publication's rollback(), or its recovery when it is not committed.
UndoPublication ==
    /\ publication' = "none"
    /\ UNCHANGED <<stores, journal, report, new>>

Undo == pc = "undo" /\ UndoPublication /\ GoIdle

-----------------------------------------------------------------------------
(* _replay_recovery_manifest *)

\* Where the replay returns to.
Return ==
    /\ pc' = IF actor = "recovery" THEN "recover_publication" ELSE "undo"
    /\ actor' = IF actor = "recovery" THEN "recovery" ELSE "run"
    /\ todo' = {}

\* Where the exception of a replay goes.
Raise ==
    CASE actor = "commit" -> pc' = "rollback" /\ actor' = "run" /\ todo' = {}
      [] actor = "rollback" -> pc' = "undo" /\ actor' = "run" /\ todo' = {}
      [] OTHER -> GoIdle

\* A preimage whose rename the manifest does not acknowledge yet.
Reconcilable(k) == entry[k] = "named" /\ (k \in copy \cup temp)

Reconcile(k) ==
    /\ pc = "replay" /\ state # "none" /\ Reconcilable(k)
    /\ copy' = copy \cup {k} /\ temp' = temp \ {k}
    /\ entry' = [entry EXCEPT ![k] = "ready"]
    /\ UNCHANGED <<stores, dir, state, link, pre, litter, site, control>>

PreimageMissing == \E k \in Key : entry[k] = "ready" /\ pre[k] # Absent /\ k \notin copy

\* Files of the journal and names in its manifest that have no counterpart.
UnexpectedFiles ==
    litter \/ \E k \in Key : (k \in temp) # (entry[k] = "named" /\ k \notin copy)

NotReady == {k \in Key : entry[k] \in {"pending", "named"}}

\* No incomplete entry has durable preimage evidence: nothing was stored yet.
Unstarted == state = "preparing" /\ \A k \in NotReady : entry[k] = "pending"

ReadJournal == pc = "replay" /\ \A k \in Key : state # "none" => ~Reconcilable(k)

\* The journal is refused and stays; one that was being prepared is marked.
RefuseJournal ==
    /\ ReadJournal
    /\ \/ state = "none"
       \/ PreimageMissing \/ UnexpectedFiles \/ state = "incomplete"
       \/ NotReady # {} /\ ~Unstarted
    /\ IF \/ state \in {"none", "incomplete"} \/ PreimageMissing
          \/ UnexpectedFiles /\ state # "preparing"
       THEN UNCHANGED <<stores, journal, site>>
       ELSE Persist("incomplete")
    /\ Raise

Acceptable == state \notin {"none", "incomplete"} /\ ~PreimageMissing /\ ~UnexpectedFiles
              /\ (NotReady = {} \/ Unstarted)

\* Mutant: a batch of which nothing is marked committed is taken for unstarted.
MayDiscardCommitting ==
    \/ state \in {"preparing", "committing", "rolled_back"}
    \/ state = "committed" /\ Durable

MayDiscard ==
    \/ state \in {"preparing", "rolled_back"}
    \/ state = "committed" /\ Durable

DiscardJournal ==
    /\ ReadJournal /\ Acceptable /\ MayDiscard
    /\ GoTo("remove")
    /\ UNCHANGED <<stores, journal, site>>

StartRestore ==
    /\ ReadJournal /\ Acceptable /\ ~MayDiscard
    /\ Persist("restoring")
    /\ pc' = "restore" /\ todo' = Batch /\ UNCHANGED actor

RestoreEntry(k) ==
    /\ pc = "restore" /\ IsNext(k)
    /\ cache' = [cache EXCEPT ![k] = pre[k]]
    /\ stored' = stored \ {k}
    /\ todo' = todo \ {k}
    /\ UNCHANGED <<journal, site, pc, actor>>

AllRestored ==
    /\ pc = "restore" /\ todo = {}
    /\ GoTo("rolled_back")
    /\ UNCHANGED <<stores, journal, site>>

MarkRolledBack == pc = "rolled_back" /\ Persist("rolled_back") /\ GoTo("remove")

Remove == pc = "remove" /\ RemoveJournal /\ Return

-----------------------------------------------------------------------------
(* The next run: recover_locked *)

\* Mutant: the publication is recovered before the cache journal.
StartRecoveryAtPublication ==
    /\ pc = "idle" /\ (dir \/ publication # "none")
    /\ actor' = "recovery" /\ UNCHANGED todo
    /\ pc' = IF publication # "none" THEN "recover_publication" ELSE "replay"
    /\ UNCHANGED <<stores, journal, site>>

\* The cache journal first; but a run that reuses a snapshot has no cache to recover.
StartRecovery ==
    /\ pc = "idle" /\ UNCHANGED todo
    /\ \/ /\ dir \/ publication # "none"
          /\ actor' = "recovery"
          /\ pc' = IF dir THEN "replay" ELSE "recover_publication"
       \/ /\ publication # "none"
          /\ actor' = "reuse" /\ pc' = "recover_publication"
    /\ UNCHANGED <<stores, journal, site>>

RecoverPublication ==
    /\ pc = "recover_publication"
    /\ ReleasePublication \/ (publication # "committed" /\ UndoPublication)
    /\ GoIdle

\* Another process stores an entry, or drops an expired one, under the cache lock.
StoreByOther ==
    /\ pc = "idle" \/ actor = "reuse"
    /\ \E k \in Key, value \in Entry : cache' = [cache EXCEPT ![k] = value]
    /\ UNCHANGED <<stored, journal, site, control>>

-----------------------------------------------------------------------------
(* Failures and crashes *)

\* Where an exception takes the process: the handler of the step it left.
Undoes == {"mkdtemp", "preparing", "ready", "incomplete", "publication", "publish", "finish"}
Replays == {"committing", "store", "committed"} \cup (IF dir THEN {"publication"} ELSE {})

Handler ==
    /\ todo' = {}
    /\ \/ pc \in {"copy", "name", "move", "mark"} /\ pc' = "incomplete" /\ actor' = "run"
       \/ pc \in Undoes /\ pc' = "rollback" /\ actor' = "run"
       \/ pc \in Replays /\ pc' = "replay" /\ actor' = "commit"
       \/ pc = "rollback" /\ pc' = "undo" /\ actor' = "run"
       \/ /\ pc \in {"unlink", "drop", "cleanup", "undo", "recover_publication"}
          /\ pc' = "idle" /\ actor' = "none"

\* What an interrupted rmtree leaves of the journal.
JournalEroded ==
    /\ pc \in {"drop", "remove"}
    /\ state' \in {state, "none"}
    /\ copy' \in SUBSET copy /\ temp' \in SUBSET temp /\ litter' \in {litter, FALSE}
    /\ UNCHANGED <<stores, dir, link, entry, pre, site>>

\* The finally of _copy_cache_preimage removes the temporary file.
Fail ==
    /\ pc # "idle"
    /\ \/ JournalEroded
       \/ /\ temp' = IF actor = "run" THEN {} ELSE temp
          /\ UNCHANGED <<stores, dir, state, link, entry, pre, copy, litter, site>>
    /\ IF pc \in {"replay", "restore", "rolled_back", "remove"}
       THEN Raise
       ELSE Handler

\* A manifest write that never reached its rename.
WritesManifest ==
    \/ pc \in {"preparing", "name", "mark", "ready", "committing", "store", "committed",
               "unlink", "incomplete", "rolled_back", "restore"}
    \/ pc = "copy" /\ todo # {}
    \/ pc \in {"rollback", "replay"} /\ state # "none"

Crash ==
    /\ pc # "idle"
    /\ \/ UNCHANGED <<stores, journal, site>>
       \/ JournalEroded
       \/ /\ dir /\ WritesManifest /\ litter' = TRUE
          /\ UNCHANGED <<stores, dir, state, link, entry, pre, copy, temp, site>>
    /\ GoIdle

-----------------------------------------------------------------------------
(* Specification *)

Run ==
    \/ Begin \/ MakeJournal \/ WritePreparing \/ PreimagesCopied \/ MarkReady
    \/ \E k \in Key : SkipPreimage(k) \/ CopyPreimage(k) \/ NamePreimage(k)
                      \/ MovePreimage(k) \/ MarkPreimage(k) \/ Store(k)
    \/ MarkCommitting \/ AllStored \/ MarkCommitted
    \/ PublicationCommitting \/ PublicationCommitted \/ Finish \/ Unlink \/ Drop
    \/ Cleanup \/ MarkIncomplete \/ RollbackCache \/ Undo

Replay ==
    \/ RefuseJournal \/ DiscardJournal \/ StartRestore \/ AllRestored
    \/ \E k \in Key : Reconcile(k) \/ RestoreEntry(k)
    \/ MarkRolledBack \/ Remove

Recover == StartRecovery \/ RecoverPublication

Next == Run \/ Replay \/ Recover \/ StoreByOther \/ Fail \/ Crash

Spec == Init /\ [][Next]_vars

-----------------------------------------------------------------------------
(* Properties *)

TypeOK ==
    /\ cache \in [Key -> Entry] /\ pre \in [Key -> Entry]
    /\ dir \in BOOLEAN /\ link \in BOOLEAN /\ litter \in BOOLEAN
    /\ state \in JournalState /\ entry \in [Key -> EntryState]
    /\ copy \subseteq Key /\ temp \subseteq Key /\ todo \subseteq Key /\ stored \subseteq Key
    /\ new \in Content /\ report \in Entry
    /\ publication \in {"none", "verified", "committing", "committed"}
    /\ pc \in Step /\ actor \in {"none", "run", "commit", "rollback", "recovery", "reuse"}

\* The process that wrote "committed" has not yet passed the point of no return,
\* or has failed there and is undoing its run.
RunUndecided ==
    \/ actor \in {"commit", "rollback"}
    \/ actor = "run" /\ pc \notin {"unlink", "drop", "cleanup"}

\* The report once recovery has settled, if the process dies now.
SettledReport == IF publication = "committed" /\ ~RunUndecided THEN new ELSE report

\* A replay would find everything it expects.
Replayable ==
    /\ \A k \in Batch : entry[k] = "ready" \/ Reconcilable(k)
    /\ ~PreimageMissing /\ ~UnexpectedFiles

\* The journal will be restored, by this process or by the next recovery.
WillRestore ==
    /\ \/ state \in {"ready", "committing", "restoring"}
       \/ state = "committed" /\ (RunUndecided \/ ~Durable)
    /\ Replayable

\* The batch is stored, and its report is the one that stays.
IsPublished == stored = Batch /\ SettledReport = new

\* As long as anything of a batch is stored that is not there to stay, the journal has
\* every preimage it takes to restore it: no crash, failed clean-up or repeated rollback
\* leaves a half-stored batch without them.
PreimagesHeld ==
    stored # {} =>
        \/ \A k \in Batch : entry[k] = "ready" /\ (pre[k] # Absent => k \in copy)
        \/ IsPublished

\* No later run replays the journal: it stays until somebody looks at it.
Stuck == dir /\ (state \in {"none", "incomplete"} \/ PreimageMissing \/ UnexpectedFiles)

\* A journal is refused only when its run has stored the batch entirely, with its
\* report, or has nothing stored; the temporary file of an interrupted manifest write
\* aside, for which a journal is refused in any state.
RefusedIsWhole == pc = "idle" /\ Stuck /\ ~litter => stored = {} \/ IsPublished

SettledEntries ==
    IF WillRestore THEN [k \in Key |-> IF k \in Batch THEN pre[k] ELSE cache[k]] ELSE cache

Promise == INSTANCE DailyCommit WITH
    report <- SettledReport, entries <- SettledEntries,
    torn <- litter, alone <- actor = "reuse"

\* A batch is stored all or nothing, and never without its report, but for the two
\* departures that DailyCommit names.
BatchWithReport == Promise!Spec

\* Nobody but a run without the cache turns a journal that was to be kept into one to
\* be restored under the report of its batch.
KeptUnlessReused ==
    [][~WillRestore /\ WillRestore' => SettledReport' = report \/ actor = "reuse"]_vars

\* "test_restart_recovers_publication_and_cache_as_one_commit": a journal that was
\* to be kept is not turned into one to be restored by releasing the report.
OneCommit ==
    [][~WillRestore /\ WillRestore' => SettledReport' = report]_vars

=============================================================================
