-------------------------- MODULE CacheCommitProofs -------------------------
(***************************************************************************)
(* Proofs about the cache half of a daily run, for every set of entries    *)
(* and contents and any number of failures and crashes.                    *)
(***************************************************************************)
EXTENDS CacheCommit, TLAPS

USE KeyType, ContentType

-----------------------------------------------------------------------------
(* The inductive invariant *)

Preparing == {"copy", "name", "move", "mark"}
Prepared == {"mkdtemp", "preparing", "ready", "committing", "store", "committed"} \cup Preparing
Deciding == {"publication", "publish", "finish"}
Releasing == {"unlink", "drop", "cleanup"}
Failing == {"incomplete", "rollback", "undo"}
Replaying == {"replay", "restore", "rolled_back", "remove"}

\* Those who hold the lock of the cache from the journal's making on.
Owner == {"run", "commit", "rollback"}

\* Which process is at which step.
ActorAtStep ==
    /\ pc = "idle" => actor = "none"
    /\ pc \in Prepared \cup Deciding \cup Releasing \cup Failing => actor = "run"
    /\ pc \in Replaying => actor \in {"commit", "rollback", "recovery"}
    /\ pc = "recover_publication" => actor \in {"recovery", "reuse"}

\* What the journal's manifest says at each step.
JournalAtStep ==
    /\ pc = "mkdtemp" => ~dir
    /\ pc = "preparing" => dir /\ state = "none" /\ Batch = {}
    /\ pc \in Preparing \cup {"ready", "incomplete"} => state = "preparing"
    /\ pc = "committing" => state = "ready"
    /\ pc \in {"store", "committed"} => state = "committing"
    /\ pc \in Deciding => ~dir \/ state = "committed"
    /\ pc \in {"unlink", "drop"} => state = "committed"
    /\ pc = "drop" => ~link
    /\ pc = "cleanup" => ~dir
    /\ pc = "recover_publication" /\ actor = "recovery" => ~dir
    /\ pc \in Replaying => dir
    /\ pc \in {"restore", "rolled_back"} => state = "restoring"
    /\ pc = "remove" => state \in {"preparing", "rolled_back"} \/ (state = "committed" /\ Durable)
    /\ actor = "rollback" /\ pc \in {"replay", "remove"} => state # "committed"

\* What the publication's manifest says at each step.
PublicationAtStep ==
    /\ pc \in Prepared \cup {"incomplete", "publication"} => publication = "verified"
    /\ pc = "publish" => publication = "committing"
    /\ pc \in {"finish"} \cup Releasing => publication = "committed"
    /\ actor = "commit" => publication = "verified"

\* Without a journal directory nothing of a journal is left.
NoJournal == ~dir => /\ state = "none" /\ ~link /\ ~litter /\ stored = {}
                     /\ entry = NoEntry("none") /\ copy = {} /\ temp = {}

\* The report of the batch is the one that stays, whatever happens.
Decided == ~RunUndecided /\ SettledReport = new

\* A journal is linked until its publication has committed for good.
LinkedUntilDecided == state # "none" /\ ~link => state = "committed" /\ Decided

Unstored == stored = {}
StoredWhole == stored = Batch
PreimagesIn == \A k \in Batch : pre[k] # Absent => k \in copy
EntriesReady == NotReady = {} /\ temp = {}

\* How far the preimages have got while the journal is made.
PreparingFacts ==
    /\ pc \in Preparing =>
           \A k \in Batch \ todo : entry[k] = "ready" /\ (pre[k] # Absent => k \in copy)
    /\ pc \in {"copy", "mark", "preparing"} => temp = {}
    /\ pc \in {"name", "move"} => \A k \in temp : IsNext(k)
    /\ pc = "mark" => \A k \in todo : IsNext(k) => k \in copy
    /\ pc = "ready" => EntriesReady /\ PreimagesIn

\* How far the loops over the entries have got.
LoopFacts ==
    /\ stored \subseteq Batch
    /\ pc \in Preparing \cup {"store", "restore"} => todo \subseteq Batch
    /\ pc = "store" => stored = Batch \ todo
    /\ pc = "committed" => StoredWhole
    /\ pc = "restore" => stored \subseteq todo /\ EntriesReady /\ PreimagesIn /\ ~litter
    /\ pc = "restore" => \A k \in Batch \ todo : cache[k] = pre[k]
    /\ pc = "rolled_back" => Unstored /\ \A k \in Batch : cache[k] = pre[k]

\* Nobody else stores while the owner of a batch is alive, and it leaves no torn write.
OwnerFacts ==
    actor \in Owner =>
        /\ ~litter
        /\ \A k \in Batch : cache[k] = IF k \in stored THEN new ELSE pre[k]

\* A preimage under a temporary name is met while the journal is made, and by recovery.
TempFacts ==
    /\ state \in {"ready", "committing", "committed", "restoring"} => temp = {}
    /\ pc \in {"incomplete", "rollback"} \/ actor \in {"commit", "rollback"} => temp = {}

\* What every state of the manifest says of the entries, the preimages and the cache:
\* nothing is stored before "committing" is durable, everything once "committed" is, and
\* the preimages stay until the batch is whole again and nobody will change its fate.
ManifestFacts ==
    /\ state \in {"preparing", "incomplete", "ready", "rolled_back"} => Unstored
    /\ state = "none" => Unstored \/ (StoredWhole /\ Decided)
    /\ state \in {"ready", "committing"} => EntriesReady /\ PreimagesIn
    /\ state = "restoring" => Unstored \/ (EntriesReady /\ PreimagesIn)
    /\ state = "committed" => StoredWhole /\ EntriesReady /\ (PreimagesIn \/ Decided)

IInv == /\ ActorAtStep /\ JournalAtStep /\ PublicationAtStep /\ NoJournal
        /\ LinkedUntilDecided /\ PreparingFacts /\ LoopFacts /\ OwnerFacts /\ TempFacts
        /\ ManifestFacts

-----------------------------------------------------------------------------
(* Type correctness *)

LEMMA TypeOKInit == Init => TypeOK
  BY DEF Init, TypeOK, NoEntry, Entry, JournalState, EntryState, Step

\* Every step of a live process, of other processes, every failure and crash
\* stays within the types.
LEMMA TypeOKNext == TypeOK /\ [Next]_vars => TypeOK'
  <1> SUFFICES ASSUME TypeOK, [Next]_vars PROVE TypeOK'
    OBVIOUS
  <1> USE DEF TypeOK, Entry, JournalState, EntryState, Step, NoEntry, stores, journal, site, control,
              GoTo, GoIdle, Persist, PersistEntry, RemoveJournal
  <1>1. CASE Begin
    BY <1>1 DEF Begin
  <1>2. CASE MakeJournal
    BY <1>2 DEF MakeJournal
  <1>3. CASE WritePreparing
    BY <1>3 DEF WritePreparing
  <1>4. CASE PreimagesCopied
    BY <1>4 DEF PreimagesCopied
  <1>5. CASE MarkReady
    BY <1>5 DEF MarkReady
  <1>6. CASE MarkCommitting
    BY <1>6 DEF MarkCommitting, Batch
  <1>7. CASE AllStored
    BY <1>7 DEF AllStored
  <1>8. CASE MarkCommitted
    BY <1>8 DEF MarkCommitted
  <1>9. CASE PublicationCommitting
    BY <1>9 DEF PublicationCommitting
  <1>10. CASE PublicationCommitted
    BY <1>10 DEF PublicationCommitted
  <1>11. CASE Finish
    BY <1>11 DEF Finish
  <1>12. CASE Unlink
    BY <1>12 DEF Unlink
  <1>13. CASE Drop
    BY <1>13 DEF Drop
  <1>14. CASE Cleanup
    BY <1>14 DEF Cleanup, ReleasePublication
  <1>15. CASE MarkIncomplete
    BY <1>15 DEF MarkIncomplete
  <1>16. CASE RollbackCache
    <2>1. pc' \in Step /\ actor' \in {"none", "run", "commit", "rollback", "recovery", "reuse"}
      BY <1>16 DEF RollbackCache
    <2>2. state' \in JournalState /\ UNCHANGED <<todo, link, litter, dir>>
      BY <1>16 DEF RollbackCache
    <2>3. UNCHANGED <<stores, entry, pre, copy, temp, site>>
      BY <1>16 DEF RollbackCache
    <2> QED
      BY <2>1, <2>2, <2>3
  <1>17. CASE Undo
    BY <1>17 DEF Undo, UndoPublication
  <1>18. CASE RefuseJournal
    BY <1>18 DEF RefuseJournal, ReadJournal, Raise
  <1>19. CASE DiscardJournal
    BY <1>19 DEF DiscardJournal, ReadJournal
  <1>20. CASE StartRestore
    BY <1>20 DEF StartRestore, Batch
  <1>21. CASE AllRestored
    BY <1>21 DEF AllRestored
  <1>22. CASE MarkRolledBack
    BY <1>22 DEF MarkRolledBack
  <1>23. CASE Remove
    BY <1>23 DEF Remove, Return
  <1>24. CASE StartRecovery
    BY <1>24 DEF StartRecovery
  <1>25. CASE RecoverPublication
    BY <1>25 DEF RecoverPublication, ReleasePublication, UndoPublication
  <1>26. CASE StoreByOther
    <2>1. PICK k \in Key, value \in Entry : cache' = [cache EXCEPT ![k] = value]
      BY <1>26 DEF StoreByOther
    <2>2. cache' \in [Key -> Entry]
      BY <2>1
    <2> QED
      BY <1>26, <2>2 DEF StoreByOther
  <1>27. CASE Fail
    <2>1. pc' \in Step /\ actor' \in {"none", "run", "commit", "rollback", "recovery", "reuse"}
          /\ todo' \subseteq Key
      BY <1>27 DEF Fail, Raise, Handler, Undoes, Replays
    <2>2. /\ state' \in JournalState /\ copy' \subseteq Key /\ temp' \subseteq Key
          /\ litter' \in BOOLEAN
      BY <1>27 DEF Fail, JournalEroded
    <2>3. UNCHANGED <<stores, dir, link, entry, pre, site>>
      BY <1>27 DEF Fail, JournalEroded
    <2> QED
      BY <2>1, <2>2, <2>3
  <1>28. CASE Crash
    BY <1>28 DEF Crash, JournalEroded
  <1>29. ASSUME NEW k \in Key, SkipPreimage(k) PROVE TypeOK'
    BY <1>29 DEF SkipPreimage
  <1>30. ASSUME NEW k \in Key, CopyPreimage(k) PROVE TypeOK'
    BY <1>30 DEF CopyPreimage
  <1>31. ASSUME NEW k \in Key, NamePreimage(k) PROVE TypeOK'
    BY <1>31 DEF NamePreimage
  <1>32. ASSUME NEW k \in Key, MovePreimage(k) PROVE TypeOK'
    BY <1>32 DEF MovePreimage
  <1>33. ASSUME NEW k \in Key, MarkPreimage(k) PROVE TypeOK'
    BY <1>33 DEF MarkPreimage
  <1>34. ASSUME NEW k \in Key, Store(k) PROVE TypeOK'
    BY <1>34 DEF Store
  <1>35. ASSUME NEW k \in Key, Reconcile(k) PROVE TypeOK'
    BY <1>35 DEF Reconcile
  <1>36. ASSUME NEW k \in Key, RestoreEntry(k) PROVE TypeOK'
    BY <1>36 DEF RestoreEntry
  <1>37. CASE UNCHANGED vars
    BY <1>37 DEF vars
  <1> QED
    BY <1>1, <1>2, <1>3, <1>4, <1>5, <1>6, <1>7, <1>8, <1>9, <1>10, <1>11, <1>12, <1>13, <1>14,
       <1>15, <1>16, <1>17, <1>18, <1>19, <1>20, <1>21, <1>22, <1>23, <1>24, <1>25, <1>26, <1>27,
       <1>28, <1>29, <1>30, <1>31, <1>32, <1>33, <1>34, <1>35, <1>36, <1>37 DEF Next, Run,
       Replay, Recover

\* The run's own steps keep the invariant.
LEMMA InvRun ==
    ASSUME TypeOK, TypeOK', IInv, Run
    PROVE  IInv'
  <1> USE DEF Entry, JournalState, EntryState, Step, NoEntry, stores, journal, site, control,
              GoTo, GoIdle, Persist, PersistEntry, RemoveJournal, Batch, NotReady, Durable,
              IsNext, RunUndecided, SettledReport, Decided, Owner,
              Preparing, Prepared, Deciding, Releasing, Failing, Replaying
  <1> USE DEF TypeOK, IInv, ActorAtStep, JournalAtStep, PublicationAtStep, NoJournal,
              LinkedUntilDecided, PreparingFacts, LoopFacts, OwnerFacts, TempFacts,
              ManifestFacts, Unstored, StoredWhole, PreimagesIn, EntriesReady
  <1>1. CASE Begin
    BY <1>1 DEF Begin
  <1>2. CASE MakeJournal
    <2>1. entry' = entry /\ \A k \in Key : entry[k] = "none"
      BY <1>2 DEF MakeJournal
    <2>2. Batch' = {}
      BY <2>1
    <2> QED
      BY <1>2, <2>1, <2>2 DEF MakeJournal
  <1>3. CASE WritePreparing
    BY <1>3 DEF WritePreparing
  <1>4. CASE PreimagesCopied
    BY <1>4 DEF PreimagesCopied
  <1>5. CASE MarkReady
    BY <1>5 DEF MarkReady
  <1>6. CASE MarkCommitting
    BY <1>6 DEF MarkCommitting
  <1>7. CASE AllStored
    BY <1>7 DEF AllStored
  <1>8. CASE MarkCommitted
    BY <1>8 DEF MarkCommitted
  <1>9. CASE PublicationCommitting
    BY <1>9 DEF PublicationCommitting
  <1>10. CASE PublicationCommitted
    BY <1>10 DEF PublicationCommitted
  <1>11. CASE Finish
    BY <1>11 DEF Finish
  <1>12. CASE Unlink
    BY <1>12 DEF Unlink
  <1>13. CASE Drop
    BY <1>13 DEF Drop
  <1>14. CASE Cleanup
    BY <1>14 DEF Cleanup, ReleasePublication
  <1>15. CASE MarkIncomplete
    BY <1>15 DEF MarkIncomplete
  <1>16. CASE RollbackCache
    BY <1>16 DEF RollbackCache
  <1>17. CASE Undo
    BY <1>17 DEF Undo, UndoPublication
  <1>18. ASSUME NEW k \in Key, SkipPreimage(k) PROVE IInv'
    BY <1>18 DEF SkipPreimage
  <1>19. ASSUME NEW k \in Key, CopyPreimage(k) PROVE IInv'
    BY <1>19 DEF CopyPreimage
  <1>20. ASSUME NEW k \in Key, NamePreimage(k) PROVE IInv'
    BY <1>20 DEF NamePreimage
  <1>21. ASSUME NEW k \in Key, MovePreimage(k) PROVE IInv'
    BY <1>21 DEF MovePreimage
  <1>22. ASSUME NEW k \in Key, MarkPreimage(k) PROVE IInv'
    BY <1>22 DEF MarkPreimage
  <1>23. ASSUME NEW k \in Key, Store(k) PROVE IInv'
    BY <1>23 DEF Store
  <1> QED
    BY <1>1, <1>2, <1>3, <1>4, <1>5, <1>6, <1>7, <1>8, <1>9, <1>10, <1>11, <1>12, <1>13, <1>14,
       <1>15, <1>16, <1>17, <1>18, <1>19, <1>20, <1>21, <1>22, <1>23 DEF Run

\* A replay keeps it, whoever replays: the commit, the rollback or the next run.
LEMMA InvReplay ==
    ASSUME TypeOK, TypeOK', IInv, Replay
    PROVE  IInv'
  <1> USE DEF Entry, JournalState, EntryState, Step, NoEntry, stores, journal, site, control,
              GoTo, GoIdle, Persist, PersistEntry, RemoveJournal, Batch, NotReady, Durable,
              IsNext, RunUndecided, SettledReport, Decided, Owner,
              Preparing, Prepared, Deciding, Releasing, Failing, Replaying
  <1> USE DEF TypeOK, IInv, ActorAtStep, JournalAtStep, PublicationAtStep, NoJournal,
              LinkedUntilDecided, PreparingFacts, LoopFacts, OwnerFacts, TempFacts,
              ManifestFacts, Unstored, StoredWhole, PreimagesIn, EntriesReady
  <1>1. CASE RefuseJournal
    <2>1. UNCHANGED <<stores, dir, link, entry, pre, copy, temp, litter, site>> /\ todo' = {}
      BY <1>1 DEF RefuseJournal, Raise
    <2>2. \/ pc' = "idle" /\ actor' = "none" /\ actor = "recovery"
          \/ pc' = "rollback" /\ actor' = "run" /\ actor = "commit"
          \/ pc' = "undo" /\ actor' = "run" /\ actor = "rollback"
      BY <1>1 DEF RefuseJournal, ReadJournal, Raise
    <2>3. \/ state' = state
          \/ state' = "incomplete" /\ state # "none" /\ (state = "preparing" \/ NotReady # {})
      BY <1>1 DEF RefuseJournal
    <2>4. pc = "replay"
      BY <1>1 DEF RefuseJournal, ReadJournal
    <2>5. state' = "incomplete" /\ state # "incomplete" => Unstored /\ link
      BY <2>3, <2>4
    <2>6. /\ Unstored' = Unstored /\ StoredWhole' = StoredWhole
          /\ PreimagesIn' = PreimagesIn /\ EntriesReady' = EntriesReady
      BY <2>1
    <2> HIDE DEF Unstored, StoredWhole, PreimagesIn, EntriesReady
    <2>11. ActorAtStep'
      BY <2>1, <2>2, <2>3, <2>4, <2>5, <2>6
    <2>12. JournalAtStep'
      BY <2>1, <2>2, <2>3, <2>4, <2>5, <2>6
    <2>13. PublicationAtStep'
      BY <2>1, <2>2, <2>3, <2>4, <2>5, <2>6
    <2>14. NoJournal'
      BY <2>1, <2>2, <2>3, <2>4, <2>5, <2>6
    <2>15. LinkedUntilDecided'
      BY <2>1, <2>2, <2>3, <2>4, <2>5, <2>6
    <2>16. PreparingFacts'
      BY <2>1, <2>2, <2>3, <2>4, <2>5, <2>6
    <2>17. LoopFacts'
      BY <2>1, <2>2, <2>3, <2>4, <2>5, <2>6
    <2>18. ManifestFacts'
      BY <2>1, <2>2, <2>3, <2>4, <2>5, <2>6
    <2>19. OwnerFacts'
      BY <2>1, <2>2, <2>4
    <2>20. TempFacts'
      BY <2>1, <2>2, <2>3, <2>4
    <2> QED
      BY <2>11, <2>12, <2>13, <2>14, <2>15, <2>16, <2>17, <2>18, <2>19, <2>20
  <1>2. CASE DiscardJournal
    BY <1>2 DEF DiscardJournal, ReadJournal, MayDiscard
  <1>3. CASE StartRestore
    <2>1. NotReady = {} /\ ~litter /\ pc = "replay" /\ state # "none"
      BY <1>3 DEF StartRestore, ReadJournal, MayDiscard, Acceptable, UnexpectedFiles, Unstarted
    <2>2. EntriesReady
      BY <1>3, <2>1 DEF StartRestore, Acceptable, UnexpectedFiles
    <2>3. PreimagesIn
      BY <1>3, <2>1 DEF StartRestore, Acceptable, PreimageMissing
    <2>4. state = "committed" => link
      BY <1>3 DEF StartRestore, MayDiscard
    <2>5. state \in {"ready", "committing", "restoring", "committed"}
      BY <1>3, <2>1 DEF StartRestore, Acceptable, MayDiscard
    <2>6. /\ state' = "restoring" /\ pc' = "restore" /\ todo' = Batch /\ actor' = actor
          /\ UNCHANGED <<stores, dir, link, entry, pre, copy, temp, litter, site>>
      BY <1>3 DEF StartRestore
    <2>7. EntriesReady' /\ PreimagesIn'
      BY <2>2, <2>3, <2>6
    <2>8. ActorAtStep' /\ JournalAtStep' /\ PublicationAtStep' /\ NoJournal'
      BY <2>1, <2>4, <2>5, <2>6
    <2>9. LinkedUntilDecided' /\ PreparingFacts'
      BY <2>1, <2>4, <2>5, <2>6
    <2>10. LoopFacts'
      BY <2>1, <2>6, <2>7
    <2>11. OwnerFacts' /\ TempFacts'
      BY <2>1, <2>2, <2>6
    <2>12. ManifestFacts'
      BY <2>6, <2>7
    <2> QED
      BY <2>8, <2>9, <2>10, <2>11, <2>12
  <1>4. CASE AllRestored
    BY <1>4 DEF AllRestored
  <1>5. CASE MarkRolledBack
    BY <1>5 DEF MarkRolledBack
  <1>6. CASE Remove
    BY <1>6 DEF Remove, Return
  <1>7. ASSUME NEW k \in Key, Reconcile(k) PROVE IInv'
    BY <1>7 DEF Reconcile, Reconcilable
  <1>8. ASSUME NEW k \in Key, RestoreEntry(k) PROVE IInv'
    BY <1>8 DEF RestoreEntry
  <1> QED
    BY <1>1, <1>2, <1>3, <1>4, <1>5, <1>6, <1>7, <1>8 DEF Replay

\* The next run keeps it, with the cache or without.
LEMMA InvRecover ==
    ASSUME TypeOK, TypeOK', IInv, Recover
    PROVE  IInv'
  <1> USE DEF Entry, JournalState, EntryState, Step, NoEntry, stores, journal, site, control,
              GoTo, GoIdle, Persist, PersistEntry, RemoveJournal, Batch, NotReady, Durable,
              IsNext, RunUndecided, SettledReport, Decided, Owner,
              Preparing, Prepared, Deciding, Releasing, Failing, Replaying
  <1> USE DEF TypeOK, IInv, ActorAtStep, JournalAtStep, PublicationAtStep, NoJournal,
              LinkedUntilDecided, PreparingFacts, LoopFacts, OwnerFacts, TempFacts,
              ManifestFacts, Unstored, StoredWhole, PreimagesIn, EntriesReady
  <1>1. CASE StartRecovery
    BY <1>1 DEF StartRecovery
  <1>2. CASE RecoverPublication
    BY <1>2 DEF RecoverPublication, ReleasePublication, UndoPublication
  <1> QED
    BY <1>1, <1>2 DEF Recover

\* A clean-up that may be interrupted removes only what nobody will need.
LEMMA ErodedIsDecided ==
    ASSUME TypeOK, IInv, pc \in {"drop", "remove"}
    PROVE  Unstored \/ (StoredWhole /\ Decided)
  BY DEF IInv, ActorAtStep, JournalAtStep, PublicationAtStep, LinkedUntilDecided, ManifestFacts,
         Decided, SettledReport, RunUndecided, Durable, Releasing, Replaying

\* What a failure or a death leaves of the files.
Erosion ==
    /\ UNCHANGED <<stores, dir, link, entry, pre, site>>
    /\ state' \in {state, "none"} /\ copy' \subseteq copy /\ temp' \subseteq temp
    /\ pc \notin {"drop", "remove"} => UNCHANGED <<state, copy>>
    /\ litter' => litter \/ pc' = "idle"
    /\ pc \notin {"drop", "remove"} => (litter => litter')
    /\ pc' = "incomplete" => temp' = {}
    /\ pc' = "rollback" /\ pc \in Undoes => temp' = {}

\* Where they leave the process.
Diverted ==
    /\ todo' = {}
    /\ \/ /\ pc' = "idle" /\ actor' = "none"
       \/ /\ pc' = "incomplete" /\ actor' = "run" /\ pc \in Preparing
       \/ /\ pc' = "rollback" /\ actor' = "run"
          /\ pc \in Undoes \/ (pc \in Replaying /\ actor = "commit")
       \/ /\ pc' = "replay" /\ actor' = "commit"
          /\ pc \in {"committing", "store", "committed"} \/ (pc = "publication" /\ dir)
       \/ /\ pc' = "undo" /\ actor' = "run"
          /\ pc = "rollback" \/ (pc \in Replaying /\ actor = "rollback")

LEMMA InvDiverted ==
    ASSUME TypeOK, TypeOK', IInv, Erosion, Diverted, ~dir => ~litter'
    PROVE  IInv'
  <1> USE DEF Entry, JournalState, EntryState, Step, NoEntry, stores, journal, site, control,
              GoTo, GoIdle, Persist, PersistEntry, RemoveJournal, Batch, NotReady, Durable,
              IsNext, RunUndecided, SettledReport, Owner,
              Preparing, Prepared, Deciding, Releasing, Failing, Replaying
  <1> USE DEF TypeOK, IInv, ActorAtStep, JournalAtStep, PublicationAtStep, NoJournal,
              LinkedUntilDecided, PreparingFacts, LoopFacts, OwnerFacts, TempFacts,
              ManifestFacts, Unstored, StoredWhole, PreimagesIn, EntriesReady
  <1>1. pc \in {"drop", "remove"} => Unstored \/ (StoredWhole /\ Decided)
    BY ErodedIsDecided
  <1>2. ~RunUndecided => ~RunUndecided'
    BY DEF Diverted, Undoes
  <1>3. Batch' = Batch /\ NotReady' = NotReady
    BY DEF Erosion
  <1>4. Decided => Decided'
    BY <1>2 DEF Decided, Erosion
  <1>5. ActorAtStep'
    BY DEF Erosion, Diverted, Undoes
  <1>6. JournalAtStep'
    BY <1>1, <1>2, <1>3 DEF Erosion, Diverted, Undoes, Decided
  <1>7. PublicationAtStep'
    BY <1>1, <1>2, <1>3 DEF Erosion, Diverted, Undoes
  <1>8. NoJournal'
    BY <1>1, <1>2, <1>3 DEF Erosion, Diverted, Undoes
  <1>9. LinkedUntilDecided'
    BY <1>1, <1>3, <1>4 DEF Erosion, Diverted, Undoes
  <1>10. PreparingFacts'
    BY <1>1, <1>2, <1>3 DEF Erosion, Diverted, Undoes
  <1>11. LoopFacts'
    BY <1>1, <1>2, <1>3 DEF Erosion, Diverted, Undoes
  <1>12. OwnerFacts'
    BY <1>3 DEF Erosion, Diverted, Undoes
  <1>13. TempFacts'
    BY <1>3 DEF Erosion, Diverted, Undoes
  <1>14. ManifestFacts'
    BY <1>1, <1>3, <1>4 DEF Erosion, Diverted, Undoes
  <1> QED
    BY <1>5, <1>6, <1>7, <1>8, <1>9, <1>10, <1>11, <1>12, <1>13, <1>14

LEMMA FaultShape ==
    ASSUME TypeOK, IInv, Fail \/ Crash
    PROVE  Erosion /\ Diverted /\ (~dir => ~litter')
  <1>1. Erosion
    <2> USE DEF JournalEroded, Erosion, stores, journal, site, TypeOK
    <2>1. CASE Fail
      <3>1. pc' \in {"incomplete", "rollback"} /\ pc \notin Replaying => actor = "run"
        BY <2>1 DEF Fail, Handler, Undoes, IInv, ActorAtStep, Preparing, Prepared, Deciding,
                    Failing, Replays, Replaying
      <3>2. pc' \in {"incomplete", "rollback"} /\ pc \in Replaying => pc' = "rollback"
        BY <2>1 DEF Fail, Raise, GoIdle, Handler, Undoes, Replays, Replaying
      <3>3. JournalEroded => pc' # "incomplete" /\ pc \notin Undoes
        BY <2>1 DEF Fail, Raise, GoIdle, Handler, Undoes, Replays, Preparing
      <3>4. CASE JournalEroded
        <4>1. CASE litter' = litter
          BY <3>3, <3>4, <4>1
        <4>2. CASE litter' = FALSE
          BY <3>3, <3>4, <4>2
        <4> QED
          BY <3>4, <4>1, <4>2
      <3>5. CASE temp' = IF actor = "run" THEN {} ELSE temp
        <4>1. pc' = "incomplete" \/ (pc' = "rollback" /\ pc \in Undoes) => temp' = {}
          BY <3>1, <3>2, <3>5 DEF Undoes, Replaying
        <4>2. JournalEroded \/ UNCHANGED <<stores, dir, state, link, entry, pre, copy, litter, site>>
          BY <2>1 DEF Fail
        <4>3. temp' \subseteq temp
          BY <3>5
        <4>4. CASE UNCHANGED <<stores, dir, state, link, entry, pre, copy, litter, site>>
          <5>1. litter' = litter /\ UNCHANGED <<stores, dir, state, link, entry, pre, copy, site>>
            BY <4>4
          <5> QED
            BY <4>1, <4>3, <5>1
        <4> QED
          BY <3>4, <4>2, <4>4
      <3> QED
        BY <2>1, <3>4, <3>5 DEF Fail
    <2>2. CASE Crash
      <3>1. CASE JournalEroded
        <4>1. CASE litter' = litter
          BY <2>2, <3>1, <4>1 DEF Crash, GoIdle
        <4>2. CASE litter' = FALSE
          BY <2>2, <3>1, <4>2 DEF Crash, GoIdle
        <4> QED
          BY <3>1, <4>1, <4>2
      <3>2. CASE UNCHANGED <<stores, journal, site>>
        <4>1. litter' = litter /\ UNCHANGED <<stores, dir, state, link, entry, pre, copy, temp, site>>
          BY <3>2
        <4>2. pc' = "idle"
          BY <2>2 DEF Crash, GoIdle
        <4> QED
          BY <4>1, <4>2
      <3>3. CASE litter' = TRUE /\ UNCHANGED <<stores, dir, state, link, entry, pre, copy, temp, site>>
        BY <2>2, <3>3 DEF Crash, GoIdle
      <3> QED
        BY <2>2, <3>1, <3>2, <3>3 DEF Crash
    <2> QED
      BY <2>1, <2>2
  <1>2. ~dir => ~litter'
    BY DEF Fail, Crash, JournalEroded, journal, IInv, NoJournal
  <1>3. Diverted
    <2>1. CASE Fail
      BY <2>1 DEF Fail, Raise, Handler, Undoes, Replays, GoIdle, Diverted, Preparing, Replaying,
                  IInv, ActorAtStep
    <2>2. CASE Crash
      BY <2>2 DEF Crash, GoIdle, Diverted
    <2> QED
      BY <2>1, <2>2
  <1> QED
    BY <1>1, <1>2, <1>3

LEMMA InvFault == ASSUME TypeOK, TypeOK', IInv, Fail \/ Crash PROVE IInv'
  BY FaultShape, InvDiverted

-----------------------------------------------------------------------------
(* Theorems *)

LEMMA InvInit == Init => IInv
  BY DEF Init, IInv, ActorAtStep, JournalAtStep, PublicationAtStep, NoJournal, OwnerFacts,
         TempFacts, LinkedUntilDecided, PreparingFacts, LoopFacts, ManifestFacts, Unstored,
         StoredWhole, Batch, NoEntry, Owner, Preparing, Prepared, Deciding, Releasing, Failing,
         Replaying

\* Others store only while no owner of a batch is alive, and nobody restores.
LEMMA InvOther == ASSUME TypeOK, TypeOK', IInv, StoreByOther PROVE IInv'
  <1>1. /\ UNCHANGED <<stored, dir, state, link, entry, pre, copy, temp, litter>>
        /\ UNCHANGED <<publication, report, new, pc, actor, todo>>
    BY DEF StoreByOther, journal, site, control
  <1>2. actor \notin Owner /\ pc \notin {"restore", "rolled_back"}
    BY DEF StoreByOther, IInv, ActorAtStep, Owner, Replaying
  <1> QED
    BY <1>1, <1>2
    DEF IInv, ActorAtStep, JournalAtStep, PublicationAtStep, NoJournal, LinkedUntilDecided,
        PreparingFacts, LoopFacts, OwnerFacts, TempFacts, ManifestFacts, Unstored, StoredWhole,
        PreimagesIn, EntriesReady, NotReady, Batch, NoEntry, Durable, Decided, SettledReport,
        RunUndecided, IsNext

LEMMA InvNext ==
    ASSUME TypeOK, IInv, [Next]_vars
    PROVE  IInv'
  <1>1. TypeOK'
    BY TypeOKNext
  <1>2. CASE UNCHANGED vars
    <2>1. /\ UNCHANGED <<cache, stored, dir, state, link, entry, pre, copy, temp, litter>>
          /\ UNCHANGED <<publication, report, new, pc, actor, todo>>
      BY <1>2 DEF vars, stores, journal, site, control
    <2> QED
      BY <2>1
      DEF IInv, ActorAtStep, JournalAtStep, PublicationAtStep, NoJournal, LinkedUntilDecided,
          PreparingFacts, LoopFacts, OwnerFacts, TempFacts, ManifestFacts, Unstored,
          StoredWhole, PreimagesIn, EntriesReady, NotReady, Batch, NoEntry, Durable, Decided,
          SettledReport, RunUndecided, IsNext
  <1> QED
    BY <1>1, <1>2, InvRun, InvReplay, InvRecover, InvOther, InvFault DEF Next

\* Every variable keeps its type, whatever other processes and later runs do.
THEOREM TypeCorrect == Spec => []TypeOK
  BY TypeOKInit, TypeOKNext, PTL DEF Spec

LEMMA Invariance == Spec => [](TypeOK /\ IInv)
  <1>1. Init => TypeOK /\ IInv
    BY TypeOKInit, InvInit
  <1>2. TypeOK /\ IInv /\ [Next]_vars => (TypeOK /\ IInv)'
    BY TypeOKNext, InvNext
  <1> QED
    BY <1>1, <1>2, PTL DEF Spec

\* No crash, failed clean-up or repeated rollback, and no number of them, leaves a batch
\* stored that is not there to stay without the preimages it takes to restore it.
THEOREM RestorableJournal == Spec => []PreimagesHeld
  <1>1. TypeOK /\ IInv => PreimagesHeld
    <2> SUFFICES ASSUME TypeOK, IInv, stored # {}, ~IsPublished, NEW k \in Batch
                 PROVE  entry[k] = "ready" /\ (pre[k] # Absent => k \in copy)
      BY DEF PreimagesHeld
    <2>1. EntriesReady /\ PreimagesIn
      BY DEF IInv, ManifestFacts, Unstored, StoredWhole, Decided, IsPublished, TypeOK,
             JournalState
    <2> QED
      BY <2>1 DEF EntriesReady, NotReady, PreimagesIn, Batch, TypeOK, EntryState
  <1> QED
    BY <1>1, Invariance, PTL

\* A journal whose preimages are complete gives recovery no reason to refuse it.
LEMMA CompleteIsReplayable ==
    ASSUME TypeOK, EntriesReady, PreimagesIn, ~litter
    PROVE  Replayable
  <1>1. ~PreimageMissing
    BY DEF PreimageMissing, PreimagesIn, Batch
  <1>2. ~UnexpectedFiles
    BY DEF UnexpectedFiles, EntriesReady, NotReady
  <1>3. \A k \in Batch : entry[k] = "ready"
    BY DEF EntriesReady, NotReady, Batch, TypeOK, EntryState
  <1> QED
    BY <1>1, <1>2, <1>3 DEF Replayable

\* A journal that every later recovery refuses belongs to a batch that is stored with its
\* report or not at all, unless a death inside a manifest write left its temporary file.
THEOREM RefusalIsHarmless == Spec => []RefusedIsWhole
  <1>1. TypeOK /\ IInv => RefusedIsWhole
    <2> SUFFICES ASSUME TypeOK, IInv, Stuck, ~litter PROVE Unstored \/ IsPublished
      BY DEF RefusedIsWhole, Unstored
    <2>1. CASE state \in {"none", "incomplete", "preparing", "ready", "rolled_back"}
      BY <2>1 DEF IInv, ManifestFacts, StoredWhole, Decided, IsPublished
    <2>2. CASE state \notin {"none", "incomplete"} /\ EntriesReady /\ PreimagesIn
      BY <2>2, CompleteIsReplayable DEF Replayable, Stuck
    <2>3. StoredWhole /\ Decided => IsPublished
      BY DEF StoredWhole, Decided, IsPublished
    <2> QED
      BY <2>1, <2>2, <2>3 DEF IInv, ManifestFacts, TypeOK, JournalState
  <1> QED
    BY <1>1, Invariance, PTL

-----------------------------------------------------------------------------
(* Refinement: the commit of report and cache implements DailyCommit *)

Settled == <<SettledReport, SettledEntries>>

\* The entries once the journal is replayed.
Overlaid == [k \in Key |-> IF k \in Batch THEN pre[k] ELSE cache[k]]

\* Restoring a batch of which its live owner has stored nothing changes nothing.
LEMMA UnstoredEntries ==
    ASSUME TypeOK, IInv, actor \in Owner, Unstored
    PROVE  Overlaid = cache /\ SettledEntries = cache
  <1>1. Overlaid = cache
    BY DEF TypeOK, Unstored, Overlaid, IInv, OwnerFacts
  <1> QED
    BY <1>1 DEF SettledEntries, Overlaid

\* A live owner that has stored something can still restore it, until all is decided.
LEMMA OwnerRestores ==
    ASSUME TypeOK, IInv, actor \in Owner, ~Unstored, ~Decided
    PROVE  /\ EntriesReady /\ PreimagesIn /\ Replayable
           /\ state \in {"committing", "committed", "restoring"}
  <1>1. EntriesReady /\ PreimagesIn /\ state \in {"committing", "committed", "restoring"}
    BY DEF IInv, ManifestFacts, TypeOK, JournalState
  <1> QED
    BY <1>1, CompleteIsReplayable DEF IInv, OwnerFacts

\* What Replayable says depends on the journal alone.
LEMMA SameJournal ==
    ASSUME UNCHANGED <<entry, pre, copy, temp, litter>>
    PROVE  Replayable' <=> Replayable
  BY DEF Replayable, Reconcilable, PreimageMissing, UnexpectedFiles, Batch

\* The entries are what they were when nothing is restored that was not to be before.
LEMMA SameEntries ==
    ASSUME UNCHANGED <<cache, entry, pre>>, WillRestore' <=> WillRestore
    PROVE  SettledEntries' = SettledEntries
  BY DEF SettledEntries, Batch

\* Nor do they change when it does not matter whether they are restored.
LEMMA SameUnstored ==
    ASSUME TypeOK, IInv, actor \in Owner, Unstored, UNCHANGED <<cache, entry, pre>>
    PROVE  SettledEntries' = SettledEntries
  <1>1. Overlaid' = cache /\ SettledEntries = cache
    BY UnstoredEntries DEF Overlaid, Batch
  <1> QED
    BY <1>1 DEF SettledEntries, Overlaid

\* Making the journal.
Making ==
    \/ Begin \/ MakeJournal \/ WritePreparing \/ PreimagesCopied \/ MarkIncomplete
    \/ \E k \in Key : SkipPreimage(k) \/ CopyPreimage(k) \/ NamePreimage(k)
                      \/ MovePreimage(k) \/ MarkPreimage(k)

LEMMA SettledMaking ==
    ASSUME TypeOK, IInv, Making
    PROVE  Settled' = Settled /\ SettledReport = report
  <1> USE DEF stores, journal, site, GoTo, Persist, PersistEntry, IInv, ActorAtStep,
              JournalAtStep, NoJournal, Preparing, Prepared, Deciding, Releasing, Failing
  <1>1. /\ UNCHANGED cache
        /\ state \in {"none", "preparing"} /\ state' \in {"none", "preparing", "incomplete"}
    BY DEF Making, Begin, MakeJournal, WritePreparing, PreimagesCopied, MarkIncomplete,
           SkipPreimage, CopyPreimage, NamePreimage, MovePreimage, MarkPreimage
  <1>2. SettledReport = report /\ SettledReport' = report
    BY DEF Making, Begin, MakeJournal, WritePreparing, PreimagesCopied, MarkIncomplete,
           SkipPreimage, CopyPreimage, NamePreimage, MovePreimage, MarkPreimage,
           SettledReport, RunUndecided
  <1>3. ~WillRestore /\ ~WillRestore'
    BY <1>1 DEF WillRestore
  <1> QED
    BY <1>1, <1>2, <1>3 DEF Settled, SettledEntries

\* The batch is stored, and its publication commits: all can still be undone.
Committing == \/ MarkReady \/ MarkCommitting \/ AllStored \/ MarkCommitted
              \/ PublicationCommitting \/ PublicationCommitted
              \/ \E k \in Key : Store(k)

LEMMA SettledCommitting ==
    ASSUME TypeOK, IInv, Committing
    PROVE  Settled' = Settled /\ SettledReport = report
  <1> USE DEF stores, journal, site, GoTo, Persist
  <1>1. /\ actor = "run" /\ actor' = "run"
        /\ pc \in Prepared \cup Deciding /\ pc' \in Prepared \cup Deciding
        /\ UNCHANGED <<dir, link, entry, pre, copy, temp, litter, report, new>>
    BY DEF Committing, MarkReady, MarkCommitting, AllStored, MarkCommitted,
           PublicationCommitting, PublicationCommitted, Store, IInv, ActorAtStep, Prepared,
           Deciding
  <1>2. RunUndecided /\ RunUndecided' /\ SettledReport = report /\ SettledReport' = report
    BY <1>1 DEF RunUndecided, SettledReport, Prepared, Deciding, Preparing
  <1>3. Replayable' <=> Replayable
    BY <1>1, SameJournal
  <1>4. CASE MarkReady \/ MarkCommitting
    <2>1. Unstored /\ cache' = cache
      BY <1>4 DEF MarkReady, MarkCommitting, IInv, JournalAtStep, ManifestFacts
    <2> QED
      BY <1>1, <1>2, <2>1, SameUnstored DEF Settled, Owner
  <1>5. CASE AllStored \/ MarkCommitted \/ PublicationCommitting \/ PublicationCommitted
    <2>1. \/ state' = state
          \/ state = "committing" /\ state' = "committed"
      BY <1>5 DEF AllStored, MarkCommitted, PublicationCommitting, PublicationCommitted,
                  IInv, JournalAtStep
    <2>2. cache' = cache /\ (WillRestore' <=> WillRestore)
      BY <1>2, <1>3, <1>5, <2>1 DEF AllStored, MarkCommitted, PublicationCommitting,
                                    PublicationCommitted, WillRestore
    <2> QED
      BY <1>1, <1>2, <2>2, SameEntries DEF Settled
  <1>6. ASSUME NEW k \in Key, Store(k) PROVE Settled' = Settled
    <2>1. state = "committing" /\ state' = "committing" /\ k \in Batch
      BY <1>6 DEF Store, IsNext, IInv, JournalAtStep, LoopFacts
    <2>2. WillRestore /\ WillRestore'
      BY <1>1, <1>3, <2>1, CompleteIsReplayable DEF WillRestore, IInv, ManifestFacts,
                                                    OwnerFacts, Owner
    <2>3. Overlaid' = Overlaid
      BY <1>1, <1>6, <2>1 DEF Store, Overlaid, Batch, TypeOK
    <2> QED
      BY <1>2, <2>2, <2>3 DEF Settled, SettledEntries, Overlaid
  <1> QED
    BY <1>2, <1>4, <1>5, <1>6 DEF Committing

\* After the point of no return the journal is only in the way.
LEMMA SettledReleasing ==
    ASSUME TypeOK, IInv, Unlink \/ Drop \/ Cleanup
    PROVE  Settled' = Settled /\ ~WillRestore'
  <1> USE DEF stores, journal, site, GoTo, GoIdle, RemoveJournal, ReleasePublication
  <1>1. cache' = cache /\ ~RunUndecided /\ ~RunUndecided' /\ publication = "committed"
    BY DEF Unlink, Drop, Cleanup, RunUndecided, IInv, ActorAtStep, PublicationAtStep, Releasing
  <1>2. SettledReport = new /\ SettledReport' = new
    BY <1>1 DEF Unlink, Drop, Cleanup, SettledReport
  <1>3. ~WillRestore /\ ~WillRestore'
    BY <1>1 DEF Unlink, Drop, Cleanup, WillRestore, Durable, IInv, JournalAtStep, NoJournal
  <1> QED
    BY <1>1, <1>2, <1>3 DEF Settled, SettledEntries

\* Undoing a run that failed restores what was to be restored if it had died.
LEMMA SettledUndoing ==
    ASSUME TypeOK, IInv, RollbackCache \/ Undo
    PROVE  Settled' = Settled /\ SettledReport = report
  <1> USE DEF stores, journal, site, GoTo, GoIdle, Persist, UndoPublication
  <1>1. /\ UNCHANGED <<cache, link, entry, pre, copy, temp, litter, report>>
        /\ RunUndecided /\ actor \in Owner
    BY DEF RollbackCache, Undo, RunUndecided, Owner, IInv, ActorAtStep, Failing
  <1>2. Replayable' <=> Replayable
    BY <1>1, SameJournal
  <1>3. SettledReport = report /\ SettledReport' = report
    BY <1>1 DEF RollbackCache, Undo, SettledReport, RunUndecided
  <1>4. CASE Unstored
    BY <1>1, <1>3, <1>4, SameUnstored DEF Settled
  <1>5. CASE RollbackCache /\ ~Unstored
    <2>1. WillRestore
      BY <1>1, <1>5, OwnerRestores DEF WillRestore, Decided
    <2>2. WillRestore'
      BY <1>1, <1>2, <2>1, <1>5 DEF WillRestore, RollbackCache, RunUndecided
    <2> QED
      BY <1>1, <1>3, <2>1, <2>2, SameEntries DEF Settled
  <1>6. CASE Undo
    <2>1. WillRestore' <=> WillRestore
      BY <1>1, <1>2, <1>6 DEF Undo, WillRestore, Durable, IInv, LinkedUntilDecided, Decided
    <2> QED
      BY <1>1, <1>3, <2>1, SameEntries DEF Settled
  <1> QED
    BY <1>4, <1>5, <1>6

\* Of the run's own steps only Finish publishes.
LEMMA SettledRun ==
    ASSUME TypeOK, IInv, ~Finish, Run
    PROVE  Settled' = Settled /\ (WillRestore' => SettledReport = report)
  BY SettledMaking, SettledCommitting, SettledReleasing, SettledUndoing
  DEF Run, Making, Committing

\* A replay that reads on or gives up leaves the fate of the journal as it was.
LEMMA SettledReading ==
    ASSUME TypeOK, IInv, RefuseJournal \/ DiscardJournal \/ StartRestore \/ AllRestored
    PROVE  Settled' = Settled /\ (WillRestore' => WillRestore)
  <1> USE DEF stores, journal, site, GoTo, Persist
  <1>1. /\ UNCHANGED <<cache, link, entry, pre, copy, temp, litter, publication, report, new>>
        /\ pc \in {"replay", "restore"} /\ actor \in {"commit", "rollback", "recovery"}
    BY DEF RefuseJournal, DiscardJournal, StartRestore, AllRestored, ReadJournal, IInv,
           ActorAtStep, Replaying
  <1>2. RunUndecided' <=> RunUndecided
    BY <1>1 DEF RefuseJournal, DiscardJournal, StartRestore, AllRestored, Raise, GoIdle,
                RunUndecided
  <1>3. SettledReport' = SettledReport /\ (Durable' <=> Durable)
    BY <1>1, <1>2 DEF SettledReport, Durable
  <1>4. Replayable' <=> Replayable
    BY <1>1, SameJournal
  <1>5. CASE RefuseJournal
    <2>1. state \in {"none", "incomplete"} \/ PreimageMissing \/ UnexpectedFiles => ~WillRestore
      BY DEF WillRestore, Replayable
    <2>2. ASSUME NotReady # {}, state # "none" PROVE ~WillRestore
      <3>1. PICK k \in Batch : entry[k] # "ready"
        BY <2>2 DEF NotReady, Batch
      <3>2. ~Reconcilable(k)
        BY <1>5, <2>2 DEF RefuseJournal, ReadJournal, Batch
      <3> QED
        BY <3>1, <3>2 DEF WillRestore, Replayable
    <2>3. ~WillRestore
      BY <1>5, <2>1, <2>2 DEF RefuseJournal
    <2>4. state' \in {state, "incomplete"}
      BY <1>5 DEF RefuseJournal
    <2>5. ~WillRestore'
      BY <1>2, <1>3, <1>4, <2>3, <2>4 DEF WillRestore
    <2> QED
      BY <1>1, <1>3, <2>3, <2>5, SameEntries DEF Settled
  <1>6. CASE DiscardJournal \/ AllRestored
    <2>1. state' = state
      BY <1>6 DEF DiscardJournal, AllRestored
    <2>2. WillRestore' <=> WillRestore
      BY <1>2, <1>3, <1>4, <2>1 DEF WillRestore
    <2> QED
      BY <1>1, <1>3, <2>2, SameEntries DEF Settled
  <1>7. CASE StartRestore
    <2>1. /\ NotReady = {} /\ ~PreimageMissing /\ ~UnexpectedFiles
          /\ \/ state \in {"ready", "committing", "restoring"}
             \/ state = "committed" /\ ~Durable
      BY <1>7 DEF StartRestore, Acceptable, MayDiscard, Unstarted, TypeOK, JournalState
    <2>2. Replayable
      BY <2>1 DEF Replayable, NotReady, Batch, TypeOK, EntryState
    <2>3. WillRestore /\ WillRestore'
      BY <1>4, <1>7, <2>1, <2>2 DEF WillRestore, StartRestore
    <2> QED
      BY <1>1, <1>3, <2>3, SameEntries DEF Settled
  <1> QED
    BY <1>5, <1>6, <1>7

\* Acknowledging a preimage that is in place changes nothing either.
LEMMA SettledReconcile ==
    ASSUME TypeOK, IInv, NEW j \in Key, Reconcile(j)
    PROVE  Settled' = Settled /\ (WillRestore' => WillRestore)
  <1> USE DEF site, control
  <1>1. /\ UNCHANGED <<cache, state, link, pre, litter, publication, report, new, pc, actor>>
        /\ copy' = copy \cup {j} /\ temp' = temp \ {j} /\ entry' = [entry EXCEPT ![j] = "ready"]
        /\ entry[j] = "named" /\ (j \in copy \cup temp)
    BY DEF Reconcile, Reconcilable, stores
  <1>2. Batch' = Batch /\ SettledReport' = SettledReport
    BY <1>1 DEF Batch, SettledReport, RunUndecided, TypeOK
  <1>3. CASE state \notin {"ready", "committing", "committed", "restoring"}
    <2>1. ~WillRestore /\ ~WillRestore'
      BY <1>1, <1>3 DEF WillRestore
    <2> QED
      BY <1>1, <1>2, <2>1 DEF Settled, SettledEntries
  <1>4. CASE state \in {"ready", "committing", "committed", "restoring"}
    <2>1. temp = {} /\ temp' = {} /\ copy' = copy
      BY <1>1, <1>4 DEF IInv, TempFacts
    <2>2. PreimageMissing' <=> PreimageMissing
      BY <1>1, <2>1 DEF PreimageMissing, TypeOK
    <2>3. UnexpectedFiles' <=> UnexpectedFiles
      BY <1>1, <2>1 DEF UnexpectedFiles, TypeOK
    <2>4. \A k \in Batch : (entry[k] = "ready" \/ Reconcilable(k))
                           <=> (entry[k] = "ready" \/ Reconcilable(k))'
      BY <1>1, <2>1 DEF Reconcilable, TypeOK, Batch
    <2>5. Replayable' <=> Replayable
      BY <1>2, <2>2, <2>3, <2>4 DEF Replayable
    <2>6. WillRestore' <=> WillRestore
      BY <1>1, <2>5 DEF WillRestore, RunUndecided, Durable
    <2> QED
      BY <1>1, <1>2, <2>6 DEF Settled, SettledEntries
  <1> QED
    BY <1>3, <1>4

\* Restoring brings about what was to come, and then the journal goes.
LEMMA SettledRestoring ==
    ASSUME TypeOK, IInv, \/ MarkRolledBack \/ Remove
                         \/ \E k \in Key : RestoreEntry(k)
    PROVE  Settled' = Settled /\ (WillRestore' => WillRestore)
  <1> USE DEF stores, journal, site, Persist
  <1>1. SettledReport' = SettledReport
    BY DEF MarkRolledBack, Remove, RemoveJournal, Return, RestoreEntry, GoTo, SettledReport,
           RunUndecided, IInv, ActorAtStep, Replaying
  <1>2. CASE MarkRolledBack
    <2>1. Overlaid = cache
      BY <1>2 DEF MarkRolledBack, Overlaid, IInv, LoopFacts, TypeOK
    <2>2. SettledEntries = cache
      BY <2>1 DEF SettledEntries, Overlaid
    <2>3. cache' = cache /\ ~WillRestore'
      BY <1>2 DEF MarkRolledBack, WillRestore
    <2> QED
      BY <1>1, <2>2, <2>3 DEF Settled, SettledEntries
  <1>3. CASE Remove
    <2>1. ~WillRestore
      BY <1>3 DEF Remove, WillRestore, Durable, RunUndecided, Decided, IInv, ActorAtStep,
                  JournalAtStep, PublicationAtStep, LinkedUntilDecided, Replaying
    <2>2. cache' = cache /\ ~WillRestore'
      BY <1>3 DEF Remove, RemoveJournal, WillRestore
    <2> QED
      BY <1>1, <2>1, <2>2 DEF Settled, SettledEntries
  <1>4. ASSUME NEW k \in Key, RestoreEntry(k)
        PROVE  Settled' = Settled /\ (WillRestore' => WillRestore)
    <2>1. /\ UNCHANGED <<dir, state, link, entry, pre, copy, temp, litter>>
          /\ state = "restoring" /\ Replayable /\ k \in Batch
      BY <1>4, CompleteIsReplayable
      DEF RestoreEntry, IsNext, IInv, JournalAtStep, LoopFacts
    <2>2. WillRestore /\ WillRestore'
      BY <2>1, SameJournal DEF WillRestore
    <2>3. Overlaid' = Overlaid
      BY <1>4, <2>1 DEF RestoreEntry, Overlaid, Batch, TypeOK
    <2> QED
      BY <1>1, <2>2, <2>3 DEF Settled, SettledEntries, Overlaid
  <1> QED
    BY <1>2, <1>3, <1>4

\* A replay brings about what the next recovery would.
LEMMA SettledReplay ==
    ASSUME TypeOK, IInv, Replay
    PROVE  Settled' = Settled /\ (WillRestore' => WillRestore)
  BY SettledReading, SettledReconcile, SettledRestoring DEF Replay

\* A run that finds an orphan decides nothing its manifests have not, unless it has no
\* cache to recover first.
LEMMA SettledRecover ==
    ASSUME TypeOK, IInv, Recover
    PROVE  /\ SettledReport' = SettledReport
           /\ actor # "reuse" => SettledEntries' = SettledEntries /\ (WillRestore' <=> WillRestore)
  <1> USE DEF stores, journal, site, GoIdle, ReleasePublication, UndoPublication
  <1>1. /\ UNCHANGED <<cache, dir, state, link, entry, pre, copy, temp, litter>>
        /\ ~RunUndecided /\ ~RunUndecided'
    BY DEF Recover, StartRecovery, RecoverPublication, RunUndecided, IInv, ActorAtStep
  <1>2. SettledReport' = SettledReport
    BY <1>1 DEF Recover, StartRecovery, RecoverPublication, SettledReport
  <1>3. CASE StartRecovery
    <2>1. WillRestore' <=> WillRestore
      BY <1>1, <1>3, SameJournal DEF StartRecovery, WillRestore, Durable
    <2> QED
      BY <1>1, <1>2, <2>1, SameEntries
  <1>4. CASE RecoverPublication
    <2>1. actor # "reuse" => state = "none"
      BY <1>4 DEF RecoverPublication, IInv, ActorAtStep, JournalAtStep, NoJournal
    <2>2. state = "none" => ~WillRestore /\ ~WillRestore'
      BY <1>1 DEF WillRestore
    <2> QED
      BY <1>1, <1>2, <2>1, <2>2, SameEntries
  <1> QED
    BY <1>3, <1>4 DEF Recover

\* A committed publication whose owner will no longer undo it: the report is new, and the
\* batch is stored with it unless its journal was already being restored.
LEMMA PublishStep ==
    ASSUME TypeOK, IInv, actor \in Owner, SettledReport' = new,
           UNCHANGED <<cache, entry, pre>>,
           WillRestore' => WillRestore,
           WillRestore /\ ~WillRestore' => Unstored \/ StoredWhole
    PROVE  Promise!Publish
  <1>1. new \in Content /\ Batch \in SUBSET Key
    BY DEF TypeOK, Batch
  <1>2. SettledEntries' = SettledEntries \/ SettledEntries' = Promise!Stored(Batch, new)
    <2>1. CASE Unstored
      BY <2>1, SameUnstored
    <2>2. CASE WillRestore' <=> WillRestore
      BY <2>2, SameEntries
    <2>3. CASE StoredWhole /\ WillRestore /\ ~WillRestore'
      <3>1. SettledEntries = Overlaid /\ SettledEntries' = cache
        BY <2>3 DEF SettledEntries, Overlaid
      <3>2. cache = [k \in Key |-> IF k \in Batch THEN new ELSE Overlaid[k]]
        BY <2>3 DEF StoredWhole, Overlaid, TypeOK, IInv, OwnerFacts
      <3> QED
        BY <3>1, <3>2 DEF Promise!Stored
    <2> QED
      BY <2>1, <2>2, <2>3
  <1> QED
    BY <1>1, <1>2 DEF Promise!Publish

\* The point of no return.
LEMMA SettledFinish ==
    ASSUME TypeOK, IInv, Finish
    PROVE  Promise!Publish /\ ~WillRestore'
  <1>1. /\ publication = "committed" /\ actor = "run"
        /\ UNCHANGED <<cache, stored, entry, pre, state, link, publication, new>>
    BY DEF Finish, IInv, ActorAtStep, PublicationAtStep, Deciding, stores, journal, site
  <1>2. SettledReport' = new /\ ~RunUndecided' /\ publication' = "committed"
    BY <1>1 DEF Finish, GoTo, SettledReport, RunUndecided
  <1>3. (state = "committed" /\ StoredWhole) \/ state = "none"
    BY DEF Finish, IInv, JournalAtStep, Deciding, NoJournal, ManifestFacts
  <1>4. ~WillRestore' /\ (WillRestore => StoredWhole)
    BY <1>1, <1>2, <1>3 DEF WillRestore, Durable
  <1> QED
    BY <1>1, <1>2, <1>4, PublishStep DEF Owner

\* What a failure or a death can change of a fate: a committed run that is still undecided
\* may become decided, and a torn journal is not restored.
LEMMA FaultFate ==
    ASSUME TypeOK, IInv, Fail \/ Crash
    PROVE  /\ UNCHANGED <<cache, pre, entry, link, publication, report, new>>
           /\ ~RunUndecided => ~RunUndecided'
           /\ WillRestore' => WillRestore
           /\ (litter' => litter) /\ WillRestore /\ ~WillRestore' =>
                  state = "committed" /\ publication = "committed" /\ ~RunUndecided'
  <1>1. Erosion /\ Diverted
    BY FaultShape
  <1>2. UNCHANGED <<cache, pre, entry, link, publication, report, new>>
    BY <1>1 DEF Erosion, stores, site
  <1>3. ~RunUndecided => ~RunUndecided'
    BY <1>1 DEF Diverted, Undoes, RunUndecided, IInv, ActorAtStep,
                Preparing, Prepared, Deciding, Releasing, Failing, Replaying
  <1>4. CASE pc \in {"drop", "remove"}
    <2>1. \/ state = "committed" /\ Durable /\ ~RunUndecided
          \/ state \in {"preparing", "rolled_back"}
      BY <1>4 DEF IInv, ActorAtStep, JournalAtStep, PublicationAtStep, LinkedUntilDecided,
                  Decided, RunUndecided, Durable, Releasing, Replaying
    <2>2. ~WillRestore /\ ~WillRestore'
      BY <1>1, <1>2, <1>3, <2>1 DEF WillRestore, Durable, Erosion
    <2> QED
      BY <1>2, <1>3, <2>2
  <1>5. CASE pc \notin {"drop", "remove"} /\ litter' /\ ~litter
    <2>1. ~WillRestore'
      BY <1>5 DEF WillRestore, Replayable, UnexpectedFiles
    <2> QED
      BY <1>2, <1>3, <1>5, <2>1
  <1>6. CASE pc \notin {"drop", "remove"} /\ (litter' <=> litter)
    <2>1. state' = state /\ copy' = copy /\ temp' \subseteq temp
      BY <1>1, <1>6 DEF Erosion
    <2>2. CASE state \notin {"ready", "committing", "committed", "restoring"}
      <3>1. ~WillRestore /\ ~WillRestore'
        BY <2>1, <2>2 DEF WillRestore
      <3> QED
        BY <1>2, <1>3, <3>1
    <2>3. CASE state \in {"ready", "committing", "committed", "restoring"}
      <3>1. temp' = temp
        BY <2>1, <2>3 DEF IInv, TempFacts
      <3>2. Replayable' <=> Replayable
        BY <1>2, <1>6, <2>1, <3>1
        DEF Replayable, Reconcilable, PreimageMissing, UnexpectedFiles, Batch
      <3>3. state = "committed" => link \/ ~RunUndecided
        BY DEF IInv, LinkedUntilDecided, Decided
      <3> QED
        BY <1>2, <1>3, <1>6, <2>1, <3>2, <3>3 DEF WillRestore, Durable
    <2> QED
      BY <2>2, <2>3
  <1> QED
    BY <1>1, <1>4, <1>5, <1>6 DEF Erosion

\* A process that dies or gives up between the durable commit of the publication and the
\* end of its rollback has published: recovery releases what is committed.  A death inside
\* a manifest write spoils the journal.  No other failure or death decides anything.
LEMMA SettledFault ==
    ASSUME TypeOK, TypeOK', IInv, Fail \/ Crash
    PROVE  /\ Promise!Next \/ Settled' = Settled
           /\ WillRestore' => WillRestore
  <1>1. CASE ~litter /\ litter'
    <2>1. SettledReport' \in {SettledReport} \cup Content
      BY FaultFate DEF SettledReport, TypeOK
    <2>2. SettledEntries' \in [Key -> Entry]
      BY DEF SettledEntries, TypeOK, Batch
    <2>3. Promise!Tear
      BY <1>1, <2>1, <2>2 DEF Promise!Tear, Promise!Entry, Entry
    <2> QED
      BY <2>3, FaultFate DEF Promise!Next
  <1>2. CASE (litter' => litter) /\ publication = "committed" /\ RunUndecided /\ ~RunUndecided'
    <2>1. SettledReport' = new
      BY <1>2, FaultFate DEF SettledReport
    <2>2. WillRestore /\ ~WillRestore' => StoredWhole
      BY <1>2, FaultFate DEF IInv, ManifestFacts
    <2>3. actor \in Owner
      BY <1>2 DEF RunUndecided, Owner
    <2> QED
      BY <2>1, <2>2, <2>3, FaultFate, PublishStep DEF Promise!Next
  <1>3. CASE (litter' => litter) /\ ~(publication = "committed" /\ RunUndecided /\ ~RunUndecided')
    <2>1. WillRestore' <=> WillRestore
      <3>1. SUFFICES ASSUME WillRestore, ~WillRestore' PROVE FALSE
        BY FaultFate
      <3>2. state = "committed" /\ publication = "committed" /\ ~RunUndecided /\ ~RunUndecided'
        BY <1>3, <3>1, FaultFate
      <3> QED
        BY <3>1, <3>2 DEF WillRestore, Durable, IInv, LinkedUntilDecided
    <2>2. SettledReport' = SettledReport
      BY <1>3, FaultFate DEF SettledReport
    <2>3. SettledEntries' = SettledEntries
      BY <2>1, FaultFate, SameEntries
    <2> QED
      BY <2>1, <2>2, <2>3 DEF Settled
  <1> QED
    BY <1>1, <1>2, <1>3

\* What another process stores takes effect, unless the journal is to restore the entry.
LEMMA SettledOther ==
    ASSUME TypeOK, IInv, StoreByOther
    PROVE  /\ Promise!Next \/ Settled' = Settled
           /\ WillRestore' => WillRestore
  <1>1. UNCHANGED <<stored, state, link, entry, pre, copy, temp, litter, publication, report, new,
                    pc, actor>>
    BY DEF StoreByOther, journal, site, control
  <1>2. (WillRestore' <=> WillRestore) /\ SettledReport' = SettledReport
    BY <1>1, SameJournal DEF WillRestore, Durable, RunUndecided, SettledReport
  <1>3. PICK k \in Key, value \in Entry : cache' = [cache EXCEPT ![k] = value]
    BY DEF StoreByOther
  <1>4. CASE WillRestore /\ k \in Batch
    <2>1. Overlaid' = Overlaid
      BY <1>1, <1>3, <1>4 DEF Overlaid, Batch, TypeOK
    <2> QED
      BY <1>2, <1>4, <2>1 DEF Settled, SettledEntries, Overlaid
  <1>5. CASE ~(WillRestore /\ k \in Batch)
    <2>1. SettledEntries' = [SettledEntries EXCEPT ![k] = value]
      <3>1. CASE WillRestore
        <4>1. Overlaid' = [Overlaid EXCEPT ![k] = value]
          BY <1>1, <1>3, <1>5, <3>1 DEF Overlaid, Batch, TypeOK
        <4> QED
          BY <1>2, <3>1, <4>1 DEF SettledEntries, Overlaid
      <3>2. CASE ~WillRestore
        BY <1>2, <1>3, <3>2 DEF SettledEntries
      <3> QED
        BY <3>1, <3>2
    <2>2. Promise!StoreOne
      BY <1>2, <2>1 DEF Promise!StoreOne, Promise!Entry, Entry
    <2> QED
      BY <1>2, <2>2 DEF Promise!Next
  <1> QED
    BY <1>4, <1>5

\* Whatever fails or dies, whoever stores meanwhile, the deferred cache writes of a run take
\* effect all together or not at all, and only with the report they were fetched for: every
\* step that shows is one that DailyCommit has, its departures Tear and Revoke included.
THEOREM CommitIsOne == Spec => BatchWithReport
  <1>1. Init => Promise!Init
    BY DEF Init, Promise!Init, Promise!Entry, Entry, SettledReport, SettledEntries,
           WillRestore, RunUndecided
  <1>2. ASSUME TypeOK, TypeOK', IInv, [Next]_vars PROVE [Promise!Next]_Settled
    <2>1. CASE Run
      BY <1>2, <2>1, SettledRun, SettledFinish DEF Promise!Next
    <2>2. CASE Recover
      <3>1. CASE actor = "reuse"
        <4>1. SettledEntries' \in [Key -> Entry]
          BY <1>2 DEF SettledEntries, TypeOK, Batch
        <4> QED
          BY <1>2, <2>2, <3>1, <4>1, SettledRecover
          DEF Promise!Next, Promise!Revoke, Promise!Entry, Entry
      <3> QED
        BY <1>2, <2>2, <3>1, SettledRecover DEF Settled
    <2>3. CASE UNCHANGED vars
      <3>1. /\ UNCHANGED <<cache, state, link, entry, pre, copy, temp, litter>>
            /\ UNCHANGED <<publication, report, new, pc, actor>>
        BY <2>3 DEF vars, stores, journal, site, control
      <3>2. (WillRestore' <=> WillRestore) /\ SettledReport' = SettledReport
        BY <3>1, SameJournal DEF WillRestore, Durable, RunUndecided, SettledReport
      <3> QED
        BY <3>1, <3>2, SameEntries DEF Settled
    <2> QED
      BY <1>2, <2>1, <2>2, <2>3, SettledReplay, SettledFault, SettledOther DEF Next
  <1> QED
    BY <1>1, <1>2, Invariance, PTL
    DEF Spec, BatchWithReport, Promise!Spec, Settled

\* Releasing a published report dooms no journal, as long as the cache is recovered first: a
\* step that turns a journal from one to be kept into one to be restored leaves the report
\* of before, or is taken by a run that reuses a snapshot.
THEOREM ReuseAloneRevokes == Spec => KeptUnlessReused
  <1>1. ASSUME TypeOK, TypeOK', IInv, [Next]_vars, ~WillRestore, WillRestore'
        PROVE  SettledReport' = report \/ actor = "reuse"
    <2>1. CASE Run
      BY <1>1, <2>1, SettledRun, SettledFinish DEF Settled
    <2>2. CASE UNCHANGED vars
      <3>1. UNCHANGED <<state, link, entry, pre, copy, temp, litter, publication, pc, actor>>
        BY <2>2 DEF vars, stores, journal, site, control
      <3> QED
        BY <1>1, <3>1, SameJournal DEF WillRestore, Durable, RunUndecided
    <2> QED
      BY <1>1, <2>1, <2>2, SettledReplay, SettledRecover, SettledFault, SettledOther DEF Next
  <1> QED
    BY <1>1, Invariance, PTL DEF Spec, KeptUnlessReused

====
