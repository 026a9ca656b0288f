-------------------------- MODULE PublicationProofs -------------------------
(***************************************************************************)
(* Proofs about the publication transaction, for every set of contents and *)
(* with or without snapshot overwrites.                                    *)
(***************************************************************************)
EXTENDS PublicationInvariant, TLAPS

USE OverwriteType

\* What the proofs need of the constants: contents are copies, and so is nothing.
LEMMA CopyFacts ==
    /\ Version \subseteq Copy /\ Content \subseteq Version
    /\ Absent \in Version /\ Partial \in Copy /\ Partial \notin Version
    /\ Absent \notin Content
    /\ NoCopies \in [Artifact -> Version] /\ NoCopies \in [Artifact -> Copy]
  BY ContentsDistinct DEF Version, Copy, NoCopies

-----------------------------------------------------------------------------
(* Types *)

\* Begin records the targets, which are whole when no transaction is pending.
LEMMA TypeBegin == TypeOK /\ NoTransaction /\ Begin => TypeOK'
  <1> SUFFICES ASSUME TypeOK, NoTransaction, Begin PROVE TypeOK'
    OBVIOUS
  <1>1. PICK w \in SUBSET Artifact :
          /\ writes' = w /\ staged' = w
          /\ \E v \in [w -> Content] :
                new' = [a \in Artifact |-> IF a \in w THEN v[a] ELSE target[a]]
    BY DEF Begin
  <1>2. PICK v \in [w -> Content] :
          new' = [a \in Artifact |-> IF a \in w THEN v[a] ELSE target[a]]
    BY <1>1
  <1>3. target \in [Artifact -> Version]
    BY DEF Begin, NoTransaction
  <1>4. new' \in [Artifact -> Version] /\ pre' \in [Artifact -> Version]
    BY <1>2, <1>3, CopyFacts DEF Begin
  <1> QED
    BY <1>1, <1>4 DEF TypeOK, Begin, Step

\* The other steps of the publisher.
LEMMA TypePublisher == TypeOK /\ NoTransaction /\ Publisher => TypeOK'
  <1> SUFFICES ASSUME TypeOK, NoTransaction, Publisher PROVE TypeOK'
    OBVIOUS
  <1> USE CopyFacts DEF TypeOK, disk, recorded, files, GoTo, WriteManifest, WriteProgress,
            ManifestState, UndoneState, Step, Flag, RemoveBackups
  <1>1. CASE Prepare
    BY <1>1 DEF Prepare
  <1>2. CASE StartPublishing
    BY <1>2 DEF StartPublishing
  <1>3. ASSUME NEW a \in Artifact, BackupIntent(a) PROVE TypeOK'
    BY <1>3 DEF BackupIntent
  <1>4. ASSUME NEW a \in Artifact, BackUp(a) PROVE TypeOK'
    BY <1>4 DEF BackUp
  <1>5. ASSUME NEW a \in Artifact, BackedUp(a) PROVE TypeOK'
    BY <1>5 DEF BackedUp
  <1>6. ASSUME NEW a \in Artifact, PublishIntent(a) PROVE TypeOK'
    BY <1>6 DEF PublishIntent
  <1>7. ASSUME NEW a \in Artifact, Publish(a) PROVE TypeOK'
    BY <1>7 DEF Publish
  <1>8. ASSUME NEW a \in Artifact, Published(a) PROVE TypeOK'
    BY <1>8 DEF Published
  <1>9. ASSUME NEW a \in Artifact, CopyBackup(a) PROVE TypeOK'
    BY <1>9 DEF CopyBackup
  <1>10. CASE Verify
    BY <1>10 DEF Verify
  <1>11. CASE StartCopies
    BY <1>11 DEF StartCopies
  <1>12. CASE CopiesReady
    BY <1>12 DEF CopiesReady
  <1>13. CASE MarkVerified
    BY <1>13 DEF MarkVerified
  <1>14. CASE DropBackups
    <2>1. backupDir' \in BOOLEAN
      BY <1>14 DEF DropBackups
    <2> QED
      BY <1>14, <2>1 DEF DropBackups
  <1>15. CASE MarkCommitting
    BY <1>15 DEF MarkCommitting
  <1>16. CASE Commit
    BY <1>16 DEF Commit
  <1>17. CASE Finish
    BY <1>17 DEF Finish
  <1>18. CASE MarkCleaning
    BY <1>18 DEF MarkCleaning
  <1>19. CASE WriteJournal
    BY <1>19 DEF WriteJournal
  <1> QED
    BY <1>1, <1>2, <1>3, <1>4, <1>5, <1>6, <1>7, <1>8, <1>9, <1>10, <1>11, <1>12, <1>13, <1>14, <1>15, <1>16, <1>17, <1>18, <1>19, TypeBegin DEF Publisher

\* The steps that release a committed transaction.
LEMMA TypeRelease == TypeOK /\ Release => TypeOK'
  <1> SUFFICES ASSUME TypeOK, Release PROVE TypeOK'
    OBVIOUS
  <1> USE CopyFacts DEF TypeOK, disk, recorded, files, GoTo, GoIdle, WriteManifest,
            ManifestState, UndoneState, Step, ForgetTransaction
  <1>1. CASE VerifyCleanup
    BY <1>1 DEF VerifyCleanup
  <1>2. CASE DropPayload
    BY <1>2 DEF DropPayload
  <1>3. CASE DropManifest
    BY <1>3 DEF DropManifest
  <1>4. CASE DropJournal
    <2>1. journal' \in BOOLEAN
      BY <1>4 DEF DropJournal
    <2> QED
      BY <1>4, <2>1 DEF DropJournal
  <1>5. CASE DropRoot
    BY <1>5 DEF DropRoot
  <1> QED
    BY <1>1, <1>2, <1>3, <1>4, <1>5 DEF Release

\* The steps that restore the old contents.
LEMMA TypeRestore == TypeOK /\ Restore => TypeOK'
  <1> SUFFICES ASSUME TypeOK, Restore PROVE TypeOK'
    OBVIOUS
  <1> USE CopyFacts DEF TypeOK, disk, recorded, files, GoTo, GoIdle, WriteManifest,
            ManifestState, UndoneState, Step, ForgetTransaction, RemoveBackups
  <1>1. CASE StartRollback
    BY <1>1 DEF StartRollback
  <1>2. CASE SelectSources
    BY <1>2 DEF SelectSources
  <1>3. CASE AllRestored
    BY <1>3 DEF AllRestored
  <1>4. CASE RestoreRefused
    BY <1>4 DEF RestoreRefused
  <1>5. ASSUME NEW a \in Artifact, KeepTarget(a) PROVE TypeOK'
    BY <1>5 DEF KeepTarget
  <1>6. ASSUME NEW a \in Artifact, ClearTarget(a) PROVE TypeOK'
    BY <1>6 DEF ClearTarget
  <1>7. ASSUME NEW a \in Artifact, MoveSource(a) PROVE TypeOK'
    BY <1>7 DEF MoveSource
  <1>8. CASE ClearBackups
    <2>1. backupDir' \in BOOLEAN
      BY <1>8 DEF ClearBackups
    <2> QED
      BY <1>8, <2>1 DEF ClearBackups
  <1>9. CASE ClearRecovery
    BY <1>9 DEF ClearRecovery
  <1>10. CASE MarkRolledBack
    BY <1>10 DEF MarkRolledBack
  <1>11. CASE Discard
    BY <1>11 DEF Discard
  <1> QED
    BY <1>1, <1>2, <1>3, <1>4, <1>5, <1>6, <1>7, <1>8, <1>9, <1>10, <1>11 DEF Restore

\* The steps of a run that finds an orphan.
LEMMA TypeRecover == TypeOK /\ Recover => TypeOK'
  <1> SUFFICES ASSUME TypeOK, Recover PROVE TypeOK'
    OBVIOUS
  <1> USE DEF TypeOK, disk, recorded, files, GoTo, GoIdle, WriteManifest,
            ManifestState, UndoneState, Step
  <1>1. CASE StartRecovery
    BY <1>1 DEF StartRecovery
  <1>2. CASE RecoverBackward
    BY <1>2 DEF RecoverBackward
  <1>3. CASE RecoverForward
    BY <1>3 DEF RecoverForward
  <1>4. CASE RecoverUnrecorded
    BY <1>4 DEF RecoverUnrecorded
  <1>5. CASE Quarantine
    BY <1>5 DEF Quarantine
  <1>6. CASE Refuse
    BY <1>6 DEF Refuse
  <1> QED
    BY <1>1, <1>2, <1>3, <1>4, <1>5, <1>6 DEF Recover

-----------------------------------------------------------------------------
(* The inductive invariant *)

\* The order of publish() is a total one.
LEMMA RankFacts ==
    /\ PublishRank \in [Artifact -> Nat]
    /\ \A a, b \in Artifact :
           PublishRank[a] <= PublishRank[b] /\ PublishRank[b] <= PublishRank[a] => a = b
  BY DEF Artifact, PublishRank

\* Begin finds no transaction and starts one that has touched nothing.
LEMMA InvBegin == TypeOK /\ IInv /\ Begin => IInv'
  <1> SUFFICES ASSUME TypeOK, IInv, Begin PROVE IInv'
    OBVIOUS
  <1> USE CopyFacts DEF TypeOK, IInv, ActorAtStep, ManifestAtStep, NoTransaction,
            WritesWellFormed, StagingFacts, PublishingFacts, CompletingFacts, UndoneFacts,
            PublisherHolds, RestoredFacts, UnrecordedIsWhole, CommittedIsPublished, Staging,
            Publishing, Completing, Committed, Restoring, Restored, Undecided, UndoneState,
            Fresh, Held, Unrecorded, RestoreCandidate
  <1>1. PICK w \in SUBSET Artifact :
          /\ {"report", "index"} \subseteq w
          /\ target["snapshot"] = Absent => "snapshot" \in w
          /\ "snapshot" \in w => target["snapshot"] = Absent \/ AllowOverwrite
          /\ writes' = w /\ staged' = w
          /\ \E v \in [w -> Content] :
                new' = [a \in Artifact |-> IF a \in w THEN v[a] ELSE target[a]]
    BY DEF Begin, MayStageSnapshot
  <1>2. PICK v \in [w -> Content] :
          new' = [a \in Artifact |-> IF a \in w THEN v[a] ELSE target[a]]
    BY <1>1
  <1>3. pre' = target /\ target' = target
    BY DEF Begin
  <1>4. WritesWellFormed'
    <2>1. \A a \in Artifact : IF a \in w THEN new'[a] \in Content ELSE new'[a] = pre'[a]
      BY <1>2, <1>3
    <2> QED
      BY <1>1, <1>3, <2>1
  <1>5. StagingFacts'
    BY <1>1, <1>3 DEF Begin, NoCopies
  <1>6. /\ ActorAtStep' /\ ManifestAtStep' /\ NoTransaction' /\ PublishingFacts'
        /\ CompletingFacts' /\ UndoneFacts' /\ PublisherHolds' /\ RestoredFacts'
        /\ UnrecordedIsWhole' /\ CommittedIsPublished'
    BY <1>3 DEF Begin
  <1> HIDE DEF ActorAtStep, ManifestAtStep, NoTransaction, WritesWellFormed, StagingFacts, PublishingFacts, CompletingFacts, UndoneFacts, PublisherHolds, RestoredFacts, UnrecordedIsWhole, CommittedIsPublished
  <1> QED
    BY <1>4, <1>5, <1>6

\* The other steps of the publisher.
LEMMA InvPublisher == TypeOK /\ IInv /\ Publisher => IInv'
  <1> SUFFICES ASSUME TypeOK, IInv, Publisher PROVE IInv'
    OBVIOUS
  <1> USE CopyFacts, RankFacts DEF TypeOK, disk, recorded, files, GoTo, GoIdle, WriteManifest,
            WriteProgress, ForgetTransaction, IInv, ActorAtStep, ManifestAtStep, NoTransaction,
            WritesWellFormed, StagingFacts, PublishingFacts, CompletingFacts, UndoneFacts,
            PublisherHolds, RestoredFacts, UnrecordedIsWhole, CommittedIsPublished, Staging,
            Publishing, Completing, Committed, Restoring, Restored, Undecided, UndoneState,
            Fresh, Held, Unrecorded, RestoreCandidate
  <1>1. ASSUME NEW a \in Artifact, BackupIntent(a) PROVE IInv'
    <2>1. PublishingFacts'
      BY <1>1 DEF BackupIntent, IsNext, MustBackUp
    <2>2. UndoneFacts'
      BY <1>1 DEF BackupIntent, IsNext, MustBackUp
    <2>3. /\ ActorAtStep' /\ ManifestAtStep' /\ NoTransaction' /\ WritesWellFormed'
          /\ StagingFacts' /\ CompletingFacts' /\ PublisherHolds' /\ RestoredFacts'
          /\ UnrecordedIsWhole' /\ CommittedIsPublished'
      BY <1>1 DEF BackupIntent, IsNext, MustBackUp
    <2> HIDE DEF ActorAtStep, ManifestAtStep, NoTransaction, WritesWellFormed, StagingFacts, PublishingFacts, CompletingFacts, UndoneFacts, PublisherHolds, RestoredFacts, UnrecordedIsWhole, CommittedIsPublished
    <2> QED
      BY <2>1, <2>2, <2>3
  <1>2. ASSUME NEW a \in Artifact, BackUp(a) PROVE IInv'
    <2>1. PublishingFacts'
      BY <1>2 DEF BackUp, IsNext
    <2>2. UndoneFacts'
      BY <1>2 DEF BackUp, IsNext
    <2>3. PublisherHolds'
      BY <1>2 DEF BackUp, IsNext
    <2>4. /\ ActorAtStep' /\ ManifestAtStep' /\ NoTransaction' /\ WritesWellFormed'
          /\ StagingFacts' /\ CompletingFacts' /\ RestoredFacts' /\ UnrecordedIsWhole'
          /\ CommittedIsPublished'
      BY <1>2 DEF BackUp, IsNext
    <2> HIDE DEF ActorAtStep, ManifestAtStep, NoTransaction, WritesWellFormed, StagingFacts, PublishingFacts, CompletingFacts, UndoneFacts, PublisherHolds, RestoredFacts, UnrecordedIsWhole, CommittedIsPublished
    <2> QED
      BY <2>1, <2>2, <2>3, <2>4
  <1>3. ASSUME NEW a \in Artifact, BackedUp(a) PROVE IInv'
    <2>1. PublishingFacts'
      BY <1>3 DEF BackedUp, IsNext
    <2>2. UndoneFacts'
      BY <1>3 DEF BackedUp, IsNext
    <2>3. PublisherHolds'
      BY <1>3 DEF BackedUp, IsNext
    <2>4. /\ ActorAtStep' /\ ManifestAtStep' /\ NoTransaction' /\ WritesWellFormed'
          /\ StagingFacts' /\ CompletingFacts' /\ RestoredFacts' /\ UnrecordedIsWhole'
          /\ CommittedIsPublished'
      BY <1>3 DEF BackedUp, IsNext
    <2> HIDE DEF ActorAtStep, ManifestAtStep, NoTransaction, WritesWellFormed, StagingFacts, PublishingFacts, CompletingFacts, UndoneFacts, PublisherHolds, RestoredFacts, UnrecordedIsWhole, CommittedIsPublished
    <2> QED
      BY <2>1, <2>2, <2>3, <2>4
  <1>4. ASSUME NEW a \in Artifact, PublishIntent(a) PROVE IInv'
    <2>1. PublishingFacts'
      BY <1>4 DEF PublishIntent, IsNext, MustBackUp
    <2>2. UndoneFacts'
      BY <1>4 DEF PublishIntent, IsNext, MustBackUp
    <2>3. /\ ActorAtStep' /\ ManifestAtStep' /\ NoTransaction' /\ WritesWellFormed'
          /\ StagingFacts' /\ CompletingFacts' /\ PublisherHolds' /\ RestoredFacts'
          /\ UnrecordedIsWhole' /\ CommittedIsPublished'
      BY <1>4 DEF PublishIntent, IsNext, MustBackUp
    <2> HIDE DEF ActorAtStep, ManifestAtStep, NoTransaction, WritesWellFormed, StagingFacts, PublishingFacts, CompletingFacts, UndoneFacts, PublisherHolds, RestoredFacts, UnrecordedIsWhole, CommittedIsPublished
    <2> QED
      BY <2>1, <2>2, <2>3
  <1>5. ASSUME NEW a \in Artifact, Publish(a) PROVE IInv'
    <2>1. PublishingFacts'
      BY <1>5 DEF Publish, IsNext
    <2>2. UndoneFacts'
      BY <1>5 DEF Publish, IsNext
    <2>3. /\ ActorAtStep' /\ ManifestAtStep' /\ NoTransaction' /\ WritesWellFormed'
          /\ StagingFacts' /\ CompletingFacts' /\ PublisherHolds' /\ RestoredFacts'
          /\ UnrecordedIsWhole' /\ CommittedIsPublished'
      BY <1>5 DEF Publish, IsNext
    <2> HIDE DEF ActorAtStep, ManifestAtStep, NoTransaction, WritesWellFormed, StagingFacts, PublishingFacts, CompletingFacts, UndoneFacts, PublisherHolds, RestoredFacts, UnrecordedIsWhole, CommittedIsPublished
    <2> QED
      BY <2>1, <2>2, <2>3
  <1>6. ASSUME NEW a \in Artifact, Published(a) PROVE IInv'
    <2>1. PublishingFacts'
      BY <1>6 DEF Published, IsNext
    <2>2. UndoneFacts'
      BY <1>6 DEF Published, IsNext
    <2>3. PublisherHolds'
      BY <1>6 DEF Published, IsNext
    <2>4. /\ ActorAtStep' /\ ManifestAtStep' /\ NoTransaction' /\ WritesWellFormed'
          /\ StagingFacts' /\ CompletingFacts' /\ RestoredFacts' /\ UnrecordedIsWhole'
          /\ CommittedIsPublished'
      BY <1>6 DEF Published, IsNext
    <2> HIDE DEF ActorAtStep, ManifestAtStep, NoTransaction, WritesWellFormed, StagingFacts, PublishingFacts, CompletingFacts, UndoneFacts, PublisherHolds, RestoredFacts, UnrecordedIsWhole, CommittedIsPublished
    <2> QED
      BY <2>1, <2>2, <2>3, <2>4
  <1>7. ASSUME NEW a \in Artifact, CopyBackup(a) PROVE IInv'
    BY <1>7 DEF CopyBackup
  <1>8. CASE Prepare
    BY <1>8 DEF Prepare
  <1>9. CASE StartPublishing
    BY <1>9 DEF StartPublishing
  <1>10. CASE Verify
    BY <1>10 DEF Verify, TargetsMatch
  <1>11. CASE StartCopies
    <2>1. UndoneFacts'
      BY <1>11 DEF StartCopies
    <2>2. PublisherHolds'
      BY <1>11 DEF StartCopies
    <2>3. /\ ActorAtStep' /\ ManifestAtStep' /\ NoTransaction' /\ WritesWellFormed'
          /\ StagingFacts' /\ PublishingFacts' /\ CompletingFacts' /\ RestoredFacts'
          /\ UnrecordedIsWhole' /\ CommittedIsPublished'
      BY <1>11 DEF StartCopies
    <2> HIDE DEF ActorAtStep, ManifestAtStep, NoTransaction, WritesWellFormed, StagingFacts, PublishingFacts, CompletingFacts, UndoneFacts, PublisherHolds, RestoredFacts, UnrecordedIsWhole, CommittedIsPublished
    <2> QED
      BY <2>1, <2>2, <2>3
  <1>12. CASE CopiesReady
    BY <1>12 DEF CopiesReady
  <1>13. CASE MarkVerified
    BY <1>13 DEF MarkVerified
  <1>14. CASE DropBackups
    <2>1. UndoneFacts'
      BY <1>14 DEF DropBackups, NoCopies, RemoveBackups
    <2>2. /\ ActorAtStep' /\ ManifestAtStep' /\ NoTransaction' /\ WritesWellFormed'
          /\ StagingFacts' /\ PublishingFacts' /\ CompletingFacts' /\ PublisherHolds'
          /\ RestoredFacts' /\ UnrecordedIsWhole' /\ CommittedIsPublished'
      BY <1>14 DEF DropBackups, NoCopies, RemoveBackups
    <2> HIDE DEF ActorAtStep, ManifestAtStep, NoTransaction, WritesWellFormed, StagingFacts, PublishingFacts, CompletingFacts, UndoneFacts, PublisherHolds, RestoredFacts, UnrecordedIsWhole, CommittedIsPublished
    <2> QED
      BY <2>1, <2>2
  <1>15. CASE MarkCommitting
    BY <1>15 DEF MarkCommitting
  <1>16. CASE Commit
    BY <1>16 DEF Commit
  <1>17. CASE Finish
    BY <1>17 DEF Finish
  <1>18. CASE MarkCleaning
    BY <1>18 DEF MarkCleaning
  <1>19. CASE WriteJournal
    BY <1>19 DEF WriteJournal
  <1> HIDE DEF IInv, TypeOK
  <1> QED
    BY <1>1, <1>2, <1>3, <1>4, <1>5, <1>6, <1>7, <1>8, <1>9, <1>10, <1>11, <1>12, <1>13, 
       <1>14, <1>15, <1>16, <1>17, <1>18, <1>19, InvBegin DEF Publisher

\* The steps that release a committed transaction.
LEMMA InvRelease == TypeOK /\ IInv /\ Release => IInv'
  <1> SUFFICES ASSUME TypeOK, IInv, Release PROVE IInv'
    OBVIOUS
  <1> USE CopyFacts, RankFacts DEF TypeOK, disk, recorded, files, GoTo, GoIdle, WriteManifest,
            WriteProgress, ForgetTransaction, IInv, ActorAtStep, ManifestAtStep, NoTransaction,
            WritesWellFormed, StagingFacts, PublishingFacts, CompletingFacts, UndoneFacts,
            PublisherHolds, RestoredFacts, UnrecordedIsWhole, CommittedIsPublished, Staging,
            Publishing, Completing, Committed, Restoring, Restored, Undecided, UndoneState,
            Fresh, Held, Unrecorded, RestoreCandidate
  <1>1. CASE VerifyCleanup
    BY <1>1 DEF VerifyCleanup, TargetsMatch
  <1>2. CASE DropPayload
    BY <1>2 DEF DropPayload
  <1>3. CASE DropManifest
    BY <1>3 DEF DropManifest
  <1>4. CASE DropJournal
    BY <1>4 DEF DropJournal
  <1>5. CASE DropRoot
    BY <1>5 DEF DropRoot
  <1> HIDE DEF IInv, TypeOK
  <1> QED
    BY <1>1, <1>2, <1>3, <1>4, <1>5 DEF Release

\* The steps that restore the old contents.
LEMMA InvRestore == TypeOK /\ IInv /\ Restore => IInv'
  <1> SUFFICES ASSUME TypeOK, IInv, Restore PROVE IInv'
    OBVIOUS
  <1> USE CopyFacts, RankFacts DEF TypeOK, disk, recorded, files, GoTo, GoIdle, WriteManifest,
            WriteProgress, ForgetTransaction, IInv, ActorAtStep, ManifestAtStep, NoTransaction,
            WritesWellFormed, StagingFacts, PublishingFacts, CompletingFacts, UndoneFacts,
            PublisherHolds, RestoredFacts, UnrecordedIsWhole, CommittedIsPublished, Staging,
            Publishing, Completing, Committed, Restoring, Restored, Undecided, UndoneState,
            Fresh, Held, Unrecorded, RestoreCandidate
  <1>1. CASE StartRollback
    BY <1>1 DEF StartRollback
  <1>2. CASE SelectSources
    BY <1>2 DEF SelectSources
  <1>3. CASE AllRestored
    BY <1>3 DEF AllRestored, TargetsMatch
  <1>4. CASE RestoreRefused
    BY <1>4 DEF RestoreRefused
  <1>5. ASSUME NEW a \in Artifact, KeepTarget(a) PROVE IInv'
    BY <1>5 DEF KeepTarget
  <1>6. ASSUME NEW a \in Artifact, ClearTarget(a) PROVE IInv'
    <2>1. UndoneFacts'
      BY <1>6 DEF ClearTarget, NeedsRestore, NeedsRemoval, MayClear, Source, RecoveryUsable
    <2>2. /\ ActorAtStep' /\ ManifestAtStep' /\ NoTransaction' /\ WritesWellFormed'
          /\ StagingFacts' /\ PublishingFacts' /\ CompletingFacts' /\ PublisherHolds'
          /\ RestoredFacts' /\ UnrecordedIsWhole' /\ CommittedIsPublished'
      BY <1>6 DEF ClearTarget, NeedsRestore, NeedsRemoval, MayClear, Source, RecoveryUsable
    <2> HIDE DEF ActorAtStep, ManifestAtStep, NoTransaction, WritesWellFormed, StagingFacts, PublishingFacts, CompletingFacts, UndoneFacts, PublisherHolds, RestoredFacts, UnrecordedIsWhole, CommittedIsPublished
    <2> QED
      BY <2>1, <2>2
  <1>7. ASSUME NEW a \in Artifact, MoveSource(a) PROVE IInv'
    <2>1. UndoneFacts'
      BY <1>7 DEF MoveSource, Source, RecoveryUsable
    <2>2. /\ ActorAtStep' /\ ManifestAtStep' /\ NoTransaction' /\ WritesWellFormed'
          /\ StagingFacts' /\ PublishingFacts' /\ CompletingFacts' /\ PublisherHolds'
          /\ RestoredFacts' /\ UnrecordedIsWhole' /\ CommittedIsPublished'
      BY <1>7 DEF MoveSource, Source, RecoveryUsable
    <2> HIDE DEF ActorAtStep, ManifestAtStep, NoTransaction, WritesWellFormed, StagingFacts, PublishingFacts, CompletingFacts, UndoneFacts, PublisherHolds, RestoredFacts, UnrecordedIsWhole, CommittedIsPublished
    <2> QED
      BY <2>1, <2>2
  <1>8. CASE ClearBackups
    <2>1. UndoneFacts'
      BY <1>8 DEF ClearBackups, NoCopies, RemoveBackups
    <2>2. /\ ActorAtStep' /\ ManifestAtStep' /\ NoTransaction' /\ WritesWellFormed'
          /\ StagingFacts' /\ PublishingFacts' /\ CompletingFacts' /\ PublisherHolds'
          /\ RestoredFacts' /\ UnrecordedIsWhole' /\ CommittedIsPublished'
      BY <1>8 DEF ClearBackups, NoCopies, RemoveBackups
    <2> HIDE DEF ActorAtStep, ManifestAtStep, NoTransaction, WritesWellFormed, StagingFacts, PublishingFacts, CompletingFacts, UndoneFacts, PublisherHolds, RestoredFacts, UnrecordedIsWhole, CommittedIsPublished
    <2> QED
      BY <2>1, <2>2
  <1>9. CASE ClearRecovery
    BY <1>9 DEF ClearRecovery
  <1>10. CASE MarkRolledBack
    BY <1>10 DEF MarkRolledBack
  <1>11. CASE Discard
    BY <1>11 DEF Discard
  <1> HIDE DEF IInv, TypeOK
  <1> QED
    BY <1>1, <1>2, <1>3, <1>4, <1>5, <1>6, <1>7, <1>8, <1>9, <1>10, <1>11 DEF Restore

\* The steps of a run that finds an orphan.
LEMMA InvRecover == TypeOK /\ IInv /\ Recover => IInv'
  <1> SUFFICES ASSUME TypeOK, IInv, Recover PROVE IInv'
    OBVIOUS
  <1> USE CopyFacts, RankFacts DEF TypeOK, disk, recorded, files, GoTo, GoIdle, WriteManifest,
            WriteProgress, ForgetTransaction, IInv, ActorAtStep, ManifestAtStep, NoTransaction,
            WritesWellFormed, StagingFacts, PublishingFacts, CompletingFacts, UndoneFacts,
            PublisherHolds, RestoredFacts, UnrecordedIsWhole, CommittedIsPublished, Staging,
            Publishing, Completing, Committed, Restoring, Restored, Undecided, UndoneState,
            Fresh, Held, Unrecorded, RestoreCandidate
  <1>1. CASE StartRecovery
    BY <1>1 DEF StartRecovery
  <1>2. CASE RecoverBackward
    BY <1>2 DEF RecoverBackward
  <1>3. CASE RecoverForward
    BY <1>3 DEF RecoverForward, MayRelease, TargetsMatch
  <1>4. CASE RecoverUnrecorded
    BY <1>4 DEF RecoverUnrecorded
  <1>5. CASE Quarantine
    BY <1>5 DEF Quarantine
  <1>6. CASE Refuse
    BY <1>6 DEF Refuse
  <1> HIDE DEF IInv, TypeOK
  <1> QED
    BY <1>1, <1>2, <1>3, <1>4, <1>5, <1>6 DEF Recover

-----------------------------------------------------------------------------
(* Failures and crashes *)

\* An interrupted rmtree only loses files.
LEMMA ErodedFacts ==
    ASSUME NEW copies \in [Artifact -> Copy], NEW left \in Eroded(copies)
    PROVE  /\ left \in [Artifact -> Copy]
           /\ \A a \in Artifact : copies[a] = Absent => left[a] = Absent
  BY CopyFacts DEF Eroded

\* What an interrupted step can do to the file system keeps its types.
LEMMA TypePartialEffect ==
    ASSUME TypeOK, PartialEffect
    PROVE  /\ target' \in [Artifact -> Copy] /\ staged' \subseteq Artifact
           /\ backupDir' \in BOOLEAN /\ backup' \in [Artifact -> Copy]
           /\ recoveryDir' \in {"none", "bare", "copying", "ready"}
           /\ recovery' \in [Artifact -> Copy]
  <1> USE CopyFacts DEF TypeOK, disk
  <1>1. CASE Unchanged
    BY <1>1 DEF Unchanged
  <1>2. CASE BackupsEroded
    BY <1>2, ErodedFacts DEF BackupsEroded
  <1>3. CASE RecoveryEroded
    BY <1>3, ErodedFacts DEF RecoveryEroded
  <1>4. CASE CopyEroded
    BY <1>4 DEF CopyEroded
  <1>5. CASE TargetEroded
    BY <1>5 DEF TargetEroded
  <1> QED
    BY <1>1, <1>2, <1>3, <1>4, <1>5 DEF PartialEffect

\* Failures and crashes keep the types.
LEMMA TypeFault == TypeOK /\ (Fail \/ Crash) => TypeOK'
  <1> SUFFICES ASSUME TypeOK, Fail \/ Crash PROVE TypeOK'
    OBVIOUS
  <1>1. CASE Fail
    <2>1. pc' \in Step /\ actor' \in {"none", "publisher", "recovery"} /\ todo' \subseteq Artifact
      BY <1>1 DEF Fail, TypeOK, GoTo, GoIdle, Step
    <2>2. progress' \in [Artifact -> SUBSET Flag]
      BY <1>1 DEF Fail, FlagRemembered, TypeOK, Flag
    <2> QED
      BY <1>1, <2>1, <2>2, TypePartialEffect DEF Fail, TypeOK, recorded
  <1>2. CASE Crash /\ PartialEffect /\ UNCHANGED <<recorded, files>>
    BY <1>2, TypePartialEffect DEF Crash, TypeOK, recorded, files, GoIdle, Step
  <1>3. CASE Crash /\ RootEroded
    <2>1. /\ backup' \in [Artifact -> Copy] /\ recovery' \in [Artifact -> Copy]
          /\ recoveryDir' \in {"none", "bare", "copying", "ready"}
      BY <1>3, CopyFacts DEF RootEroded, TypeOK
    <2>2. journal' \in BOOLEAN /\ backupDir' \in BOOLEAN
      BY <1>3 DEF RootEroded, TypeOK
    <2>3. manifest' \in ManifestState
      BY <1>3 DEF RootEroded, TypeOK, ManifestState
    <2>4. pc' \in Step /\ actor' \in {"none", "publisher", "recovery"} /\ todo' \subseteq Artifact
      BY <1>3 DEF Crash, GoIdle, Step
    <2> QED
      BY <1>3, <2>1, <2>2, <2>3, <2>4 DEF RootEroded, TypeOK, recorded
  <1>4. CASE Crash /\ LeaveLitter
    BY <1>4 DEF Crash, LeaveLitter, TypeOK, recorded, disk, GoIdle, Step
  <1> QED
    BY <1>1, <1>2, <1>3, <1>4 DEF Crash

\* Whatever a failing step did, the invariant holds where the failure leads.
LEMMA InvPartialEffect ==
    ASSUME TypeOK, IInv, PartialEffect, UNCHANGED <<recorded, files>>, pc # "idle",
           pc # "discard",
           \/ GoIdle
           \/ /\ pc \in Staging \cup Publishing \cup Completing \cup {"finish"}
              /\ pc # "prepare" /\ pc' = "rollback" /\ todo' = {} /\ UNCHANGED actor
           \/ pc = "prepare" /\ GoTo("discard")
    PROVE  IInv'
  <1> USE CopyFacts, RankFacts DEF TypeOK, disk, recorded, files, GoTo, GoIdle,
            IInv, ActorAtStep, ManifestAtStep, NoTransaction,
            WritesWellFormed, StagingFacts, PublishingFacts, CompletingFacts, UndoneFacts,
            PublisherHolds, RestoredFacts, UnrecordedIsWhole, CommittedIsPublished, Staging,
            Publishing, Completing, Committed, Restoring, Restored, Undecided, UndoneState,
            Fresh, Held, Unrecorded, RestoreCandidate
  <1>1. CASE Unchanged
    BY <1>1 DEF Unchanged
  <1>2. CASE BackupsEroded
    BY <1>2, ErodedFacts DEF BackupsEroded
  <1>3. CASE RecoveryEroded
    BY <1>3, ErodedFacts DEF RecoveryEroded
  <1>4. CASE CopyEroded
    BY <1>4 DEF CopyEroded, IsNext
  <1>5. CASE TargetEroded
    BY <1>5 DEF TargetEroded, NeedsRestore, NeedsRemoval, MayClear, Source, RecoveryUsable
  <1> QED
    BY <1>1, <1>2, <1>3, <1>4, <1>5 DEF PartialEffect

\* Remembering the flag of a move that has been made keeps the invariant.
LEMMA InvFlagRemembered ==
    ASSUME TypeOK, IInv, FlagRemembered, UNCHANGED disk, UNCHANGED recorded,
           UNCHANGED <<root, manifest, journal, quarantined, litter>>,
           pc' = "rollback", todo' = {}, UNCHANGED actor
    PROVE  IInv'
  <1> USE CopyFacts, RankFacts DEF TypeOK, disk, recorded, FlagRemembered, IsNext,
            IInv, ActorAtStep, ManifestAtStep, NoTransaction,
            WritesWellFormed, StagingFacts, PublishingFacts, CompletingFacts, UndoneFacts,
            PublisherHolds, RestoredFacts, UnrecordedIsWhole, CommittedIsPublished, Staging,
            Publishing, Completing, Committed, Restoring, Restored, Undecided, UndoneState,
            Fresh, Held, Unrecorded, RestoreCandidate
  <1>1. PICK a \in Artifact : IsNext(a) /\ progress' = [progress EXCEPT ![a] = @ \cup {pc}]
    OBVIOUS
  <1>2. PublisherHolds'
    BY <1>1
  <1>3. UndoneFacts'
    BY <1>1
  <1> QED
    BY <1>1, <1>2, <1>3

\* Failures and crashes keep the invariant.
LEMMA InvFault == TypeOK /\ IInv /\ (Fail \/ Crash) => IInv'
  <1> SUFFICES ASSUME TypeOK, IInv, Fail \/ Crash PROVE IInv'
    OBVIOUS
  <1>1. CASE Fail
    <2>1. PartialEffect /\ UNCHANGED recorded /\ pc # "idle" /\ pc # "discard"
      BY <1>1 DEF Fail
    <2>2. actor = "publisher" /\ pc \notin CannotUndo \cup {"prepare"} =>
            pc \in Staging \cup Publishing \cup Completing \cup {"finish"}
      BY <2>1 DEF IInv, ActorAtStep, TypeOK, Step, CannotUndo, Staging, Publishing, Completing
    <2>3. CASE UNCHANGED progress
      BY <1>1, <2>1, <2>2, <2>3, InvPartialEffect DEF Fail, files
    <2>4. CASE FlagRemembered
      <3>1. UNCHANGED disk
        BY <2>1, <2>4 DEF FlagRemembered, PartialEffect, Unchanged, BackupsEroded,
                          RecoveryEroded, CopyEroded, TargetEroded
      <3>2. actor = "publisher"
        BY <2>4 DEF FlagRemembered, IInv, ActorAtStep, Publishing
      <3>3. pc' = "rollback" /\ todo' = {} /\ UNCHANGED actor
        BY <1>1, <2>4, <3>2 DEF Fail, FlagRemembered, CannotUndo
      <3> QED
        BY <1>1, <2>1, <2>4, <3>1, <3>3, InvFlagRemembered DEF Fail
    <2> QED
      BY <1>1, <2>3, <2>4 DEF Fail
  <1>2. CASE Crash /\ PartialEffect /\ UNCHANGED <<recorded, files>> /\ pc # "discard"
    BY <1>2, InvPartialEffect DEF Crash
  <1> USE CopyFacts DEF TypeOK, disk, recorded, files, GoIdle, IInv, ActorAtStep, ManifestAtStep, NoTransaction,
            WritesWellFormed, StagingFacts, PublishingFacts, CompletingFacts, UndoneFacts,
            PublisherHolds, RestoredFacts, UnrecordedIsWhole, CommittedIsPublished, Staging,
            Publishing, Completing, Committed, Restoring, Restored, Undecided, UndoneState,
            Fresh, Held, Unrecorded, RestoreCandidate
  <1>3. CASE Crash /\ PartialEffect /\ UNCHANGED <<recorded, files>> /\ pc = "discard"
    BY <1>3 DEF Crash, PartialEffect, Unchanged, BackupsEroded, RecoveryEroded, CopyEroded,
                TargetEroded
  <1>4. CASE Crash /\ RootEroded
    <2>1. target' = target /\ pre' = pre /\ new' = new /\ (manifest # "none" => target = pre)
      BY <1>4 DEF RootEroded
    <2>2. \A a \in Artifact : backup[a] = Absent => backup'[a] = Absent
      BY <1>4 DEF RootEroded, NoCopies
    <2>3. /\ pc = "discard" /\ pc' = "idle" /\ actor' = "none" /\ todo' = {} /\ root' = root
          /\ manifest' \in {manifest, "none"} /\ staged' = {} /\ writes' = writes
      BY <1>4 DEF Crash, RootEroded
    <2>4. journal' => journal
      BY ONLY <1>4, TypeOK DEF RootEroded, TypeOK
    <2>5. backupDir' => backupDir
      BY ONLY <1>4, TypeOK DEF RootEroded, TypeOK
    <2>6. UndoneFacts'
      BY <1>4, <2>1, <2>2 DEF Crash, RootEroded
    <2>7. /\ ActorAtStep' /\ ManifestAtStep' /\ NoTransaction' /\ WritesWellFormed'
          /\ StagingFacts' /\ PublishingFacts' /\ CompletingFacts'
      BY <2>1, <2>3, <2>4
    <2>8. PublisherHolds' /\ RestoredFacts' /\ UnrecordedIsWhole' /\ CommittedIsPublished'
      BY <2>1, <2>3, <2>4, <2>5
    <2> HIDE DEF ActorAtStep, ManifestAtStep, NoTransaction, WritesWellFormed, StagingFacts,
                 PublishingFacts, CompletingFacts, UndoneFacts, PublisherHolds,
                 RestoredFacts, UnrecordedIsWhole, CommittedIsPublished
    <2> QED
      BY <2>6, <2>7, <2>8
  <1>5. CASE Crash /\ LeaveLitter
    BY <1>5 DEF Crash, LeaveLitter
  <1> HIDE DEF IInv, TypeOK
  <1> QED
    BY <1>1, <1>2, <1>3, <1>4, <1>5 DEF Crash

-----------------------------------------------------------------------------
(* Theorems *)

\* The invariant is inductive.
THEOREM Invariance == Spec => [](TypeOK /\ IInv)
  <1>1. Init => TypeOK /\ IInv
    BY CopyFacts DEF Init, TypeOK, Step, ManifestState, UndoneState, NoCopies, IInv, ActorAtStep, ManifestAtStep, NoTransaction,
            WritesWellFormed, StagingFacts, PublishingFacts, CompletingFacts, UndoneFacts,
            PublisherHolds, RestoredFacts, UnrecordedIsWhole, CommittedIsPublished, Staging,
            Publishing, Completing, Committed, Restoring, Restored, Undecided, UndoneState,
            Fresh, Held, Unrecorded, RestoreCandidate
  <1>2. TypeOK /\ IInv /\ [Next]_vars => (TypeOK /\ IInv)'
    <2> SUFFICES ASSUME TypeOK, IInv, [Next]_vars PROVE (TypeOK /\ IInv)'
      OBVIOUS
    <2>1. NoTransaction
      BY DEF IInv
    <2>2. CASE Next
      BY <2>1, <2>2, TypePublisher, TypeRelease, TypeRestore, TypeRecover, TypeFault,
         InvPublisher, InvRelease, InvRestore, InvRecover, InvFault DEF Next
    <2>3. CASE UNCHANGED vars
      <3>1. TypeOK'
        BY <2>3 DEF vars, disk, recorded, files, control, TypeOK
      <3> USE <2>3 DEF vars, disk, recorded, files, control, ActorAtStep, ManifestAtStep, NoTransaction,
            WritesWellFormed, StagingFacts, PublishingFacts, CompletingFacts, UndoneFacts,
            PublisherHolds, RestoredFacts, UnrecordedIsWhole, CommittedIsPublished, Staging,
            Publishing, Completing, Committed, Restoring, Restored, Undecided, UndoneState,
            Fresh, Held, Unrecorded, RestoreCandidate
      <3>2. /\ ActorAtStep' /\ ManifestAtStep' /\ NoTransaction' /\ WritesWellFormed'
            /\ StagingFacts' /\ CompletingFacts' /\ UndoneFacts'
        BY DEF IInv
      <3>3. PublisherHolds' /\ RestoredFacts' /\ UnrecordedIsWhole' /\ CommittedIsPublished'
        BY DEF IInv
      <3>4. PublishingFacts'
        BY DEF IInv, IsNext
      <3> HIDE DEF ActorAtStep, ManifestAtStep, NoTransaction, WritesWellFormed, StagingFacts,
                   PublishingFacts, CompletingFacts, UndoneFacts, PublisherHolds,
                   RestoredFacts, UnrecordedIsWhole, CommittedIsPublished
      <3> QED
        BY <3>1, <3>2, <3>3, <3>4 DEF IInv
    <2> QED
      BY <2>2, <2>3
  <1> QED
    BY <1>1, <1>2, PTL DEF Spec

\* Every variable keeps its type.
THEOREM TypeCorrect == Spec => []TypeOK
  BY Invariance, PTL

\* The old content of every artifact survives until the commit, whatever the
\* order of failures, crashes, rollbacks and recoveries.
THEOREM PreimagesKept == Spec => []PreimageKept
  <1>1. TypeOK /\ IInv => PreimageKept
    BY DEF TypeOK, IInv, UndoneFacts, PreimageKept, Undecided, Overwritten, Preserved,
           RestoreCandidate, Held, Fresh
  <1> QED
    BY <1>1, Invariance, PTL

\* rollback() and recovery never stop for want of a complete source, but for an
\* overwritten snapshot.
THEOREM RestoresFindSources == Spec => []RestoreFindsSource
  <1>1. TypeOK /\ IInv => RestoreFindsSource
    <2> SUFFICES ASSUME TypeOK, IInv, pc \in {"select", "restore", "move"},
                        NEW a \in Artifact, pc = "select" \/ a \in todo,
                        NeedsRestore(a), ~Overwritten(a)
                 PROVE  Source(a) # "none"
      BY DEF RestoreFindsSource, TypeOK
    <2>1. Undecided
      BY DEF IInv, ManifestAtStep, Restoring, Undecided, UndoneState
    <2>2. RestoreCandidate(a)
      BY <2>1 DEF IInv, UndoneFacts, Fresh, NeedsRestore, Overwritten, RestoreCandidate
    <2>3. Held(a)
      <3>1. CASE actor = "publisher"
        BY <2>1, <2>2, <3>1 DEF IInv, PublisherHolds, NeedsRestore, Restored
      <3>2. CASE actor # "publisher"
        BY <2>1, <2>2, <3>2 DEF IInv, UndoneFacts, NeedsRestore
      <3> QED
        BY <3>1, <3>2
    <2> QED
      BY <2>3 DEF Held, Source, RecoveryUsable
  <1> QED
    BY <1>1, Invariance, PTL

\* Whatever is forgotten, discarded or quarantined, the targets are one version.
THEOREM ForgottenIsWhole == Spec => []UnrecordedIsWhole
  <1>1. IInv => UnrecordedIsWhole
    BY DEF IInv
  <1> QED
    BY <1>1, Invariance, PTL

\* A durable commit stays published.
THEOREM CommitIsDurable == Spec => []CommittedIsPublished
  <1>1. IInv => CommittedIsPublished
    BY DEF IInv
  <1> QED
    BY <1>1, Invariance, PTL

-----------------------------------------------------------------------------
(* Refinement: the publication transaction implements the all-or-nothing   *)
(* promise; the commit is the one step that changes what readers have.     *)

\* A transaction whose targets are all in place is a publication.
LEMMA PublishStep ==
    ASSUME TypeOK, IInv, root, target = new, Settled = pre, Settled' = new
    PROVE  Promise!Publish
  <1>1. /\ new \in [Artifact -> Version]
        /\ new["report"] # Absent /\ new["index"] # Absent /\ new["snapshot"] # Absent
    BY CopyFacts DEF TypeOK, IInv, WritesWellFormed, Artifact
  <1>2. AllowOverwrite \/ pre["snapshot"] \in {Absent, new["snapshot"]}
    BY DEF IInv, WritesWellFormed, Artifact
  <1> QED
    BY <1>1, <1>2 DEF Promise!Publish, Promise!Artifact, Promise!Version, Artifact, Version

\* What the steps below need to know of the state they start from.
LEMMA StateFacts ==
    ASSUME TypeOK, IInv
    PROVE  /\ pc \in Staging => target = pre
           /\ pc = "discard" /\ manifest # "none" => target = pre
           /\ pc \in {"finish", "rollback"} /\ manifest = "committed" =>
                  target = new /\ root /\ actor = "publisher"
           /\ pc \in {"restore", "move", "select"} => manifest = "rolling_back"
  <1>1. pc \in Staging => target = pre
    BY DEF IInv, StagingFacts, Fresh, TypeOK
  <1> QED
    BY <1>1 DEF IInv, RestoredFacts, CommittedIsPublished, ManifestAtStep, ActorAtStep,
                NoTransaction, Restoring, Committed

\* Of the publisher's steps only Finish publishes.
LEMMA SettledPublisher == TypeOK /\ IInv /\ Publisher => [Promise!Next]_Settled
  <1> SUFFICES ASSUME TypeOK, IInv, Publisher PROVE [Promise!Next]_Settled
    OBVIOUS
  <1> USE StateFacts DEF disk, recorded, files, GoTo, GoIdle, WriteManifest, WriteProgress,
            ForgetTransaction, RemoveBackups, Settled, Undecided, UndoneState, Staging,
            IInv, ManifestAtStep, Publishing, Restoring, Restored, Completing, Committed,
            ActorAtStep, Unrecorded, NoTransaction
  <1>1. ASSUME Begin PROVE Settled' = Settled
    BY <1>1 DEF Begin
  <1>2. ASSUME Prepare PROVE Settled' = Settled
    BY <1>2 DEF Prepare
  <1>3. ASSUME StartPublishing PROVE Settled' = Settled
    BY <1>3 DEF StartPublishing
  <1>4. ASSUME NEW a \in Artifact, BackupIntent(a) PROVE Settled' = Settled
    BY <1>4 DEF BackupIntent
  <1>5. ASSUME NEW a \in Artifact, BackUp(a) PROVE Settled' = Settled
    BY <1>5 DEF BackUp
  <1>6. ASSUME NEW a \in Artifact, BackedUp(a) PROVE Settled' = Settled
    BY <1>6 DEF BackedUp
  <1>7. ASSUME NEW a \in Artifact, PublishIntent(a) PROVE Settled' = Settled
    BY <1>7 DEF PublishIntent
  <1>8. ASSUME NEW a \in Artifact, Publish(a) PROVE Settled' = Settled
    BY <1>8 DEF Publish
  <1>9. ASSUME NEW a \in Artifact, Published(a) PROVE Settled' = Settled
    BY <1>9 DEF Published
  <1>10. ASSUME NEW a \in Artifact, CopyBackup(a) PROVE Settled' = Settled
    BY <1>10 DEF CopyBackup
  <1>11. ASSUME Verify PROVE Settled' = Settled
    BY <1>11 DEF Verify
  <1>12. ASSUME StartCopies PROVE Settled' = Settled
    BY <1>12 DEF StartCopies
  <1>13. ASSUME CopiesReady PROVE Settled' = Settled
    BY <1>13 DEF CopiesReady
  <1>14. ASSUME MarkVerified PROVE Settled' = Settled
    BY <1>14 DEF MarkVerified
  <1>15. ASSUME DropBackups PROVE Settled' = Settled
    BY <1>15 DEF DropBackups
  <1>16. ASSUME MarkCommitting PROVE Settled' = Settled
    BY <1>16 DEF MarkCommitting
  <1>17. ASSUME Commit PROVE Settled' = Settled
    BY <1>17 DEF Commit
  <1>18. ASSUME Finish PROVE Promise!Publish
    <2>1. root /\ target = new /\ Settled = pre /\ Settled' = new
      BY <1>18 DEF Finish, IInv, ManifestAtStep
    <2> QED
      BY <2>1, PublishStep
  <1>19. ASSUME MarkCleaning PROVE Settled' = Settled
    BY <1>19 DEF MarkCleaning
  <1>20. ASSUME WriteJournal PROVE Settled' = Settled
    BY <1>20 DEF WriteJournal
  <1> HIDE DEF Settled
  <1> QED
    BY <1>1, <1>2, <1>3, <1>4, <1>5, <1>6, <1>7, <1>8, <1>9, <1>10, <1>11, <1>12, <1>13, <1>14, <1>15, <1>16, <1>17, <1>18, <1>19, <1>20 DEF Publisher, Promise!Next

\* Releasing a committed transaction changes nothing readers have.
LEMMA SettledRelease == TypeOK /\ IInv /\ Release => Settled' = Settled
  <1> SUFFICES ASSUME TypeOK, IInv, Release PROVE Settled' = Settled
    OBVIOUS
  <1> USE StateFacts DEF disk, recorded, files, GoTo, GoIdle, WriteManifest, WriteProgress,
            ForgetTransaction, RemoveBackups, Settled, Undecided, UndoneState, Staging,
            IInv, ManifestAtStep, Publishing, Restoring, Restored, Completing, Committed,
            ActorAtStep, Unrecorded, NoTransaction
  <1>1. ASSUME VerifyCleanup PROVE Settled' = Settled
    BY <1>1 DEF VerifyCleanup
  <1>2. ASSUME DropPayload PROVE Settled' = Settled
    BY <1>2 DEF DropPayload
  <1>3. ASSUME DropManifest PROVE Settled' = Settled
    BY <1>3 DEF DropManifest
  <1>4. ASSUME DropJournal PROVE Settled' = Settled
    BY <1>4 DEF DropJournal
  <1>5. ASSUME DropRoot PROVE Settled' = Settled
    BY <1>5 DEF DropRoot
  <1> HIDE DEF Settled
  <1> QED
    BY <1>1, <1>2, <1>3, <1>4, <1>5 DEF Release

\* Restoring brings back what readers have already.
LEMMA SettledRestore == TypeOK /\ IInv /\ Restore => Settled' = Settled
  <1> SUFFICES ASSUME TypeOK, IInv, Restore PROVE Settled' = Settled
    OBVIOUS
  <1> USE StateFacts DEF disk, recorded, files, GoTo, GoIdle, WriteManifest, WriteProgress,
            ForgetTransaction, RemoveBackups, Settled, Undecided, UndoneState, Staging,
            IInv, ManifestAtStep, Publishing, Restoring, Restored, Completing, Committed,
            ActorAtStep, Unrecorded, NoTransaction
  <1>1. ASSUME StartRollback PROVE Settled' = Settled
    BY <1>1 DEF StartRollback
  <1>2. ASSUME SelectSources PROVE Settled' = Settled
    BY <1>2 DEF SelectSources
  <1>3. ASSUME AllRestored PROVE Settled' = Settled
    BY <1>3 DEF AllRestored
  <1>4. ASSUME RestoreRefused PROVE Settled' = Settled
    BY <1>4 DEF RestoreRefused
  <1>5. ASSUME NEW a \in Artifact, KeepTarget(a) PROVE Settled' = Settled
    BY <1>5 DEF KeepTarget
  <1>6. ASSUME NEW a \in Artifact, ClearTarget(a) PROVE Settled' = Settled
    BY <1>6 DEF ClearTarget
  <1>7. ASSUME NEW a \in Artifact, MoveSource(a) PROVE Settled' = Settled
    BY <1>7 DEF MoveSource
  <1>8. ASSUME ClearBackups PROVE Settled' = Settled
    BY <1>8 DEF ClearBackups
  <1>9. ASSUME ClearRecovery PROVE Settled' = Settled
    BY <1>9 DEF ClearRecovery
  <1>10. ASSUME MarkRolledBack PROVE Settled' = Settled
    BY <1>10 DEF MarkRolledBack
  <1>11. ASSUME Discard PROVE Settled' = Settled
    BY <1>11 DEF Discard
  <1> HIDE DEF Settled
  <1> QED
    BY <1>1, <1>2, <1>3, <1>4, <1>5, <1>6, <1>7, <1>8, <1>9, <1>10, <1>11 DEF Restore

\* A run that finds an orphan decides nothing its manifest has not.
LEMMA SettledRecover == TypeOK /\ IInv /\ Recover => Settled' = Settled
  <1> SUFFICES ASSUME TypeOK, IInv, Recover PROVE Settled' = Settled
    OBVIOUS
  <1> USE StateFacts DEF disk, recorded, files, GoTo, GoIdle, WriteManifest, WriteProgress,
            ForgetTransaction, RemoveBackups, Settled, Undecided, UndoneState, Staging,
            IInv, ManifestAtStep, Publishing, Restoring, Restored, Completing, Committed,
            ActorAtStep, Unrecorded, NoTransaction
  <1>1. ASSUME StartRecovery PROVE Settled' = Settled
    BY <1>1 DEF StartRecovery
  <1>2. ASSUME RecoverBackward PROVE Settled' = Settled
    BY <1>2 DEF RecoverBackward
  <1>3. ASSUME RecoverForward PROVE Settled' = Settled
    BY <1>3 DEF RecoverForward
  <1>4. ASSUME RecoverUnrecorded PROVE Settled' = Settled
    BY <1>4 DEF RecoverUnrecorded
  <1>5. ASSUME Quarantine PROVE Settled' = Settled
    BY <1>5 DEF Quarantine
  <1>6. ASSUME Refuse PROVE Settled' = Settled
    BY <1>6 DEF Refuse
  <1> HIDE DEF Settled
  <1> QED
    BY <1>1, <1>2, <1>3, <1>4, <1>5, <1>6 DEF Recover

\* A process that dies, or fails to record its rollback, right after the durable
\* commit has published; no other failure or crash changes what readers have.
LEMMA SettledFault == TypeOK /\ IInv /\ (Fail \/ Crash) => [Promise!Next]_Settled
  <1> SUFFICES ASSUME TypeOK, IInv, Fail \/ Crash PROVE [Promise!Next]_Settled
    OBVIOUS
  <1>1. CASE actor = "publisher" /\ pc \in {"finish", "rollback"} /\ manifest = "committed"
    <2>1. root /\ target = new /\ Settled = pre
      BY <1>1, StateFacts DEF Settled, Undecided
    <2>2. UNCHANGED <<target, pre, new>>
      BY <1>1 DEF Fail, Crash, PartialEffect, Unchanged, BackupsEroded, RecoveryEroded,
                  CopyEroded, TargetEroded, RootEroded, LeaveLitter, recorded, disk
    <2>3. Settled' \in {pre, new}
      BY <2>1, <2>2 DEF Settled
    <2>4. CASE Settled' = new
      BY <2>1, <2>4, PublishStep DEF Promise!Next
    <2> QED
      BY <2>1, <2>3, <2>4
  <1>2. CASE ~(actor = "publisher" /\ pc \in {"finish", "rollback"} /\ manifest = "committed")
    <2> USE StateFacts DEF recorded, files, GoTo, GoIdle, Settled, Undecided, UndoneState,
                           IInv, ManifestAtStep, Restoring, Staging, ActorAtStep
    <2>1. CASE /\ Unchanged \/ BackupsEroded \/ RecoveryEroded \/ CopyEroded
               /\ UNCHANGED <<recorded, root, manifest>>
      <3>1. UNCHANGED <<target, pre, new, root, manifest>>
        BY <2>1 DEF Unchanged, BackupsEroded, RecoveryEroded, CopyEroded, disk
      <3>2. Undecided => manifest \in UndoneState
        BY <1>2
      <3>3. Undecided' => manifest' \in UndoneState
        <4>1. CASE Fail
          <5>1. SUFFICES ASSUME actor' = "publisher", pc' = "rollback", manifest = "committed"
                         PROVE  FALSE
            BY <3>1, <4>1 DEF Fail
          <5>2. actor = "publisher" /\ pc \notin CannotUndo \cup {"prepare", "idle", "discard"}
            BY <4>1, <5>1 DEF Fail, CannotUndo
          <5>3. pc # "finish"
            BY <1>2, <5>1, <5>2
          <5> QED
            BY ONLY TypeOK, IInv, <5>1, <5>2, <5>3
            DEF TypeOK, IInv, ManifestAtStep, ActorAtStep, Step, CannotUndo, Publishing,
                UndoneState, Restoring, Restored
        <4>2. CASE Crash
          BY <1>2, <3>1, <4>2, <2>1 DEF Crash, RootEroded, LeaveLitter
        <4> QED
          BY <4>1, <4>2
      <3> QED
        BY ONLY <3>1, <3>2, <3>3 DEF Settled, Undecided
    <2>2. CASE TargetEroded /\ UNCHANGED <<recorded, root, manifest>>
      BY <1>2, <2>2 DEF Fail, Crash, TargetEroded
    <2>3. CASE Crash /\ RootEroded
      BY <1>2, <2>3 DEF Crash, RootEroded
    <2>4. CASE Crash /\ LeaveLitter
      BY <1>2, <2>4 DEF Crash, LeaveLitter, disk
    <2> QED
      BY <2>1, <2>2, <2>3, <2>4 DEF Fail, Crash, PartialEffect
  <1> QED
    BY <1>1, <1>2

\* The four artifacts change together, at the commit, and a frozen snapshot never.
THEOREM PublicationIsAtomic == Spec => AllOrNothing
  <1>1. Init => Promise!Init
    BY DEF Init, Promise!Init, Settled, Undecided, UndoneState, Promise!Artifact,
           Promise!Version, Artifact, Version
  <1>2. TypeOK /\ IInv /\ [Next]_vars => [Promise!Next]_Settled
    <2>1. UNCHANGED vars => Settled' = Settled
      BY DEF vars, recorded, disk, files, control, Settled, Undecided
    <2> QED
      BY <2>1, SettledPublisher, SettledRelease, SettledRestore, SettledRecover, SettledFault
      DEF Next
  <1> QED
    BY <1>1, <1>2, Invariance, PTL DEF Spec, AllOrNothing, Promise!Spec

=============================================================================
