------------------------- MODULE ResumableScanProofs ------------------------
(***************************************************************************)
(* The resumable scan keeps its promises for any number of runs, stocks,   *)
(* configurations and midnights.  The lock makes the local state of the    *)
(* one run inside it a faithful extension of the checkpoint; the date is   *)
(* read after the last result and before the artifact, so results are of   *)
(* the day on which the run began.  Inside a batch, for any candidates,    *)
(* threads and attempts, the collector gives every candidate a result that *)
(* is its own.                                                             *)
(***************************************************************************)
EXTENDS ResumableScan, ScanCollect, FiniteSetTheorems, TLAPS

USE CodeType, ConfigType, UniverseType, AvailableType, DayType, NothingType

LEMMA BlankIsRun == Blank \in Run
<1>1. (CHOOSE c \in Config : TRUE) \in Config
  OBVIOUS
<1>2. ReportDate \in Day
  BY DEF ReportDate, Day
<1> QED
  BY <1>1, <1>2 DEF Blank, Run, Market

LEMMA SavedIsCheckpoint ==
  ASSUME TypeOK, NEW p \in Process, NEW state \in {"running", "complete"}
  PROVE  Saved(p, state) \in Checkpoint
<1>1. run[p] \in Run
  BY DEF TypeOK
<1> QED
  BY <1>1 DEF Saved, Checkpoint, Run

LEMMA NewArtifactIsArtifact ==
  ASSUME TypeOK, NEW p \in Process
  PROVE  NewArtifact(p) \in Artifact
<1>1. run[p] \in Run
  BY DEF TypeOK
<1> QED
  BY <1>1 DEF NewArtifact, Artifact, Run

LEMMA NextBatchIsPending ==
  ASSUME NEW codes PROVE NextBatch(codes) \subseteq codes
  BY DEF NextBatch

\* Nothing is known of a process outside the lock, and while one is inside, the
\* others are outside.
LEMMA OthersOutside ==
  ASSUME IInv, NEW p \in Process, pc[p] \in Locked,
         NEW q \in Process, q # p, pc'[q] = pc[q], run'[q] = run[q]
  PROVE  pc'[q] \notin Locked /\ RunInv(q)'
<1>1. pc[q] \notin Locked
  BY DEF IInv, LockInv
<1>2. FreshInv(q)
  BY DEF IInv, RunInv
<1>3. FreshInv(q)'
  BY <1>2 DEF FreshInv
<1> QED
  BY <1>1, <1>3 DEF RunInv, LoadedInv, WorkInv, FinalInv, ReplaceInv, Locked

\* A process keeps its part of the invariant while its state and the files stand.
LEMMA RunStands ==
  ASSUME NEW q \in Process, RunInv(q), pc'[q] = pc[q], run'[q] = run[q],
         UNCHANGED <<day, checkpoint, artifact, scanArchive>>
  PROVE  RunInv(q)'
  BY DEF RunInv, FreshInv, LoadedInv, WorkInv, FinalInv, ReplaceInv, ResultsOf, SameScan, Contradicts, Repairs

\* Leaving the locked region, the files being typed and coherent.
LEMMA LeaveKeeps ==
  ASSUME IInv, NEW p \in Process, Leave(p), pc[p] \in Locked \/ UNCHANGED <<checkpoint, artifact, scanArchive>>,
         day' = day, checkpoint' \in Checkpoint \cup {Nothing}, artifact' = artifact, scanArchive' = scanArchive,
         CheckpointInv'
  PROVE  IInv'
<1>1. TypeOK'
  BY BlankIsRun DEF IInv, TypeOK, Leave, GoTo
<1>2. pc'[p] = "idle" /\ RunInv(p)'
  BY DEF IInv, TypeOK, Leave, GoTo, Blank, RunInv, FreshInv, LoadedInv, WorkInv, FinalInv, ReplaceInv, Locked
<1>3. ASSUME NEW q \in Process, q # p PROVE RunInv(q)' /\ pc'[q] = pc[q]
  <2>1. pc'[q] = pc[q] /\ run'[q] = run[q]
    BY <1>3 DEF IInv, TypeOK, Leave, GoTo
  <2>2. CASE pc[p] \in Locked
    BY <1>3, <2>1, <2>2, OthersOutside
  <2>3. CASE UNCHANGED <<checkpoint, artifact, scanArchive>>
    BY <1>3, <2>1, <2>3, RunStands DEF IInv, RunInv
  <2> QED
    BY <2>1, <2>2, <2>3
<1>4. LockInv'
  BY <1>2, <1>3 DEF IInv, LockInv, Leave, Locked
<1>5. ArtifactIsCoherent'
  BY DEF IInv, ArtifactIsCoherent, Codes
<1> QED
  BY <1>1, <1>2, <1>3, <1>4, <1>5 DEF IInv, RunInv

\* A step inside the lock.
LEMMA LockedStepKeeps ==
  ASSUME IInv, NEW p \in Process, pc[p] \in Locked,
         NEW s \in Locked, pc' = [pc EXCEPT ![p] = s],
         NEW r \in Run, run' = [run EXCEPT ![p] = r],
         holder' = holder, day' = day, checkpoint' \in Checkpoint \cup {Nothing},
         artifact' \in Artifact \cup {Nothing}, scanArchive' \subseteq Artifact,
         CheckpointInv', ArtifactIsCoherent', RunInv(p)'
  PROVE  IInv'
<1>1. TypeOK'
  BY DEF IInv, TypeOK
<1>2. pc'[p] = s /\ \A q \in Process : q # p => pc'[q] = pc[q] /\ run'[q] = run[q]
  BY DEF IInv, TypeOK
<1>3. ASSUME NEW q \in Process, q # p PROVE RunInv(q)' /\ pc'[q] \notin Locked
  BY <1>2, <1>3, OthersOutside
<1>4. LockInv'
  BY <1>2, <1>3 DEF IInv, LockInv
<1> QED
  BY <1>1, <1>3, <1>4 DEF IInv

\* What a step inside the lock leaves alone.
LEMMA FilesStand ==
  ASSUME IInv, UNCHANGED <<day, checkpoint, artifact, scanArchive>>
  PROVE  CheckpointInv' /\ ArtifactIsCoherent'
  BY DEF IInv, CheckpointInv, ArtifactIsCoherent, Codes, ResultsOf

-----------------------------------------------------------------------------
(* Outside the lock *)

LEMMA StartKeeps ==
  ASSUME IInv, NEW p \in Process, NEW config \in Config, NEW refresh \in BOOLEAN,
         Start(p, config, refresh)
  PROVE  IInv'
<1>1. TypeOK'
  <2>1. run[p] \in Run
    BY DEF IInv, TypeOK
  <2>2. [run[p] EXCEPT !.config = config, !.refresh = refresh] \in Run
    BY <2>1 DEF Run
  <2>3. run' = [run EXCEPT ![p] = [run[p] EXCEPT !.config = config, !.refresh = refresh]]
    BY DEF Start, IInv, TypeOK
  <2>4. pc' \in [Process -> Locked \cup {"idle", "waiting"}]
    BY DEF IInv, TypeOK, Start, GoTo
  <2> QED
    BY <2>2, <2>3, <2>4 DEF IInv, TypeOK, Start
<1>2. pc'[p] = "waiting" /\ RunInv(p)'
  <2>1. FreshInv(p)
    BY DEF IInv, RunInv
  <2>2. /\ pc'[p] = "waiting"
        /\ run'[p] = [run[p] EXCEPT !.config = config, !.refresh = refresh]
    BY DEF IInv, TypeOK, Start, GoTo
  <2>3. run[p] \in Run /\ pc[p] = "idle"
    BY DEF IInv, TypeOK, Start
  <2>4. FreshInv(p)'
    BY <2>1, <2>2, <2>3 DEF Run, FreshInv
  <2> QED
    BY <2>2, <2>4 DEF RunInv, LoadedInv, WorkInv, FinalInv, ReplaceInv, Locked
<1>3. ASSUME NEW q \in Process, q # p PROVE RunInv(q)' /\ pc'[q] = pc[q]
  BY <1>3, RunStands DEF IInv, TypeOK, Start, GoTo, RunInv
<1>4. LockInv'
  BY <1>2, <1>3 DEF IInv, LockInv, Start, Locked
<1> QED
  BY <1>1, <1>2, <1>3, <1>4, FilesStand DEF IInv, RunInv, Start

LEMMA LoadKeeps ==
  ASSUME IInv, NEW p \in Process, Load(p)
  PROVE  IInv'
<1>1. TypeOK'
  <2>1. run[p] \in Run /\ day \in Day /\ checkpoint \in Checkpoint \cup {Nothing}
    BY DEF IInv, TypeOK
  <2>2. [run[p] EXCEPT !.execution = day, !.base = checkpoint] \in Run
    BY <2>1 DEF Run
  <2>3. run' = [run EXCEPT ![p] = [run[p] EXCEPT !.execution = day, !.base = checkpoint]]
    BY DEF Load, IInv, TypeOK
  <2>4. pc' \in [Process -> Locked \cup {"idle", "waiting"}]
    BY DEF IInv, TypeOK, Load, GoTo, Locked
  <2> QED
    BY <2>2, <2>3, <2>4 DEF IInv, TypeOK, Load
<1>2. pc'[p] = "loaded" /\ run'[p] = [run[p] EXCEPT !.execution = day, !.base = checkpoint]
  BY DEF IInv, TypeOK, Load, GoTo
<1>3. LoadedInv(p)'
  BY <1>2 DEF IInv, TypeOK, CheckpointInv, LoadedInv, ResultsOf, Load, Run, Day, ReportDate
<1>4. RunInv(p)'
  <2>1. FreshInv(p)
    BY DEF IInv, RunInv
  <2>2. run[p] \in Run /\ pc[p] = "waiting"
    BY DEF IInv, TypeOK, Load
  <2>3. FreshInv(p)'
    BY <1>2, <2>1, <2>2 DEF Run, FreshInv
  <2> QED
    BY <1>2, <1>3, <2>3 DEF RunInv, WorkInv, FinalInv, ReplaceInv
<1>5. ASSUME NEW q \in Process, q # p PROVE RunInv(q)' /\ pc'[q] \notin Locked
  <2>1. pc[q] \notin Locked
    BY DEF IInv, LockInv, Load
  <2> QED
    BY <1>5, <2>1, RunStands DEF IInv, TypeOK, Load, GoTo, RunInv
<1>6. LockInv'
  BY <1>5 DEF LockInv, Load
<1> QED
  BY <1>1, <1>4, <1>5, <1>6, FilesStand DEF IInv, RunInv, Load

-----------------------------------------------------------------------------
(* Loading *)

LEMMA ArchiveCheckpointKeeps ==
  ASSUME IInv, NEW p \in Process, ArchiveCheckpoint(p)
  PROVE  IInv'
<1> DEFINE r == [run[p] EXCEPT !.base = Nothing]
<1>1. run[p] \in Run /\ pc[p] = "loaded" /\ pc' = [pc EXCEPT ![p] = "loaded"] /\ RunInv(p)
  BY DEF IInv, TypeOK, ArchiveCheckpoint
<1>2. r \in Run /\ run' = [run EXCEPT ![p] = r]
  BY <1>1 DEF IInv, TypeOK, ArchiveCheckpoint, Run
<1>3. run'[p] = r /\ pc'[p] = "loaded" /\ checkpoint' = Nothing /\ day' = day
  BY <1>2 DEF IInv, TypeOK, ArchiveCheckpoint
<1>4. RunInv(p)'
  BY <1>1, <1>3 DEF Run, RunInv, FreshInv, LoadedInv, WorkInv, FinalInv, ReplaceInv
<1>5. CheckpointInv' /\ ArtifactIsCoherent'
  BY <1>3 DEF IInv, ArchiveCheckpoint, CheckpointInv, ArtifactIsCoherent, Codes
<1> HIDE DEF r
<1> QED
  BY <1>1, <1>2, <1>3, <1>4, <1>5, LockedStepKeeps DEF IInv, TypeOK, ArchiveCheckpoint, Locked

LEMMA ResumeKeeps ==
  ASSUME IInv, NEW p \in Process, Resume(p)
  PROVE  IInv'
<1> DEFINE base == run[p].base
           settled == Settled(base.completed)
           r == [run[p] EXCEPT !.base = Nothing, !.quotes = base.quotes,
                               !.completed = settled, !.market = base.market,
                               !.pending = base.quotes \ Codes(settled)]
<1>1. run[p] \in Run /\ pc[p] = "loaded" /\ pc' = [pc EXCEPT ![p] = "market"] /\ RunInv(p)
  BY DEF IInv, TypeOK, Resume, GoTo
<1>2. base \in Checkpoint /\ base = checkpoint
  BY <1>1 DEF Resume, Run, RunInv, LoadedInv
<1>3. settled \subseteq base.completed /\ settled \in SUBSET Result
  BY <1>2 DEF Settled, Checkpoint
<1>4. r \in Run /\ run' = [run EXCEPT ![p] = r]
  <2>1. r \in Run
    BY <1>1, <1>2, <1>3 DEF Run, Checkpoint
  <2>2. run' = [run EXCEPT ![p] = r]
    BY DEF Resume
  <2> QED
    BY <2>1, <2>2
<1>5. /\ run'[p] = r /\ pc'[p] = "market" /\ r.completed = settled /\ r.quotes = base.quotes
      /\ r.pending = base.quotes \ Codes(settled) /\ r.batch = {}
      /\ r.config = run[p].config /\ r.execution = run[p].execution /\ r.execution <= day
  BY <1>1, <1>4 DEF IInv, TypeOK, Resume, GoTo, Run, RunInv, FreshInv, LoadedInv
<1>6. base.execution = run[p].execution /\ base.config = run[p].config
  BY DEF Resume, Stale
<1>7. UNCHANGED <<day, checkpoint, artifact, scanArchive, holder>>
  BY DEF Resume
<1>8. ResultsOf(r, settled, day)
  <2>1. ResultsOf(base, base.completed, day)
    BY <1>2, NothingType DEF IInv, CheckpointInv, Resume
  <2> QED
    BY <2>1, <1>3, <1>5, <1>6 DEF ResultsOf
<1>9. WorkInv(p)'
  <2>1. Codes(settled) \cup r.pending \cup {} = Codes(settled) \cup base.quotes
    BY <1>5
  <2>2. checkpoint # Nothing /\ SameScan(checkpoint, r) => Settled(checkpoint.completed) \subseteq settled
    BY <1>2
  <2>3. ResultsOf(run[p], run[p].completed, day)'
    BY <1>5, <1>7, <1>8
  <2> HIDE DEF r, settled, base
  <2> QED
    BY <1>5, <1>7, <2>1, <2>2, <2>3 DEF WorkInv
<1>10. RunInv(p)'
  BY <1>5, <1>9 DEF RunInv, FreshInv, LoadedInv, FinalInv, ReplaceInv
<1> HIDE DEF r
<1> QED
  BY <1>1, <1>4, <1>7, <1>10, FilesStand, LockedStepKeeps DEF IInv, TypeOK, Locked

LEMMA FetchUniverseKeeps ==
  ASSUME IInv, NEW p \in Process, NEW quotes \in Universe, FetchUniverse(p, quotes)
  PROVE  IInv'
<1> DEFINE r == [run[p] EXCEPT !.quotes = quotes, !.pending = quotes]
<1>1. run[p] \in Run /\ pc[p] = "loaded" /\ pc' = [pc EXCEPT ![p] = "market"] /\ RunInv(p)
  BY DEF IInv, TypeOK, FetchUniverse, GoTo
<1>2. r \in Run /\ run' = [run EXCEPT ![p] = r]
  BY <1>1 DEF FetchUniverse, Run
<1>3. /\ run'[p] = r /\ pc'[p] = "market" /\ r.quotes = quotes /\ r.pending = quotes
      /\ r.completed = {} /\ r.batch = {} /\ checkpoint = Nothing /\ r.execution <= day
  BY <1>1, <1>2 DEF IInv, TypeOK, FetchUniverse, GoTo, Run, RunInv, FreshInv, LoadedInv
<1>4. UNCHANGED <<day, checkpoint, artifact, scanArchive, holder>>
  BY DEF FetchUniverse
<1> HIDE DEF r
<1>5. RunInv(p)'
  BY <1>3, <1>4 DEF RunInv, FreshInv, LoadedInv, WorkInv, FinalInv, ReplaceInv, SameScan, ResultsOf, Codes
<1> QED
  BY <1>1, <1>2, <1>4, <1>5, FilesStand, LockedStepKeeps DEF IInv, TypeOK, Locked

-----------------------------------------------------------------------------
(* Working on the batches *)

LEMMA ObserveKeeps ==
  ASSUME IInv, NEW p \in Process, NEW observation \in Observation, Observe(p, observation)
  PROVE  IInv'
<1> DEFINE r == [run[p] EXCEPT !.market = observation]
<1>1. run[p] \in Run /\ pc[p] = "market" /\ pc' = [pc EXCEPT ![p] = "loop"] /\ RunInv(p)
  BY DEF IInv, TypeOK, Observe, GoTo
<1>2. r \in Run /\ run' = [run EXCEPT ![p] = r]
  BY <1>1 DEF Observe, Run, Market
<1>3. /\ run'[p] = r /\ pc'[p] = "loop" /\ r.quotes = run[p].quotes
      /\ r.pending = run[p].pending /\ r.completed = run[p].completed /\ r.batch = run[p].batch
      /\ r.config = run[p].config /\ r.execution = run[p].execution
  BY <1>1, <1>2 DEF IInv, TypeOK, Observe, GoTo, Run
<1>4. UNCHANGED <<day, checkpoint, artifact, scanArchive, holder>>
  BY DEF Observe
<1> HIDE DEF r
<1>5. WorkInv(p)'
  BY <1>1, <1>3, <1>4 DEF RunInv, WorkInv, SameScan, ResultsOf, Locked
<1>6. RunInv(p)'
  BY <1>3, <1>5 DEF RunInv, FreshInv, LoadedInv, FinalInv, ReplaceInv
<1> QED
  BY <1>1, <1>2, <1>4, <1>6, FilesStand, LockedStepKeeps DEF IInv, TypeOK, Locked

LEMMA KeepObservationKeeps ==
  ASSUME IInv, NEW p \in Process, KeepObservation(p)
  PROVE  IInv'
<1>1. run[p] \in Run /\ pc[p] = "market" /\ pc' = [pc EXCEPT ![p] = "loop"] /\ RunInv(p)
  BY DEF IInv, TypeOK, KeepObservation, GoTo
<1>2. run' = [run EXCEPT ![p] = run[p]] /\ run'[p] = run[p] /\ pc'[p] = "loop"
  BY <1>1 DEF IInv, TypeOK, KeepObservation
<1>3. UNCHANGED <<day, checkpoint, artifact, scanArchive, holder>>
  BY DEF KeepObservation
<1>4. RunInv(p)'
  BY <1>1, <1>2, <1>3 DEF RunInv, FreshInv, LoadedInv, WorkInv, FinalInv, ReplaceInv, SameScan, ResultsOf, Locked
<1> QED
  BY <1>1, <1>2, <1>3, <1>4, FilesStand, LockedStepKeeps DEF IInv, TypeOK, Locked

LEMMA StartBatchKeeps ==
  ASSUME IInv, NEW p \in Process, StartBatch(p)
  PROVE  IInv'
<1> DEFINE batch == NextBatch(run[p].pending)
           r == [run[p] EXCEPT !.batch = batch, !.pending = @ \ batch, !.worked = TRUE]
<1>1. run[p] \in Run /\ pc[p] = "loop" /\ pc' = [pc EXCEPT ![p] = "batch"] /\ RunInv(p)
  BY DEF IInv, TypeOK, StartBatch, GoTo
<1>2. batch \subseteq run[p].pending
  BY NextBatchIsPending
<1> HIDE DEF batch
<1>3. r \in Run
  BY <1>1, <1>2 DEF Run
<1>4. run' = [run EXCEPT ![p] = r]
  BY DEF StartBatch, batch
<1>5. /\ run'[p] = r /\ pc'[p] = "batch" /\ r.quotes = run[p].quotes
      /\ r.pending = run[p].pending \ batch /\ r.completed = run[p].completed /\ r.batch = batch
      /\ r.config = run[p].config /\ r.execution = run[p].execution
  BY <1>1, <1>4 DEF IInv, TypeOK, StartBatch, GoTo, Run
<1>6. UNCHANGED <<day, checkpoint, artifact, scanArchive, holder>>
  BY DEF StartBatch
<1> HIDE DEF r
<1>7. WorkInv(p)'
  BY <1>1, <1>2, <1>5, <1>6 DEF RunInv, WorkInv, SameScan, ResultsOf, Locked
<1>8. RunInv(p)'
  BY <1>5, <1>7 DEF RunInv, FreshInv, LoadedInv, FinalInv, ReplaceInv
<1> QED
  BY <1>1, <1>3, <1>4, <1>6, <1>8, FilesStand, LockedStepKeeps DEF IInv, TypeOK, Locked

LEMMA FetchKeeps ==
  ASSUME IInv, NEW p \in Process, NEW code \in Code, NEW status \in {"settled", "failed"},
         Fetch(p, code, status)
  PROVE  IInv'
<1> DEFINE result == [code |-> code, status |-> status, day |-> day, config |-> run[p].config]
           r == [run[p] EXCEPT !.batch = @ \ {code}, !.completed = @ \cup {result}]
<1>1. /\ run[p] \in Run /\ pc[p] = "batch" /\ pc' = [pc EXCEPT ![p] = "batch"] /\ RunInv(p)
      /\ code \in run[p].batch /\ day \in Day
  BY DEF IInv, TypeOK, Fetch
<1>2. /\ result \in Result /\ result.code = code /\ result.day = day
      /\ result.config = run[p].config
  BY <1>1 DEF Result, Run
<1>3. run' = [run EXCEPT ![p] = r]
  BY DEF Fetch
<1> HIDE DEF result
<1>4. r \in Run
  BY <1>1, <1>2 DEF Run
<1>5. /\ run'[p] = r /\ pc'[p] = "batch" /\ r.quotes = run[p].quotes
      /\ r.pending = run[p].pending /\ r.batch = run[p].batch \ {code}
      /\ r.completed = run[p].completed \cup {result}
      /\ r.config = run[p].config /\ r.execution = run[p].execution
  BY <1>1, <1>3 DEF IInv, TypeOK, Fetch, Run
<1>6. UNCHANGED <<day, checkpoint, artifact, scanArchive, holder>>
  BY DEF Fetch
<1>7. r.execution \in Int /\ day \in Int /\ r.execution <= day
  <2>1. r.execution \in Nat /\ day \in Nat
    BY <1>1, <1>4 DEF Run, Day, ReportDate
  <2> QED
    BY <1>1, <1>5, <2>1 DEF RunInv, WorkInv, Locked
<1> HIDE DEF r
<1>8. ResultsOf(r, r.completed, day)
  <2>1. ResultsOf(run[p], run[p].completed, day) /\ run[p].batch \subseteq run[p].quotes
    BY <1>1 DEF RunInv, WorkInv, Locked
  <2> QED
    BY <1>1, <1>2, <1>5, <1>7, <2>1 DEF ResultsOf
<1>9. \A c \in r.quotes : c \in Codes(r.completed) \cup r.pending \cup r.batch
  <2>1. \A c \in run[p].quotes : c \in Codes(run[p].completed) \cup run[p].pending \cup run[p].batch
    BY <1>1 DEF RunInv, WorkInv, Locked
  <2>2. Codes(r.completed) = Codes(run[p].completed) \cup {code}
    BY <1>2, <1>5 DEF Codes
  <2> QED
    BY <1>5, <2>1, <2>2
<1>10. WorkInv(p)'
  <2>1. /\ checkpoint # Nothing /\ SameScan(checkpoint, run[p])
           => Settled(checkpoint.completed) \subseteq run[p].completed
        /\ run[p].batch \cup run[p].pending \subseteq run[p].quotes
    BY <1>1 DEF RunInv, WorkInv, Locked
  <2>2. checkpoint # Nothing /\ SameScan(checkpoint, r)
           => Settled(checkpoint.completed) \subseteq r.completed
    BY <1>5, <2>1 DEF SameScan
  <2>3. r.batch \cup r.pending \subseteq r.quotes
    BY <1>5, <2>1
  <2> QED
    BY <1>5, <1>6, <1>7, <1>8, <1>9, <2>2, <2>3 DEF WorkInv
<1>11. RunInv(p)'
  BY <1>5, <1>10 DEF RunInv, FreshInv, LoadedInv, FinalInv, ReplaceInv
<1> QED
  BY <1>1, <1>3, <1>4, <1>6, <1>11, FilesStand, LockedStepKeeps DEF IInv, TypeOK, Locked

\* Saving the local results as the checkpoint.
LEMMA SaveKeeps ==
  ASSUME IInv, NEW p \in Process, pc[p] \in Locked \ {"loaded"},
         NEW state \in {"running", "complete"}, checkpoint' = Saved(p, state),
         day' = day
  PROVE  checkpoint' \in Checkpoint /\ CheckpointInv'
<1>1. ResultsOf(run[p], run[p].completed, day)
  BY DEF IInv, RunInv, WorkInv
<1>2. ResultsOf(Saved(p, state), Saved(p, state).completed, day)
  BY <1>1 DEF ResultsOf, Saved
<1>3. Saved(p, state) \in Checkpoint
  BY SavedIsCheckpoint DEF IInv
<1> QED
  BY <1>2, <1>3 DEF CheckpointInv

LEMMA SaveBatchKeeps ==
  ASSUME IInv, NEW p \in Process, SaveBatch(p)
  PROVE  IInv'
<1>1. run[p] \in Run /\ pc[p] = "batch" /\ pc' = [pc EXCEPT ![p] = "loop"] /\ RunInv(p)
  BY DEF IInv, TypeOK, SaveBatch, GoTo
<1>2. run' = [run EXCEPT ![p] = run[p]] /\ run'[p] = run[p] /\ pc'[p] = "loop"
  BY <1>1 DEF IInv, TypeOK, SaveBatch
<1>3. PICK state \in {"running", "complete"} : checkpoint' = Saved(p, state)
  BY DEF SaveBatch
<1>4. UNCHANGED <<day, artifact, scanArchive, holder>> /\ run[p].batch = {}
  BY DEF SaveBatch
<1>5. checkpoint' \in Checkpoint /\ CheckpointInv'
  BY <1>1, <1>3, <1>4, SaveKeeps DEF Locked
<1>6. ArtifactIsCoherent'
  BY <1>4 DEF IInv, ArtifactIsCoherent, Codes
<1>7. checkpoint'.completed = run[p].completed
  BY <1>3 DEF Saved
<1>8. WorkInv(p)'
  <2>1. Settled(checkpoint'.completed) \subseteq run[p].completed
    BY <1>7 DEF Settled
  <2>2. WorkInv(p) /\ pc[p] \in Locked \ {"loaded"}
    BY <1>1 DEF RunInv, Locked
  <2>3. ResultsOf(run[p], run[p].completed, day)'
    BY <1>2, <1>4, <2>2 DEF WorkInv, ResultsOf
  <2> QED
    BY <1>1, <1>2, <1>4, <2>1, <2>2, <2>3 DEF WorkInv
<1>9. RunInv(p)'
  BY <1>2, <1>8 DEF RunInv, FreshInv, LoadedInv, FinalInv, ReplaceInv
<1> QED
  BY <1>1, <1>2, <1>4, <1>5, <1>6, <1>9, LockedStepKeeps DEF IInv, TypeOK, Locked

LEMMA SaveRunningKeeps ==
  ASSUME IInv, NEW p \in Process, SaveRunning(p)
  PROVE  IInv'
<1>1. run[p] \in Run /\ pc[p] = "loop" /\ pc' = [pc EXCEPT ![p] = "finalize"] /\ RunInv(p)
  BY DEF IInv, TypeOK, SaveRunning, GoTo
<1>2. run' = [run EXCEPT ![p] = run[p]] /\ run'[p] = run[p] /\ pc'[p] = "finalize"
  BY <1>1 DEF IInv, TypeOK, SaveRunning
<1>3. /\ UNCHANGED <<day, artifact, scanArchive, holder>> /\ run[p].pending = {}
      /\ day = run[p].execution /\ checkpoint' = Saved(p, "running")
  BY DEF SaveRunning
<1>4. checkpoint' \in Checkpoint /\ CheckpointInv'
  BY <1>1, <1>3, SaveKeeps DEF Locked
<1>5. ArtifactIsCoherent'
  BY <1>3 DEF IInv, ArtifactIsCoherent, Codes
<1>6. checkpoint'.completed = run[p].completed
  BY <1>3 DEF Saved
<1>7. WorkInv(p) /\ pc[p] \in Locked \ {"loaded"}
  BY <1>1 DEF RunInv, Locked
<1>8. ResultsOf(run[p], run[p].completed, run[p].execution)
  BY <1>3, <1>7 DEF WorkInv
<1>9. WorkInv(p)'
  <2>1. Settled(checkpoint'.completed) \subseteq run[p].completed
    BY <1>6 DEF Settled
  <2>2. ResultsOf(run[p], run[p].completed, day)'
    BY <1>2, <1>3, <1>7 DEF WorkInv, ResultsOf
  <2> QED
    BY <1>1, <1>2, <1>3, <1>7, <2>1, <2>2 DEF WorkInv
<1>10. RunInv(p)'
  BY <1>2, <1>3, <1>8, <1>9 DEF RunInv, FreshInv, LoadedInv, FinalInv, ReplaceInv, ResultsOf
<1> QED
  BY <1>1, <1>2, <1>3, <1>4, <1>5, <1>10, LockedStepKeeps DEF IInv, TypeOK, Locked

-----------------------------------------------------------------------------
(* The artifact *)

\* The new artifact is coherent once the date has been checked.
LEMMA NewArtifactCoherent ==
  ASSUME IInv, NEW p \in Process, pc[p] \in {"finalize", "replace"}
  PROVE  /\ Codes(run[p].completed) = run[p].quotes
         /\ \A r \in run[p].completed : r.config = run[p].config
         /\ \A r, s \in run[p].completed : r.day = s.day
<1>1. RunInv(p) /\ run[p] \in Run
  BY DEF IInv, TypeOK
<1>2. /\ run[p].pending = {} /\ run[p].batch = {}
      /\ ResultsOf(run[p], run[p].completed, run[p].execution)
      /\ \A c \in run[p].quotes : c \in Codes(run[p].completed) \cup run[p].pending \cup run[p].batch
  BY <1>1 DEF RunInv, WorkInv, FinalInv, Locked
<1>3. Codes(run[p].completed) = run[p].quotes
  BY <1>2 DEF ResultsOf, Codes
<1>4. ASSUME NEW r \in run[p].completed PROVE r.day = run[p].execution
  <2>1. r.day \in Int /\ run[p].execution \in Int
    BY <1>1 DEF Run, Result, Day, ReportDate
  <2> QED
    BY <1>2, <2>1 DEF ResultsOf
<1> QED
  BY <1>2, <1>3, <1>4 DEF ResultsOf

LEMMA ArchiveArtifactKeeps ==
  ASSUME IInv, NEW p \in Process, ArchiveArtifact(p)
  PROVE  IInv'
<1>1. run[p] \in Run /\ pc[p] = "finalize" /\ pc' = [pc EXCEPT ![p] = "replace"] /\ RunInv(p)
  BY DEF IInv, TypeOK, ArchiveArtifact, GoTo
<1>2. run' = [run EXCEPT ![p] = run[p]] /\ run'[p] = run[p] /\ pc'[p] = "replace"
  BY <1>1 DEF IInv, TypeOK, ArchiveArtifact
<1>3. UNCHANGED <<day, checkpoint, artifact, holder>> /\ Contradicts(p) /\ Repairs(p)
  BY DEF ArchiveArtifact
<1>4. artifact \in Artifact /\ artifact \in scanArchive' /\ scanArchive' \subseteq Artifact
  BY <1>3 DEF IInv, TypeOK, ArchiveArtifact, Contradicts
<1>5. CheckpointInv' /\ ArtifactIsCoherent'
  BY <1>3 DEF IInv, CheckpointInv, ArtifactIsCoherent, Codes, ResultsOf
<1>6. ReplaceInv(p)'
  BY <1>2, <1>3, <1>4 DEF ReplaceInv, Contradicts, Repairs
<1>7. RunInv(p)'
  BY <1>1, <1>2, <1>3, <1>6 DEF RunInv, FreshInv, LoadedInv, WorkInv, FinalInv, ResultsOf, SameScan, Locked
<1> QED
  BY <1>1, <1>2, <1>3, <1>4, <1>5, <1>7, LockedStepKeeps DEF IInv, TypeOK, Locked

LEMMA WriteArtifactKeeps ==
  ASSUME IInv, NEW p \in Process, WriteArtifact(p)
  PROVE  IInv'
<1>1. /\ run[p] \in Run /\ pc[p] \in {"finalize", "replace"}
      /\ pc' = [pc EXCEPT ![p] = "complete"] /\ RunInv(p)
  BY DEF IInv, TypeOK, WriteArtifact, GoTo
<1>2. run' = [run EXCEPT ![p] = run[p]] /\ run'[p] = run[p] /\ pc'[p] = "complete"
  BY <1>1 DEF IInv, TypeOK, WriteArtifact
<1>3. UNCHANGED <<day, checkpoint, scanArchive, holder>> /\ artifact' = NewArtifact(p)
  BY DEF WriteArtifact
<1>4. artifact' \in Artifact
  BY <1>3, NewArtifactIsArtifact DEF IInv
<1>5. ArtifactIsCoherent'
  BY <1>1, <1>3, NewArtifactCoherent DEF ArtifactIsCoherent, NewArtifact, Codes
<1>6. CheckpointInv'
  BY <1>3 DEF IInv, CheckpointInv, ResultsOf
<1>7. RunInv(p)'
  BY <1>1, <1>2, <1>3 DEF RunInv, FreshInv, LoadedInv, WorkInv, FinalInv, ReplaceInv, ResultsOf, SameScan, Locked
<1> QED
  BY <1>1, <1>2, <1>3, <1>4, <1>5, <1>6, <1>7, LockedStepKeeps DEF IInv, TypeOK, Locked

-----------------------------------------------------------------------------
(* Leaving, and midnight *)

LEMMA EndKeeps ==
  ASSUME IInv, NEW p \in Process, Leave(p), UNCHANGED <<day, checkpoint, artifact, scanArchive>>
  PROVE  IInv'
  BY LeaveKeeps, FilesStand DEF IInv, TypeOK

LEMMA SaveAndEndKeeps ==
  ASSUME IInv, NEW p \in Process, StopAtMidnight(p) \/ MarkComplete(p)
  PROVE  IInv'
<1>1. /\ pc[p] \in Locked \ {"loaded"} /\ Leave(p)
      /\ UNCHANGED <<day, artifact, scanArchive>>
  BY DEF StopAtMidnight, MarkComplete, Locked
<1>2. PICK state \in {"running", "complete"} : checkpoint' = Saved(p, state)
  BY DEF StopAtMidnight, MarkComplete
<1>3. checkpoint' \in Checkpoint /\ CheckpointInv'
  BY <1>1, <1>2, SaveKeeps
<1> QED
  BY <1>1, <1>3, LeaveKeeps

LEMMA MidnightKeeps == ASSUME IInv, Midnight PROVE IInv'
<1>1. day \in Nat /\ day' = day + 1 /\ day' \in Day
  BY DEF IInv, TypeOK, Midnight, Day, ReportDate
<1>2. TypeOK' /\ LockInv' /\ ArtifactIsCoherent'
  BY <1>1 DEF IInv, TypeOK, LockInv, ArtifactIsCoherent, Midnight
<1>3. ASSUME NEW scan, NEW found \in SUBSET Result, ResultsOf(scan, found, day)
      PROVE  ResultsOf(scan, found, day')
  BY <1>1, <1>3 DEF ResultsOf, Result, Day, ReportDate
<1>4. CheckpointInv'
  BY <1>3 DEF IInv, TypeOK, CheckpointInv, Checkpoint, Midnight
<1>5. ASSUME NEW q \in Process PROVE RunInv(q)'
  <2>1. RunInv(q) /\ run[q] \in Run /\ pc' = pc /\ run' = run
    BY DEF IInv, TypeOK, Midnight
  <2>2. run[q].execution \in Int /\ run[q].completed \in SUBSET Result
    BY <2>1 DEF Run, Day, ReportDate
  <2>3. LoadedInv(q)'
    BY <1>1, <2>1, <2>2 DEF RunInv, LoadedInv, ResultsOf, Midnight
  <2>4. WorkInv(q)'
    BY <1>1, <1>3, <2>1, <2>2 DEF RunInv, WorkInv, SameScan, Codes, Settled, Midnight
  <2>5. FreshInv(q)' /\ FinalInv(q)' /\ ReplaceInv(q)'
    BY <2>1 DEF RunInv, FreshInv, FinalInv, ReplaceInv, ResultsOf, Contradicts, Repairs, Midnight
  <2> QED
    BY <2>3, <2>4, <2>5 DEF RunInv
<1> QED
  BY <1>2, <1>4, <1>5 DEF IInv

-----------------------------------------------------------------------------
(* The theorems *)

LEMMA InitInv == Init => IInv
<1> SUFFICES ASSUME Init PROVE IInv
  OBVIOUS
<1>1. day \in Day /\ TypeOK
  BY BlankIsRun DEF Init, TypeOK, Day, ReportDate
<1>2. LockInv /\ CheckpointInv /\ ArtifactIsCoherent
  BY DEF Init, LockInv, CheckpointInv, ArtifactIsCoherent, Locked
<1>3. ASSUME NEW q \in Process PROVE RunInv(q)
  BY DEF Init, Blank, RunInv, FreshInv, LoadedInv, WorkInv, FinalInv, ReplaceInv, Locked
<1> QED
  BY <1>1, <1>2, <1>3 DEF IInv

LEMMA NextInv == IInv /\ [Next]_vars => IInv'
<1> SUFFICES ASSUME IInv, [Next]_vars PROVE IInv'
  OBVIOUS
<1>1. ASSUME NEW p \in Process, Proceed(p) PROVE IInv'
  <2>1. CASE Load(p) \/ ArchiveCheckpoint(p) \/ Resume(p)
    BY <2>1, LoadKeeps, ArchiveCheckpointKeeps, ResumeKeeps
  <2>2. CASE \E quotes \in Universe : FetchUniverse(p, quotes)
    BY <2>2, FetchUniverseKeeps
  <2>3. CASE \E observation \in Observation : Observe(p, observation)
    BY <2>3, ObserveKeeps
  <2>4. CASE KeepObservation(p) \/ StartBatch(p)
    BY <2>4, KeepObservationKeeps, StartBatchKeeps
  <2>5. CASE RepairUnavailable(p) \/ StopAtLimit(p) \/ EndAfterMidnight(p) \/ RefuseArtifact(p)
    BY <2>5, EndKeeps DEF RepairUnavailable, StopAtLimit, EndAfterMidnight, RefuseArtifact
  <2>6. CASE \E code \in Code, status \in {"settled", "failed"} : Fetch(p, code, status)
    BY <2>6, FetchKeeps
  <2>7. CASE SaveBatch(p) \/ SaveRunning(p)
    BY <2>7, SaveBatchKeeps, SaveRunningKeeps
  <2>8. CASE StopAtMidnight(p) \/ MarkComplete(p)
    BY <2>8, SaveAndEndKeeps
  <2>9. CASE ArchiveArtifact(p) \/ WriteArtifact(p)
    BY <2>9, ArchiveArtifactKeeps, WriteArtifactKeeps
  <2> QED
    BY <1>1, <2>1, <2>2, <2>3, <2>4, <2>5, <2>6, <2>7, <2>8, <2>9 DEF Proceed
<1>2. ASSUME NEW p \in Process, NEW config \in Config, NEW refresh \in BOOLEAN,
             Start(p, config, refresh)
      PROVE  IInv'
  BY <1>2, StartKeeps
<1>3. ASSUME NEW p \in Process, UniverseUnavailable(p) \/ Abort(p) PROVE IInv'
  BY <1>3, EndKeeps DEF UniverseUnavailable, Abort
<1>4. CASE Midnight
  BY <1>4, MidnightKeeps
<1>5. CASE UNCHANGED vars
  <2>1. \A q \in Process : RunInv(q)'
    BY <1>5, RunStands DEF IInv, vars
  <2>2. TypeOK' /\ LockInv'
    BY <1>5 DEF IInv, TypeOK, LockInv, vars
  <2> QED
    BY <1>5, <2>1, <2>2, FilesStand DEF IInv, vars
<1> QED
  BY <1>1, <1>2, <1>3, <1>4, <1>5 DEF Next

\* The inductive invariant: one run at a time works on the checkpoint, what it knows
\* extends the checkpoint, and every result is of the day of the run or later.
THEOREM ScanInvariance == Spec => []IInv
  BY InitInv, NextInv, PTL DEF Spec

\* The artifact never mixes days, configurations or universes.
THEOREM ArtifactsAreCoherent == Spec => []ArtifactIsCoherent
<1>1. IInv => ArtifactIsCoherent
  BY DEF IInv
<1> QED
  BY <1>1, ScanInvariance, PTL

\* A checkpoint that is replaced by one of the same scan loses no settled result.
THEOREM ProgressIsKept == Spec => ProgressKept
<1> DEFINE Kept == checkpoint # Nothing /\ checkpoint' # Nothing /\ SameScan(checkpoint, checkpoint')
                   => Settled(checkpoint.completed) \subseteq checkpoint'.completed
<1>1. ASSUME IInv, [Next]_vars PROVE Kept
  <2>1. CASE checkpoint' = checkpoint
    BY <2>1 DEF Settled
  <2>2. ASSUME NEW p \in Process, NEW state, checkpoint' = Saved(p, state),
               pc[p] \in Locked \ {"loaded"}
        PROVE  Kept
    <3>1. WorkInv(p)
      BY <1>1 DEF IInv, RunInv
    <3>2. checkpoint # Nothing /\ SameScan(checkpoint, run[p])
            => Settled(checkpoint.completed) \subseteq run[p].completed
      BY <2>2, <3>1 DEF WorkInv
    <3> QED
      BY <2>2, <3>2 DEF Saved, SameScan
  <2>3. ASSUME NEW p \in Process, Proceed(p) PROVE Kept
    <3>1. CASE ArchiveCheckpoint(p)
      BY <3>1 DEF ArchiveCheckpoint
    <3>2. CASE SaveBatch(p) \/ SaveRunning(p) \/ StopAtMidnight(p) \/ MarkComplete(p)
      BY <2>2, <3>2 DEF SaveBatch, SaveRunning, StopAtMidnight, MarkComplete, Locked
    <3>3. CASE Load(p) \/ Resume(p) \/ KeepObservation(p) \/ StartBatch(p)
      BY <2>1, <3>3 DEF Load, Resume, KeepObservation, StartBatch
    <3>4. CASE \/ \E quotes \in Universe : FetchUniverse(p, quotes)
               \/ \E observation \in Observation : Observe(p, observation)
               \/ \E code \in Code, status \in {"settled", "failed"} : Fetch(p, code, status)
      BY <2>1, <3>4 DEF FetchUniverse, Observe, Fetch
    <3>5. CASE RepairUnavailable(p) \/ StopAtLimit(p) \/ EndAfterMidnight(p)
      BY <2>1, <3>5 DEF RepairUnavailable, StopAtLimit, EndAfterMidnight
    <3>6. CASE RefuseArtifact(p) \/ ArchiveArtifact(p) \/ WriteArtifact(p)
      BY <2>1, <3>6 DEF RefuseArtifact, ArchiveArtifact, WriteArtifact
    <3> QED
      BY <2>3, <3>1, <3>2, <3>3, <3>4, <3>5, <3>6 DEF Proceed
  <2>4. ASSUME NEW p \in Process,
               \/ \E config \in Config, refresh \in BOOLEAN : Start(p, config, refresh)
               \/ UniverseUnavailable(p)
               \/ Abort(p)
        PROVE  Kept
    BY <2>1, <2>4 DEF Start, UniverseUnavailable, Abort
  <2>5. CASE Midnight \/ UNCHANGED vars
    BY <2>1, <2>5 DEF Midnight, vars
  <2> HIDE DEF Kept
  <2> QED
    BY <1>1, <2>3, <2>4, <2>5 DEF Next
<1>2. IInv /\ [Next]_vars => [Kept]_vars
  BY <1>1
<1> QED
  BY <1>2, ScanInvariance, PTL DEF Spec, ProgressKept

\* One action publishes.
LEMMA OnlyWriteArtifactPublishes ==
  ASSUME [Next]_vars
  PROVE  artifact' = artifact \/ \E p \in Process : WriteArtifact(p)
<1>1. ASSUME NEW p \in Process, Proceed(p) PROVE artifact' = artifact \/ WriteArtifact(p)
  <2>1. CASE \/ Load(p) \/ ArchiveCheckpoint(p) \/ Resume(p)
             \/ \E quotes \in Universe : FetchUniverse(p, quotes)
    BY <2>1 DEF Load, ArchiveCheckpoint, Resume, FetchUniverse
  <2>2. CASE \/ \E observation \in Observation : Observe(p, observation)
             \/ RepairUnavailable(p) \/ KeepObservation(p)
    BY <2>2 DEF Observe, RepairUnavailable, KeepObservation
  <2>3. CASE \/ StopAtLimit(p) \/ StopAtMidnight(p) \/ StartBatch(p)
             \/ \E code \in Code, status \in {"settled", "failed"} : Fetch(p, code, status)
    BY <2>3 DEF StopAtLimit, StopAtMidnight, StartBatch, Fetch
  <2>4. CASE SaveBatch(p) \/ EndAfterMidnight(p) \/ SaveRunning(p)
    BY <2>4 DEF SaveBatch, EndAfterMidnight, SaveRunning
  <2>5. CASE RefuseArtifact(p) \/ ArchiveArtifact(p) \/ MarkComplete(p)
    BY <2>5 DEF RefuseArtifact, ArchiveArtifact, MarkComplete
  <2> QED
    BY <1>1, <2>1, <2>2, <2>3, <2>4, <2>5 DEF Proceed
<1>2. ASSUME NEW p \in Process,
             \/ \E config \in Config, refresh \in BOOLEAN : Start(p, config, refresh)
             \/ UniverseUnavailable(p)
             \/ Abort(p)
      PROVE  artifact' = artifact
  BY <1>2 DEF Start, UniverseUnavailable, Abort
<1>3. CASE Midnight \/ UNCHANGED vars
  BY <1>3 DEF Midnight, vars
<1> QED
  BY <1>1, <1>2, <1>3 DEF Next

\* A published observation is replaced only where nothing contradicts it or where
\* the repair of the same process has archived the artifact just before: inside the
\* lock nobody else can have written one in between.
THEOREM ObservationIsKept == Spec => ObservationKept
<1> DEFINE Immutable == artifact # Nothing /\ artifact.market # Nothing /\ artifact' # artifact
                        => \/ artifact'.market = artifact.market
                           \/ /\ artifact.market \notin Available /\ artifact'.market \in Available
                              /\ artifact'.config = artifact.config
                              /\ artifact \in scanArchive
<1>1. ASSUME IInv, [Next]_vars PROVE Immutable
  <2>1. ASSUME NEW p \in Process, WriteArtifact(p) PROVE Immutable
    <3>1. artifact' = NewArtifact(p)
      BY <2>1 DEF WriteArtifact
    <3>2. artifact'.market = run[p].market /\ artifact'.config = run[p].config
      BY <3>1 DEF NewArtifact
    <3>3. CASE pc[p] = "finalize" /\ ~Contradicts(p)
      BY <3>2, <3>3 DEF Contradicts
    <3>4. CASE pc[p] = "replace"
      <4>1. Repairs(p) /\ artifact \in scanArchive
        BY <1>1, <3>4 DEF IInv, RunInv, ReplaceInv
      <4> QED
        BY <3>2, <4>1 DEF Repairs
    <3> QED
      BY <2>1, <3>3, <3>4 DEF WriteArtifact
  <2> HIDE DEF Immutable
  <2>2. artifact' = artifact => Immutable
    BY DEF Immutable
  <2> QED
    BY <1>1, <2>1, <2>2, OnlyWriteArtifactPublishes
<1>2. IInv /\ [Next]_vars => [Immutable]_vars
  BY <1>1
<1> QED
  BY <1>2, ScanInvariance, PTL DEF Spec, ObservationKept

-----------------------------------------------------------------------------
(* What is published stays published *)

\* What is published is no newer than a scan, and what is settled of its day is in it.
Carried(scan) ==
    artifact # Nothing =>
        \A r \in artifact.results :
            /\ r.day <= scan.execution
            /\ r.day = scan.execution /\ r.status = "settled" => r \in scan.completed

PublishedBefore(d) == artifact # Nothing => \A r \in artifact.results : r.day < d

CheckpointCarries ==
    /\ checkpoint = Nothing => PublishedBefore(day)
    /\ checkpoint # Nothing => /\ Carried(checkpoint)
                               /\ checkpoint.execution <= day
                               /\ checkpoint.quotes \in Universe

LoadedCarries(p) ==
    pc[p] = "loaded" =>
        /\ checkpoint = Nothing => PublishedBefore(run[p].execution)
        /\ checkpoint # Nothing => checkpoint.execution <= run[p].execution

WorkCarries(p) ==
    pc[p] \in Locked \ {"loaded"} => Carried(run[p]) /\ run[p].quotes \in Universe

\* The results are in the checkpoint before they are published.
FinalCarries(p) ==
    pc[p] \in {"finalize", "replace", "complete"} =>
        /\ checkpoint # Nothing
        /\ checkpoint.execution = run[p].execution
        /\ checkpoint.completed = run[p].completed

RunCarries(p) == LoadedCarries(p) /\ WorkCarries(p) /\ FinalCarries(p)

\* The invariant behind PublishedKept, of a scan with one configuration.
PublicationInv == CheckpointCarries /\ \A p \in Process : RunCarries(p)

LEMMA OutsideCarries ==
  ASSUME NEW q, pc[q] \notin Locked PROVE RunCarries(q)
  BY DEF RunCarries, LoadedCarries, WorkCarries, FinalCarries, Locked

\* A step of p that leaves the files alone.
LEMMA LocalStepCarries ==
  ASSUME PublicationInv, NEW p \in Process, RunCarries(p)',
         UNCHANGED <<day, checkpoint, artifact>>,
         \A q \in Process : q # p => pc'[q] = pc[q] /\ run'[q] = run[q]
  PROVE  PublicationInv'
<1>1. CheckpointCarries'
  BY DEF PublicationInv, CheckpointCarries, Carried, PublishedBefore
<1>2. ASSUME NEW q \in Process, q # p PROVE RunCarries(q)'
  <2>1. RunCarries(q)
    BY DEF PublicationInv
  <2>2. pc'[q] = pc[q] /\ run'[q] = run[q]
    BY <1>2
  <2> QED
    BY <2>1, <2>2 DEF RunCarries, LoadedCarries, WorkCarries, FinalCarries, Carried, PublishedBefore
<1> QED
  BY <1>1, <1>2 DEF PublicationInv

\* A step of p inside the lock.
LEMMA LockedStepCarries ==
  ASSUME IInv, NEW p \in Process, pc[p] \in Locked, CheckpointCarries', RunCarries(p)',
         \A q \in Process : q # p => pc'[q] = pc[q]
  PROVE  PublicationInv'
<1>1. ASSUME NEW q \in Process, q # p PROVE RunCarries(q)'
  <2>1. pc[q] \notin Locked
    BY <1>1 DEF IInv, LockInv
  <2>2. pc'[q] \notin Locked
    BY <1>1, <2>1
  <2> QED
    BY <2>2 DEF RunCarries, LoadedCarries, WorkCarries, FinalCarries, Locked
<1> QED
  BY <1>1 DEF PublicationInv

LEMMA LeaveCarries ==
  ASSUME IInv, PublicationInv, NEW p \in Process, Leave(p), UNCHANGED <<day, checkpoint, artifact>>
  PROVE  PublicationInv'
<1>1. pc'[p] = "idle" /\ \A q \in Process : q # p => pc'[q] = pc[q] /\ run'[q] = run[q]
  BY DEF IInv, TypeOK, Leave, GoTo
<1>2. RunCarries(p)'
  BY <1>1 DEF RunCarries, LoadedCarries, WorkCarries, FinalCarries, Locked
<1> QED
  BY <1>1, <1>2, LocalStepCarries

LEMMA StartCarries ==
  ASSUME IInv, PublicationInv, NEW p \in Process, NEW config \in Config, NEW refresh \in BOOLEAN,
         Start(p, config, refresh)
  PROVE  PublicationInv'
<1>1. pc'[p] = "waiting" /\ \A q \in Process : q # p => pc'[q] = pc[q] /\ run'[q] = run[q]
  BY DEF IInv, TypeOK, Start, GoTo
<1>2. RunCarries(p)'
  BY <1>1 DEF RunCarries, LoadedCarries, WorkCarries, FinalCarries, Locked
<1> QED
  BY <1>1, <1>2, LocalStepCarries DEF Start

LEMMA LoadCarries ==
  ASSUME IInv, PublicationInv, NEW p \in Process, Load(p)
  PROVE  PublicationInv'
<1>1. /\ pc'[p] = "loaded" /\ run'[p].execution = day
      /\ \A q \in Process : q # p => pc'[q] = pc[q] /\ run'[q] = run[q]
  BY DEF IInv, TypeOK, Load, GoTo, Run
<1>2. UNCHANGED <<day, checkpoint, artifact>>
  BY DEF Load
<1>3. CheckpointCarries
  BY DEF PublicationInv
<1>4. LoadedCarries(p)'
  BY <1>1, <1>2, <1>3 DEF CheckpointCarries, LoadedCarries, PublishedBefore
<1>5. RunCarries(p)'
  BY <1>1, <1>4 DEF RunCarries, WorkCarries, FinalCarries
<1> QED
  BY <1>1, <1>2, <1>5, LocalStepCarries

\* With one configuration a stale checkpoint is of an earlier day, and so is all
\* that has been published.
LEMMA ArchiveCheckpointCarries ==
  ASSUME \A c, d \in Config : c = d,
         IInv, PublicationInv, NEW p \in Process, ArchiveCheckpoint(p)
  PROVE  PublicationInv'
<1>1. /\ pc[p] = "loaded" /\ pc' = pc /\ run[p] \in Run /\ run'[p].execution = run[p].execution
      /\ checkpoint' = Nothing /\ UNCHANGED <<day, artifact>>
      /\ run[p].base # Nothing /\ Stale(run[p].base, run[p])
  BY DEF IInv, TypeOK, ArchiveCheckpoint, Run
<1>2. /\ run[p].base = checkpoint /\ run[p].execution <= day
      /\ checkpoint \in Checkpoint
  BY <1>1 DEF IInv, TypeOK, RunInv, LoadedInv
<1>3. /\ Carried(checkpoint) /\ checkpoint.execution <= run[p].execution
  BY <1>1, <1>2 DEF PublicationInv, CheckpointCarries, RunCarries, LoadedCarries
<1>4. /\ checkpoint.execution \in Int /\ run[p].execution \in Int /\ day \in Int
      /\ checkpoint.config = run[p].config
  BY <1>1, <1>2 DEF IInv, TypeOK, Checkpoint, Run, Day, ReportDate
<1>5. checkpoint.execution < run[p].execution
  BY <1>1, <1>2, <1>3, <1>4 DEF Stale
<1>6. artifact # Nothing => \A r \in artifact.results : r.day \in Int
  BY DEF IInv, TypeOK, Artifact, Result, Day, ReportDate
<1>7. PublishedBefore(run[p].execution) /\ PublishedBefore(day)
  BY <1>2, <1>3, <1>4, <1>5, <1>6 DEF Carried, PublishedBefore
<1>8. CheckpointCarries' /\ RunCarries(p)'
  BY <1>1, <1>7
     DEF CheckpointCarries, RunCarries, LoadedCarries, WorkCarries, FinalCarries, PublishedBefore
<1> QED
  BY <1>1, <1>8, LockedStepCarries DEF Locked

LEMMA ResumeCarries ==
  ASSUME IInv, PublicationInv, NEW p \in Process, Resume(p)
  PROVE  PublicationInv'
<1>1. /\ pc[p] = "loaded" /\ run[p] \in Run /\ UNCHANGED <<day, checkpoint, artifact>>
      /\ pc'[p] = "market" /\ \A q \in Process : q # p => pc'[q] = pc[q] /\ run'[q] = run[q]
      /\ run[p].base # Nothing /\ ~Stale(run[p].base, run[p])
  BY DEF IInv, TypeOK, Resume, GoTo
<1>2. /\ run'[p].quotes = run[p].base.quotes /\ run'[p].execution = run[p].execution
      /\ run'[p].completed = Settled(run[p].base.completed)
  BY <1>1 DEF IInv, TypeOK, Resume, Run
<1>3. run[p].base = checkpoint /\ checkpoint.execution = run[p].execution
  BY <1>1 DEF IInv, RunInv, LoadedInv, Stale
<1>4. Carried(checkpoint) /\ checkpoint.quotes \in Universe
  BY <1>1, <1>3 DEF PublicationInv, CheckpointCarries
<1>5. WorkCarries(p)'
  BY <1>1, <1>2, <1>3, <1>4 DEF WorkCarries, Carried, Settled
<1>6. RunCarries(p)'
  BY <1>1, <1>5 DEF RunCarries, LoadedCarries, FinalCarries
<1> QED
  BY <1>1, <1>6, LocalStepCarries

LEMMA FetchUniverseCarries ==
  ASSUME IInv, PublicationInv, NEW p \in Process, NEW quotes \in Universe, FetchUniverse(p, quotes)
  PROVE  PublicationInv'
<1>1. /\ pc[p] = "loaded" /\ run[p] \in Run /\ UNCHANGED <<day, checkpoint, artifact>>
      /\ pc'[p] = "market" /\ \A q \in Process : q # p => pc'[q] = pc[q] /\ run'[q] = run[q]
      /\ run[p].base = Nothing
  BY DEF IInv, TypeOK, FetchUniverse, GoTo
<1>2. run'[p].quotes = quotes /\ run'[p].execution = run[p].execution
  BY <1>1 DEF IInv, TypeOK, FetchUniverse, Run
<1>3. checkpoint = Nothing
  BY <1>1 DEF IInv, RunInv, LoadedInv
<1>4. PublishedBefore(run[p].execution)
  BY <1>1, <1>3 DEF PublicationInv, RunCarries, LoadedCarries
<1>5. run[p].execution \in Int /\ (artifact # Nothing => \A r \in artifact.results : r.day \in Int)
  BY <1>1 DEF IInv, TypeOK, Artifact, Result, Run, Day, ReportDate
<1>6. WorkCarries(p)'
  BY <1>1, <1>2, <1>4, <1>5 DEF WorkCarries, Carried, PublishedBefore
<1>7. RunCarries(p)'
  BY <1>1, <1>6 DEF RunCarries, LoadedCarries, FinalCarries
<1> QED
  BY <1>1, <1>7, LocalStepCarries

\* While it works a run only adds to its results.
LEMMA WorkStepCarries ==
  ASSUME IInv, PublicationInv, NEW p \in Process, pc[p] \in {"market", "loop", "batch"},
         pc'[p] \in {"market", "loop", "batch"}, UNCHANGED <<day, checkpoint, artifact>>,
         run'[p].execution = run[p].execution, run'[p].quotes = run[p].quotes,
         run[p].completed \subseteq run'[p].completed,
         \A q \in Process : q # p => pc'[q] = pc[q] /\ run'[q] = run[q]
  PROVE  PublicationInv'
<1>1. Carried(run[p]) /\ run[p].quotes \in Universe
  BY DEF PublicationInv, RunCarries, WorkCarries, Locked
<1>2. WorkCarries(p)'
  BY <1>1 DEF WorkCarries, Carried
<1>3. RunCarries(p)'
  BY <1>2 DEF RunCarries, LoadedCarries, FinalCarries
<1> QED
  BY <1>3, LocalStepCarries

LEMMA WorkCarriesOn ==
  ASSUME IInv, PublicationInv, NEW p \in Process,
         \/ \E observation \in Observation : Observe(p, observation)
         \/ KeepObservation(p) \/ StartBatch(p)
         \/ \E code \in Code, status \in {"settled", "failed"} : Fetch(p, code, status)
  PROVE  PublicationInv'
<1>1. run \in [Process -> Run] /\ pc \in [Process -> Locked \cup {"idle", "waiting"}]
  BY DEF IInv, TypeOK
<1>2. CASE \E observation \in Observation : Observe(p, observation)
  BY <1>1, <1>2, WorkStepCarries DEF Observe, GoTo, Run
<1>3. CASE KeepObservation(p)
  BY <1>1, <1>3, WorkStepCarries DEF KeepObservation, GoTo, Run
<1>4. CASE StartBatch(p)
  BY <1>1, <1>4, WorkStepCarries DEF StartBatch, GoTo, Run
<1>5. CASE \E code \in Code, status \in {"settled", "failed"} : Fetch(p, code, status)
  <2>1. PICK code \in Code, status \in {"settled", "failed"} : Fetch(p, code, status)
    BY <1>5
  <2>2. /\ pc[p] = "batch" /\ pc' = pc /\ UNCHANGED <<day, checkpoint, artifact>>
        /\ \A q \in Process : q # p => run'[q] = run[q]
    BY <1>1, <2>1 DEF Fetch
  <2>3. /\ run'[p].execution = run[p].execution /\ run'[p].quotes = run[p].quotes
        /\ run'[p].completed = run[p].completed \cup
                 {[code |-> code, status |-> status, day |-> day, config |-> run[p].config]}
    <3>1. run[p] \in Run
      BY <1>1
    <3> QED
      BY <1>1, <2>1, <3>1 DEF Fetch, Run
  <2> QED
    BY <2>2, <2>3, WorkStepCarries
<1> QED
  BY <1>2, <1>3, <1>4, <1>5

\* A checkpoint that a run saves carries what the run does.
LEMMA SavedCarries ==
  ASSUME IInv, PublicationInv, NEW p \in Process, pc[p] \in Locked \ {"loaded"},
         NEW state \in {"running", "complete"},
         checkpoint' = Saved(p, state), UNCHANGED <<day, artifact>>
  PROVE  /\ CheckpointCarries' /\ checkpoint' # Nothing
         /\ checkpoint'.execution = run[p].execution /\ checkpoint'.completed = run[p].completed
<1>1. checkpoint' \in Checkpoint
  BY SavedIsCheckpoint DEF IInv
<1>2. checkpoint' # Nothing
  BY <1>1, NoFileType
<1>3. Carried(run[p]) /\ run[p].quotes \in Universe
  BY DEF PublicationInv, RunCarries, WorkCarries
<1>4. run[p].execution <= day
  BY DEF IInv, RunInv, WorkInv
<1>5. /\ checkpoint'.execution = run[p].execution /\ checkpoint'.completed = run[p].completed
      /\ checkpoint'.quotes = run[p].quotes
  BY DEF Saved
<1> QED
  BY <1>2, <1>3, <1>4, <1>5 DEF CheckpointCarries, Carried

LEMMA SaveStepCarries ==
  ASSUME IInv, PublicationInv, NEW p \in Process,
         SaveBatch(p) \/ SaveRunning(p) \/ StopAtMidnight(p) \/ MarkComplete(p)
  PROVE  PublicationInv'
<1>1. /\ pc[p] \in Locked \ {"loaded"} /\ UNCHANGED <<day, artifact>>
      /\ \A q \in Process : q # p => pc'[q] = pc[q]
  BY DEF IInv, TypeOK, SaveBatch, SaveRunning, StopAtMidnight, MarkComplete, Leave, GoTo, Locked
<1>2. PICK state \in {"running", "complete"} : checkpoint' = Saved(p, state)
  BY DEF SaveBatch, SaveRunning, StopAtMidnight, MarkComplete
<1>3. /\ CheckpointCarries' /\ checkpoint' # Nothing
      /\ checkpoint'.execution = run[p].execution /\ checkpoint'.completed = run[p].completed
  BY <1>1, <1>2, SavedCarries
<1>4. RunCarries(p)'
  <2>1. CASE StopAtMidnight(p) \/ MarkComplete(p)
    <3>1. pc'[p] = "idle"
      BY <2>1 DEF IInv, TypeOK, StopAtMidnight, MarkComplete, Leave, GoTo
    <3> QED
      BY <3>1 DEF RunCarries, LoadedCarries, WorkCarries, FinalCarries, Locked
  <2>2. CASE SaveBatch(p) \/ SaveRunning(p)
    <3>1. pc'[p] \in {"loop", "finalize"} /\ run' = run
      BY <2>2 DEF IInv, TypeOK, SaveBatch, SaveRunning, GoTo
    <3>2. Carried(run[p]) /\ run[p].quotes \in Universe
      BY <1>1 DEF PublicationInv, RunCarries, WorkCarries
    <3> QED
      BY <1>1, <1>3, <3>1, <3>2 DEF RunCarries, LoadedCarries, WorkCarries, FinalCarries, Carried
  <2> QED
    BY <2>1, <2>2
<1> QED
  BY <1>1, <1>3, <1>4, LockedStepCarries

LEMMA ArchiveArtifactCarries ==
  ASSUME IInv, PublicationInv, NEW p \in Process, ArchiveArtifact(p)
  PROVE  PublicationInv'
<1>1. /\ pc[p] = "finalize" /\ pc'[p] = "replace" /\ run' = run
      /\ UNCHANGED <<day, checkpoint, artifact>>
      /\ \A q \in Process : q # p => pc'[q] = pc[q]
  BY DEF IInv, TypeOK, ArchiveArtifact, GoTo
<1>2. RunCarries(p)
  BY DEF PublicationInv
<1>3. RunCarries(p)'
  BY <1>1, <1>2 DEF RunCarries, LoadedCarries, WorkCarries, FinalCarries, Carried, Locked
<1> QED
  BY <1>1, <1>3, LocalStepCarries

\* All that is published now is of the day of the run.
LEMMA PublishedOfTheRun ==
  ASSUME IInv, NEW p \in Process, pc[p] \in {"finalize", "replace"}
  PROVE  \A r \in run[p].completed : r.day = run[p].execution
<1>1. run[p] \in Run /\ ResultsOf(run[p], run[p].completed, run[p].execution)
  BY DEF IInv, TypeOK, RunInv, FinalInv
<1> QED
  BY <1>1 DEF ResultsOf, Run, Result, Day, ReportDate

LEMMA WriteArtifactCarries ==
  ASSUME IInv, PublicationInv, NEW p \in Process, WriteArtifact(p)
  PROVE  PublicationInv'
<1>1. /\ pc[p] \in {"finalize", "replace"} /\ pc'[p] = "complete" /\ run' = run
      /\ artifact' = NewArtifact(p) /\ UNCHANGED <<day, checkpoint>>
      /\ \A q \in Process : q # p => pc'[q] = pc[q]
  BY DEF IInv, TypeOK, WriteArtifact, GoTo
<1>2. /\ checkpoint # Nothing /\ checkpoint.execution = run[p].execution
      /\ checkpoint.completed = run[p].completed /\ run[p].quotes \in Universe
  BY <1>1 DEF PublicationInv, RunCarries, FinalCarries, WorkCarries, Locked
<1>3. artifact'.results = run[p].completed
  BY <1>1 DEF NewArtifact
<1>4. run[p].execution \in Int /\ \A r \in run[p].completed : r.day = run[p].execution
  BY <1>1, PublishedOfTheRun DEF IInv, TypeOK, Run, Day, ReportDate
<1>5. Carried(run[p])'
  BY <1>1, <1>3, <1>4 DEF Carried
<1>6. CheckpointCarries'
  BY <1>1, <1>2, <1>3, <1>4 DEF PublicationInv, CheckpointCarries, Carried
<1>7. RunCarries(p)'
  BY <1>1, <1>2, <1>5 DEF RunCarries, LoadedCarries, WorkCarries, FinalCarries
<1> QED
  BY <1>1, <1>6, <1>7, LockedStepCarries DEF Locked

LEMMA MidnightCarries ==
  ASSUME IInv, PublicationInv, Midnight PROVE PublicationInv'
<1>1. /\ day \in Int /\ day' = day + 1 /\ UNCHANGED <<checkpoint, artifact, pc, run>>
      /\ checkpoint # Nothing => checkpoint.execution \in Int
      /\ artifact # Nothing => \A r \in artifact.results : r.day \in Int
  BY DEF IInv, TypeOK, Midnight, Checkpoint, Artifact, Result, Day, ReportDate
<1>2. CheckpointCarries'
  BY <1>1 DEF PublicationInv, CheckpointCarries, PublishedBefore, Carried
<1>3. ASSUME NEW q \in Process PROVE RunCarries(q)'
  BY <1>1 DEF PublicationInv, RunCarries, LoadedCarries, WorkCarries, FinalCarries, PublishedBefore, Carried
<1> QED
  BY <1>2, <1>3 DEF PublicationInv

LEMMA PublicationInductive ==
  ASSUME \A c, d \in Config : c = d, IInv, PublicationInv, [Next]_vars
  PROVE  PublicationInv'
<1>1. ASSUME NEW p \in Process, Proceed(p) PROVE PublicationInv'
  <2>1. CASE Load(p) \/ ArchiveCheckpoint(p) \/ Resume(p)
    BY <2>1, LoadCarries, ArchiveCheckpointCarries, ResumeCarries
  <2>2. CASE \E quotes \in Universe : FetchUniverse(p, quotes)
    BY <2>2, FetchUniverseCarries
  <2>3. CASE \/ \E observation \in Observation : Observe(p, observation)
             \/ KeepObservation(p) \/ StartBatch(p)
             \/ \E code \in Code, status \in {"settled", "failed"} : Fetch(p, code, status)
    BY <2>3, WorkCarriesOn
  <2>4. CASE RepairUnavailable(p) \/ StopAtLimit(p) \/ EndAfterMidnight(p) \/ RefuseArtifact(p)
    BY <2>4, LeaveCarries DEF RepairUnavailable, StopAtLimit, EndAfterMidnight, RefuseArtifact
  <2>5. CASE SaveBatch(p) \/ SaveRunning(p) \/ StopAtMidnight(p) \/ MarkComplete(p)
    BY <2>5, SaveStepCarries
  <2>6. CASE ArchiveArtifact(p) \/ WriteArtifact(p)
    BY <2>6, ArchiveArtifactCarries, WriteArtifactCarries
  <2> QED
    BY <1>1, <2>1, <2>2, <2>3, <2>4, <2>5, <2>6 DEF Proceed
<1>2. ASSUME NEW p \in Process, NEW config \in Config, NEW refresh \in BOOLEAN,
             Start(p, config, refresh)
      PROVE  PublicationInv'
  BY <1>2, StartCarries
<1>3. ASSUME NEW p \in Process, UniverseUnavailable(p) \/ Abort(p) PROVE PublicationInv'
  BY <1>3, LeaveCarries DEF UniverseUnavailable, Abort
<1>4. CASE Midnight
  BY <1>4, MidnightCarries
<1>5. CASE UNCHANGED vars
  BY <1>5 DEF vars, PublicationInv, CheckpointCarries, RunCarries, LoadedCarries, WorkCarries,
              FinalCarries, PublishedBefore, Carried
<1> QED
  BY <1>1, <1>2, <1>3, <1>4, <1>5 DEF Next

\* Under one configuration, and when every universe has an eligible stock, a settled
\* result stays published for the rest of its day: the checkpoint holds it from
\* before it is published, and a run that publishes later has resumed that
\* checkpoint or began on a later day.
THEOREM PublishedIsKept ==
  ASSUME \A c, d \in Config : c = d, {} \notin Universe
  PROVE  Spec => PublishedKept
<1> DEFINE Kept == artifact # Nothing /\ artifact' # artifact
                   => \/ Settled(artifact.results) \subseteq artifact'.results
                      \/ \E r \in artifact.results, s \in artifact'.results : r.day # s.day
<1>1. Init => PublicationInv
  BY DEF Init, PublicationInv, CheckpointCarries, PublishedBefore,
         RunCarries, LoadedCarries, WorkCarries, FinalCarries, Locked
<1>2. IInv /\ PublicationInv /\ [Next]_vars => PublicationInv'
  BY PublicationInductive
<1>3. ASSUME IInv, PublicationInv, [Next]_vars PROVE Kept
  <2>1. ASSUME NEW p \in Process, WriteArtifact(p), artifact # Nothing PROVE Kept
    <3>1. /\ pc[p] \in {"finalize", "replace"} /\ artifact'.results = run[p].completed
      BY <2>1 DEF WriteArtifact, NewArtifact
    <3>2. Carried(run[p]) /\ run[p].quotes # {}
      BY <1>3, <3>1 DEF PublicationInv, RunCarries, WorkCarries, Locked
    <3>3. PICK s \in run[p].completed : TRUE
      BY <1>3, <3>1, <3>2, NewArtifactCoherent DEF Codes
    <3>4. s.day = run[p].execution
      BY <1>3, <3>1, PublishedOfTheRun
    <3>5. CASE \E r \in artifact.results : r.day # run[p].execution
      BY <3>1, <3>3, <3>4, <3>5
    <3>6. CASE \A r \in artifact.results : r.day = run[p].execution
      BY <2>1, <3>1, <3>2, <3>6 DEF Carried, Settled
    <3> QED
      BY <3>5, <3>6
  <2> HIDE DEF Kept
  <2>2. artifact' = artifact \/ artifact = Nothing => Kept
    BY DEF Kept
  <2> QED
    BY <1>3, <2>1, <2>2, OnlyWriteArtifactPublishes
<1>4. IInv /\ PublicationInv /\ [Next]_vars => [Kept]_vars
  BY <1>3
<1>5. Spec => []PublicationInv
  BY <1>1, <1>2, ScanInvariance, PTL DEF Spec
<1> QED
  BY <1>4, <1>5, ScanInvariance, PTL DEF Spec, PublishedKept

-----------------------------------------------------------------------------
(* The candidates of a batch.  A thread that is at work on a candidate      *)
(* without a place in pending is stuck in one that has been given up,       *)
(* because done and cancelled ones have left the threads: so blocked        *)
(* threads never outnumber the candidates given up, and the count justifies *)
(* the cancelling.                                                          *)

USE CandidateType, WorkersType, AttemptsType

\* The parts of CollectInv that speak of one candidate.
CandidateInv ==
    /\ CollectTypeOK
    /\ \A c \in Candidate : FutureInv(c) /\ DeadlineInv(c)
    /\ TimeoutIsTheirs

LEMMA CandidatesStart == CollectInit => CandidateInv
  BY DEF CollectInit, CandidateInv, CollectTypeOK, FutureInv, DeadlineInv, TimeoutIsTheirs,
         Answer, Outcome

LEMMA CandidatesStay == CandidateInv /\ [CollectNext]_collectVars => CandidateInv'
<1> SUFFICES ASSUME CandidateInv, [CollectNext]_collectVars
             PROVE  CandidateInv'
  OBVIOUS
<1> USE DEF CandidateInv, CollectTypeOK, FutureInv, DeadlineInv, TimeoutIsTheirs, Answer, Outcome,
            threads, Running, Queued
<1>1. ASSUME NEW c \in Candidate, StartFetch(c) PROVE CandidateInv'
  BY <1>1 DEF StartFetch
<1>2. ASSUME NEW c \in Candidate, NEW result \in Answer, FetchCandidate(c, result)
      PROVE  CandidateInv'
  BY <1>2 DEF FetchCandidate
<1>3. ASSUME NEW c \in Candidate, Retry(c) PROVE CandidateInv'
  BY <1>3 DEF Retry, TriesAgain
<1>4. ASSUME NEW c \in Candidate, Finish(c) PROVE CandidateInv'
  BY <1>4 DEF Finish, TriesAgain
<1>5. CASE ReadClock
  BY <1>5 DEF ReadClock, LoopTo
<1>6. CASE TakeDone
  BY <1>6 DEF TakeDone, Give
<1>7. CASE Watch
  <2>1. \A c \in Running : attempt[c] \in 0..Attempts /\ attempt[c] # 0
    OBVIOUS
  <2>2. \A c \in Running : attempt[c] > 0
    BY <2>1
  <2>3. CollectTypeOK'
    BY <1>7 DEF Watch
  <2>4. \A c \in Candidate : FutureInv(c)'
    BY <1>7, <2>2 DEF Watch
  <2>5. QED
    BY <1>7, <2>3, <2>4 DEF Watch
<1>8. CASE CountBlocked
  BY <1>8 DEF CountBlocked
<1>9. ASSUME NEW c \in Candidate, CancelQueued(c) PROVE CandidateInv'
  BY <1>9 DEF CancelQueued
<1>10. ASSUME NEW c \in Candidate, CancelRefused(c) PROVE CandidateInv'
  BY <1>10 DEF CancelRefused
<1>11. CASE AllCancelled
  BY <1>11 DEF AllCancelled
<1>12. CASE Expire
  BY <1>12 DEF Expire, Give, LoopTo
<1>13. ASSUME NEW c \in Candidate, DeadlinePasses(c) PROVE CandidateInv'
  BY <1>13 DEF DeadlinePasses
<1>14. CASE UNCHANGED collectVars
  BY <1>14 DEF collectVars
<1>15. QED
  BY <1>1, <1>2, <1>3, <1>4, <1>5, <1>6, <1>7, <1>8, <1>9, <1>10, <1>11, <1>12, <1>13, <1>14
     DEF CollectNext, Collect, Thread

-----------------------------------------------------------------------------

\* A thread that is at work on a candidate without a place in pending is stuck in one
\* that has been given up.
LEMMA BlockedAreGivenUp ==
    ASSUME CandidateInv
    PROVE  /\ Blocked \subseteq GivenUp
           /\ IsFiniteSet(GivenUp)
           /\ Cardinality(Blocked) <= Cardinality(GivenUp)
           /\ Cardinality(Blocked) \in Nat /\ Cardinality(GivenUp) \in Nat
<1>1. Blocked \subseteq GivenUp
  BY DEF CandidateInv, CollectTypeOK, FutureInv, Blocked, Running, GivenUp, Outcome
<1>2. IsFiniteSet(GivenUp)
  BY FS_Subset DEF GivenUp
<1>3. IsFiniteSet(Blocked) /\ Cardinality(Blocked) <= Cardinality(GivenUp)
  BY <1>1, <1>2, FS_Subset
<1>4. QED
  BY <1>1, <1>2, <1>3, FS_CardinalityType

\* Who has been given up stays given up, so their number never falls.
LEMMA GivenUpGrows ==
    ASSUME CandidateInv, CandidateInv', [CollectNext]_collectVars
    PROVE  /\ GivenUp \subseteq GivenUp'
           /\ Cardinality(GivenUp) <= Cardinality(GivenUp')
           /\ Cardinality(GivenUp) \in Nat /\ Cardinality(GivenUp') \in Nat
<1>1. \A c \in Candidate : results[c] # "none" => results'[c] = results[c]
  BY DEF CandidateInv, CollectTypeOK, FutureInv, collectVars, threads, CollectNext, Collect,
         Thread, StartFetch,
         FetchCandidate, Retry, Finish, ReadClock, TakeDone, Watch, CountBlocked, CancelQueued,
         CancelRefused, AllCancelled, Expire, DeadlinePasses, Give
<1>2. GivenUp \subseteq GivenUp'
  BY <1>1 DEF GivenUp
<1>3. IsFiniteSet(GivenUp')
  BY FS_Subset DEF GivenUp
<1>4. IsFiniteSet(GivenUp) /\ Cardinality(GivenUp) <= Cardinality(GivenUp')
  BY <1>2, <1>3, FS_Subset
<1>5. QED
  BY <1>2, <1>3, <1>4, FS_CardinalityType

\* The executor never runs more fetches than it has threads: a fetch begins only when
\* a thread is free.
LEMMA RunningStays ==
    ASSUME CandidateInv, [CollectNext]_collectVars, Cardinality(Running) <= MaxWorkers
    PROVE  Cardinality(Running') <= MaxWorkers
<1>1. IsFiniteSet(Running) /\ Cardinality(Running) \in Nat
  BY FS_Subset, FS_CardinalityType DEF Running
<1>2. ASSUME NEW c \in Candidate, StartFetch(c)
      PROVE  Cardinality(Running') <= MaxWorkers
  <2>1. Running' = Running \cup {c} /\ c \notin Running
    BY <1>2 DEF StartFetch, Running, Queued, CandidateInv, CollectTypeOK
  <2>2. Cardinality(Running) < MaxWorkers
    BY <1>2 DEF StartFetch
  <2>3. Cardinality(Running') = Cardinality(Running) + 1
    BY <1>1, <2>1, FS_AddElement
  <2>4. QED
    BY <1>1, <2>2, <2>3
<1>3. CASE ~ \E c \in Candidate : StartFetch(c)
  <2>1. Running' \subseteq Running
    BY <1>3 DEF CandidateInv, CollectTypeOK, collectVars, threads, CollectNext, Collect,
                Thread, Running,
           FetchCandidate, Retry, Finish, ReadClock, TakeDone, Watch, CountBlocked, CancelQueued,
           CancelRefused, AllCancelled, Expire, DeadlinePasses
  <2>2. IsFiniteSet(Running') /\ Cardinality(Running') <= Cardinality(Running)
    BY <1>1, <2>1, FS_Subset
  <2>3. QED
    BY <1>1, <2>2, FS_CardinalityType
<1>4. QED
  BY <1>2, <1>3

-----------------------------------------------------------------------------

LEMMA CollectInvHas == CollectInv => CandidateInv
  BY DEF CollectInv, CandidateInv

LEMMA CollectStarts == CollectInit => CollectInv
<1> SUFFICES ASSUME CollectInit PROVE CollectInv
  OBVIOUS
<1>1. CandidateInv
  BY CandidatesStart
<1>2. Running = {}
  BY DEF CollectInit, Running
<1>3. Cardinality(Running) <= MaxWorkers
  BY <1>2, FS_EmptySet
<1>4. QED
  BY <1>1, <1>3 DEF CollectInit, CollectInv, CandidateInv, GivenUpWhenBlocked, BlockedInv

\* The count of CountBlocked is what justifies the cancelling that follows it.
LEMMA CollectStays == CollectInv /\ [CollectNext]_collectVars => CollectInv'
<1> SUFFICES ASSUME CollectInv, [CollectNext]_collectVars PROVE CollectInv'
  OBVIOUS
<1>1. CandidateInv /\ CandidateInv'
  BY CollectInvHas, CandidatesStay
<1>2. Cardinality(Running)' <= MaxWorkers
  BY <1>1, RunningStays DEF CollectInv
<1>3. /\ Cardinality(GivenUp) <= Cardinality(GivenUp')
      /\ Cardinality(GivenUp) \in Nat /\ Cardinality(GivenUp') \in Nat
  BY <1>1, GivenUpGrows
<1>4. BlockedInv'
  <2>1. CASE phase = "cancel"
    BY <1>3, <2>1 DEF CollectInv, BlockedInv
  <2>2. CASE CountBlocked
    <3>1. phase' = "cancel" => Cardinality(Blocked) >= MaxWorkers
      BY <2>2 DEF CountBlocked
    <3>2. Cardinality(Blocked) \in Nat /\ Cardinality(Blocked) <= Cardinality(GivenUp)
      BY <1>1, BlockedAreGivenUp
    <3>3. QED
      BY <1>3, <3>1, <3>2 DEF BlockedInv
  <2>3. CASE phase # "cancel" /\ ~CountBlocked
    <3>1. phase' # "cancel"
      BY <2>3 DEF collectVars, threads, CollectNext, Collect, Thread, StartFetch,
                  FetchCandidate, Retry, Finish,
             ReadClock, TakeDone, Watch, CancelQueued, CancelRefused, AllCancelled, Expire,
             DeadlinePasses, LoopTo
    <3>2. QED
      BY <3>1 DEF BlockedInv
  <2>4. QED
    BY <2>1, <2>2, <2>3
<1>5. GivenUpWhenBlocked'
  <2>1. ASSUME NEW c \in Candidate, CancelQueued(c)
        PROVE  GivenUpWhenBlocked'
    <3>1. Cardinality(GivenUp) >= MaxWorkers
      BY <2>1 DEF CancelQueued, CollectInv, BlockedInv
    <3>2. QED
      BY <1>3, <3>1 DEF GivenUpWhenBlocked
  <2>2. CASE ~ \E c \in Candidate : CancelQueued(c)
    <3>1. ASSUME NEW c \in Candidate, results'[c] = "fetch_workers_unavailable"
          PROVE  results[c] = "fetch_workers_unavailable"
      BY <1>1, <2>2, <3>1
         DEF CandidateInv, CollectTypeOK, Answer, Outcome, collectVars, threads, CollectNext,
             Collect, Thread,
             StartFetch, FetchCandidate, Retry, Finish, ReadClock, TakeDone, Watch, CountBlocked,
             CancelRefused, AllCancelled, Expire, DeadlinePasses, Give, FutureInv
    <3>2. QED
      BY <1>3, <3>1 DEF CollectInv, GivenUpWhenBlocked
  <2>3. QED
    BY <2>1, <2>2
<1>6. QED
  BY <1>1, <1>2, <1>4, <1>5 DEF CollectInv, CandidateInv

\* The inductive invariant of a batch: where each candidate is, that at most MaxWorkers
\* of them are being fetched, and what the verdicts of the collector rest on.
THEOREM CollectInvariance == CollectSpec => []CollectInv
  BY CollectStarts, CollectStays, PTL DEF CollectSpec

\* Nobody is given up before being fetched, nor having ended before the deadline:
\* _collect_with_timeout() reads the clock before it looks for what is done.
THEOREM TimeoutsAreTheirs == CollectSpec => []TimeoutIsTheirs
<1>1. CollectInv => TimeoutIsTheirs
  BY DEF CollectInv
<1>2. QED
  BY <1>1, CollectInvariance, PTL

\* Queued candidates are cancelled only when as many as there are threads have been
\* given up.
THEOREM CancelledWhenBlocked == CollectSpec => []GivenUpWhenBlocked
<1>1. CollectInv => GivenUpWhenBlocked
  BY DEF CollectInv
<1>2. QED
  BY <1>1, CollectInvariance, PTL

\* Every step gives results to candidates that had none, or leaves the results alone:
\* nobody's result is lost or replaced, as BatchResults promises.
THEOREM ResultsAreFinal == CollectSpec => Promise!Safety
<1>1. CollectInit => Promise!Init
  BY DEF CollectInit, Promise!Init
<1>2. CollectInv /\ CollectInv' /\ [CollectNext]_collectVars => [Promise!Settle]_results
  <2> SUFFICES ASSUME CollectInv, CollectInv', [CollectNext]_collectVars, results' # results
               PROVE  Promise!Settle
    OBVIOUS
  <2> DEFINE settled == {c \in Candidate : results'[c] # results[c]}
  <2>1. /\ results \in [Candidate -> Outcome \cup {"none"}]
        /\ results' \in [Candidate -> Outcome \cup {"none"}]
    BY DEF CollectInv, CollectTypeOK
  <2>2. \A c \in Candidate : results[c] # "none" => results'[c] = results[c]
    BY DEF CollectInv, CollectTypeOK, FutureInv, collectVars, threads, CollectNext, Collect,
           Thread, StartFetch,
           FetchCandidate, Retry, Finish, ReadClock, TakeDone, Watch, CountBlocked, CancelQueued,
           CancelRefused, AllCancelled, Expire, DeadlinePasses, Give
  <2>3. settled \in (SUBSET Promise!Unsettled) \ {{}}
    <3>1. settled \subseteq Promise!Unsettled
      BY <2>2 DEF Promise!Unsettled
    <3>2. settled # {}
      BY <2>1
    <3>3. QED
      BY <3>1, <3>2
  <2>4. \A c \in settled : results'[c] \in Outcome
    BY <2>1, <2>2
  <2>5. QED
    BY <2>1, <2>3, <2>4 DEF Promise!Settle
<1>3. QED
  BY <1>1, <1>2, CollectInvariance, PTL DEF CollectSpec, Promise!Safety
=============================================================================
