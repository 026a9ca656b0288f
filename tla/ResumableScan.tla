---------------------------- MODULE ResumableScan ---------------------------
(***************************************************************************)
(* The resumable market scan of one report date.  Runs start on the report *)
(* date, from the workflow or by hand, possibly with another configuration *)
(* and possibly while one is running: each takes the lock of the           *)
(* checkpoint, resumes the checkpoint or archives it, fetches the          *)
(* histories that are missing batch by batch, and writes the scan artifact *)
(* once every eligible stock has been attempted.  Midnight may pass and a  *)
(* run may die at any step.                                                *)
(*                                                                         *)
(* A universe is the set of its eligible stocks.  The result of a stock is *)
(* settled (valid, or excluded because of its history) or failed; the day  *)
(* it was fetched on and the configuration it was computed under are       *)
(* remembered for the properties, the code stores neither.  An observation *)
(* is a market state, identified by its content.                           *)
(***************************************************************************)
EXTENDS Integers, FiniteSets

CONSTANTS
    Process,
    Code,           \* stocks, in the order of their codes
    BatchSize,
    Config,         \* configuration hashes
    Universe,       \* the eligible stocks that get_quotes() may lead to
    Observation,    \* market states; none when the run has no index provider
    Available,      \* those whose indices are all available
    LastDay,        \* bound: midnight passes at most LastDay - 1 times
    Nothing         \* no process, checkpoint, artifact or observation

ASSUME CodeType == Code \subseteq Nat
ASSUME ConfigType == Config # {}
ASSUME UniverseType == Universe \subseteq SUBSET Code
ASSUME AvailableType == Available \subseteq Observation
ASSUME DayType == LastDay \in Nat \ {0}
ASSUME NothingType == Nothing \notin Process /\ Nothing \notin Observation

VARIABLES
    day,            \* the date in Shanghai; the report date is ReportDate
    checkpoint,     \* progress.json
    artifact,       \* scan.json
    scanArchive,    \* scan-archive/, one file per market state
    holder,         \* who holds .progress.lock
    pc,             \* per process: what it is doing
    run             \* per process: its local state

vars == <<day, checkpoint, artifact, scanArchive, holder, pc, run>>

ReportDate == 1
Day == ReportDate..LastDay

Market == Observation \cup {Nothing}

Result == [code : Code, status : {"settled", "failed"}, day : Day, config : Config]

Checkpoint == [execution : Day, config : Config, quotes : SUBSET Code,
               completed : SUBSET Result, market : Market, state : {"running", "complete"}]

Artifact == [config : Config, quotes : SUBSET Code, results : SUBSET Result, market : Market]

ASSUME NoFileType == Nothing \notin Checkpoint /\ Nothing \notin Artifact

\* Steps under the lock; outside it a process is idle or waits.
Locked == {"loaded", "market", "loop", "batch", "finalize", "replace", "complete"}

Run == [config : Config, refresh : BOOLEAN, execution : Day,
        base : Checkpoint \cup {Nothing},           \* the checkpoint it loaded
        quotes : SUBSET Code, completed : SUBSET Result, market : Market,
        pending : SUBSET Code, batch : SUBSET Code, worked : BOOLEAN]

\* What a process remembers between two runs: nothing.
Blank == [config |-> CHOOSE c \in Config : TRUE, refresh |-> FALSE, execution |-> ReportDate,
          base |-> Nothing, quotes |-> {}, completed |-> {}, market |-> Nothing,
          pending |-> {}, batch |-> {}, worked |-> FALSE]

Init ==
    /\ day = ReportDate
    /\ checkpoint = Nothing
    /\ artifact = Nothing
    /\ scanArchive = {}
    /\ holder = Nothing
    /\ pc = [p \in Process |-> "idle"]
    /\ run = [p \in Process |-> Blank]

-----------------------------------------------------------------------------
(* Helpers *)

GoTo(p, step) == pc' = [pc EXCEPT ![p] = step]

\* Leaving run_resumable_scan(), whether it returns, raises or dies.
Leave(p) ==
    /\ GoTo(p, "idle")
    /\ run' = [run EXCEPT ![p] = Blank]
    /\ holder' = IF holder = p THEN Nothing ELSE holder

Settled(results) == {r \in results : r.status = "settled"}

Codes(results) == {r.code : r \in results}

\* The first batch of the stocks that are pending.
NextBatch(pending) ==
    {c \in pending : Cardinality({d \in pending : d < c}) < BatchSize}

\* Mutant: a checkpoint of the same configuration is resumed on any day.
StaleByConfig(c, r) == c.config # r.config

\* Mutant: a complete checkpoint is not resumed either.
StaleWhenComplete(c, r) ==
    c.execution # r.execution \/ c.config # r.config \/ c.state = "complete"

Stale(c, r) == c.execution # r.execution \/ c.config # r.config

Saved(p, state) ==
    [execution |-> run[p].execution, config |-> run[p].config, quotes |-> run[p].quotes,
     completed |-> run[p].completed, market |-> run[p].market, state |-> state]

-----------------------------------------------------------------------------
(* Starting, loading the checkpoint or the universe *)

\* The command line accepts the current date only, before it waits for the lock.
Start(p, config, refresh) ==
    /\ pc[p] = "idle" /\ day = ReportDate
    /\ GoTo(p, "waiting")
    /\ run' = [run EXCEPT ![p].config = config, ![p].refresh = refresh]
    /\ UNCHANGED <<day, checkpoint, artifact, scanArchive, holder>>

\* Mutant: runs do not exclude each other.
LoadUnlocked(p) ==
    /\ pc[p] = "waiting"
    /\ GoTo(p, "loaded")
    /\ holder' = p
    /\ run' = [run EXCEPT ![p].execution = day, ![p].base = checkpoint]
    /\ UNCHANGED <<day, checkpoint, artifact, scanArchive>>

Load(p) ==
    /\ pc[p] = "waiting" /\ holder = Nothing
    /\ GoTo(p, "loaded")
    /\ holder' = p
    /\ run' = [run EXCEPT ![p].execution = day, ![p].base = checkpoint]
    /\ UNCHANGED <<day, checkpoint, artifact, scanArchive>>

ArchiveCheckpoint(p) ==
    /\ pc[p] = "loaded" /\ run[p].base # Nothing /\ Stale(run[p].base, run[p])
    /\ checkpoint' = Nothing
    /\ run' = [run EXCEPT ![p].base = Nothing]
    /\ UNCHANGED <<day, artifact, scanArchive, holder, pc>>

\* The stocks that failed are pending again.
Resume(p) ==
    /\ pc[p] = "loaded" /\ run[p].base # Nothing /\ ~Stale(run[p].base, run[p])
    /\ GoTo(p, "market")
    /\ LET base == run[p].base
           settled == Settled(base.completed)
       IN  run' = [run EXCEPT ![p].base = Nothing, ![p].quotes = base.quotes,
                   ![p].completed = settled, ![p].market = base.market,
                   ![p].pending = base.quotes \ Codes(settled)]
    /\ UNCHANGED <<day, checkpoint, artifact, scanArchive, holder>>

FetchUniverse(p, quotes) ==
    /\ pc[p] = "loaded" /\ run[p].base = Nothing
    /\ GoTo(p, "market")
    /\ run' = [run EXCEPT ![p].quotes = quotes, ![p].pending = quotes]
    /\ UNCHANGED <<day, checkpoint, artifact, scanArchive, holder>>

UniverseUnavailable(p) ==
    /\ pc[p] = "loaded" /\ run[p].base = Nothing
    /\ Leave(p)
    /\ UNCHANGED <<day, checkpoint, artifact, scanArchive>>

-----------------------------------------------------------------------------
(* The market state *)

NeedsObservation(p) ==
    /\ Observation # {}
    /\ \/ run[p].market = Nothing
       \/ run[p].market \notin Available /\ (run[p].refresh \/ artifact = Nothing)

Observe(p, observation) ==
    /\ pc[p] = "market" /\ NeedsObservation(p)
    /\ run[p].refresh => observation \in Available
    /\ GoTo(p, "loop")
    /\ run' = [run EXCEPT ![p].market = observation]
    /\ UNCHANGED <<day, checkpoint, artifact, scanArchive, holder>>

\* A repair whose indices are not all available is given up.
RepairUnavailable(p) ==
    /\ pc[p] = "market" /\ NeedsObservation(p) /\ run[p].refresh
    /\ Leave(p)
    /\ UNCHANGED <<day, checkpoint, artifact, scanArchive>>

KeepObservation(p) ==
    /\ pc[p] = "market" /\ ~NeedsObservation(p)
    /\ GoTo(p, "loop")
    /\ UNCHANGED <<day, checkpoint, artifact, scanArchive, holder, run>>

-----------------------------------------------------------------------------
(* The batches *)

\* --max-batches: nothing is saved, every batch has been.
StopAtLimit(p) ==
    /\ pc[p] = "loop" /\ run[p].pending # {} /\ run[p].worked
    /\ Leave(p)
    /\ UNCHANGED <<day, checkpoint, artifact, scanArchive>>

StopAtMidnight(p) ==
    /\ pc[p] = "loop" /\ run[p].pending # {} /\ day # run[p].execution
    /\ checkpoint' = Saved(p, "running")
    /\ Leave(p)
    /\ UNCHANGED <<day, artifact, scanArchive>>

StartBatch(p) ==
    /\ pc[p] = "loop" /\ run[p].pending # {} /\ day = run[p].execution
    /\ GoTo(p, "batch")
    /\ LET batch == NextBatch(run[p].pending)
       IN  run' = [run EXCEPT ![p].batch = batch, ![p].pending = @ \ batch, ![p].worked = TRUE]
    /\ UNCHANGED <<day, checkpoint, artifact, scanArchive, holder>>

\* The workers of a batch finish in any order; a failed result has had its retries
\* or its timeout.
Fetch(p, code, status) ==
    /\ pc[p] = "batch" /\ code \in run[p].batch
    /\ LET result == [code |-> code, status |-> status, day |-> day, config |-> run[p].config]
       IN  run' = [run EXCEPT ![p].batch = @ \ {code}, ![p].completed = @ \cup {result}]
    /\ UNCHANGED <<day, checkpoint, artifact, scanArchive, holder, pc>>

\* Mutant: the checkpoint is written only once the scan is complete.
SaveBatchAtEnd(p) ==
    /\ pc[p] = "batch" /\ run[p].batch = {}
    /\ checkpoint' = IF run[p].pending = {} THEN Saved(p, "complete") ELSE checkpoint
    /\ GoTo(p, "loop")
    /\ UNCHANGED <<day, artifact, scanArchive, holder, run>>

SaveBatch(p) ==
    /\ pc[p] = "batch" /\ run[p].batch = {}
    /\ checkpoint' = Saved(p, IF run[p].pending = {} THEN "complete" ELSE "running")
    /\ GoTo(p, "loop")
    /\ UNCHANGED <<day, artifact, scanArchive, holder, run>>

EndAfterMidnight(p) ==
    /\ pc[p] = "loop" /\ run[p].pending = {} /\ day # run[p].execution
    /\ Leave(p)
    /\ UNCHANGED <<day, checkpoint, artifact, scanArchive>>

SaveRunning(p) ==
    /\ pc[p] = "loop" /\ run[p].pending = {} /\ day = run[p].execution
    /\ checkpoint' = Saved(p, "running")
    /\ GoTo(p, "finalize")
    /\ UNCHANGED <<day, artifact, scanArchive, holder, run>>

-----------------------------------------------------------------------------
(* The artifact: write_scan_artifact() with replace_existing *)

NewArtifact(p) ==
    [config |-> run[p].config, quotes |-> run[p].quotes,
     results |-> run[p].completed, market |-> run[p].market]

\* Mutant: a scan of another configuration replaces what is published.
ContradictsOwn(p) ==
    /\ artifact # Nothing
    /\ artifact.market # Nothing /\ artifact.market # run[p].market
    /\ artifact.config = run[p].config

\* The observation published before is not the one of the new artifact.
Contradicts(p) ==
    /\ artifact # Nothing
    /\ artifact.market # Nothing /\ artifact.market # run[p].market

Repairs(p) ==
    /\ run[p].refresh
    /\ artifact.config = run[p].config
    /\ artifact.market \notin Available
    /\ run[p].market \in Available

\* MarketScanConflictError.
RefuseArtifact(p) ==
    /\ pc[p] = "finalize" /\ Contradicts(p) /\ ~Repairs(p)
    /\ Leave(p)
    /\ UNCHANGED <<day, checkpoint, artifact, scanArchive>>

ArchiveArtifact(p) ==
    /\ pc[p] = "finalize" /\ Contradicts(p) /\ Repairs(p)
    /\ scanArchive' = {a \in scanArchive : a.market # artifact.market} \cup {artifact}
    /\ GoTo(p, "replace")
    /\ UNCHANGED <<day, checkpoint, artifact, holder, run>>

\* An artifact with the same content is kept, which is the same here.
WriteArtifact(p) ==
    /\ \/ pc[p] = "finalize" /\ ~Contradicts(p)
       \/ pc[p] = "replace"
    /\ artifact' = NewArtifact(p)
    /\ GoTo(p, "complete")
    /\ UNCHANGED <<day, checkpoint, scanArchive, holder, run>>

MarkComplete(p) ==
    /\ pc[p] = "complete"
    /\ checkpoint' = Saved(p, "complete")
    /\ Leave(p)
    /\ UNCHANGED <<day, artifact, scanArchive>>

-----------------------------------------------------------------------------
(* The environment *)

\* A death, or a write that fails: files are replaced atomically, and the kernel
\* or the finally clause releases the lock.
Abort(p) ==
    /\ pc[p] # "idle"
    /\ Leave(p)
    /\ UNCHANGED <<day, checkpoint, artifact, scanArchive>>

Midnight ==
    /\ day < LastDay
    /\ day' = day + 1
    /\ UNCHANGED <<checkpoint, artifact, scanArchive, holder, pc, run>>

\* What a process does of itself once it has been started.
Proceed(p) ==
    \/ Load(p) \/ ArchiveCheckpoint(p) \/ Resume(p)
    \/ \E quotes \in Universe : FetchUniverse(p, quotes)
    \/ \E observation \in Observation : Observe(p, observation)
    \/ RepairUnavailable(p) \/ KeepObservation(p)
    \/ StopAtLimit(p) \/ StopAtMidnight(p) \/ StartBatch(p)
    \/ \E code \in Code, status \in {"settled", "failed"} : Fetch(p, code, status)
    \/ SaveBatch(p) \/ EndAfterMidnight(p) \/ SaveRunning(p)
    \/ RefuseArtifact(p) \/ ArchiveArtifact(p) \/ WriteArtifact(p) \/ MarkComplete(p)

Next ==
    \/ \E p \in Process :
        \/ \E config \in Config, refresh \in BOOLEAN : Start(p, config, refresh)
        \/ Proceed(p)
        \/ UniverseUnavailable(p)
        \/ Abort(p)
    \/ Midnight

Spec == Init /\ [][Next]_vars

-----------------------------------------------------------------------------
(* Properties *)

TypeOK ==
    /\ day \in Day
    /\ checkpoint \in Checkpoint \cup {Nothing}
    /\ artifact \in Artifact \cup {Nothing}
    /\ scanArchive \subseteq Artifact
    /\ holder \in Process \cup {Nothing}
    /\ pc \in [Process -> Locked \cup {"idle", "waiting"}]
    /\ run \in [Process -> Run]

\* "Forward-adjusted history must never be reused across calendar days", and results
\* are never relabelled as those of another configuration: all results of the
\* artifact were fetched on one day, under its configuration, and they are the
\* results of every eligible stock of its universe.
ArtifactIsCoherent ==
    artifact # Nothing =>
        /\ Codes(artifact.results) = artifact.quotes
        /\ \A r \in artifact.results : r.config = artifact.config
        /\ \A r, s \in artifact.results : r.day = s.day

\* A settled result is not lost: whatever runs overlap, stop or die, a checkpoint
\* keeps the settled results of the one it replaces, unless it is of another day or
\* configuration.
SameScan(c, d) == c.execution = d.execution /\ c.config = d.config

ProgressKept ==
    [][checkpoint # Nothing /\ checkpoint' # Nothing /\ SameScan(checkpoint, checkpoint')
        => Settled(checkpoint.completed) \subseteq checkpoint'.completed]_vars

\* "Published observations remain immutable by default": a published market state
\* changes only from an incomplete to an available one, under the same
\* configuration, and only when a copy of the old artifact is in the archive.
ObservationKept ==
    [][artifact # Nothing /\ artifact.market # Nothing /\ artifact' # artifact
        => \/ artifact'.market = artifact.market
           \/ /\ artifact.market \notin Available /\ artifact'.market \in Available
              /\ artifact'.config = artifact.config
              /\ artifact \in scanArchive]_vars

\* Under one configuration a published result that is settled stays published for
\* the rest of the day, however often the scan is run again.
PublishedKept ==
    [][artifact # Nothing /\ artifact' # artifact
        => \/ Settled(artifact.results) \subseteq artifact'.results
           \/ \E r \in artifact.results, s \in artifact'.results : r.day # s.day]_vars

-----------------------------------------------------------------------------
(* What the properties rest on *)

\* Results of a scan that began on some day, seen on another.
ResultsOf(scan, results, last) ==
    \A r \in results : /\ r.config = scan.config
                       /\ r.code \in scan.quotes
                       /\ r.day >= scan.execution /\ r.day <= last

LockInv == \A p \in Process : pc[p] \in Locked => holder = p

CheckpointInv == checkpoint # Nothing => ResultsOf(checkpoint, checkpoint.completed, day)

LoadedInv(p) ==
    pc[p] = "loaded" =>
        /\ run[p].base = checkpoint /\ run[p].execution <= day
        /\ checkpoint # Nothing => ResultsOf(checkpoint, checkpoint.completed, run[p].execution)

FreshInv(p) ==
    pc[p] \in {"idle", "waiting", "loaded"} =>
        run[p].completed = {} /\ run[p].market = Nothing /\ run[p].batch = {}

\* The local results include what the checkpoint has, and every stock is attempted
\* or about to be.
WorkInv(p) ==
    pc[p] \in Locked \ {"loaded"} =>
        /\ run[p].execution <= day
        /\ ResultsOf(run[p], run[p].completed, day)
        /\ \A c \in run[p].quotes : c \in Codes(run[p].completed) \cup run[p].pending \cup run[p].batch
        /\ run[p].batch \cup run[p].pending \subseteq run[p].quotes
        /\ checkpoint # Nothing /\ SameScan(checkpoint, run[p])
            => Settled(checkpoint.completed) \subseteq run[p].completed
        /\ pc[p] # "batch" => run[p].batch = {}

FinalInv(p) ==
    pc[p] \in {"finalize", "replace", "complete"} =>
        /\ run[p].pending = {}
        /\ ResultsOf(run[p], run[p].completed, run[p].execution)

ReplaceInv(p) ==
    pc[p] = "replace" => Contradicts(p) /\ Repairs(p) /\ artifact \in scanArchive

RunInv(p) == FreshInv(p) /\ LoadedInv(p) /\ WorkInv(p) /\ FinalInv(p) /\ ReplaceInv(p)

IInv ==
    /\ TypeOK /\ LockInv /\ CheckpointInv /\ ArtifactIsCoherent
    /\ \A p \in Process : RunInv(p)
=============================================================================
