---------------------------- MODULE ScanProgress ----------------------------
(***************************************************************************)
(* The resumable scan when runs are started again and again on the report  *)
(* date, with a bounded number of faults: runs that die, universes and     *)
(* histories that cannot be fetched.                                       *)
(***************************************************************************)
EXTENDS ResumableScan

CONSTANT MaxFaults

ASSUME MaxFaultsType == MaxFaults \in Nat

VARIABLE faults

progressVars == <<vars, faults>>

ProgressInit == Init /\ faults = 0

FetchFails(p) == \E code \in Code : Fetch(p, code, "failed")

\* One step of a run to which nothing happens.
Work(p) == Proceed(p) /\ ~FetchFails(p) /\ UNCHANGED faults

StartRun(p) == (\E config \in Config : Start(p, config, FALSE)) /\ UNCHANGED faults

Fault ==
    /\ faults < MaxFaults /\ faults' = faults + 1
    /\ \E p \in Process : FetchFails(p) \/ UniverseUnavailable(p) \/ Abort(p)

\* A run that has been started goes on, one that has ended is started again, and
\* of the runs that wait for the lock none waits for ever.
ProgressSpec ==
    /\ ProgressInit
    /\ [][Fault \/ \E p \in Process : StartRun(p) \/ Work(p)]_progressVars
    /\ \A p \in Process : WF_progressVars(StartRun(p)) /\ SF_progressVars(Work(p))

\* A run may stop after one batch, die or fail to fetch; still the scan is published
\* in the end, and the stocks that failed are retried until they are settled.
ScanSettles ==
    <>[](/\ artifact # Nothing
         /\ Codes(Settled(artifact.results)) = artifact.quotes)
=============================================================================
