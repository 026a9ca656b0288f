---------------------------- MODULE CacheProgress ---------------------------
(***************************************************************************)
(* The cache journal under a scheduler that starts a run every day, with a *)
(* bounded number of failures and crashes.                                 *)
(***************************************************************************)
EXTENDS CacheCommit

CONSTANT MaxFaults          \* failures and crashes of one behaviour

ASSUME MaxFaultsType == MaxFaults \in Nat

VARIABLE faults

progressVars == <<vars, faults>>

ProgressInit == Init /\ faults = 0

\* One step of a process that neither raises nor dies.
Work == (Run \/ Replay \/ Recover) /\ UNCHANGED faults

\* Other processes use the cache whenever they get its lock.
Others == StoreByOther /\ UNCHANGED faults

Fault == faults < MaxFaults /\ (Fail \/ Crash) /\ faults' = faults + 1

\* A live process runs on, and what a dead one left meets a later run.
Continue == (pc # "idle" \/ dir \/ publication # "none") /\ Work

ProgressSpec ==
    ProgressInit /\ [][Work \/ Others \/ Fault]_progressVars /\ WF_progressVars(Continue)

\* Once failures stop, a batch ends: kept with its report, restored or discarded.
\* Only a journal that recovery refuses to explain stays.
BatchEnds == (dir \/ publication # "none") ~> ((~dir /\ publication = "none") \/ Stuck)
=============================================================================
