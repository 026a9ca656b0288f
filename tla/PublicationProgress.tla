------------------------- MODULE PublicationProgress ------------------------
(***************************************************************************)
(* Publications under a scheduler that starts a run every day, with a      *)
(* bounded number of failures and crashes: what a run leaves behind is     *)
(* dealt with by the runs that follow.                                     *)
(***************************************************************************)
EXTENDS Publication

CONSTANT MaxFaults          \* failures and crashes of one behaviour

ASSUME MaxFaultsType == MaxFaults \in Nat

VARIABLE faults

progressVars == <<vars, faults>>

ProgressInit == Init /\ faults = 0

\* One step of a process that neither raises nor dies.
Work == (Publisher \/ Release \/ Restore \/ Recover) /\ UNCHANGED faults

Fault == faults < MaxFaults /\ (Fail \/ Crash) /\ faults' = faults + 1

\* A live process runs on, and an orphan meets a later run; no run is owed when
\* nothing is pending.
Continue == (root \/ pc # "idle") /\ Work

ProgressSpec ==
    ProgressInit /\ [][Work \/ Fault]_progressVars /\ WF_progressVars(Continue)

\* Once failures stop, a transaction ends: published, rolled back or released.
\* What can keep it is a file recovery refuses to explain, never a protocol step.
TransactionEnds == root ~> (~root \/ OrphanBlocks)
=============================================================================
