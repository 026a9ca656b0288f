---------------------------- MODULE LocksProgress ---------------------------
(***************************************************************************)
(* Daily runs that share an output root when they are started again and    *)
(* again, with a bounded number of faults: failures, deaths, and uses of   *)
(* the cache by somebody else.                                             *)
(***************************************************************************)
EXTENDS PublicationLocks

CONSTANTS
    MaxFaults,
    KindOf          \* how a run of a date gets its bars

ASSUME MaxFaultsType == MaxFaults \in Nat
ASSUME KindOfType == KindOf \in [Run -> [Date -> Kind]]

VARIABLE faults

progressVars == <<vars, faults>>

ProgressInit == Init /\ faults = 0

StartRun(r) ==
    /\ \E date \in Date : Start(r, date, KindOf[r][date])
    /\ UNCHANGED faults

Work(r) == Continue(r) /\ UNCHANGED faults

StrangerDone == StrangerLeaves /\ UNCHANGED faults

Fault ==
    /\ faults < MaxFaults /\ faults' = faults + 1
    /\ StrangerEnters \/ \E r \in Run : RollBack(r) \/ Abandon(r)

\* A run is started every day; one that is alive goes on, and the kernel grants a
\* lock to one of those that wait for it, none of them for ever.
ProgressSpec ==
    /\ ProgressInit
    /\ [][Fault \/ StrangerDone \/ \E r \in Run : StartRun(r) \/ Work(r)]_progressVars
    /\ WF_progressVars(StrangerDone)
    /\ \A r \in Run : WF_progressVars(StartRun(r)) /\ SF_progressVars(Work(r))

\* No two runs wait for each other: every run ends, whatever the others do.
RunsEnd == \A r \in Run : pc[r] # "idle" ~> pc[r] = "idle"

\* What a dead run of some date left is gone in the end, though the runs that follow
\* may be of other dates.
Orphan(s) == Made(s) /\ ~\E r \in Run : pc[r] \in Publishing /\ job[r].own = s

OrphansSettle == <>[](\A s \in Slot : ~Orphan(s))
=============================================================================
