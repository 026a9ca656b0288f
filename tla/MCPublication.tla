--------------------------- MODULE MCPublication ----------------------------
(* Two contents, and runs that recover from up to MaxFaults failures and   *)
(* crashes, each publishing one content everywhere.                        *)
EXTENDS PublicationProgress, PublicationInvariant

OneContentPerRun == \A a, b \in writes : new[a] = new[b]

\* The report and the snapshot of a date are there or not, and so are the files
\* every date shares: a run creates them, changes them or writes them again.
MCInit ==
    /\ ProgressInit
    /\ target["report"] = target["snapshot"]
    /\ target["index"] = target["styles"]

MCSpec ==
    MCInit /\ [][(Work \/ Fault) /\ OneContentPerRun']_progressVars /\ WF_progressVars(Continue)
=============================================================================
