-------------------------- MODULE PublicationAtomic -------------------------
(***************************************************************************)
(* The promise of a publication: the four artifacts change together or not *)
(* at all, and the frozen snapshot of a date never changes unless the run  *)
(* asked for an overwrite.                                                 *)
(***************************************************************************)
EXTENDS PublicationTypes

CONSTANT AllowOverwrite     \* whether runs may pass --overwrite-snapshot

VARIABLE site               \* the contents readers get once recovery has settled

Init == site \in [Artifact -> Version]

\* A run replaces the report and the index, creates the snapshot, and
\* refreshes the stylesheet when the project ships one.
Publish ==
    \E version \in [Artifact -> Version] :
        /\ version["report"] # Absent
        /\ version["index"] # Absent
        /\ version["snapshot"] # Absent
        /\ \/ AllowOverwrite
           \/ site["snapshot"] \in {Absent, version["snapshot"]}
        /\ site' = version

Next == Publish

Spec == Init /\ [][Next]_site
=============================================================================
