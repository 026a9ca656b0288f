-------------------------- MODULE PublicationTypes --------------------------
(***************************************************************************)
(* The four files and directories one daily report publishes under the     *)
(* output root, and the contents they can have.  Shared by the publication *)
(* transaction and by the promise it makes.                                *)
(***************************************************************************)

CONSTANTS
    Content,        \* what a complete report directory, snapshot or page can hold
    Absent,         \* no file at the path
    Partial         \* a directory or copy some of whose files are missing

ASSUME ContentsDistinct ==
    /\ Absent \notin Content
    /\ Partial \notin Content
    /\ Absent # Partial

\* reports/<date>/, snapshots/<date>/input.json, site/index.html, site/styles.css.
Artifact == {"report", "snapshot", "index", "styles"}

\* A complete content, or nothing: what an artifact spec of the manifest describes.
Version == Content \cup {Absent}

\* What a path of the file system can hold.
Copy == Version \cup {Partial}

NoCopies == [a \in Artifact |-> Absent]
=============================================================================
