------------------------ MODULE PublicationInvariant ------------------------
(***************************************************************************)
(* The inductive invariant of the publication transaction.  It says, at    *)
(* every control point and for every orphan, how far the targets, the      *)
(* backups and the recovery copies have got, and it follows the            *)
(* write-ahead rule of the code: a target is touched only after manifest   *)
(* has recorded the intent.                                                *)
(***************************************************************************)
EXTENDS Publication

Staging == {"prepare", "publishing"}
Publishing == {"artifact", "backup", "backed_up", "publish_intent", "publish", "published"}
Completing == {"start_copies", "copy", "verified", "drop_backups", "committing", "commit"}
Committed == {"finish", "cleaning", "journal"}
Releasing == {"verify_cleanup", "drop_payload", "drop_manifest", "drop_journal", "drop_root"}
Restoring == {"select", "restore", "move"}
Restored == {"clear_backups", "clear_recovery", "rolled_back"}

\* Which process is at which step.
ActorAtStep ==
    /\ actor = "none" <=> pc = "idle"
    /\ pc = "idle" => todo = {}
    /\ pc \in Staging \cup Publishing \cup Completing \cup Committed \cup Restored
              \cup {"rollback", "select"} => actor = "publisher"
    /\ pc = "recover" => actor = "recovery"

\* What the manifest says at each step.
ManifestAtStep ==
    /\ pc = "prepare" => manifest = "none"
    /\ pc = "publishing" => manifest = "prepared"
    /\ pc \in Publishing \cup {"start_copies", "copy", "verified"} => manifest = "publishing"
    /\ pc \in {"drop_backups", "committing"} => manifest = "verified"
    /\ pc = "commit" => manifest = "committing"
    /\ pc \in {"finish", "cleaning"} => manifest = "committed"
    /\ pc = "journal" => manifest = "cleaning"
    /\ pc \in {"verify_cleanup", "drop_payload", "drop_manifest"} =>
           journal /\ manifest \in {"none", "committed", "cleaning"}
    /\ pc = "drop_journal" => journal /\ manifest = "none"
    /\ pc = "drop_root" => Unrecorded
    /\ pc = "rollback" => manifest \in UndoneState \cup {"committed"}
    /\ pc \in Restoring \cup Restored => manifest = "rolling_back"
    /\ pc = "discard" => manifest \in {"none", "rolled_back", "rolling_back"}
    /\ journal => manifest \in {"none", "committed", "cleaning"}
    /\ pc \in {"finish", "cleaning", "rollback"} => ~journal

\* Without a transaction directory nothing of a transaction is left.
NoTransaction ==
    ~root => /\ pc = "idle" /\ Unrecorded
             /\ ~backupDir /\ recoveryDir = "none" /\ staged = {}
             /\ progress = [a \in Artifact |-> {}]
             /\ backup = NoCopies /\ recovery = NoCopies
             /\ target \in [Artifact -> Version]

\* What a transaction is to write.
WritesWellFormed ==
    root => /\ {"report", "index"} \subseteq writes /\ staged \subseteq writes
            /\ \A a \in Artifact : IF a \in writes THEN new[a] \in Content
                                                   ELSE new[a] = pre[a]
            /\ pre["snapshot"] = Absent => "snapshot" \in writes
            /\ ~AllowOverwrite /\ "snapshot" \in writes => pre["snapshot"] = Absent

\* No step of the transaction has touched a yet.
Fresh(a) == target[a] = pre[a] /\ backup[a] = Absent /\ progress[a] = {}

\* The old content of a is in a copy that both kinds of restore accept.
Held(a) == backup[a] = pre[a] \/ (recoveryDir = "ready" /\ recovery[a] = pre[a])

StagingFacts ==
    pc \in Staging => /\ \A a \in Artifact : Fresh(a)
                      /\ recoveryDir = "none" /\ staged = writes
                      /\ ~journal /\ ~backupDir

\* How far publish() has got with the artifact it is at.
PublishingFacts ==
    pc \in Publishing =>
        /\ recoveryDir = "none" /\ todo \subseteq writes
        /\ pc # "artifact" => \E a \in todo : IsNext(a)
        /\ \A a \in todo :
            IF pc = "artifact" \/ ~IsNext(a)
            THEN Fresh(a)
            ELSE /\ progress[a] # {}
                 /\ pc = "backup" => target[a] = pre[a] /\ backup[a] = Absent
                 /\ pc \in {"backed_up", "publish_intent"} => backup[a] = pre[a]
                 /\ pc \in {"publish", "published"} /\ RestoreCandidate(a) =>
                        backup[a] = pre[a]

CompletingFacts ==
    pc \in Completing =>
        /\ target = new
        /\ pc = "start_copies" => recoveryDir = "bare"
        /\ pc = "copy" => recoveryDir = "copying"
        /\ pc \in {"verified", "drop_backups", "committing", "commit"} =>
               recoveryDir = "ready"
        /\ pc \in {"copy", "verified", "drop_backups", "committing", "commit"} =>
               \A a \in Artifact : RestoreCandidate(a) =>
                   (pc = "copy" /\ a \in todo) \/ recovery[a] = pre[a]
        /\ pc \in {"committing", "commit"} => ~backupDir

\* The write-ahead rule, and a source for every target that differs.
UndoneFacts ==
    Undecided =>
        \A a \in Artifact :
            /\ progress[a] = {} => Fresh(a) /\ (actor = "publisher" /\ a \in writes => a \in staged)
            /\ a \notin writes => Fresh(a)
            /\ RestoreCandidate(a) => target[a] = pre[a] \/ Held(a)

\* The publisher still holds the old content of all it has backed up or replaced,
\* until it has itself restored it.
PublisherHolds ==
    actor = "publisher" /\ pc \notin Restored \cup {"discard"} /\ Undecided =>
        \A a \in Artifact :
            /\ RestoreCandidate(a)
            /\ pc \in {"restore", "move"} => a \in todo
            /\ progress[a] \cap {"backed_up", "published"} # {} \/ backup[a] # Absent
            => Held(a)

RestoredFacts ==
    /\ pc \in Restored => target = pre
    /\ pc = "discard" => target = pre \/ (manifest = "none" /\ target = new)

IInv ==
    /\ ActorAtStep /\ ManifestAtStep /\ NoTransaction /\ WritesWellFormed
    /\ StagingFacts /\ PublishingFacts /\ CompletingFacts
    /\ UndoneFacts /\ PublisherHolds /\ RestoredFacts
    /\ UnrecordedIsWhole /\ CommittedIsPublished
=============================================================================
