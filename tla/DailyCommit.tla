----------------------------- MODULE DailyCommit ----------------------------
(***************************************************************************)
(* The promise the daily run makes of its report and its response cache:   *)
(* the deferred cache writes of a run take effect all together or not at   *)
(* all, and only together with the report they were fetched for.           *)
(*                                                                         *)
(* Two departures from this are part of the promise, because the code has  *)
(* them: Tear and Revoke.                                                  *)
(***************************************************************************)
CONSTANTS
    Key,            \* the cache entries
    Content,        \* what a run publishes and stores
    Absent          \* no such entry

VARIABLES
    report,         \* the run whose report readers get once recovery has settled
    entries,        \* the cache entries once recovery has settled
    torn,           \* a death inside a write has spoilt the journal
    alone           \* a run without the cache is settling the publication

Entry == Content \cup {Absent}

Init == report \in Entry /\ entries \in [Key -> Entry]

Stored(batch, version) == [k \in Key |-> IF k \in batch THEN version ELSE entries[k]]

\* A run publishes its report; its cache writes may still be lost with its journal.
Publish ==
    \E version \in Content, batch \in SUBSET Key :
        /\ report' = version
        /\ entries' \in {entries, Stored(batch, version)}

\* Another process stores an entry, or drops an expired one.
StoreOne ==
    /\ \E k \in Key, value \in Entry : entries' = [entries EXCEPT ![k] = value]
    /\ UNCHANGED report

\* The journal can no longer be read, and the entries stay as they are.  Nothing makes
\* it readable again, hence this happens once.
Tear ==
    /\ ~torn /\ torn'
    /\ report' \in {report} \cup Content
    /\ entries' \in [Key -> Entry]

\* The journal is cut off from its report, which stays.
Revoke ==
    /\ alone
    /\ entries' \in [Key -> Entry]
    /\ UNCHANGED report

Next == Publish \/ StoreOne \/ Tear \/ Revoke

Spec == Init /\ [][Next]_<<report, entries>>
=============================================================================
