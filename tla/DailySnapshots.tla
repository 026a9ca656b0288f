--------------------------- MODULE DailySnapshots ---------------------------
(***************************************************************************)
(* The two inputs that are taken once on a date and used from then on: the *)
(* snapshot of the ETFs and the quotes of all stocks.  Processes that take *)
(* them run beside each other, at any time, over midnight too.             *)
(***************************************************************************)
EXTENDS EtfTracker, UniverseSnapshot

snapshotVars == <<present, etfVars, universeVars>>

SnapshotsInit == present = 0 /\ EtfInit /\ UniverseInit

\* timeout-minutes of the workflow: no collection goes on until another date's capture.
NoOldCollection ==
    \A p \in Collector : step[p] = "save" => DateOf(present + 1) = capture[p].date
                                             \/ PartOf(present + 1) < Capture

SnapshotsNext ==
    \/ EtfNext /\ UNCHANGED <<present, universeVars>>
    \/ UniverseNext /\ UNCHANGED <<present, etfVars>>
    \/ Tick /\ NoOldCollection /\ UNCHANGED <<etfVars, universeVars>>

SnapshotsSpec == SnapshotsInit /\ [][SnapshotsNext]_snapshotVars
----------------------------------------------------------------------------
\* What a report of a date has said of the ETFs, its history included, every later report
\* of that date says again, whoever collects what in the meantime: the workflow takes
\* the report it has for current only if it does.
TrackerStands ==
    [][\A d \in Date : trackers[d] # NoSnapshot => trackers'[d] = trackers[d]]_snapshotVars

\* The quotes that get_quotes() returns, and the ones it keeps for later scans, carry the
\* date on which they were served; those that are kept were served after that session.
QuotesAreOfTheirDate ==
    /\ \A r \in Reader : reading[r].step = "returned" =>
                            reading[r].quotes.date = DateOf(reading[r].quotes.served)
    /\ \A d \in Date :
          stored[d] # NoQuotes => /\ stored[d].date = d /\ DateOf(stored[d].served) = d
                                  /\ PartOf(stored[d].served) = Settled
=============================================================================
