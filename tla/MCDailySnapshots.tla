-------------------------- MODULE MCDailySnapshots --------------------------
(***************************************************************************)
(* The two parts share the clock only, so one of them stands still: no     *)
(* behaviour of either is left out.  Quotes are read on the first two      *)
(* dates, with one midnight between them; the snapshots of the ETFs have   *)
(* a third date, for the weekend.                                          *)
(***************************************************************************)
EXTENDS DailySnapshots

CONSTANT QuoteDays      \* bound: dates on which get_quotes() runs

OnlyEtf == UniverseInit

OnlyQuotes == EtfInit /\ DateOf(present) < QuoteDays

MCSpec == SnapshotsInit /\ [][SnapshotsNext /\ (OnlyEtf \/ OnlyQuotes)']_snapshotVars
=============================================================================
