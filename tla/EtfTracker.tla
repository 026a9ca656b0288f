----------------------------- MODULE EtfTracker -----------------------------
(***************************************************************************)
(* etf_tracker.py: one snapshot of the ETFs and their index per date,      *)
(* taken after the close, stored once and never replaced, and the report   *)
(* that compares the snapshot of a date with those before it.              *)
(***************************************************************************)
EXTENDS ShanghaiClock, FiniteSets, Sequences

CONSTANTS
    Collector,      \* processes that run collect_tracker()
    Batches,        \* requests for quotes of one collection
    HistoryLimit,   \* observations before the current one in a report
    NoSnapshot

VARIABLES
    snapshots,      \* per date: etf-tracker/<date>/input.json
    step,           \* per collector: the step of collect_tracker()
    target,         \* per collector: report_date
    stamps,         \* per collector: source_timestamp of the quotes it has
    capture,        \* per collector: the snapshot it saves
    trackers        \* per date: what its last report said of the ETFs

etfVars == <<snapshots, step, target, stamps, capture, trackers>>

EtfInit ==
    /\ snapshots = [d \in Date |-> NoSnapshot]
    /\ step = [p \in Collector |-> "idle"]
    /\ target = [p \in Collector |-> 0]
    /\ stamps = [p \in Collector |-> <<>>]
    /\ capture = [p \in Collector |-> NoSnapshot]
    /\ trackers = [d \in Date |-> NoSnapshot]

Proceed(p, next) == step' = [step EXCEPT ![p] = next]
----------------------------------------------------------------------------
(* collect_tracker() *)

Collect(p, d) ==
    /\ step[p] = "idle"
    /\ Proceed(p, "look")
    /\ target' = [target EXCEPT ![p] = d]
    /\ UNCHANGED <<snapshots, stamps, capture, trackers>>

\* A snapshot that is there is checked and kept.
LookForSnapshot(p) ==
    /\ step[p] = "look"
    /\ Proceed(p, IF snapshots[target[p]] # NoSnapshot THEN "done" ELSE "clock")
    /\ UNCHANGED <<snapshots, target, stamps, capture, trackers>>

\* Only the current date can be captured, a weekday, from 15:10 on.
MayCapture(d) == DateOf(present) = d /\ PartOf(present) >= Capture /\ d \notin Weekend

CheckClock(p) ==
    /\ step[p] = "clock"
    /\ Proceed(p, IF MayCapture(target[p]) THEN "quotes" ELSE "refused")
    /\ UNCHANGED <<snapshots, target, stamps, capture, trackers>>

\* One batch of quotes: up to date, or of the close of the date before.
FetchBatch(p) ==
    /\ step[p] = "quotes" /\ Len(stamps[p]) < Batches
    /\ \E lag \in {0, 4} :
          /\ present >= lag
          /\ stamps' = [stamps EXCEPT ![p] = Append(@, LastTrade(present - lag))]
    /\ UNCHANGED <<snapshots, step, target, capture, trackers>>

FetchError(p) ==
    /\ step[p] = "quotes"
    /\ Proceed(p, "refused")
    /\ UNCHANGED <<snapshots, target, stamps, capture, trackers>>

\* require_complete_closing_snapshot()
Valid(snapshot) ==
    /\ DateOf(snapshot.generated) = snapshot.date /\ PartOf(snapshot.generated) >= Capture
    /\ \A i \in DOMAIN snapshot.stamps :
          /\ DateOf(snapshot.stamps[i]) = snapshot.date
          /\ PartOf(snapshot.stamps[i]) >= Closed
          /\ snapshot.stamps[i] <= snapshot.generated

\* The clock is read again for generated_at, and the snapshot is validated.
Assemble(p) ==
    /\ step[p] = "quotes" /\ Len(stamps[p]) = Batches
    /\ \E snapshot \in {[date |-> target[p], generated |-> present, stamps |-> stamps[p],
                         by |-> p]} :
          IF Valid(snapshot)
          THEN capture' = [capture EXCEPT ![p] = snapshot] /\ Proceed(p, "save")
          ELSE Proceed(p, "refused") /\ UNCHANGED capture
    /\ UNCHANGED <<snapshots, target, stamps, trackers>>

\* Mutant: the last one wins.
SaveAnyway(p) ==
    /\ step[p] = "save"
    /\ snapshots' = [snapshots EXCEPT ![target[p]] = capture[p]]
    /\ Proceed(p, "done")
    /\ UNCHANGED <<target, stamps, capture, trackers>>

\* save_snapshot(), under its lock: the first snapshot of a date stands, and one that
\* differs from it (by its generated_at, at least) is refused.
Save(p) ==
    /\ step[p] = "save"
    /\ IF snapshots[target[p]] = NoSnapshot
       THEN snapshots' = [snapshots EXCEPT ![target[p]] = capture[p]] /\ Proceed(p, "done")
       ELSE /\ Proceed(p, IF snapshots[target[p]] = capture[p] THEN "done" ELSE "refused")
            /\ UNCHANGED snapshots
    /\ UNCHANGED <<target, stamps, capture, trackers>>

\* collect_tracker() is over, or its process is killed.
Over(p) ==
    /\ step[p] # "idle"
    /\ Proceed(p, "idle")
    /\ target' = [target EXCEPT ![p] = 0]
    /\ stamps' = [stamps EXCEPT ![p] = <<>>]
    /\ capture' = [capture EXCEPT ![p] = NoSnapshot]
    /\ UNCHANGED <<snapshots, trackers>>
----------------------------------------------------------------------------
(* build_tracker_report() *)

\* The dates whose snapshots a report compares that of its own date with.
EarlierDates(d) == {e \in Date : e < d /\ snapshots[e] # NoSnapshot}

\* At most HistoryLimit of them, the latest.
Recent(dates) ==
    {e \in dates : Cardinality({f \in dates : f > e}) < HistoryLimit}

\* The observations in a report, by date: those of its history and that of its date.
History(d) == [e \in Recent(EarlierDates(d)) \cup {d} |-> snapshots[e]]

\* A report of a date may be made on that date and later, any number of times.
Report(d) ==
    /\ d <= DateOf(present)
    /\ trackers' = [trackers EXCEPT ![d] =
                      IF snapshots[d] = NoSnapshot THEN NoSnapshot ELSE History(d)]
    /\ UNCHANGED <<snapshots, step, target, stamps, capture>>

EtfNext ==
    \/ \E p \in Collector :
          \/ \E d \in Date : Collect(p, d)
          \/ LookForSnapshot(p) \/ CheckClock(p) \/ FetchBatch(p) \/ FetchError(p)
          \/ Assemble(p) \/ Save(p) \/ Over(p)
    \/ \E d \in Date : Report(d)
=============================================================================
