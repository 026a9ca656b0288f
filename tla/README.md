# stock-daily-report: a TLA+ development

The program builds a daily report on a few stocks: it fetches histories through
rate-limited providers and a response cache, analyses them, and publishes a
report, a frozen input snapshot, an index of all reports and a stylesheet. A
second command scans the whole market, slowly and in batches, over a checkpoint
that several runs of one day continue. Both run from scheduled workflows and by
hand, on one output root, and may be killed at any point.

This directory models the parts where order, overlap and death matter, checks
them with TLC on small instances, and proves the main results with TLAPS for
every value of the constants. Paths below are those of the repository;
`pipeline.py`, `providers/`, `market_scan/` are in `src/stock_daily_report/`.

## 1. Inventory

| Component | State it keeps | Operations | What is hard | What makes it correct |
|---|---|---|---|---|
| Publication transaction (`pipeline.py`) | `.publication-*`: manifest, staged files, `backups/`, `recovery/`, clean-up journal; the four targets | publish by rename, verify, commit, clean up; roll back; recover the orphan of a dead process | a failure or death between any two renames; two restorers with different rules | old contents are never lost before the commit, new ones never after it; all four change together |
| Publication locks (`pipeline.py`) | flocks of dates, of the site, of the cache | look for orphans, recover when idle, lock, recover, publish | runs of other dates; the shared index; lock order; a look without a lock | no date disturbs another one; no deadlock; orphans go |
| Cache commit (`providers/service.py`) | entries; `.cache-recovery-*` journals with preimages; link to the publication manifest | journal, store, commit, finalize, roll back, replay | two durable records that decide one outcome; death in each write | a batch is stored all or nothing and only with its report |
| Request gate (`providers/requests.py`) | one JSON file per provider, under a file lock | `acquire`, `record_failure` | processes and forked workers; killed workers; a stepped clock | admissions are spaced; a recorded pause is respected |
| Resumable scan (`market_scan/resumable.py`, `resume.py`, `report.py`) | `progress.json`, `scan.json`, their archives, a lock | resume or archive, observe the market, fetch a batch, save, publish the artifact, repair it | midnight; overlapping runs; deaths; changed configuration | an artifact is of one day and one configuration; progress is kept |
| Provider fetch (`providers/service.py`) | staged writes; results of one run | cached answer, primary, fallback, quality check, store or put off | two providers; workers and the daily run on one cache; partial failure | an answer is its provider's, for its code, and accepted; what a run put off is stored with its report or never |
| Candidate workers (`market_scan/runner.py`) | futures, deadlines and results of a batch; one forked process per fetch | fetch, retry; collect, time out, cancel | an end that races its deadline; threads that all hang; cancelling what is being started | each candidate has one result, and the batch ends |
| Scan ranking, market state (`market_scan/`) | none | filters, scores, rankings, coverage, identity | ties, missing factors | the order is total and depends on the results alone |
| Snapshots (`snapshots.py`) | `snapshots/<date>/input.json` | write once, compare, load | conflict with an existing snapshot | frozen once written |
| ETF tracker (`etf_tracker.py`, `providers/etf.py`) | one snapshot per day | collect, store under a lock, report from the stored ones | two collections of one day; midnight; quotes of the day before | the first snapshot of a day stands, and so do the reports made from it |
| Universe quotes (`providers/universe.py`) | one snapshot per day in the cache, after the session | read the date, load, ask two endpoints, retry, validate, store | three readings of the clock in one call; retries around retries | quotes carry the date on which they were served |
| Notification (`notify/`) | none | send to the enabled channels, in parts, with retries | lost answers, half-sent messages, one channel failing | success means that everything arrived everywhere; a failing channel stops no other |
| Workflows (`.github/workflows/`) | the history branch | restore, run, push; concurrency groups | cancelled jobs, rejected pushes | what was published stays on the branch |
| Backtest (`backtest/`) | none: every prefix is analysed anew | replay prefixes, keep the events' identities, execute signals, evaluate | look-ahead, revised events, positions that exclude each other | what is confirmed stays; a longer history changes no closed trade |
| Chan structure (`chan/`) | none | inclusion, fractals, strokes, central areas, segments, signals of a bar series | what a later bar may still change | confirmed structure is final |
| Indicators, risk, decision, quality | none | functions of bar series | boundaries | agreement with their definitions |
| Report model and rendering, Pages staging, configuration, command line | none | validation, text | | |

How they interact. A daily run looks for orphans, takes the locks in the order
date, site, cache, replays the cache's journals, settles orphaned publications,
fetches (a run with a service does so under the locks), and publishes: the
cache's batch is stored after the publication is verified and before it is
committed, and its journal names the publication's manifest, whose `committed`
decides for both. The scan shares the cache and the gate with the daily run, but
neither its locks nor its transactions; the report reads the scan's artifact.

The ETF tracker and the universe's quotes are inputs taken once a day; they share
the clock with everything else and nothing more. A backtest reads bars and writes a
report of its own.

`PROJECT.json` lists under `hazards` the places where the code is exposed, each
at its line, with the properties that watch it; those without one say why. Seen
too, and not listed there, because nothing in the models looks at them:

* `pipeline.py:1521`: a report reads rankings, market state and their identity from
  `scan.json` one after the other, without the scan's lock. The workflows run the two
  commands one at a time.
* `.github/workflows/market-scan.yml:223`: the step that persists the checkpoint runs
  only when the scan's step succeeded, so a batch of a failed job is fetched again.

## 2. Modules

    PublicationTypes
      PublicationAtomic                 what a publication promises
      Publication                       the transaction, its rollback, its recovery
        PublicationInvariant            the inductive invariant
          PublicationProofs             its proofs; it implements PublicationAtomic
        PublicationProgress             fairness, bounded faults
          MCPublication                 (with PublicationInvariant)
    DailyCommit                         what report and cache promise together
    CacheCommit                         the journal, its replay
      CacheProgress                     fairness, bounded faults; its .cfg files
      CacheCommitProofs                 its proofs; it implements DailyCommit
    RequestGate                         MCRequestGate
    ResumableScan                       MCResumableScan
      ScanProgress                      fairness, bounded faults; its .cfg file
    BatchResults                        what a batch promises to its scan
    ScanCollect                         one batch; its .cfg file
    ResumableScanProofs                 proofs about ResumableScan and ScanCollect
    PublicationLocks                    PublicationLocksProofs
      LocksProgress                     fairness, bounded faults
        MCPublicationLocks
    ProviderFetch                       one fetch, by any process
    Notify                              one sending, to every channel
      DailyRun                          both, composed to the daily command
        DailyRunProofs, MCDailyRun
    ChanBars                            bars, inclusion, fractals
      SimplifiedChan, StrictChan        the two analyzers
        Replay                          either, on every prefix
          MCReplay
    Backtest                            MCBacktest
    ReplayProofs                        proofs about Replay and Backtest
    ShanghaiClock
      EtfTracker, UniverseSnapshot
        DailySnapshots                  both, on one clock
          MCDailySnapshots
    ProvidersProofs                     proofs about RequestGate and DailySnapshots
    Recursion                           induction, recursive functions, sorting; for
                                        DailyRunProofs and ReplayProofs

The models of a daily run are cut along what they need of each other.
`Publication` is one transaction with every file; it assumes that one directory
exists at a time and that a run recovers before it begins. `PublicationLocks`
has several dates and shows both assumptions (`OneTransaction`), taking from
`Publication` that a rollback restores everything or nothing (`AllOrNothing`).
`CacheCommit` keeps of the publication the state of its manifest. `DailyRun` has what
comes before and after, and takes the publication, with the responses stored by it,
as one step: it happens as a whole (`PublicationIsAtomic`), and
the responses come with it or their journal is lost (the two outcomes that
`DailyCommit` leaves to a committed report).

### Publication

`target` is the four published paths, each absent, of some content, or partly
written (`Partial`, a directory moved across half way or a removal that was
interrupted). `manifest`, `pre`, `new`, `writes`, `progress` are the fields of
`manifest.json`; `backup`, `recovery`, `journal`, `quarantined`, `litter` are
files. `pc`, `actor`, `todo` are the position of the live process in `publish`,
`complete`, `commit`, `cleanup`, `rollback` or the recovery. Each action makes one
change to the disk. `Fail` is an exception anywhere, with the handlers that then
run; `Crash` is a death anywhere, also inside a step that is not atomic.

What is left out: the order in which a power loss makes writes durable (the code
calls fsync after each rename, and the model takes each step as durable), what a
reader sees between two renames, a manifest altered by somebody else.

### CacheCommit

The journal with the state of its manifest, an entry per key that says how far
its preimage has got, the preimage files and their temporary names, the link to
the publication. While the lock is free, another process may store or drop any entry,
also of a batch whose journal is pending (`StoreByOther`); so `stored`, a history
variable, keeps what the run has stored and no replay has restored. A run with
`--reuse-existing-snapshot` settles the publication and does not look at the journal
(actor `reuse`). Left out: what such a run then publishes itself (it stores nothing),
journals of older versions, owner checks (one output root), size limits, the limit of 32
journals.

`DailyCommit` is what report and cache promise together: a report is published (`Publish`),
with its batch or without, and others store entries (`StoreOne`). Two departures are
actions of their own, because the code has them (section 6). `Tear`: a death inside a
manifest write spoils the journal, which is possible once, since no run can begin as
long as it is there. `Revoke`: a run without the cache cuts the journal off from its
report. Which entries change then is left open. An entry that another process stores over
one that is to be restored is no step of `DailyCommit`: it goes with the replay.

### RequestGate

The state file is `file`, and `seen` what a process read under the lock. The
clock is read inside the locked region, as the code does, and any reading may
follow any other. `Abort` is a worker killed at its timeout or a write that
raised. Left out: the length of sleeps, a state file that is not valid JSON.

### ResumableScan

`checkpoint`, `artifact` and `scanArchive` are the files; `run[p]` holds the local
variables of `_run_resumable_scan`. The day a result was fetched on and the
configuration it was computed under are ghosts: the code stores neither, and the
properties ask whether they can ever disagree. A batch is fetched stock by stock,
with a settled or a failed result; midnight may pass at any moment. The lock of the
artifact is left out, because everyone modelled who writes it holds the lock of the
checkpoint.

### ScanCollect

`ResumableScan` takes a batch as the results of its stocks; `ScanCollect` is what
happens inside `_process_batch`, or in `scan_market` for the whole market
(`Attempts` is then 1). `future`, `attempt`, `answer` belong to the threads,
`results`, `pending`, `seen`, `overdue` to `_collect_with_timeout`: `seen` are the
candidates with a deadline, `overdue` those whose deadline is not after the `now`
of this round. `late` are the deadlines that have passed and `inTime` is a ghost: who
ended before. The collector's round is cut at every look at the futures, which the
threads change meanwhile. One look at all futures is a single step: while it lasts, futures only
join the done and leave the blocked, so a look that takes its time sees what some
order of the same ends would have shown it, and a candidate that it misses as
running gets its deadline a round later.

Left out: durations, and with them the order of deadlines; the pipe and the killing
of the child, whose outcomes are an answer or none; threads that an earlier batch
left behind.

### PublicationLocks

`holder` is the owner of each lock, numbered in the order in which a run takes them.
`job[r]` holds the locals of a run: what the look found, the locks it still needs, its
directory. `Stranger` is a scan or a standalone fetch that uses the cache. `reports`
and `index` are the dates that have a report and those the index lists. A run is
of one of three kinds: with a service, with a given provider (which fetches
outside of the locks and stores nothing), or from the frozen snapshot (which does not look
at the cache).

### ProviderFetch, Notify, DailyRun

`ProviderFetch` is `MarketDataService.fetch` for a process `p`: `at[p]` is its step,
`cached[p]` the two loads with which it begins, `asking[p]` the selection, with what
is cached in front, as `fetch` sorts it. An answer knows its provider, its code, whether the
quality gate accepts it, and, as a ghost, who asked for it. A worker stores at once, the
daily run stages (`defer_cache`). Each access to the cache waits for its lock, which the daily
run has from its first fetch on. `paused` is all that is left of `RequestGate`.
Left out: the age of an entry (`Load` may drop any), the history of the index and the
metrics, which go through the same function.

`Notify` is `send_report` and `post_json`: `Parts` cuts the summary as
`build_payloads` does, with sizes in place of texts; an attempt may arrive
without being confirmed, and `chat` is what the receivers have seen. Left out: the wording,
and the length of pauses.

`DailyRun` is the command: `fetch_all` over the core stocks, the decision to publish
or to fail, the publication, the notifications, the exit status, the `notify` command
later, and a death at any point, beside scan workers on the same cache. Left
out: runs that reuse the frozen snapshot (`PublicationLocks` has them), and the light quotes of
the watchlist, which a run does without when they fail.

### ChanBars, SimplifiedChan, StrictChan, Replay

`ChanBars` is inclusion and fractals, which the two analyzers share, as a loop with one turn per
bar: `processed` are the effective bars. The rest of an analysis is functions of these, since
each analysis starts anew: the strokes after each effective bar are a recursive function
(`SimplifiedFound`, `StrictFound`), whose turn is `_find_strokes`' loop body. The `while` loops
over the strokes that find areas and segments become sets: of the starts that a loop visits
(`Visited`, again one value per turn), those at which it finds one. `Replay` analyses each
prefix, gives every finding its identity (`EventId`) and keeps `history`, the record of
`replay()`. Left out: support and resistance levels, labels, digests of events, profiles without
a next bar. Prices are integers.

### Backtest

`dailyBars` is the history, `shown` what a replay shows of each signal on the latest date,
under the rules of a replay: a tradable date is set once, on that date, and what is gone
stays gone. `confirmed` is the dictionary of that name, and `trades`
is `evaluate_signals` on the whole history, anew for every bar: `InOrder` is its `sorted`,
`Considered` its loop, one value per turn. Left out: costs, returns, equity and the figures
made of them.

### EtfTracker, UniverseSnapshot, DailySnapshots

A date has four parts, cut where the code compares the time: close, 15:10, 15:30.
`EtfTracker` is `collect_tracker` (`step[p]`, `capture[p]`), with the time of each
batch of quotes, and `build_tracker_report` as the observations that a report shows.
`UniverseSnapshot` is `get_quotes` with its three readings of the clock, its retries
and those of `WatchlistUniverseProvider` around it; of the rows it keeps the moment at
which they were served. Left out: the figures made of the observations (floats), the
columns of the sources, fetchers passed by tests.

## 3. Runs

| Run | Asks | Bounds |
|---|---|---|
| `publication` | no content is lost; refinement of `PublicationAtomic`; a transaction ends | two contents, two faults, report and snapshot there or not, index and stylesheet there or not |
| `cache_commit` | preimages held; refinement of `DailyCommit`; a refused journal covers a whole batch; only a run without the cache revokes a published batch; a batch ends | two entries, two contents, three faults; any number of foreign stores and of runs that reuse a snapshot |
| `cache_reuse` | what a test says of one commit point; a violation (section 6) | as `cache_commit`, two faults |
| `request_gate` | spacing, pauses | two processes, readings 0..3, interval 1, pause 2, any number of faults |
| `scan` | coherent artifact, kept progress, immutable observations | two processes, two stocks, batches of one, two configurations, an incomplete and an available market state, one midnight, any number of faults |
| `scan_progress` | a published result stays published; the scan is settled in the end | two processes, one configuration, two universes, two faults |
| `scan_collect` | refinement of `BatchResults`: one result each, and the batch ends; who is given up was late; who is cancelled had no thread | three candidates, two threads, two attempts, fetches that may hang |
| `publication_locks` | committed reports stay, exact index, one transaction, recovered fetches; runs end, orphans go, no deadlock | two runs, two dates, two names, one fault; one run fetches through the cache, the other has a provider on one date and reuses the snapshot on the other |
| `daily_run` | whose answers the cache and the report have; deferred responses only with their report; messages complete or an exit status that says otherwise; every channel tried; a run ends | two stocks, two providers, one worker with one fetch, two commands, two channels, two attempts, a death at any step |
| `replay` | identities tell events apart; fractals stay; what is confirmed stays; nothing is tradable before it is known | both analyzers; walks of up to 10 bars, or of up to 34 after one of three openings; at most one unusual move; separations 2 and 3 |
| `backtest` | one position at a time; nothing left out without reason; closed trades stand | two signals, seven dates, at most two of them suspended or at one price, a limit of 10 %, out of sample from date 4, held for one date |
| `daily_snapshots` | what a report said of the ETFs stands; quotes carry their date | three dates, the second a weekend, two collectors with two batches, two readers, one retry inside and one outside, one earlier observation |

Why the bounds are enough. Old and new content must differ or be equal, and a
third content would play the part of either; an artifact that is created,
changed, or rewritten with what it held is reached from the initial sites
although `OneContentPerRun` makes a run publish one content everywhere. Two
entries make a batch half-stored. In the gate, an interval of one and a pause of
two make the two rules bite at different readings. In the scan, batches of one of two stocks
give a boundary between batches and one before the first and after the last; the
two universes of `scan_progress` differ in one stock. With two dates and two runs
every pair of (looking, waiting, recovering, publishing, dead) occurs. Three candidates
leave one queued while two threads hang, and two attempts give one retry.

In `daily_run`, three small risks are one part for the first channel and two for the
second, and one large risk is too long for the second; two commands are a run after a
failed one, a run over another one's report, or a report that is sent again. While a report is
being sent the workers stand still (`Undisturbed`): the two share no variable, so
only orders of steps that commute are left out. In `replay` the openings bring the walk as
far as a stroke, an area, or an area above one that was left; nine free moves are
enough to end a leg, leave the area, come back and tie. `MaxOdd` is the number of ties,
gaps or engulfing bars among them. In `backtest` seven dates hold two trades and a signal between
them. In `daily_snapshots` the two parts share the clock only, so each is run
while the other stands still, and `QuoteDays` = 2 gives the readers one midnight.

Faults (an exception or a death, at any step) are bounded by `MaxFaults`
in the models of publication and cache, because without a bound no
run would ever be left alone. What a fault can lead to is a rollback or an
orphan; a second fault interrupts the rollback or the recovery of the
first, and from there on the states repeat those after one or two. A journal
of the cache is replayed by up to three actors (the commit, the handler of the
run, the next recovery), hence three. The safety properties of `publication`,
`cache_commit` and `publication_locks` do not depend on the bound: they are proved
for any number of faults (section 5), as are those of `scan`.

`publication` has no run that overwrites a snapshot (`AllowOverwrite`), for which
`AllOrNothing` does not promise a frozen one (section 6); the proofs cover both.

The type and inductive invariants of the proved modules are not among the properties of
the runs: TLC agreed with them before they were proved, and now TLAPS checks
them for all instances.

Symmetry is used in safety runs only, over processes. Deadlock is checked except
in `scan_collect`, where the collector has returned and the threads it left may hang,
in `scan`, where after the last midnight of the model the command line refuses
to start (it accepts the current date only), and in the four runs whose history,
commands or clock come to the end of their bound (`replay`, `backtest`, `daily_run`,
`daily_snapshots`).

## 4. Fairness

Safety needs none. In the liveness runs:

* `PublicationProgress`, `CacheProgress`: weak fairness of the next step of a live
  process, or of a run that meets an orphan. A process that has not died runs on, and the
  workflow starts a run every day.
* `ScanProgress`: weak fairness of starting a run, strong fairness of the steps of
  each run. The lock of the checkpoint is an flock; a waiting run is granted it
  eventually, though it is taken and released by others in between.
* `ScanCollect`: weak fairness of the collector, of the executor's starting of a fetch
  while a thread is free, and of each deadline's passing. None of the threads' own
  steps: a fetch that is never answered is the case the collector is there for.
* `LocksProgress`: the same as for the scan, for runs of several dates. A stranger that holds the
  cache lets it go, but its visits are counted among the faults: a run with a
  cache journal to recover gives up when it finds a lock taken, so a stranger
  that is always there stops every run, which the code accepts
  ("Could not acquire recovery lock before fetching").
* `DailyRun`: weak fairness of the steps of a command that has begun. Nothing is assumed of
  workers: one that died has no lock, and none keeps the lock of the cache between
  two steps.

One assumption about time: `NoOldCollection` says that a collection of ETFs does not
stop between its last quote and its save until another day's capture has begun. The job that runs
it has a limit of five minutes (`timeout-minutes`, `daily-report.yml:104`). Without it a
snapshot would appear under a date whose later reports have already been made.

## 5. Proofs

TLAPS proves, for every set of contents, processes, dates, stocks, readings:

* **Publication** (`PublicationProofs`): `TypeOK`, `IInv` and from it
  `PreimageKept`, `RestoreFindsSource`, `UnrecordedIsWhole`,
  `CommittedIsPublished`. None of the four is inductive. The strengthening
  follows the code's write-ahead rule: a target differs from its old content only
  if its intent is recorded (`UndoneFacts`), and then the old content is `Held` in a
  backup or in a finished recovery copy; `PublishingFacts` and
  `CompletingFacts` say how far the loop of `publish` and of the copies has
  got, which is what makes the removal of the backups safe.
* **Its refinement** (`PublicationIsAtomic`): under the mapping of `site` to
  `Settled` (the old contents while a restore is still ahead, the
  targets otherwise) every step is a stutter but the one that decides, which is a
  `Publish`. It uses `Invariance`.
* **Cache** (`CacheCommitProofs`): `TypeOK`; and, for any number of failures and deaths,
  `PreimagesHeld`, `RefusedIsWhole`, `KeptUnlessReused` and the refinement of `DailyCommit`
  (`BatchWithReport`). No hypothesis restricts who else runs: other processes store whenever
  the lock is free, and runs that reuse a snapshot come at any time.
  The invariant ties what is on disk to the loops that put it there:
  which preimages are complete when `prepare` has got so far (`PreparingFacts`), which
  entries are stored or restored (`LoopFacts`), and what each state of the journal's
  manifest says of both (`ManifestFacts`). `LinkedUntilDecided` is what makes it
  inductive: the link to the publication goes only when the commit of both can no longer
  be taken back (`Decided`), so a journal that loses its preimages is never restored. All
  this is said of `stored`, since the cache also has what others put there; the two agree
  only while the owner of the batch is alive and holds the lock (`OwnerFacts`).
  For the refinement each step is shown to leave the settled entries as they are, to be the
  one that decides, to forget a journal whose report is published, to be
  another's store, or to be one of the two departures.
* **Gate** (`ProvidersProofs`): whoever is inside the locked region has read the
  current file, and the file bounds the last admission and the last
  failure. Both action properties follow, for any clock.
* **Quotes** (`ProvidersProofs`): `QuotesAreOfTheirDate`, for any readers, dates and
  retries. The date of the cache entry comes from the first reading of the clock, the
  response is served later (`Follows`), and its rows are dated later still; the third
  reading, when it finds the first date again, leaves no room for another date between
  them. `Follows` also carries that the session was over, so what is kept was
  served after it.
* **ETF reports** (`ProvidersProofs`): `TrackerStands`, for any collectors, dates and
  batches. A report that has found its snapshot says what a report made now would say
  (`ReportInv`); a snapshot that is saved afterwards is of a later date, because the date
  of any existing one has been reached (`CapturedInv`) and no collection is older than the
  next date's capture (`SavingInv`, from `NoOldCollection` of section 4); and a report
  looks at no later date (`HistoryIsOfThePast`).
* **Scan** (`ResumableScanProofs`): `ArtifactIsCoherent`, `ProgressKept`, `ObservationKept`
  and `PublishedKept`. The invariant says that the local results of the run that holds the
  lock include those of the checkpoint of the same scan, and that results are of days
  between the start of the scan and today; a run that has read the date after its last
  result, and found it unchanged, has results of one day, which `FinalInv` keeps until they
  are written. For `PublishedKept`, `PublicationInv` follows what is settled in the artifact
  through the checkpoint, the run that has loaded it, the results it adds to and those it is
  about to publish. Two hypotheses, the first also that of the run `scan_progress`: there is
  one configuration (a scan under another one archives the checkpoint and starts anew), and
  every universe has an eligible stock (a provider refuses an empty universe,
  `providers/universe.py:643`, but the filters after it may leave none; the empty artifact
  of a later day would then count as one of the same day, as the property tells days apart
  by the results).
* **Candidate workers** (`ResumableScanProofs`): `TimeoutIsTheirs`, `GivenUpWhenBlocked` and
  the safety of `BatchResults`. Whoever is at work without a place in `pending` has been
  given up (`BlockedAreGivenUp`), since the done and the cancelled are not at work, so
  the count of blocked threads is a lower bound of the candidates given up; their
  number never falls, hence it still justifies the cancelling when it happens.
* **Locks** (`PublicationLocksProofs`): the locks held are lower than those
  needed, whoever works holds the lock of the site, hence one run at a time works;
  it owns the one transaction there is; and reports and index are each the old or
  the new ones of that transaction, without missing a committed date. From this
  follow all the safety properties of the run `publication_locks`.

* **Replay** (`ReplayProofs`), for any bars: effective bars next to each other never include one
  another and each carries the direction in which it left the one before
  (`EffectiveBarsStandApart`), hence a fractal that any prefix shows is shown by every longer
  one (`FractalsAreFinal`), and neither analyzer dates one by a bar that has not come
  (`NoFractalLooksAhead`). On this rest, for both analyzers, the three properties of what a
  replay shows: `IdentityIsUnambiguous` (`IdentityNeverAmbiguous`), `ConfirmedStays`
  (`ConfirmedNeverRevoked`) and `TradableWhenSeen` (`TradableIsSeen`). The analysis of a longer
  prefix starts anew, so each of its loops is compared with that of the shorter one. A supplied
  bar `Lengthens` effective bars that `Cover` the dates: all but the latest stand, and no
  fractal comes up among them. The turns over the bars that stand find the same strokes, in the
  right order (`SimpleInv`, `StrictInv`), and what is left adds one stroke at most, which
  today's bar makes tradable or confirms (`SimpleStrokesStand`, `StrictStrokesStand`). On the
  way `strict-v1`'s moving of a stroke that cannot be traded on turns out never to happen:
  before there is another fractal, the bar has come that makes the stroke tradable. The searches
  over strokes that agree up to the new one visit the same starts (`VisitedStarts` and the
  lemmas after it), so an area or a segment is found again, or the new stroke completes it; in
  `simplified-v1` an area may take that stroke in, hence `OnlyNarrows`. Each family of events is
  then `Sound` (identity and status tell its events apart, and what is tradable was formed and
  confirmed before) and that of the next prefix `ComesAfter` it (what is confirmed remains; what
  is tradable before today was so before), and both hold of a union. `ReplayInv` ties this to
  the state: what is shown is what the prefix gives, and the history has it.

* **Daily run** (`DailyRunProofs`): `AnswersAreTheirs` and `StoredWithReport`, for any
  number of workers, stocks and runs. `FetchInv` follows an answer through a fetch: the
  cached responses are for the code that is fetched, what is taken from them is `FromCache`
  when it is checked, so what is stored or staged is new and the asker's own. A staged
  answer is what the run has for its stock, or has just been given for the stock that is
  still among those to be fetched (`StagedInv`, `TurnInv`), so a second answer never takes
  its place; and since the number of a run is new while it fetches, no entry of the cache
  has it before the report does. `EveryChannelTried`, for any channels and attempts:
  `NotifyInv` says which channels are behind the turn, that each of them has an outcome, and
  which part has arrived before the one that is posted; it also gives `PartsInOrder`.
  `AttemptInv` adds that of that part there are fewer copies than attempts, of the later
  ones none, and that the channels to come have been sent nothing; from it follows
  `CopiesAreBounded`, the second of the three conjuncts of `DeliveredInFull`.
* **Delivery in full** (`DailyRunProofs`): `DeliveredInFull` itself, for any sizes, limits and
  channels. `Packing` is what the loop of `build_payloads` keeps: after `n` turns the lines
  of the finished parts and of the current one are the first `n`, and nothing else. It
  holds for every `n` by induction (`PackedSteps`), so the parts tell all lines
  (`PartsTellAll`). `FullInv` says that the message of the channel at the turn is the parts of
  the summary, of which all before the one being posted have arrived, and that a channel
  with the outcome `delivered` has all of its parts.
* **Backtest** (`ReplayProofs`), for any finite set of signals and any bars:
  `OnePositionAtATime`, `LeftOutForAnOpenPosition`, `TradesStand`. First what one
  evaluation computes: `Chosen` is the loop's invariant, proved by induction over the
  turns (`EvaluationIsChosen`), that every trade is the first entry and the first exit of its
  signal, that trades come one behind the other in the order of `Before`, and that whoever
  was passed over and could have been closed met a position that was open. For that the order must
  exist (`Before` is linear on the signals kept, and a finite set that is ordered can be listed
  in order: `SortedSequence`). Then what a longer history can change: what was kept of a
  signal changes only while it has no tradable date (`Grows`), so the entry and the exit of
  a trade stay where they were (`DatesStay`), and a signal that gets its date
  today enters after today. `EarlierTradesStand` takes the first trade of the shorter
  history that is not at its place in the longer one. Its signal can still be bought and
  sold there (`BoughtStill`), so it has the same trade further on, or a position was open on
  that date. A trade of the longer history that is opened no later was possible in the
  shorter one as well (`BoughtBefore`), and would there have been taken, or excluded by an
  earlier trade, which stands (`NoneInBetween`).
* **Induction over data** (`Recursion`). The theorems of the library on induction take a
  predicate as a parameter, which the provers cannot instantiate. `Recursion` states the same
  for a set in place of the predicate: a subset of `Nat` with 0 and with `n + 1` for each `n`
  is `Nat` (`Induction`), from the well-foundedness of finite sets under inclusion; from it
  follow that a function given by its first value and its step exists (`RecursiveFunction`)
  and that a finite ordered set has a sorted sequence. This is why `Parts`,
  `EvaluateSignals` and the analyzers' loops are written as recursive functions on `0 .. n`
  and `InOrder` as a choice among the sequences that list a set.

Assumptions: contents differ from `Absent` and `Partial` (`ContentsDistinct`); flags are
Boolean; the model values that stand for nothing or nobody are not elements of the sets they
are added to; durations are natural numbers; dates rank below the site's lock; a batch is
finite and there is at least one thread; a run's summary is a sequence of sizes
(`SummaryType`), the signals of a backtest are finitely many, its bars have natural
prices, and its holding time is at least a day (`BacktestType`); a bar's close lies in its
range (`BarType`), and an area of `strict-v1` begins with three strokes at least
(`StrictProfileType`). TLC evaluates each in the
runs.

Only model-checked: all liveness (out of TLAPS's reach here), with it the progress that
`BatchPromise` adds to the safety of `BatchResults`, and freedom from deadlock. What
`Backtest` takes from `Replay` (`Follows`, `ShowNext`) is proved there, that a tradable date
is set once and on the day it names (`TradableIsSeen`), but for one rule: what is gone
stays gone. That closes count only behind the confirmation of their area is why; it is not
stated as a property, and the two modules are not composed.

## 6. Where the code and its words differ

One is a run that must find a violation; `PROJECT.json` quotes the line.

* `cache_reuse` (`OneCommit`): a run from the frozen snapshot releases a committed
  publication without its journal, which is then restored (`Revoke` in `DailyCommit`).

Others were seen while the models were written. The models behave so, but no run is kept
for them:

* A death inside an atomic write, or between making `recovery/` and its
  manifest (`pipeline.py:1159`), leaves a directory that every later run refuses, though
  `pipeline.py:609` says orphans are recovered (`Crash` in `Publication`).
* `--overwrite-snapshot` replaces the snapshot without a backup, and a failure
  after it cannot be undone (`pipeline.py:1876`), though existing paths are
  said to be restored (`pipeline.py:1765`; `Publication` with `AllowOverwrite = TRUE`).
* A death inside a manifest write between two stores leaves a half-stored batch that
  is never restored (`service.py:640`, against `tests/test_quality_checks.py:515`; `Crash`
  in `CacheCommit`, `Tear` in `DailyCommit`).
* A run that looks for orphans fails when the owner of what it found is just
  finishing (`pipeline.py:706`, against `tests/test_pipeline.py:1833`; `Look` and `Read` of
  `PublicationLocks`).
* A death while a preimage is copied makes recovery refuse a journal that it is
  meant to discard (`service.py:1485`; in `CacheCommit`, `CopyPreimage` then `Crash`).
* A journal whose owner died does not hold the lock, and its replay takes
  another process's entry (`service.py:691`; `StoreByOther` and `RestoreEntry` of
  `CacheCommit`).
* The checkpoint says "complete" before there is an artifact
  (`resumable.py:237`; `SaveBatch`).
* A rebuild after a configuration change observes the market anew and is refused when
  the observation differs from the published one (`report.py:77`; `RefuseArtifact`
  in `ResumableScan`), though `README.md:83` promises a rebuild.
* In a scan without batches the time limit of a candidate is that of its fetch, so a fetch
  that hangs may be given up a moment before it is killed, while its thread still counts
  as blocked; when that holds for every thread, all queued candidates are
  cancelled although a thread is about to come free (`runner.py:562`; in `ScanCollect`,
  `DeadlinePasses` for each thread's candidate before its `Fetch`).
* The artifact is written whatever the coverage (`resumable.py:444`).
* The recovery of the idle may recover a date it has not locked, without
  harm because it holds the site's lock (`pipeline.py:733`).

## 7. Plan and limits

Done, in this order: 1. Publication. 2. CacheCommit. 3. RequestGate. 4. ResumableScan.
5. PublicationLocks. 6. ScanCollect. 7. ProviderFetch, Notify and DailyRun.
8. ChanBars, the analyzers and Replay. 9. Backtest. 10. EtfTracker,
UniverseSnapshot and DailySnapshots.

Not modelled:

* The ranking of the market scan (`market_scan/filters.py`, `scoring.py`, `state.py`,
  `identity.py`): pure functions of a batch's results in one process, sums and sorting, with unit
  tests for each.
* Indicators, trend, risk rules, the decision table, the quality gate's rules:
  arithmetic on floats over one series. Of the quality gate the models keep that it accepts
  or rejects an answer, the same way each time.
* Report models, rendering, labels, Pages staging: validation, layout and text.
* The workflows (restore the history branch, run, push): they are not code of the
  program. The models lean on them where this document says so.
* The adapters that turn a provider's columns into bars, and the parsing of arguments.
* Power loss (section 2), and files altered by somebody else.
