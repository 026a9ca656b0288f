-------------------------- MODULE PublicationLocks --------------------------
(***************************************************************************)
(* Daily runs of several report dates that share one output root: the      *)
(* look for orphans without a lock, the recovery when nobody else is at    *)
(* work, the locks date -> site -> cache, the recovery under them, and the *)
(* site's index, which every publication replaces and which lists the      *)
(* reports of all dates.                                                   *)
(*                                                                         *)
(* A publication is reduced to what other dates can see of it: its         *)
(* directory, the report, the index, the commit.  That rollback and        *)
(* recovery restore all of it or nothing is what Publication shows, so     *)
(* here each is one step.                                                  *)
(***************************************************************************)
EXTENDS Integers

CONSTANTS
    Run,
    Date,           \* report dates
    Slot,           \* names of transaction directories
    Site,           \* rank of the site's lock; those of the dates are lower
    Nobody,         \* no run
    Stranger,       \* the scan and the standalone fetch, users of the cache
    Nothing         \* no directory, no name of one

ASSUME SiteType == Site \in Nat
ASSUME DateType == Date \subseteq 0..(Site - 1) /\ Date # {}
ASSUME SlotType == Nothing \notin Slot
ASSUME RunType == Nobody \notin Run /\ Stranger \notin Run /\ Stranger # Nobody

VARIABLES
    holder,         \* per lock: who holds it
    reports,        \* dates that have reports/<date>/
    index,          \* dates that site/index.html lists
    dirs,           \* .publication-*, per name
    journal,        \* a cache journal is pending
    committed,      \* history: dates whose publication was committed
    pc, job         \* per run: what it is doing and for what

site == <<reports, index, dirs, journal, committed>>
vars == <<holder, site, pc, job>>

\* Locks, in the order in which a run takes them.
CacheLock == Site + 1
Lock == Date \cup {Site, CacheLock}

\* "service": responses come through the cache, and are fetched under the locks.
\* "provider": bars come from a given provider; "reuse": from the frozen snapshot.
Kind == {"service", "provider", "reuse"}
Cached(kind) == kind # "reuse"

\* A directory is "made" until it has a manifest, which records the targets as they
\* were (existed, before) and the index that is to be published (after).
Directory == [date : Date, state : {"made", "recorded", "committed"},
              existed : BOOLEAN, before : SUBSET Date, after : SUBSET Date]

ASSUME NothingType == Nothing \notin Directory

Locking == {"trying", "locking"}
Recovering == {"recoverIdle", "recover"}
Publishing == {"record", "report", "index", "cache", "commit", "finish"}
Step == {"idle", "started", "look", "read", "fetch", "make"} \cup Locking \cup Recovering \cup Publishing

Job == [date : Date, kind : Kind, need : SUBSET Lock, found : SUBSET Slot,
        dates : SUBSET Date, pending : BOOLEAN, own : Slot \cup {Nothing}]

Blank == [date |-> CHOOSE d \in Date : TRUE, kind |-> "reuse", need |-> {}, found |-> {},
          dates |-> {}, pending |-> FALSE, own |-> Nothing]

Init ==
    /\ holder = [l \in Lock |-> Nobody]
    /\ reports = {} /\ index = {} /\ committed = {}
    /\ dirs = [s \in Slot |-> Nothing]
    /\ journal = FALSE
    /\ pc = [r \in Run |-> "idle"]
    /\ job = [r \in Run |-> Blank]

-----------------------------------------------------------------------------
(* Helpers *)

GoTo(r, step) == pc' = [pc EXCEPT ![r] = step]

Made(s) == dirs[s] # Nothing
Recorded(s) == Made(s) /\ dirs[s].state # "made"

ReleaseLocks(r) == holder' = [l \in Lock |-> IF holder[l] = r THEN Nobody ELSE holder[l]]

\* Returning, raising or dying: the locks are free.
Leave(r) ==
    /\ ReleaseLocks(r)
    /\ GoTo(r, "idle")
    /\ job' = [job EXCEPT ![r] = Blank]

CacheLockOf(kind) == IF Cached(kind) THEN {CacheLock} ELSE {}

\* Mutant: the site is not locked.
WithoutSiteLock(r) == {job[r].date} \cup CacheLockOf(job[r].kind)

PublicationLock(r) == {job[r].date, Site} \cup CacheLockOf(job[r].kind)

ToPublicationLock(r) ==
    /\ GoTo(r, "locking")
    /\ job' = [job EXCEPT ![r].need = PublicationLock(r), ![r].dates = {}]

\* The lock r takes next.
IsNext(r, l) == l \in job[r].need /\ \A m \in job[r].need : l <= m

Acquire(r, l) ==
    /\ holder[l] = Nobody
    /\ holder' = [holder EXCEPT ![l] = r]
    /\ job' = [job EXCEPT ![r].need = @ \ {l}]

Put(s, dir) == dirs' = [dirs EXCEPT ![s] = dir]

-----------------------------------------------------------------------------
(* Looking for orphans without a lock, and recovering them if nobody is busy *)

Start(r, date, kind) ==
    /\ pc[r] = "idle"
    /\ GoTo(r, "started")
    /\ job' = [job EXCEPT ![r] = [Blank EXCEPT !.date = date, !.kind = kind]]
    /\ UNCHANGED <<holder, site>>

NothingPending(r) ==
    /\ pc[r] = "started"
    /\ \A s \in Slot : ~Made(s)
    /\ ~(Cached(job[r].kind) /\ journal)
    /\ ToPublicationLock(r)
    /\ UNCHANGED <<holder, site>>

Look(r) ==
    /\ pc[r] = "started"
    /\ LET pending == Cached(job[r].kind) /\ journal
           found == {s \in Slot : Made(s)}
       IN  /\ pending \/ found # {}
           /\ job' = [job EXCEPT ![r].found = found, ![r].pending = pending,
                      ![r].dates = IF pending THEN {job[r].date} ELSE {}]
    /\ GoTo(r, "look")
    /\ UNCHANGED <<holder, site>>

\* Gone in the meantime, or without manifest.
SkipDirectory(r, s) ==
    /\ pc[r] = "look" /\ s \in job[r].found /\ ~Recorded(s)
    /\ job' = [job EXCEPT ![r].found = @ \ {s}]
    /\ UNCHANGED <<holder, site, pc>>

FindManifest(r, s) ==
    /\ pc[r] = "look" /\ s \in job[r].found /\ Recorded(s)
    /\ GoTo(r, "read")
    /\ job' = [job EXCEPT ![r].own = s]
    /\ UNCHANGED <<holder, site>>

ReadManifest(r) ==
    /\ pc[r] = "read" /\ Recorded(job[r].own)
    /\ GoTo(r, "look")
    /\ job' = [job EXCEPT ![r].found = @ \ {job[r].own}, ![r].own = Nothing,
               ![r].dates = @ \cup {dirs[job[r].own].date}]
    /\ UNCHANGED <<holder, site>>

\* The run that owns the directory has finished with it: PublicationRollbackError.
ManifestVanished(r) ==
    /\ pc[r] = "read" /\ ~Recorded(job[r].own)
    /\ Leave(r)
    /\ UNCHANGED site

TryLocks(r) ==
    /\ pc[r] = "look" /\ job[r].found = {}
    /\ GoTo(r, "trying")
    /\ job' = [job EXCEPT ![r].need = @ \cup job[r].dates \cup {Site} \cup CacheLockOf(job[r].kind)]
    /\ UNCHANGED <<holder, site>>

TryNext(r) ==
    /\ pc[r] = "trying"
    /\ \E l \in Lock : IsNext(r, l) /\ Acquire(r, l)
    /\ UNCHANGED <<site, pc>>

Busy(r) == pc[r] = "trying" /\ \E l \in Lock : IsNext(r, l) /\ holder[l] # Nobody

\* Mutant: a run looks again until nobody is busy.
RetryRecovery(r) ==
    /\ Busy(r) /\ ~job[r].pending
    /\ ReleaseLocks(r)
    /\ GoTo(r, "started")
    /\ job' = [job EXCEPT ![r].need = {}, ![r].dates = {}]
    /\ UNCHANGED site

\* Whoever holds the lock recovers, before it publishes.
PassRecovery(r) ==
    /\ Busy(r) /\ ~job[r].pending
    /\ ReleaseLocks(r)
    /\ ToPublicationLock(r)
    /\ UNCHANGED site

\* CacheRollbackError: a pending cache journal has to be recovered first.
GiveUp(r) ==
    /\ Busy(r) /\ job[r].pending
    /\ Leave(r)
    /\ UNCHANGED site

RecoverIdle(r) ==
    /\ pc[r] = "trying" /\ job[r].need = {}
    /\ GoTo(r, "recoverIdle")
    /\ UNCHANGED <<holder, site, job>>

-----------------------------------------------------------------------------
(* The blocking locks *)

LockNext(r) ==
    /\ pc[r] = "locking"
    /\ \E l \in Lock : IsNext(r, l) /\ Acquire(r, l)
    /\ UNCHANGED <<site, pc>>

RecoverLocked(r) ==
    /\ pc[r] = "locking" /\ job[r].need = {}
    /\ GoTo(r, "recover")
    /\ UNCHANGED <<holder, site, job>>

-----------------------------------------------------------------------------
(* Recovery: the cache, then every directory there is *)

RecoverCache(r) ==
    /\ pc[r] \in Recovering /\ Cached(job[r].kind) /\ journal
    /\ journal' = FALSE
    /\ UNCHANGED <<holder, reports, index, dirs, committed, pc, job>>

CacheRecovered(r) == pc[r] \in Recovering /\ ~(Cached(job[r].kind) /\ journal)

DiscardMade(r, s) ==
    /\ CacheRecovered(r) /\ Made(s) /\ dirs[s].state = "made"
    /\ Put(s, Nothing)
    /\ UNCHANGED <<holder, reports, index, journal, committed, pc, job>>

\* Targets that are neither the old nor the new ones are not touched.
Recognised(dir) == index \in {dir.before, dir.after}

ReleaseCommitted(r, s) ==
    /\ CacheRecovered(r) /\ Made(s) /\ dirs[s].state = "committed"
    /\ dirs[s].date \in reports /\ index = dirs[s].after
    /\ Put(s, Nothing)
    /\ UNCHANGED <<holder, reports, index, journal, committed, pc, job>>

\* Mutant: the index is not restored.
RestoreReportOnly(dir) ==
    /\ Recognised(dir)
    /\ reports' = IF dir.existed THEN reports \cup {dir.date} ELSE reports \ {dir.date}
    /\ index' = index

Restore(dir) ==
    /\ Recognised(dir)
    /\ reports' = IF dir.existed THEN reports \cup {dir.date} ELSE reports \ {dir.date}
    /\ index' = dir.before

RestoreRecorded(r, s) ==
    /\ CacheRecovered(r) /\ Made(s) /\ dirs[s].state = "recorded"
    /\ Restore(dirs[s])
    /\ Put(s, Nothing)
    /\ UNCHANGED <<holder, journal, committed, pc, job>>

\* Mutant: what is pending is left for the next run.
RecoveredCache(r) == CacheRecovered(r)

Recovered(r) == CacheRecovered(r) /\ \A s \in Slot : ~Made(s)

LeaveIdleRecovery(r) ==
    /\ pc[r] = "recoverIdle" /\ Recovered(r)
    /\ ReleaseLocks(r)
    /\ ToPublicationLock(r)
    /\ UNCHANGED site

Proceed(r) ==
    /\ pc[r] = "recover" /\ Recovered(r)
    /\ GoTo(r, IF job[r].kind = "service" THEN "fetch" ELSE "make")
    /\ UNCHANGED <<holder, site, job>>

Fetch(r) ==
    /\ pc[r] = "fetch"
    /\ GoTo(r, "make")
    /\ UNCHANGED <<holder, site, job>>

-----------------------------------------------------------------------------
(* The publication: its files are renamed out of its directory *)

\* mkdtemp: a name nobody is looking at.
Make(r, s) ==
    /\ pc[r] = "make" /\ ~Made(s)
    /\ \A q \in Run : s \notin job[q].found
    /\ Put(s, [date |-> job[r].date, state |-> "made", existed |-> FALSE,
               before |-> {}, after |-> {}])
    /\ GoTo(r, "record")
    /\ job' = [job EXCEPT ![r].own = s]
    /\ UNCHANGED <<holder, reports, index, journal, committed>>

\* _render_site_index_for_publication().
NewIndex(date) == reports \cup {date}

Record(r) ==
    /\ pc[r] = "record" /\ Made(job[r].own)
    /\ LET date == job[r].date
       IN  Put(job[r].own, [date |-> date, state |-> "recorded", existed |-> date \in reports,
                            before |-> index, after |-> NewIndex(date)])
    /\ GoTo(r, "report")
    /\ UNCHANGED <<holder, reports, index, journal, committed, job>>

PublishReport(r) ==
    /\ pc[r] = "report" /\ Made(job[r].own)
    /\ reports' = reports \cup {job[r].date}
    /\ GoTo(r, "index")
    /\ UNCHANGED <<holder, index, dirs, journal, committed, job>>

PublishIndex(r) ==
    /\ pc[r] = "index" /\ Made(job[r].own)
    /\ index' = dirs[job[r].own].after
    /\ GoTo(r, IF job[r].kind = "service" THEN "cache" ELSE "commit")
    /\ UNCHANGED <<holder, reports, dirs, journal, committed, job>>

CommitCache(r) ==
    /\ pc[r] = "cache"
    /\ journal' = TRUE
    /\ GoTo(r, "commit")
    /\ UNCHANGED <<holder, reports, index, dirs, committed, job>>

Commit(r) ==
    /\ pc[r] = "commit" /\ Made(job[r].own)
    /\ Put(job[r].own, [dirs[job[r].own] EXCEPT !.state = "committed"])
    /\ committed' = committed \cup {job[r].date}
    /\ GoTo(r, "finish")
    /\ UNCHANGED <<holder, reports, index, journal, job>>

FinishCache(r) ==
    /\ pc[r] = "finish" /\ job[r].kind = "service" /\ journal
    /\ journal' = FALSE
    /\ UNCHANGED <<holder, reports, index, dirs, committed, pc, job>>

\* The directory is removed and the locks are released.
Finish(r) ==
    /\ pc[r] = "finish" /\ ~(job[r].kind = "service" /\ journal)
    /\ Put(job[r].own, Nothing)
    /\ Leave(r)
    /\ UNCHANGED <<reports, index, journal, committed>>

-----------------------------------------------------------------------------
(* Failures *)

\* A failure before the commit: the cache is rolled back, then the publication.
RollBack(r) ==
    /\ pc[r] \in Publishing \ {"finish"} /\ Made(job[r].own)
    /\ IF pc[r] = "record" THEN UNCHANGED <<reports, index>> ELSE Restore(dirs[job[r].own])
    /\ Put(job[r].own, Nothing)
    /\ journal' = (journal /\ job[r].kind # "service")
    /\ Leave(r)
    /\ UNCHANGED committed

\* A death, or a failure that cannot be undone: what is on disk stays there.
Abandon(r) ==
    /\ pc[r] # "idle"
    /\ Leave(r)
    /\ UNCHANGED site

\* A load or store of somebody who takes no other lock.
StrangerEnters ==
    /\ holder[CacheLock] = Nobody
    /\ holder' = [holder EXCEPT ![CacheLock] = Stranger]
    /\ UNCHANGED <<site, pc, job>>

StrangerLeaves ==
    /\ holder[CacheLock] = Stranger
    /\ holder' = [holder EXCEPT ![CacheLock] = Nobody]
    /\ UNCHANGED <<site, pc, job>>

-----------------------------------------------------------------------------

\* What a run does of itself.
Continue(r) ==
    \/ NothingPending(r) \/ Look(r)
    \/ \E s \in Slot : SkipDirectory(r, s) \/ FindManifest(r, s)
    \/ ReadManifest(r) \/ ManifestVanished(r)
    \/ TryLocks(r) \/ TryNext(r) \/ PassRecovery(r) \/ GiveUp(r) \/ RecoverIdle(r)
    \/ LockNext(r) \/ RecoverLocked(r)
    \/ RecoverCache(r) \/ LeaveIdleRecovery(r) \/ Proceed(r)
    \/ \E s \in Slot : DiscardMade(r, s) \/ ReleaseCommitted(r, s) \/ RestoreRecorded(r, s)
    \/ Fetch(r) \/ (\E s \in Slot : Make(r, s)) \/ Record(r) \/ PublishReport(r)
    \/ PublishIndex(r) \/ CommitCache(r) \/ Commit(r) \/ FinishCache(r) \/ Finish(r)

Next ==
    \/ \E r \in Run :
        \/ \E date \in Date, kind \in Kind : Start(r, date, kind)
        \/ Continue(r) \/ RollBack(r) \/ Abandon(r)
    \/ StrangerEnters \/ StrangerLeaves

Spec == Init /\ [][Next]_vars

-----------------------------------------------------------------------------
(* Properties *)

TypeOK ==
    /\ holder \in [Lock -> Run \cup {Nobody, Stranger}]
    /\ reports \subseteq Date /\ index \subseteq Date /\ committed \subseteq Date
    /\ dirs \in [Slot -> Directory \cup {Nothing}]
    /\ journal \in BOOLEAN
    /\ pc \in [Run -> Step]
    /\ job \in [Run -> Job]

\* "A failed date publication cannot roll back another date": whatever runs of other
\* dates fail, die or recover, the report of a committed date is there and the index
\* lists it.
CommittedStays == committed \subseteq reports \cap index

\* When no transaction is left, the index lists exactly the reports there are.
IndexListsReports == (\A s \in Slot : ~Made(s)) => index = reports

\* Recovery never meets more than one directory, far from the limit at which it
\* refuses: whoever makes one has recovered the one before.
OneTransaction == \A s, t \in Slot : Made(s) /\ Made(t) => s = t

\* Responses are fetched through a cache that holds no half of an interrupted batch,
\* and for a report that no interrupted publication of any date can disturb.
FetchesRecovered ==
    \A r \in Run : pc[r] = "fetch" => ~journal /\ \A s \in Slot : ~Made(s)

-----------------------------------------------------------------------------
(* What the properties rest on *)

AtWork == Recovering \cup Publishing \cup {"fetch", "make"}

\* The locks a run holds come before those it needs, and at work it has all.
LockInv(r) ==
    /\ \A l, m \in Lock : holder[l] = r /\ m \in job[r].need => l < m
    /\ \A l \in Lock : holder[l] = r => pc[r] \in Locking \cup AtWork
    /\ pc[r] \in Locking => Site \in job[r].need \/ holder[Site] = r
    /\ pc[r] \in AtWork => holder[Site] = r

\* Without a transaction the index is right; with one, the old or the new index and
\* report are in place, and no committed date is missing from either.
RecordInv(s) ==
    LET dir == dirs[s]
    IN  /\ dir.state = "made" => index = reports
        /\ dir.state # "made" =>
            /\ dir.after = dir.before \cup {dir.date}
            /\ dir.existed = (dir.date \in dir.before)
            /\ committed \subseteq dir.after
            /\ reports \in {dir.before, dir.after} /\ index \in {dir.before, dir.after}
        /\ dir.state = "recorded" => committed \subseteq dir.before
        /\ dir.state = "committed" => reports = dir.after /\ index = dir.after

SiteInv ==
    /\ CommittedStays /\ IndexListsReports /\ OneTransaction
    /\ \A s \in Slot : Made(s) => RecordInv(s)

\* A run that publishes owns the transaction there is, which is as far as it is.
OwnInv(r) ==
    LET s == job[r].own
    IN  /\ pc[r] \in {"fetch", "make"} => \A t \in Slot : ~Made(t)
        /\ pc[r] = "fetch" => ~journal
        /\ pc[r] \in Publishing \cup {"read"} => s \in Slot
        /\ pc[r] \in Publishing => Made(s) /\ dirs[s].date = job[r].date
        /\ pc[r] = "record" => dirs[s].state = "made"
        /\ pc[r] \in Publishing \ {"record", "finish"} => dirs[s].state = "recorded"
        /\ pc[r] = "finish" => dirs[s].state = "committed"
        /\ pc[r] \in {"index", "cache", "commit"} => reports = dirs[s].after
        /\ pc[r] \in {"cache", "commit"} => index = dirs[s].after

IInv ==
    /\ TypeOK /\ SiteInv
    /\ \A r \in Run : LockInv(r) /\ OwnInv(r)
=============================================================================
