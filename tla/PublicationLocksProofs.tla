----------------------- MODULE PublicationLocksProofs -----------------------
(***************************************************************************)
(* That IInv is an invariant of the runs of several dates.                 *)
(***************************************************************************)
EXTENDS PublicationLocks, TLAPS

USE SiteType, DateType, SlotType, RunType, NothingType

LEMMA BlankIsJob == Blank \in Job
<1>1. (CHOOSE d \in Date : TRUE) \in Date
    OBVIOUS
<1>2. QED
    BY <1>1 DEF Blank, Job, Kind

\* What the invariant says of a site depends on the site alone.
LEMMA SiteKept ==
    ASSUME SiteInv, UNCHANGED site
    PROVE  SiteInv'
BY DEF SiteInv, site, CommittedStays, IndexListsReports, OneTransaction, Made, RecordInv

\* Whoever holds the site's lock is alone at work: what it does to the site disturbs
\* no other run.
LEMMA OthersKeep ==
    ASSUME IInv, NEW r \in Run, NEW q \in Run \ {r},
           pc'[q] = pc[q], job'[q] = job[q],
           \A l \in Lock : holder'[l] = q <=> holder[l] = q,
           pc[r] \in AtWork \/ UNCHANGED site
    PROVE  LockInv(q)' /\ OwnInv(q)'
<1>1. LockInv(q) /\ OwnInv(q) /\ LockInv(r)
    BY DEF IInv
<1>2. Site \in Lock
    BY DEF Lock
<1>3. LockInv(q)'
    BY <1>1, <1>2 DEF LockInv
<1>4. CASE pc[r] \in AtWork
    <2>1. pc'[q] \notin AtWork
        BY <1>1, <1>4 DEF LockInv
    <2>2. QED
        BY <1>1, <1>3, <2>1 DEF OwnInv, AtWork, Publishing
<1>5. CASE UNCHANGED site
    BY <1>1, <1>3, <1>5 DEF OwnInv, Made, site
<1>6. QED
    BY <1>4, <1>5

\* A step of one run: what is left to show is what the invariant says of that run.
LEMMA RunStep ==
    ASSUME IInv, NEW r \in Run, TypeOK',
           \A q \in Run \ {r} : pc'[q] = pc[q] /\ job'[q] = job[q],
           \A q \in Run \ {r}, l \in Lock : holder'[l] = q <=> holder[l] = q,
           pc[r] \in AtWork \/ UNCHANGED site,
           SiteInv', LockInv(r)', OwnInv(r)'
    PROVE  IInv'
<1>1. \A q \in Run \ {r} : LockInv(q)' /\ OwnInv(q)'
    BY OthersKeep
<1>2. QED
    BY <1>1 DEF IInv

-----------------------------------------------------------------------------

THEOREM InitInv == Init => IInv
<1> SUFFICES ASSUME Init PROVE IInv
    OBVIOUS
<1>1. TypeOK
    BY BlankIsJob DEF Init, TypeOK, Step
<1>2. SiteInv
    BY DEF Init, SiteInv, CommittedStays, IndexListsReports, OneTransaction, Made
<1>3. ASSUME NEW r \in Run PROVE LockInv(r) /\ OwnInv(r)
    BY <1>3 DEF Init, LockInv, OwnInv, Locking, AtWork, Recovering, Publishing
<1>4. QED
    BY <1>1, <1>2, <1>3 DEF IInv

-----------------------------------------------------------------------------
(* Steps that end a run or take it from its locks to waiting for others *)

\* A run that gives its locks up and goes back to the start.
LEMMA Left ==
    ASSUME IInv, NEW r \in Run, Leave(r), pc[r] \in AtWork \/ UNCHANGED site, SiteInv',
           reports' \subseteq Date, index' \subseteq Date, committed' \subseteq Date,
           dirs' \in [Slot -> Directory \cup {Nothing}], journal' \in BOOLEAN
    PROVE  IInv'
<1>1. TypeOK
    BY DEF IInv
<1>2. /\ holder' = [l \in Lock |-> IF holder[l] = r THEN Nobody ELSE holder[l]]
      /\ pc' = [pc EXCEPT ![r] = "idle"]
      /\ job' = [job EXCEPT ![r] = Blank]
    BY DEF Leave, ReleaseLocks, GoTo
<1>3. TypeOK'
    BY <1>1, <1>2, BlankIsJob DEF TypeOK, Step
<1>4. pc'[r] = "idle" /\ \A l \in Lock : holder'[l] # r
    BY <1>1, <1>2 DEF TypeOK
<1>5. LockInv(r)' /\ OwnInv(r)'
    <2>1. LockInv(r)'
        BY <1>4 DEF LockInv, Locking, AtWork, Recovering, Publishing
    <2>2. OwnInv(r)'
        BY <1>4 DEF OwnInv, Publishing
    <2>3. QED
        BY <2>1, <2>2
<1>6. \A q \in Run \ {r} : pc'[q] = pc[q] /\ job'[q] = job[q]
    BY <1>1, <1>2 DEF TypeOK
<1>7. \A q \in Run \ {r}, l \in Lock : holder'[l] = q <=> holder[l] = q
    BY <1>1, <1>2
<1>8. QED
    BY <1>3, <1>5, <1>6, <1>7, RunStep

\* A run that gives its locks up and waits for those of its publication.
LEMMA Queued ==
    ASSUME IInv, NEW r \in Run, ToPublicationLock(r), UNCHANGED site,
           ReleaseLocks(r) \/ (UNCHANGED holder /\ \A l \in Lock : holder[l] # r)
    PROVE  IInv'
<1>1. TypeOK
    BY DEF IInv
<1>2. /\ pc' = [pc EXCEPT ![r] = "locking"]
      /\ job' = [job EXCEPT ![r] = [@ EXCEPT !.need = PublicationLock(r), !.dates = {}]]
    BY <1>1 DEF ToPublicationLock, GoTo, TypeOK, Job
<1>3. job[r] \in Job /\ PublicationLock(r) \subseteq Lock
    BY <1>1 DEF TypeOK, Job, PublicationLock, CacheLockOf, Lock
<1>4. [job[r] EXCEPT !.need = PublicationLock(r), !.dates = {}] \in Job
    BY <1>3 DEF Job
<1>5. /\ holder' \in [Lock -> Run \cup {Nobody, Stranger}]
      /\ \A l \in Lock : holder'[l] # r
      /\ \A q \in Run \ {r}, l \in Lock : holder'[l] = q <=> holder[l] = q
    BY <1>1 DEF ReleaseLocks, TypeOK
<1>6. TypeOK'
    <2>1. job' \in [Run -> Job] /\ pc' \in [Run -> Step]
        BY <1>1, <1>2, <1>4 DEF TypeOK, Step, Locking
    <2>2. QED
        BY <1>1, <1>5, <2>1 DEF TypeOK, site
<1>7. pc'[r] = "locking" /\ job'[r].need = PublicationLock(r)
    BY <1>1, <1>2, <1>3 DEF TypeOK, Job
<1>8. LockInv(r)'
    BY <1>5, <1>7 DEF LockInv, Locking, AtWork, Recovering, Publishing, PublicationLock
<1>9. OwnInv(r)'
    BY <1>7 DEF OwnInv, Publishing
<1>10. SiteInv'
    BY SiteKept DEF IInv
<1>11. \A q \in Run \ {r} : pc'[q] = pc[q] /\ job'[q] = job[q]
    BY <1>1, <1>2 DEF TypeOK
<1>12. QED
    BY <1>5, <1>6, <1>8, <1>9, <1>10, <1>11, RunStep

\* A run that holds no lock goes on, at most to taking locks, the site's among them.
LEMMA Unlocked ==
    ASSUME IInv, NEW r \in Run, NEW step \in Step, NEW j \in Job, UNCHANGED <<holder, site>>,
           pc' = [pc EXCEPT ![r] = step], job' = [job EXCEPT ![r] = j],
           pc[r] \notin Locking \cup AtWork, step \notin AtWork,
           step \in Locking => Site \in j.need, step = "read" => j.own \in Slot
    PROVE  IInv'
<1>1. TypeOK /\ LockInv(r)
    BY DEF IInv
<1>2. TypeOK'
    BY <1>1 DEF TypeOK, site
<1>3. pc'[r] = step /\ job'[r] = j
    BY <1>1 DEF TypeOK
<1>4. \A l \in Lock : holder'[l] # r
    BY <1>1 DEF LockInv
<1>5. LockInv(r)'
    BY <1>3, <1>4 DEF LockInv
<1>6. OwnInv(r)'
    BY <1>3 DEF OwnInv, AtWork, Publishing
<1>7. SiteInv'
    BY SiteKept DEF IInv
<1>8. \A q \in Run \ {r} : pc'[q] = pc[q] /\ job'[q] = job[q]
    BY <1>1 DEF TypeOK
<1>9. QED
    BY <1>2, <1>5, <1>6, <1>7, <1>8, RunStep

\* A run at work changes the site and its own step.
LEMMA Worked ==
    ASSUME IInv, NEW r \in Run, NEW step \in AtWork, UNCHANGED holder,
           pc[r] \in AtWork, pc' = [pc EXCEPT ![r] = step],
           \/ UNCHANGED job
           \/ \E s \in Slot : job' = [job EXCEPT ![r] = [job[r] EXCEPT !.own = s]],
           reports' \subseteq Date, index' \subseteq Date, committed' \subseteq Date,
           dirs' \in [Slot -> Directory \cup {Nothing}], journal' \in BOOLEAN,
           SiteInv', OwnInv(r)'
    PROVE  IInv'
<1>1. TypeOK /\ LockInv(r)
    BY DEF IInv
<1>2. job[r] \in Job
    BY <1>1 DEF TypeOK
<1>3. \A s \in Slot : [job[r] EXCEPT !.own = s] \in Job
    BY <1>2 DEF Job
<1>4. job' \in [Run -> Job]
    BY <1>1, <1>3 DEF TypeOK
<1>5. pc' \in [Run -> Step]
    BY <1>1 DEF TypeOK, Step, AtWork
<1>6. TypeOK'
    BY <1>1, <1>4, <1>5 DEF TypeOK
<1>7. \A q \in Run \ {r} : pc'[q] = pc[q] /\ job'[q] = job[q]
    BY <1>1 DEF TypeOK
<1>8. job'[r].need = job[r].need
    BY <1>1, <1>2 DEF TypeOK, Job
<1>9. pc'[r] = step
    BY <1>1 DEF TypeOK
<1>10. step \notin Locking
    BY DEF Locking, AtWork, Recovering, Publishing
<1>11. holder[Site] = r
    BY <1>1 DEF LockInv
<1>12. LockInv(r)'
    BY <1>1, <1>8, <1>9, <1>10, <1>11 DEF LockInv
<1>13. QED
    BY <1>6, <1>7, <1>12, RunStep

\* Taking a lock: those held still come before those needed.
LEMMA Acquired ==
    ASSUME IInv, NEW r \in Run, NEW l \in Lock, pc[r] \in Locking,
           IsNext(r, l), Acquire(r, l), UNCHANGED <<site, pc>>
    PROVE  IInv'
<1>1. TypeOK /\ LockInv(r)
    BY DEF IInv
<1>2. job[r] \in Job /\ job[r].need \subseteq Lock
    BY <1>1 DEF TypeOK, Job
<1>3. /\ holder' = [holder EXCEPT ![l] = r]
      /\ job' = [job EXCEPT ![r] = [job[r] EXCEPT !.need = @ \ {l}]]
    BY <1>1, <1>2 DEF Acquire, TypeOK, Job
<1>4. [job[r] EXCEPT !.need = @ \ {l}] \in Job
    BY <1>2 DEF Job
<1>5. job' \in [Run -> Job]
    BY <1>1, <1>3, <1>4 DEF TypeOK
<1>6. TypeOK'
    BY <1>1, <1>3, <1>5 DEF TypeOK, site
<1>7. job'[r].need = job[r].need \ {l}
    BY <1>1, <1>2, <1>3 DEF TypeOK, Job
<1>8. Lock \subseteq Nat
    BY DEF Lock, CacheLock
<1>9. \A m, n \in Lock : holder'[m] = r /\ n \in job'[r].need => m < n
    <2> SUFFICES ASSUME NEW m \in Lock, NEW n \in Lock, holder'[m] = r, n \in job'[r].need
                 PROVE  m < n
        OBVIOUS
    <2>1. n \in job[r].need /\ n # l
        BY <1>7
    <2>2. CASE m = l
        BY <1>8, <2>1, <2>2 DEF IsNext
    <2>3. CASE m # l
        <3>1. holder[m] = r
            BY <1>1, <1>3, <2>3 DEF TypeOK
        <3>2. QED
            BY <1>1, <2>1, <3>1 DEF LockInv
    <2>4. QED
        BY <2>2, <2>3
<1>10. Site \in job'[r].need \/ holder'[Site] = r
    BY <1>1, <1>3, <1>7 DEF LockInv, TypeOK
<1>11. pc'[r] \in Locking /\ pc'[r] \notin AtWork
    BY DEF Locking, AtWork, Recovering, Publishing
<1>12. LockInv(r)'
    BY <1>9, <1>10, <1>11 DEF LockInv
<1>13. OwnInv(r)'
    BY <1>11 DEF OwnInv, Locking, AtWork, Publishing
<1>14. SiteInv'
    BY SiteKept DEF IInv
<1>15. \A q \in Run \ {r} : pc'[q] = pc[q] /\ job'[q] = job[q]
    BY <1>1, <1>3 DEF TypeOK
<1>16. \A q \in Run \ {r}, m \in Lock : holder'[m] = q <=> holder[m] = q
    BY <1>1, <1>3 DEF Acquire, TypeOK
<1>17. QED
    BY <1>6, <1>12, <1>13, <1>14, <1>15, <1>16, RunStep

-----------------------------------------------------------------------------
(* The site *)

\* The transaction there was is gone.
LEMMA Emptied ==
    ASSUME TypeOK, SiteInv, NEW s \in Slot, Made(s), Put(s, Nothing),
           index' = reports', committed' \subseteq reports'
    PROVE  SiteInv' /\ \A t \in Slot : ~Made(t)'
<1>1. \A t \in Slot : ~Made(t)'
    BY DEF TypeOK, SiteInv, OneTransaction, Made, Put
<1>2. QED
    BY <1>1 DEF SiteInv, CommittedStays, IndexListsReports, OneTransaction

\* The transaction there is, or a first one, is as far as dir says.
LEMMA Refilled ==
    ASSUME TypeOK, NEW s \in Slot, \A t \in Slot : Made(t) => t = s, NEW dir \in Directory,
           Put(s, dir), committed' \subseteq reports' \cap index', RecordInv(s)'
    PROVE  SiteInv' /\ Made(s)' /\ dirs'[s] = dir
<1>1. \A t \in Slot : Made(t)' <=> t = s
    BY DEF TypeOK, Made, Put
<1>2. dirs'[s] = dir
    BY DEF TypeOK, Put
<1>3. QED
    BY <1>1, <1>2 DEF SiteInv, CommittedStays, IndexListsReports, OneTransaction

-----------------------------------------------------------------------------
(* Recovery *)

LEMMA RecoverSteps ==
    ASSUME IInv, NEW r \in Run, pc[r] \in Recovering,
           UNCHANGED <<holder, committed, pc, job>>,
           reports' \subseteq Date, index' \subseteq Date, journal' \in BOOLEAN,
           dirs' \in [Slot -> Directory \cup {Nothing}], SiteInv'
    PROVE  IInv'
<1>1. TypeOK
    BY DEF IInv
<1>2. pc[r] \in AtWork /\ pc' = [pc EXCEPT ![r] = pc[r]]
    BY <1>1 DEF TypeOK, AtWork
<1>3. OwnInv(r)'
    BY DEF OwnInv, Recovering, Publishing
<1>4. committed' \subseteq Date
    BY <1>1 DEF TypeOK
<1>5. QED
    BY <1>2, <1>3, <1>4, Worked

LEMMA RecoverCacheStep ==
    ASSUME IInv, NEW r \in Run, RecoverCache(r)
    PROVE  IInv'
<1>1. TypeOK /\ SiteInv
    BY DEF IInv
<1>2. SiteInv'
    BY <1>1 DEF RecoverCache, SiteInv, CommittedStays, IndexListsReports, OneTransaction, Made, RecordInv
<1>3. QED
    BY <1>1, <1>2, RecoverSteps DEF RecoverCache, TypeOK

\* Whichever way a directory goes, the reports and the index agree afterwards.
LEMMA DiscardStep ==
    ASSUME IInv, NEW r \in Run, NEW s \in Slot,
           DiscardMade(r, s) \/ ReleaseCommitted(r, s) \/ RestoreRecorded(r, s)
    PROVE  IInv'
<1>1. TypeOK /\ SiteInv
    BY DEF IInv
<1>2. Made(s) /\ dirs[s] \in Directory /\ RecordInv(s)
    BY <1>1 DEF DiscardMade, ReleaseCommitted, RestoreRecorded, SiteInv, TypeOK, Made
<1>3. /\ pc[r] \in Recovering /\ UNCHANGED <<holder, journal, committed, pc, job>>
      /\ Put(s, Nothing)
    BY DEF DiscardMade, ReleaseCommitted, RestoreRecorded, CacheRecovered
<1>4. dirs' \in [Slot -> Directory \cup {Nothing}] /\ journal' \in BOOLEAN
    BY <1>1, <1>3 DEF TypeOK, Put
<1>5. /\ reports' \subseteq Date /\ index' = reports'
      /\ committed' \subseteq reports'
    <2>1. CASE DiscardMade(r, s)
        BY <1>1, <1>2, <2>1 DEF DiscardMade, RecordInv, SiteInv, CommittedStays, TypeOK
    <2>2. CASE ReleaseCommitted(r, s)
        BY <1>1, <1>2, <2>2 DEF ReleaseCommitted, RecordInv, SiteInv, CommittedStays, TypeOK
    <2>3. CASE RestoreRecorded(r, s)
        <3>1. /\ dirs[s].after = dirs[s].before \cup {dirs[s].date}
              /\ dirs[s].existed = (dirs[s].date \in dirs[s].before)
              /\ reports \in {dirs[s].before, dirs[s].after}
              /\ committed \subseteq dirs[s].before
            BY <1>2, <2>3 DEF RestoreRecorded, RecordInv
        <3>2. dirs[s].before \subseteq Date
            BY <1>2 DEF Directory
        <3>3. /\ index' = dirs[s].before
              /\ reports' = IF dirs[s].existed THEN reports \cup {dirs[s].date}
                                               ELSE reports \ {dirs[s].date}
            BY <2>3 DEF RestoreRecorded, Restore
        <3>4. reports' = dirs[s].before
            BY <3>1, <3>3
        <3>5. QED
            BY <1>3, <3>1, <3>2, <3>3, <3>4
    <2>4. QED
        BY <2>1, <2>2, <2>3
<1>6. SiteInv'
    BY <1>1, <1>2, <1>3, <1>5, Emptied
<1>7. QED
    BY <1>3, <1>4, <1>5, <1>6, RecoverSteps

-----------------------------------------------------------------------------
(* The publication *)

LEMMA MakeStep ==
    ASSUME IInv, NEW r \in Run, NEW s \in Slot, Make(r, s)
    PROVE  IInv'
<1> DEFINE dir == [date |-> job[r].date, state |-> "made", existed |-> FALSE,
                   before |-> {}, after |-> {}]
<1>1. TypeOK /\ SiteInv /\ OwnInv(r)
    BY DEF IInv
<1>2. /\ pc[r] = "make" /\ Put(s, dir) /\ pc' = [pc EXCEPT ![r] = "record"]
      /\ UNCHANGED <<holder, reports, index, journal, committed>>
    BY DEF Make, GoTo
<1>3. job[r] \in Job
    BY <1>1 DEF TypeOK
<1>4. job' = [job EXCEPT ![r] = [job[r] EXCEPT !.own = s]]
    BY <1>1, <1>3 DEF Make, TypeOK, Job
<1>5. dir \in Directory
    BY <1>3 DEF Job, Directory
<1>6. \A t \in Slot : ~Made(t)
    BY <1>1, <1>2 DEF OwnInv
<1>7. index = reports
    BY <1>1, <1>6 DEF SiteInv, IndexListsReports
<1>8. dirs'[s] = dir
    BY <1>1, <1>2 DEF TypeOK, Put
<1>9. RecordInv(s)'
    BY <1>2, <1>7, <1>8 DEF RecordInv
<1>10. committed' \subseteq reports' \cap index'
    BY <1>1, <1>2 DEF SiteInv, CommittedStays
<1> HIDE DEF dir
<1>11. SiteInv' /\ Made(s)'
    BY <1>1, <1>2, <1>5, <1>6, <1>9, <1>10, Refilled
<1>12. pc'[r] = "record" /\ job'[r].own = s /\ job'[r].date = job[r].date
    BY <1>1, <1>2, <1>3, <1>4 DEF TypeOK, Job
<1>13. OwnInv(r)'
    BY <1>8, <1>11, <1>12 DEF OwnInv, dir, Publishing
<1>14. dirs' \in [Slot -> Directory \cup {Nothing}]
    BY <1>1, <1>2, <1>5 DEF TypeOK, Put
<1>15. "record" \in AtWork /\ pc[r] \in AtWork
    BY <1>2 DEF AtWork, Publishing
<1>16. QED
    BY <1>1, <1>2, <1>4, <1>11, <1>13, <1>14, <1>15, Worked DEF TypeOK

\* What a run that publishes knows of its directory.
LEMMA Owned ==
    ASSUME IInv, NEW r \in Run, pc[r] \in Publishing
    PROVE  /\ job[r].own \in Slot /\ Made(job[r].own) /\ dirs[job[r].own] \in Directory
           /\ dirs[job[r].own].date = job[r].date /\ job[r].date \in Date
           /\ RecordInv(job[r].own)
           /\ \A t \in Slot : Made(t) => t = job[r].own
           /\ committed \subseteq reports \cap index
<1>1. TypeOK /\ SiteInv /\ OwnInv(r)
    BY DEF IInv
<1>2. job[r].own \in Slot /\ Made(job[r].own) /\ dirs[job[r].own].date = job[r].date
    BY <1>1 DEF OwnInv
<1>3. job[r].date \in Date
    BY <1>1 DEF TypeOK, Job
<1>4. dirs[job[r].own] \in Directory
    BY <1>1, <1>2 DEF TypeOK, Made
<1>5. RecordInv(job[r].own) /\ committed \subseteq reports \cap index
    BY <1>1, <1>2 DEF SiteInv, CommittedStays
<1>6. \A t \in Slot : Made(t) => t = job[r].own
    BY <1>1, <1>2 DEF SiteInv, OneTransaction
<1>7. QED
    BY <1>2, <1>3, <1>4, <1>5, <1>6

\* A step of the publication that leaves the run with a directory as it should be.
LEMMA PublishSteps ==
    ASSUME IInv, NEW r \in Run, pc[r] \in Publishing, NEW step \in Publishing,
           pc' = [pc EXCEPT ![r] = step], UNCHANGED <<holder, job>>,
           NEW s \in Slot, s = job[r].own,
           NEW dir \in Directory, dir.date = job[r].date, Put(s, dir),
           reports' \subseteq Date, index' \subseteq Date, committed' \subseteq Date,
           journal' \in BOOLEAN, committed' \subseteq reports' \cap index',
           RecordInv(s)',
           step = "record" => dir.state = "made",
           step \in Publishing \ {"record", "finish"} => dir.state = "recorded",
           step = "finish" => dir.state = "committed",
           step \in {"index", "cache", "commit"} => reports' = dir.after,
           step \in {"cache", "commit"} => index' = dir.after
    PROVE  IInv'
<1>1. TypeOK
    BY DEF IInv
<1>2. \A t \in Slot : Made(t) => t = s
    BY Owned
<1>3. pc'[r] = step /\ job'[r].own = s /\ job'[r].date = job[r].date
    BY <1>1 DEF TypeOK
<1>4. SiteInv' /\ Made(s)' /\ dirs'[s] = dir
    BY <1>1, <1>2, Refilled
<1>5. OwnInv(r)'
    BY <1>3, <1>4 DEF OwnInv, Publishing
<1>6. dirs' \in [Slot -> Directory \cup {Nothing}]
    BY <1>1 DEF TypeOK, Put
<1>7. step \in AtWork /\ pc[r] \in AtWork
    BY DEF AtWork
<1>8. QED
    BY <1>4, <1>5, <1>6, <1>7, Worked

LEMMA RecordStep ==
    ASSUME IInv, NEW r \in Run, Record(r)
    PROVE  IInv'
<1> DEFINE date == job[r].date
           dir == [date |-> date, state |-> "recorded", existed |-> date \in reports,
                   before |-> index, after |-> NewIndex(date)]
<1>1. pc[r] = "record" /\ pc[r] \in Publishing
    BY DEF Record, Publishing
<1>2. TypeOK /\ OwnInv(r)
    BY DEF IInv
<1>3. PICK s \in Slot : s = job[r].own
    BY <1>1, Owned
<1>4. dirs[s].state = "made" /\ RecordInv(s) /\ committed \subseteq reports \cap index
    BY <1>1, <1>2, <1>3, Owned DEF OwnInv
<1>5. index = reports
    BY <1>4 DEF RecordInv
<1>6. /\ Put(s, dir) /\ pc' = [pc EXCEPT ![r] = "report"]
      /\ UNCHANGED <<holder, reports, index, journal, committed, job>>
    BY <1>3 DEF Record, GoTo
<1>7. date \in Date
    BY <1>1, Owned
<1>8. dir \in Directory
    <2>1. index \subseteq Date /\ NewIndex(date) \subseteq Date
        BY <1>2, <1>7 DEF NewIndex, TypeOK
    <2>2. (date \in reports) \in BOOLEAN
        OBVIOUS
    <2>3. QED
        BY <1>7, <2>1, <2>2 DEF Directory
<1>9. dirs'[s] = dir
    BY <1>2, <1>6 DEF TypeOK, Put
<1>10. RecordInv(s)'
    BY <1>4, <1>5, <1>6, <1>9 DEF RecordInv, NewIndex
<1>11. dir.date = job[r].date /\ dir.state = "recorded"
    OBVIOUS
<1> HIDE DEF dir, date
<1>12. QED
    BY <1>1, <1>2, <1>3, <1>4, <1>6, <1>8, <1>10, <1>11, PublishSteps DEF Publishing, TypeOK

LEMMA PublishReportStep ==
    ASSUME IInv, NEW r \in Run, PublishReport(r)
    PROVE  IInv'
<1>1. pc[r] = "report" /\ pc[r] \in Publishing
    BY DEF PublishReport, Publishing
<1>2. TypeOK /\ OwnInv(r)
    BY DEF IInv
<1>3. PICK s \in Slot : s = job[r].own
    BY <1>1, Owned
<1>4. /\ dirs[s] \in Directory /\ dirs[s].state = "recorded" /\ RecordInv(s)
      /\ dirs[s].date = job[r].date /\ job[r].date \in Date
      /\ committed \subseteq reports \cap index
    BY <1>1, <1>2, <1>3, Owned DEF OwnInv, Publishing
<1>5. /\ reports' = reports \cup {job[r].date} /\ pc' = [pc EXCEPT ![r] = "index"]
      /\ UNCHANGED <<holder, index, dirs, journal, committed, job>>
    BY DEF PublishReport, GoTo
<1>6. Put(s, dirs[s])
    BY <1>2, <1>5 DEF Put, TypeOK
<1>7. reports' = dirs[s].after
    BY <1>4, <1>5 DEF RecordInv
<1>8. RecordInv(s)'
    BY <1>4, <1>5, <1>7 DEF RecordInv
<1>9. reports' \subseteq Date /\ committed' \subseteq reports' \cap index'
    BY <1>2, <1>4, <1>5 DEF TypeOK
<1>10. QED
    BY <1>1, <1>2, <1>3, <1>4, <1>5, <1>6, <1>7, <1>8, <1>9, PublishSteps DEF Publishing, TypeOK

LEMMA PublishIndexStep ==
    ASSUME IInv, NEW r \in Run, PublishIndex(r)
    PROVE  IInv'
<1>1. pc[r] = "index" /\ pc[r] \in Publishing
    BY DEF PublishIndex, Publishing
<1>2. TypeOK /\ OwnInv(r)
    BY DEF IInv
<1>3. PICK s \in Slot : s = job[r].own
    BY <1>1, Owned
<1>4. /\ dirs[s] \in Directory /\ dirs[s].state = "recorded" /\ RecordInv(s)
      /\ dirs[s].date = job[r].date /\ reports = dirs[s].after
      /\ committed \subseteq reports \cap index
    BY <1>1, <1>2, <1>3, Owned DEF OwnInv, Publishing
<1>5. PICK step \in {"cache", "commit"} : pc' = [pc EXCEPT ![r] = step]
    BY DEF PublishIndex, GoTo
<1>6. /\ index' = dirs[s].after
      /\ UNCHANGED <<holder, reports, dirs, journal, committed, job>>
    BY <1>3 DEF PublishIndex
<1>7. Put(s, dirs[s])
    BY <1>2, <1>6 DEF Put, TypeOK
<1>8. RecordInv(s)'
    BY <1>4, <1>6 DEF RecordInv
<1>9. index' \subseteq Date /\ committed' \subseteq reports' \cap index'
    BY <1>2, <1>4, <1>6 DEF TypeOK
<1>10. QED
    BY <1>1, <1>2, <1>3, <1>4, <1>5, <1>6, <1>7, <1>8, <1>9, PublishSteps DEF Publishing, TypeOK

LEMMA CommitCacheStep ==
    ASSUME IInv, NEW r \in Run, CommitCache(r)
    PROVE  IInv'
<1>1. pc[r] = "cache" /\ pc[r] \in Publishing
    BY DEF CommitCache, Publishing
<1>2. TypeOK /\ OwnInv(r)
    BY DEF IInv
<1>3. PICK s \in Slot : s = job[r].own
    BY <1>1, Owned
<1>4. /\ dirs[s] \in Directory /\ dirs[s].state = "recorded" /\ RecordInv(s)
      /\ dirs[s].date = job[r].date /\ reports = dirs[s].after /\ index = dirs[s].after
      /\ committed \subseteq reports \cap index
    BY <1>1, <1>2, <1>3, Owned DEF OwnInv, Publishing
<1>5. /\ journal' = TRUE /\ pc' = [pc EXCEPT ![r] = "commit"]
      /\ UNCHANGED <<holder, reports, index, dirs, committed, job>>
    BY DEF CommitCache, GoTo
<1>6. Put(s, dirs[s])
    BY <1>2, <1>5 DEF Put, TypeOK
<1>7. RecordInv(s)'
    BY <1>4, <1>5 DEF RecordInv
<1>8. QED
    BY <1>1, <1>2, <1>3, <1>4, <1>5, <1>6, <1>7, PublishSteps DEF Publishing, TypeOK

LEMMA CommitStep ==
    ASSUME IInv, NEW r \in Run, Commit(r)
    PROVE  IInv'
<1>1. pc[r] = "commit" /\ pc[r] \in Publishing
    BY DEF Commit, Publishing
<1>2. TypeOK /\ OwnInv(r)
    BY DEF IInv
<1>3. PICK s \in Slot : s = job[r].own
    BY <1>1, Owned
<1>4. /\ dirs[s] \in Directory /\ dirs[s].state = "recorded" /\ RecordInv(s)
      /\ dirs[s].date = job[r].date /\ reports = dirs[s].after /\ index = dirs[s].after
      /\ committed \subseteq reports \cap index /\ job[r].date \in Date
    BY <1>1, <1>2, <1>3, Owned DEF OwnInv, Publishing
<1> DEFINE dir == [dirs[s] EXCEPT !.state = "committed"]
<1>5. /\ committed' = committed \cup {job[r].date} /\ pc' = [pc EXCEPT ![r] = "finish"]
      /\ Put(s, dir) /\ UNCHANGED <<holder, reports, index, journal, job>>
    BY <1>3 DEF Commit, GoTo
<1>6. /\ dir \in Directory /\ dir.state = "committed" /\ dir.date = job[r].date
      /\ dir.before = dirs[s].before /\ dir.after = dirs[s].after
      /\ dir.existed = dirs[s].existed
    BY <1>4 DEF Directory
<1> HIDE DEF dir
<1>7. dirs'[s] = dir
    BY <1>2, <1>5 DEF TypeOK, Put
<1>8. job[r].date \in dirs[s].after
    BY <1>4 DEF RecordInv
<1>9. RecordInv(s)'
    BY <1>4, <1>5, <1>6, <1>7, <1>8 DEF RecordInv
<1>10. committed' \subseteq Date /\ committed' \subseteq reports' \cap index'
    BY <1>2, <1>4, <1>5, <1>8 DEF TypeOK
<1>11. QED
    BY <1>1, <1>2, <1>3, <1>5, <1>6, <1>9, <1>10, PublishSteps DEF Publishing, TypeOK

LEMMA FinishCacheStep ==
    ASSUME IInv, NEW r \in Run, FinishCache(r)
    PROVE  IInv'
<1>1. pc[r] = "finish" /\ pc[r] \in Publishing
    BY DEF FinishCache, Publishing
<1>2. TypeOK /\ OwnInv(r)
    BY DEF IInv
<1>3. PICK s \in Slot : s = job[r].own
    BY <1>1, Owned
<1>4. /\ dirs[s] \in Directory /\ dirs[s].state = "committed" /\ RecordInv(s)
      /\ dirs[s].date = job[r].date /\ committed \subseteq reports \cap index
    BY <1>1, <1>2, <1>3, Owned DEF OwnInv
<1>5. /\ journal' = FALSE /\ pc' = [pc EXCEPT ![r] = "finish"]
      /\ UNCHANGED <<holder, reports, index, dirs, committed, job>>
    BY <1>1, <1>2 DEF FinishCache, TypeOK
<1>6. Put(s, dirs[s])
    BY <1>2, <1>5 DEF Put, TypeOK
<1>7. RecordInv(s)'
    BY <1>4, <1>5 DEF RecordInv
<1>8. QED
    BY <1>1, <1>2, <1>3, <1>4, <1>5, <1>6, <1>7, PublishSteps DEF Publishing, TypeOK

LEMMA FinishStep ==
    ASSUME IInv, NEW r \in Run, Finish(r)
    PROVE  IInv'
<1>1. pc[r] = "finish" /\ pc[r] \in Publishing /\ pc[r] \in AtWork
    BY DEF Finish, Publishing, AtWork
<1>2. TypeOK /\ SiteInv /\ OwnInv(r)
    BY DEF IInv
<1>3. PICK s \in Slot : s = job[r].own
    BY <1>1, Owned
<1>4. Made(s) /\ RecordInv(s) /\ dirs[s].state = "committed" /\ committed \subseteq reports
    BY <1>1, <1>2, <1>3, Owned DEF OwnInv
<1>5. Put(s, Nothing) /\ Leave(r) /\ UNCHANGED <<reports, index, journal, committed>>
    BY <1>3 DEF Finish
<1>6. reports = index
    BY <1>4 DEF RecordInv
<1>7. SiteInv'
    BY <1>2, <1>4, <1>5, <1>6, Emptied
<1>8. dirs' \in [Slot -> Directory \cup {Nothing}]
    BY <1>2, <1>5 DEF TypeOK, Put
<1>9. QED
    BY <1>1, <1>2, <1>5, <1>7, <1>8, Left DEF TypeOK

LEMMA RollBackStep ==
    ASSUME IInv, NEW r \in Run, RollBack(r)
    PROVE  IInv'
<1>1. pc[r] \in Publishing \ {"finish"} /\ pc[r] \in AtWork
    BY DEF RollBack, AtWork
<1>2. TypeOK /\ SiteInv /\ OwnInv(r)
    BY DEF IInv
<1>3. PICK s \in Slot : s = job[r].own
    BY <1>1, Owned
<1>4. /\ Made(s) /\ RecordInv(s) /\ dirs[s] \in Directory
      /\ committed \subseteq reports \cap index
      /\ dirs[s].state = IF pc[r] = "record" THEN "made" ELSE "recorded"
    BY <1>1, <1>2, <1>3, Owned DEF OwnInv, Publishing
<1>5. /\ Put(s, Nothing) /\ Leave(r) /\ UNCHANGED committed
      /\ journal' = (journal /\ job[r].kind # "service")
    BY <1>3 DEF RollBack
<1>6. reports' \subseteq Date /\ index' = reports' /\ committed' \subseteq reports'
    <2>1. CASE pc[r] = "record"
        BY <1>2, <1>4, <1>5, <2>1 DEF RollBack, RecordInv, TypeOK
    <2>2. CASE pc[r] # "record"
        <3>1. /\ dirs[s].after = dirs[s].before \cup {dirs[s].date}
              /\ dirs[s].existed = (dirs[s].date \in dirs[s].before)
              /\ reports \in {dirs[s].before, dirs[s].after}
              /\ committed \subseteq dirs[s].before
            BY <1>4, <2>2 DEF RecordInv
        <3>2. dirs[s].before \subseteq Date
            BY <1>4 DEF Directory
        <3>3. /\ index' = dirs[s].before
              /\ reports' = IF dirs[s].existed THEN reports \cup {dirs[s].date}
                                               ELSE reports \ {dirs[s].date}
            BY <1>3, <2>2 DEF RollBack, Restore
        <3>4. reports' = dirs[s].before
            BY <3>1, <3>3
        <3>5. QED
            BY <1>5, <3>1, <3>2, <3>3, <3>4
    <2>3. QED
        BY <2>1, <2>2
<1>7. SiteInv'
    BY <1>2, <1>4, <1>5, <1>6, Emptied
<1>8. dirs' \in [Slot -> Directory \cup {Nothing}] /\ journal' \in BOOLEAN
    BY <1>2, <1>5 DEF TypeOK, Put
<1>9. committed' \subseteq Date
    BY <1>2, <1>5 DEF TypeOK
<1>10. QED
    BY <1>1, <1>5, <1>6, <1>7, <1>8, <1>9, Left

\* Giving up, failing or dying with the site as it is.
LEMMA LeaveStep ==
    ASSUME IInv, NEW r \in Run, ManifestVanished(r) \/ GiveUp(r) \/ Abandon(r)
    PROVE  IInv'
<1>1. Leave(r) /\ UNCHANGED site
    BY DEF ManifestVanished, GiveUp, Abandon
<1>2. TypeOK /\ SiteInv'
    BY <1>1, SiteKept DEF IInv
<1>3. /\ reports' \subseteq Date /\ index' \subseteq Date /\ committed' \subseteq Date
      /\ dirs' \in [Slot -> Directory \cup {Nothing}] /\ journal' \in BOOLEAN
    BY <1>1, <1>2 DEF TypeOK, site
<1>4. QED
    BY <1>1, <1>2, <1>3, Left

-----------------------------------------------------------------------------
(* Looking, waiting and going to work *)

LEMMA LookSteps ==
    ASSUME IInv, NEW r \in Run,
           \/ \E date \in Date, kind \in Kind : Start(r, date, kind)
           \/ Look(r) \/ ReadManifest(r) \/ TryLocks(r)
           \/ \E s \in Slot : SkipDirectory(r, s) \/ FindManifest(r, s)
    PROVE  IInv'
<1>1. TypeOK /\ job[r] \in Job
    BY DEF IInv, TypeOK
<1>2. ASSUME NEW date \in Date, NEW kind \in Kind, Start(r, date, kind) PROVE IInv'
    <2> DEFINE j == [Blank EXCEPT !.date = date, !.kind = kind]
    <2>1. j \in Job
        BY BlankIsJob DEF Job
    <2> HIDE DEF j
    <2>2. /\ pc' = [pc EXCEPT ![r] = "started"] /\ job' = [job EXCEPT ![r] = j]
          /\ pc[r] = "idle" /\ UNCHANGED <<holder, site>>
        BY <1>2 DEF Start, GoTo, j
    <2>3. QED
        BY <2>1, <2>2, Unlocked DEF Step, Locking, AtWork, Recovering, Publishing
<1>3. CASE Look(r)
    <2>1. PICK found \in SUBSET Slot, dates \in SUBSET Date, pending \in BOOLEAN :
              job' = [job EXCEPT ![r] = [job[r] EXCEPT !.found = found, !.pending = pending,
                                                       !.dates = dates]]
        <3> DEFINE pending == Cached(job[r].kind) /\ journal
                   found == {s \in Slot : Made(s)}
                   dates == IF pending THEN {job[r].date} ELSE {}
        <3>1. pending \in BOOLEAN /\ found \in SUBSET Slot /\ dates \in SUBSET Date
            BY <1>1 DEF Cached, TypeOK, Job
        <3>2. job' = [job EXCEPT ![r] = [job[r] EXCEPT !.found = found, !.pending = pending,
                                                       !.dates = dates]]
            BY <1>1, <1>3 DEF Look, TypeOK, Job
        <3>3. QED
            BY <3>1, <3>2
    <2>2. [job[r] EXCEPT !.found = found, !.pending = pending, !.dates = dates] \in Job
        BY <1>1 DEF Job
    <2>3. /\ pc' = [pc EXCEPT ![r] = "look"] /\ pc[r] = "started"
          /\ UNCHANGED <<holder, site>>
        BY <1>3 DEF Look, GoTo
    <2>4. QED
        BY <2>1, <2>2, <2>3, Unlocked DEF Step, Locking, AtWork, Recovering, Publishing
<1>4. CASE ReadManifest(r)
    <2>1. PICK found \in SUBSET Slot, dates \in SUBSET Date :
              job' = [job EXCEPT ![r] = [job[r] EXCEPT !.found = found, !.own = Nothing,
                                                       !.dates = dates]]
        <3> DEFINE found == job[r].found \ {job[r].own}
                   dates == job[r].dates \cup {dirs[job[r].own].date}
        <3>1. job[r].own \in Slot
            BY <1>4 DEF IInv, OwnInv, ReadManifest
        <3>2. dirs[job[r].own].date \in Date
            BY <1>1, <1>4, <3>1 DEF ReadManifest, Recorded, Made, TypeOK, Directory
        <3>3. found \in SUBSET Slot /\ dates \in SUBSET Date
            BY <1>1, <3>2 DEF Job
        <3>4. job' = [job EXCEPT ![r] = [job[r] EXCEPT !.found = found, !.own = Nothing,
                                                       !.dates = dates]]
            BY <1>1, <1>4 DEF ReadManifest, TypeOK, Job
        <3>5. QED
            BY <3>3, <3>4
    <2>2. [job[r] EXCEPT !.found = found, !.own = Nothing, !.dates = dates] \in Job
        BY <1>1 DEF Job
    <2>3. /\ pc' = [pc EXCEPT ![r] = "look"] /\ pc[r] = "read"
          /\ UNCHANGED <<holder, site>>
        BY <1>4 DEF ReadManifest, GoTo
    <2>4. QED
        BY <2>1, <2>2, <2>3, Unlocked DEF Step, Locking, AtWork, Recovering, Publishing
<1>5. CASE TryLocks(r)
    <2> DEFINE need == job[r].need \cup job[r].dates \cup {Site} \cup CacheLockOf(job[r].kind)
               j == [job[r] EXCEPT !.need = need]
    <2>1. need \subseteq Lock
        BY <1>1 DEF Job, Lock, CacheLockOf
    <2>2. j \in Job /\ Site \in j.need
        BY <1>1, <2>1 DEF Job
    <2>3. /\ pc' = [pc EXCEPT ![r] = "trying"] /\ pc[r] = "look"
          /\ job' = [job EXCEPT ![r] = j] /\ UNCHANGED <<holder, site>>
        BY <1>1, <1>5 DEF TryLocks, GoTo, TypeOK, Job
    <2> HIDE DEF j
    <2>4. QED
        BY <2>2, <2>3, Unlocked DEF Step, Locking, AtWork, Recovering, Publishing
<1>6. ASSUME NEW s \in Slot, SkipDirectory(r, s) PROVE IInv'
    <2> DEFINE j == [job[r] EXCEPT !.found = @ \ {s}]
    <2>1. j \in Job
        BY <1>1 DEF Job
    <2>2. /\ pc' = [pc EXCEPT ![r] = "look"] /\ pc[r] = "look"
          /\ job' = [job EXCEPT ![r] = j] /\ UNCHANGED <<holder, site>>
        BY <1>1, <1>6 DEF SkipDirectory, TypeOK, Job
    <2> HIDE DEF j
    <2>3. QED
        BY <2>1, <2>2, Unlocked DEF Step, Locking, AtWork, Recovering, Publishing
<1>7. ASSUME NEW s \in Slot, FindManifest(r, s) PROVE IInv'
    <2> DEFINE j == [job[r] EXCEPT !.own = s]
    <2>1. j \in Job /\ j.own \in Slot
        BY <1>1 DEF Job
    <2>2. /\ pc' = [pc EXCEPT ![r] = "read"] /\ pc[r] = "look"
          /\ job' = [job EXCEPT ![r] = j] /\ UNCHANGED <<holder, site>>
        BY <1>1, <1>7 DEF FindManifest, GoTo, TypeOK, Job
    <2> HIDE DEF j
    <2>3. QED
        BY <2>1, <2>2, Unlocked DEF Step, Locking, AtWork, Recovering, Publishing
<1>8. QED
    BY <1>2, <1>3, <1>4, <1>5, <1>6, <1>7

LEMMA QueueSteps ==
    ASSUME IInv, NEW r \in Run, NothingPending(r) \/ PassRecovery(r) \/ LeaveIdleRecovery(r)
    PROVE  IInv'
<1>1. CASE NothingPending(r)
    <2>1. pc[r] = "started" /\ ToPublicationLock(r) /\ UNCHANGED <<holder, site>>
        BY <1>1 DEF NothingPending
    <2>2. \A l \in Lock : holder[l] # r
        BY <2>1 DEF IInv, LockInv, Locking, AtWork, Recovering, Publishing
    <2>3. QED
        BY <2>1, <2>2, Queued
<1>2. CASE PassRecovery(r)
    BY <1>2, Queued DEF PassRecovery
<1>3. CASE LeaveIdleRecovery(r)
    BY <1>3, Queued DEF LeaveIdleRecovery
<1>4. QED
    BY <1>1, <1>2, <1>3

\* Nothing is needed any more: the site's lock is held, and the run goes to work.
LEMMA WorkSteps ==
    ASSUME IInv, NEW r \in Run,
           \/ RecoverIdle(r) \/ RecoverLocked(r) \/ Proceed(r) \/ Fetch(r)
    PROVE  IInv'
<1>1. TypeOK /\ LockInv(r) /\ OwnInv(r)
    BY DEF IInv
<1>2. UNCHANGED <<holder, site, job>>
    BY DEF RecoverIdle, RecoverLocked, Proceed, Fetch
<1>3. holder[Site] = r
    BY <1>1 DEF RecoverIdle, RecoverLocked, Proceed, Fetch, Recovered, CacheRecovered,
                LockInv, Locking, AtWork, Recovering
<1>4. PICK step \in {"recoverIdle", "recover", "fetch", "make"} : pc' = [pc EXCEPT ![r] = step]
    BY DEF RecoverIdle, RecoverLocked, Proceed, Fetch, GoTo
<1>5. pc'[r] = step
    BY <1>1, <1>4 DEF TypeOK
<1>6. LockInv(r)'
    BY <1>1, <1>2, <1>3, <1>5 DEF LockInv, Locking, AtWork, Recovering
<1>7. OwnInv(r)'
    <2>1. CASE RecoverIdle(r) \/ RecoverLocked(r)
        <3>1. pc'[r] \in Recovering
            BY <1>1, <2>1 DEF RecoverIdle, RecoverLocked, GoTo, TypeOK, Recovering
        <3>2. QED
            BY <3>1 DEF OwnInv, Recovering, Publishing
    <2>2. CASE Proceed(r)
        <3>1. \A t \in Slot : ~Made(t)
            BY <2>2 DEF Proceed, Recovered
        <3>2. step \in {"fetch", "make"}
            BY <1>5, <2>2 DEF Proceed, GoTo, TypeOK, IInv
        <3>3. step = "fetch" => ~journal
            <4>1. step = "fetch" => job[r].kind = "service"
                BY <1>1, <1>5, <2>2 DEF Proceed, GoTo, TypeOK
            <4>2. QED
                BY <2>2, <4>1 DEF Proceed, Recovered, CacheRecovered, Cached
        <3>4. QED
            BY <1>2, <1>5, <3>1, <3>2, <3>3 DEF OwnInv, Publishing, Made, site
    <2>3. CASE Fetch(r)
        <3>1. pc'[r] = "make" /\ \A t \in Slot : ~Made(t)
            BY <1>1, <2>3 DEF Fetch, GoTo, TypeOK, OwnInv
        <3>2. QED
            BY <1>2, <3>1 DEF OwnInv, Publishing, Made, site
    <2>4. QED
        BY <2>1, <2>2, <2>3
<1>8. TypeOK'
    <2>1. pc' \in [Run -> Step]
        BY <1>1, <1>4 DEF TypeOK, Step, Recovering
    <2>2. QED
        BY <1>1, <1>2, <2>1 DEF TypeOK, site
<1>9. SiteInv'
    BY <1>2, SiteKept DEF IInv
<1>10. \A q \in Run \ {r} : pc'[q] = pc[q] /\ job'[q] = job[q]
    BY <1>1, <1>2, <1>4 DEF TypeOK
<1>11. QED
    BY <1>2, <1>6, <1>7, <1>8, <1>9, <1>10, RunStep

LEMMA AcquireSteps ==
    ASSUME IInv, NEW r \in Run, TryNext(r) \/ LockNext(r)
    PROVE  IInv'
<1>1. pc[r] \in Locking /\ UNCHANGED <<site, pc>>
    BY DEF TryNext, LockNext, Locking
<1>2. PICK l \in Lock : IsNext(r, l) /\ Acquire(r, l)
    BY DEF TryNext, LockNext
<1>3. QED
    BY <1>1, <1>2, Acquired

\* A stranger holds the cache's lock and no other; no run is a stranger.
LEMMA StrangerSteps ==
    ASSUME IInv, StrangerEnters \/ StrangerLeaves
    PROVE  IInv'
<1>1. TypeOK
    BY DEF IInv
<1>2. /\ UNCHANGED <<site, pc, job>> /\ CacheLock \in Lock
      /\ \/ holder' = [holder EXCEPT ![CacheLock] = Stranger]
         \/ holder' = [holder EXCEPT ![CacheLock] = Nobody]
      /\ holder[CacheLock] \in {Nobody, Stranger}
    BY DEF StrangerEnters, StrangerLeaves, Lock
<1>3. TypeOK'
    BY <1>1, <1>2 DEF TypeOK, site
<1>4. \A q \in Run, l \in Lock : holder'[l] = q <=> holder[l] = q
    BY <1>1, <1>2 DEF TypeOK
<1>5. SiteInv'
    BY <1>2, SiteKept DEF IInv
<1>6. ASSUME NEW q \in Run PROVE LockInv(q)' /\ OwnInv(q)'
    <2>1. LockInv(q) /\ OwnInv(q) /\ Site \in Lock
        BY DEF IInv, Lock
    <2>2. LockInv(q)'
        BY <1>2, <1>4, <2>1 DEF LockInv
    <2>3. OwnInv(q)'
        BY <1>2, <2>1 DEF OwnInv, Made, site
    <2>4. QED
        BY <2>2, <2>3
<1>7. QED
    BY <1>3, <1>5, <1>6 DEF IInv

-----------------------------------------------------------------------------

LEMMA NextInv ==
    ASSUME IInv, [Next]_vars
    PROVE  IInv'
<1>1. ASSUME NEW r \in Run, Continue(r) PROVE IInv'
    <2>1. CASE NothingPending(r) \/ PassRecovery(r) \/ LeaveIdleRecovery(r)
        BY <2>1, QueueSteps
    <2>2. CASE Look(r) \/ ReadManifest(r) \/ TryLocks(r)
        BY <2>2, LookSteps
    <2>3. CASE \E s \in Slot : SkipDirectory(r, s) \/ FindManifest(r, s)
        BY <2>3, LookSteps
    <2>4. CASE ManifestVanished(r) \/ GiveUp(r)
        BY <2>4, LeaveStep
    <2>5. CASE TryNext(r) \/ LockNext(r)
        BY <2>5, AcquireSteps
    <2>6. CASE RecoverIdle(r) \/ RecoverLocked(r) \/ Proceed(r) \/ Fetch(r)
        BY <2>6, WorkSteps
    <2>7. CASE RecoverCache(r)
        BY <2>7, RecoverCacheStep
    <2>8. CASE \E s \in Slot : DiscardMade(r, s) \/ ReleaseCommitted(r, s) \/ RestoreRecorded(r, s)
        BY <2>8, DiscardStep
    <2>9. CASE \E s \in Slot : Make(r, s)
        BY <2>9, MakeStep
    <2>10. CASE Record(r) \/ PublishReport(r) \/ PublishIndex(r) \/ CommitCache(r)
        BY <2>10, RecordStep, PublishReportStep, PublishIndexStep, CommitCacheStep
    <2>11. CASE Commit(r) \/ FinishCache(r) \/ Finish(r)
        BY <2>11, CommitStep, FinishCacheStep, FinishStep
    <2>12. QED
        BY <1>1, <2>1, <2>2, <2>3, <2>4, <2>5, <2>6, <2>7, <2>8, <2>9, <2>10, <2>11 DEF Continue
<1>2. ASSUME NEW r \in Run, RollBack(r) \/ Abandon(r) PROVE IInv'
    BY <1>2, RollBackStep, LeaveStep
<1>3. ASSUME NEW r \in Run, \E date \in Date, kind \in Kind : Start(r, date, kind) PROVE IInv'
    BY <1>3, LookSteps
<1>4. CASE StrangerEnters \/ StrangerLeaves
    BY <1>4, StrangerSteps
<1>5. CASE UNCHANGED vars
    <2>1. TypeOK'
        BY <1>5 DEF vars, site, IInv, TypeOK
    <2>2. SiteInv'
        BY <1>5, SiteKept DEF vars, IInv
    <2>3. ASSUME NEW q \in Run PROVE LockInv(q)' /\ OwnInv(q)'
        BY <1>5 DEF vars, site, IInv, LockInv, OwnInv, Made
    <2>4. QED
        BY <2>1, <2>2, <2>3 DEF IInv
<1>6. QED
    BY <1>1, <1>2, <1>3, <1>4, <1>5 DEF Next

\* Whatever runs of several dates do to a site in whatever order, and wherever they
\* fail or die: the site is as the one transaction there may be says.
THEOREM LocksInvariance == Spec => []IInv
<1>1. Init => IInv
    BY InitInv
<1>2. IInv /\ [Next]_vars => IInv'
    BY NextInv
<1>3. QED
    BY <1>1, <1>2, PTL DEF Spec

\* A report that was committed stays, with its line in the index (_publication_lock,
\* _recover_pending_publications): no rollback of another date takes it away.
THEOREM CommittedReportsStay == Spec => []CommittedStays
<1>1. IInv => CommittedStays
    BY DEF IInv, SiteInv
<1>2. QED
    BY <1>1, LocksInvariance, PTL

\* Without a transaction the index lists the reports there are, whoever published,
\* failed or recovered before (_render_site_index_for_publication).
THEOREM IndexIsExact == Spec => []IndexListsReports
<1>1. IInv => IndexListsReports
    BY DEF IInv, SiteInv
<1>2. QED
    BY <1>1, LocksInvariance, PTL

\* There is never more than one transaction directory (run_daily_report recovers all
\* there are before it makes its own).
THEOREM AtMostOneTransaction == Spec => []OneTransaction
<1>1. IInv => OneTransaction
    BY DEF IInv, SiteInv
<1>2. QED
    BY <1>1, LocksInvariance, PTL

\* Nothing is fetched before what was interrupted is settled (fetch_all).
THEOREM FetchesAreRecovered == Spec => []FetchesRecovered
<1>1. IInv => FetchesRecovered
    BY DEF IInv, OwnInv, FetchesRecovered
<1>2. QED
    BY <1>1, LocksInvariance, PTL
=============================================================================
