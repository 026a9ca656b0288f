----------------------------- MODULE ScanCollect ----------------------------
(***************************************************************************)
(* One batch of a market scan: an executor's threads fetch the histories   *)
(* of the candidates, each with its retries, while _collect_with_timeout() *)
(* polls their futures, gives up those that run too long, and cancels what *)
(* is queued when every thread is stuck in a candidate it has given up.    *)
(*                                                                         *)
(* Time is what it does to the deadlines: the deadline of a candidate that *)
(* has been seen running passes at some moment, in any order with the end  *)
(* of its fetch, since the time limit of the candidate and that of its     *)
(* fetch are the same (or within the sleeps between its attempts).         *)
(***************************************************************************)
EXTENDS Naturals, FiniteSets

CONSTANTS
    Candidate,      \* the candidates, numbered in the order they are submitted
    MaxWorkers,
    Attempts        \* HISTORY_FAILURE_ATTEMPTS, or 1 for a scan without batches

ASSUME CandidateType == Candidate \subseteq Nat /\ IsFiniteSet(Candidate)
ASSUME WorkersType == MaxWorkers \in Nat \ {0}
ASSUME AttemptsType == Attempts \in Nat \ {0}

VARIABLES
    future,         \* per candidate
    attempt,        \* how often it has been fetched
    answer,         \* what its last attempt came to
    results, pending, seen, overdue,    \* of the collector; seen are in deadlines
    late,           \* candidates whose deadline has passed
    inTime,         \* history: those that ended before it
    phase, todo        \* of the collector

threads == <<future, attempt, answer>>
collectVars == <<threads, results, pending, seen, overdue, late, inTime, phase, todo>>

\* A failure that may be tried again, and every other outcome: valid, excluded, another
\* failure, the timeout of the fetch among them.
Answer == {"final", "retryable"}
Outcome == Answer \cup {"fetch_timeout", "fetch_workers_unavailable"}

CollectInit ==
    /\ future = [c \in Candidate |-> "queued"]
    /\ attempt = [c \in Candidate |-> 0]
    /\ answer = [c \in Candidate |-> "none"]
    /\ results = [c \in Candidate |-> "none"]
    /\ pending = Candidate /\ seen = {} /\ overdue = {} /\ late = {} /\ inTime = {}
    /\ phase = "clock" /\ todo = {}

-----------------------------------------------------------------------------
(* The threads of the executor *)

Running == {c \in Candidate : future[c] = "running"}
Queued == {c \in Candidate : future[c] = "queued"}

\* A free thread takes the first candidate that is queued.
StartFetch(c) ==
    /\ c \in Queued /\ \A d \in Queued : c <= d
    /\ Cardinality(Running) < MaxWorkers
    /\ future' = [future EXCEPT ![c] = "running"]
    /\ attempt' = [attempt EXCEPT ![c] = 1]
    /\ UNCHANGED <<answer, results, pending, seen, overdue, late, inTime, phase, todo>>

\* _process_candidate() in a process of its own, which may answer or be killed.
FetchCandidate(c, result) ==
    /\ c \in Running /\ answer[c] = "none"
    /\ answer' = [answer EXCEPT ![c] = result]
    /\ UNCHANGED <<future, attempt, results, pending, seen, overdue, late, inTime, phase, todo>>

TriesAgain(c) == answer[c] = "retryable" /\ attempt[c] < Attempts

\* After the sleep between two attempts.
Retry(c) ==
    /\ c \in Running /\ TriesAgain(c)
    /\ answer' = [answer EXCEPT ![c] = "none"]
    /\ attempt' = [attempt EXCEPT ![c] = @ + 1]
    /\ UNCHANGED <<future, results, pending, seen, overdue, late, inTime, phase, todo>>

Finish(c) ==
    /\ c \in Running /\ answer[c] # "none" /\ ~TriesAgain(c)
    /\ future' = [future EXCEPT ![c] = "done"]
    /\ inTime' = IF c \in late THEN inTime ELSE inTime \cup {c}
    /\ UNCHANGED <<attempt, answer, results, pending, seen, overdue, late, phase, todo>>

-----------------------------------------------------------------------------
(* The collector's loop *)

\* Without candidates there is nothing to wait for.
LoopTo(step, left) == phase' = IF left = {} THEN "returned" ELSE step

Give(codes, result) ==
    results' = [c \in Candidate |-> IF c \in codes THEN result[c] ELSE results[c]]

ReadClock ==
    /\ phase = "clock"
    /\ overdue' = late
    /\ LoopTo("take", pending)
    /\ UNCHANGED <<threads, results, pending, seen, late, inTime, todo>>

TakeDone ==
    /\ phase = "take"
    /\ LET done == {c \in pending : future[c] = "done"}
       IN  Give(done, answer) /\ pending' = pending \ done
    /\ phase' = "watch"
    /\ UNCHANGED <<threads, seen, overdue, late, inTime, todo>>

Watch ==
    /\ phase = "watch"
    /\ seen' = seen \cup (pending \cap Running)
    /\ phase' = "count"
    /\ UNCHANGED <<threads, results, pending, overdue, late, inTime, todo>>

\* Mutant: every thread at work counts as blocked.
BusyThreads == Running

\* Threads still at work on a candidate that has been given up.
Blocked == Running \ pending

CountBlocked ==
    /\ phase = "count"
    /\ IF Cardinality(Blocked) >= MaxWorkers
       THEN phase' = "cancel" /\ todo' = pending
       ELSE phase' = "expire" /\ UNCHANGED todo
    /\ UNCHANGED <<threads, results, pending, seen, overdue, late, inTime>>

\* Mutant: a cancelled candidate has no result.
DropQueued(c) ==
    /\ phase = "cancel" /\ c \in todo /\ future[c] = "queued"
    /\ todo' = todo \ {c}
    /\ future' = [future EXCEPT ![c] = "cancelled"]
    /\ pending' = pending \ {c}
    /\ UNCHANGED <<attempt, answer, results, seen, overdue, late, inTime, phase>>

\* Future.cancel() of one that is queued, which no thread takes then.
CancelQueued(c) ==
    /\ phase = "cancel" /\ c \in todo /\ future[c] = "queued"
    /\ todo' = todo \ {c}
    /\ future' = [future EXCEPT ![c] = "cancelled"]
    /\ results' = [results EXCEPT ![c] = "fetch_workers_unavailable"]
    /\ pending' = pending \ {c}
    /\ UNCHANGED <<attempt, answer, seen, overdue, late, inTime, phase>>

\* One that a thread has taken meanwhile stays as it is.
CancelRefused(c) ==
    /\ phase = "cancel" /\ c \in todo /\ future[c] # "queued"
    /\ todo' = todo \ {c}
    /\ UNCHANGED <<threads, results, pending, seen, overdue, late, inTime, phase>>

AllCancelled ==
    /\ phase = "cancel" /\ todo = {}
    /\ phase' = "expire"
    /\ UNCHANGED <<threads, results, pending, seen, overdue, late, inTime, todo>>

\* Mutant: the clock is read again when the deadlines are compared.
ExpireNow ==
    /\ phase = "expire"
    /\ Give(pending \cap late, [c \in Candidate |-> "fetch_timeout"])
    /\ pending' = pending \ late
    /\ LoopTo("clock", pending')
    /\ UNCHANGED <<threads, seen, overdue, late, inTime, todo>>

\* Those whose deadline had passed when the clock was read, done by now or not.
Expire ==
    /\ phase = "expire"
    /\ Give(pending \cap overdue, [c \in Candidate |-> "fetch_timeout"])
    /\ pending' = pending \ overdue
    /\ LoopTo("clock", pending')
    /\ UNCHANGED <<threads, seen, overdue, late, inTime, todo>>

DeadlinePasses(c) ==
    /\ c \in (seen \cap pending) \ late
    /\ late' = late \cup {c}
    /\ UNCHANGED <<threads, results, pending, seen, overdue, inTime, phase, todo>>

-----------------------------------------------------------------------------

Thread(c) == (\E result \in Answer : FetchCandidate(c, result)) \/ Retry(c) \/ Finish(c)

Collect ==
    \/ ReadClock \/ TakeDone \/ Watch \/ CountBlocked \/ AllCancelled \/ Expire
    \/ \E c \in Candidate : CancelQueued(c) \/ CancelRefused(c)

CollectNext == Collect \/ \E c \in Candidate : StartFetch(c) \/ Thread(c) \/ DeadlinePasses(c)

CollectSpec == CollectInit /\ [][CollectNext]_collectVars

\* The collector loops, the executor starts what it can and time goes on; a fetch may
\* hang for ever.
FairSpec ==
    /\ CollectSpec
    /\ WF_collectVars(Collect)
    /\ \A c \in Candidate : WF_collectVars(StartFetch(c)) /\ WF_collectVars(DeadlinePasses(c))

-----------------------------------------------------------------------------
(* Properties *)

Promise == INSTANCE BatchResults WITH Code <- Candidate, Result <- Outcome, None <- "none"

\* The collector returns with one result for each candidate, though fetches may hang.
BatchPromise == Promise!Spec

\* "Queued symbols do not consume their per-symbol fetch timeout": who is given up
\* has been started, and was not finished when its deadline passed.
TimeoutIsTheirs ==
    \A c \in Candidate : results[c] = "fetch_timeout" => attempt[c] > 0 /\ c \notin inTime

GivenUp == {c \in Candidate : results[c] = "fetch_timeout"}

\* A queued candidate is cancelled only when as many candidates as there are threads
\* have been, so that each thread was stuck in one of them.
GivenUpWhenBlocked ==
    (\E c \in Candidate : results[c] = "fetch_workers_unavailable")
        => Cardinality(GivenUp) >= MaxWorkers

-----------------------------------------------------------------------------
(* What the properties rest on *)

CollectTypeOK ==
    /\ future \in [Candidate -> {"queued", "running", "done", "cancelled"}]
    /\ attempt \in [Candidate -> 0..Attempts]
    /\ answer \in [Candidate -> Answer \cup {"none"}]
    /\ results \in [Candidate -> Outcome \cup {"none"}]
    /\ pending \subseteq Candidate /\ todo \subseteq Candidate
    /\ overdue \subseteq late /\ late \subseteq seen /\ seen \subseteq Candidate
    /\ inTime \subseteq Candidate
    /\ phase \in {"clock", "take", "watch", "count", "cancel", "expire", "returned"}

\* Where a candidate is, its future and its result agree.
FutureInv(c) ==
    /\ c \in pending <=> results[c] = "none"
    /\ future[c] = "queued" <=> attempt[c] = 0 /\ future[c] # "cancelled"
    /\ future[c] = "queued" => c \in pending
    /\ future[c] = "cancelled" <=> results[c] = "fetch_workers_unavailable"
    /\ future[c] = "done" => answer[c] \in Answer
    /\ results[c] \in Answer => future[c] = "done"
    /\ results[c] = "fetch_timeout" => c \in late
    /\ c \in seen => attempt[c] > 0
    /\ c \in inTime => future[c] = "done"

\* Between taking what is done and comparing the deadlines, who is overdue had not
\* ended in time.
DeadlineInv(c) ==
    phase \in {"watch", "count", "cancel", "expire"} /\ c \in pending \cap overdue
        => c \notin inTime

BlockedInv == phase = "cancel" => Cardinality(GivenUp) >= MaxWorkers

CollectInv ==
    /\ CollectTypeOK
    /\ Cardinality(Running) <= MaxWorkers
    /\ \A c \in Candidate : FutureInv(c) /\ DeadlineInv(c)
    /\ TimeoutIsTheirs /\ GivenUpWhenBlocked /\ BlockedInv
=============================================================================
