------------------------------ MODULE DailyRun ------------------------------
(***************************************************************************)
(* The daily command from its first fetch to its exit status, beside scan  *)
(* workers that use the same cache and providers: every core stock is      *)
(* fetched, the report and the deferred responses are published together,  *)
(* and then the channels are notified.  Publication is one step here       *)
(* (Publication and CacheCommit have its inside).  The process may die at  *)
(* any step.                                                               *)
(***************************************************************************)
EXTENDS ProviderFetch, Notify

CONSTANTS
    Daily,          \* the client that is the daily run
    Worker,         \* the clients that are workers of a scan
    Summary,        \* per run: the risks that its report has to tell
    NoReport,
    MaxRuns,        \* bound: daily runs
    MaxFetches      \* bound: fetches of all workers

ASSUME DailyType == Deferring = {Daily} /\ Client = Deferring \cup Worker /\ Daily \notin Worker
ASSUME SummaryType == MaxRuns \in Nat /\ Summary \in [1 .. MaxRuns -> Seq(Nat)]
ASSUME NoAnswerType == NoAnswer \notin Answer(Worker \cup Nat)

VARIABLES
    job,            \* the step of the daily run
    todo,           \* the stocks still to be fetched
    fetched,        \* per stock: the answer it has
    failures,       \* the stocks that could not be fetched
    report,         \* the published report
    published,      \* the runs that have published one
    runs, fetches   \* counted against the bounds

jobVars == <<job, todo, fetched, failures, report, published, runs, fetches>>

vars == <<fetchVars, notifyVars, jobVars>>

Init ==
    /\ FetchInit /\ NotifyInit
    /\ job = "rest" /\ todo = {}
    /\ fetched = [c \in Code |-> NoAnswer] /\ failures = {}
    /\ report = NoReport /\ published = {}
    /\ runs = 0 /\ fetches = 0
----------------------------------------------------------------------------
(* The workers of a scan *)

WorkerFetches(w) ==
    /\ fetches < MaxFetches
    /\ fetches' = fetches + 1
    /\ \E c \in Code : Fetch(w, c)
    /\ UNCHANGED <<notifyVars, job, todo, fetched, failures, report, published, runs>>

WorkerReturns(w) == Return(w) /\ UNCHANGED <<notifyVars, jobVars>>

WorkerDies(w) ==
    /\ at[w] # "idle"
    /\ Die(w)
    /\ UNCHANGED <<notifyVars, jobVars>>
----------------------------------------------------------------------------
(* run_daily_report() *)

\* The lock of the publication and of the cache, for all of the run.
Begin ==
    /\ job = "rest" /\ runs < MaxRuns
    /\ lock = NoClient
    /\ lock' = Daily
    /\ job' = "fetching"
    /\ todo' = Code
    /\ runs' = runs + 1
    /\ UNCHANGED <<cache, paused, at, code, cached, asking, response, staged>>
    /\ UNCHANGED <<notifyVars, fetched, failures, report, published, fetches>>

\* fetch_all(): one stock after the other, whatever becomes of each.
FetchStock ==
    /\ job = "fetching" /\ at[Daily] = "idle" /\ todo # {}
    /\ Fetch(Daily, CHOOSE c \in todo : TRUE)
    /\ UNCHANGED <<notifyVars, jobVars>>

StockDone ==
    LET c == code[Daily]
    IN  /\ job = "fetching"
        /\ IF at[Daily] = "answered"
           THEN fetched' = [fetched EXCEPT ![c] = response[Daily]] /\ UNCHANGED failures
           ELSE failures' = failures \cup {c} /\ UNCHANGED fetched
        /\ Return(Daily)
        /\ todo' = todo \ {c}
        /\ UNCHANGED <<notifyVars, job, report, published, runs, fetches>>

\* The lock is released, and what only the run knew is gone.
Free ==
    /\ lock' = NoClient
    /\ todo' = {} /\ fetched' = [c \in Code |-> NoAnswer] /\ failures' = {}
    /\ UNCHANGED <<paused, at, code, cached, asking, response>>

\* Mutant: what a failed run has staged is left to the next one.
KeepStaged == staged' \in {staged}

\* discard_staged_cache_writes(), on every way out.
Discard == staged' = [staged EXCEPT ![Daily] = {}]

Abandon ==
    /\ Free /\ Discard
    /\ job' = "rest"
    /\ UNCHANGED <<cache, notifyVars, report, published, runs, fetches>>

StocksMissing ==
    /\ job = "fetching" /\ at[Daily] = "idle" /\ todo = {} /\ failures # {}
    /\ Abandon

StocksComplete ==
    /\ job = "fetching" /\ at[Daily] = "idle" /\ todo = {} /\ failures = {}
    /\ job' = "publishing"
    /\ UNCHANGED <<fetchVars, notifyVars, todo, fetched, failures, report, published, runs, fetches>>

\* With the report the deferred responses, unless their journal is lost (CacheCommit);
\* the notifications may be skipped.
Publish ==
    /\ job = "publishing"
    /\ cache' \in {cache, Stored(staged[Daily])}
    /\ Free /\ Discard
    /\ report' = [run |-> runs, bars |-> fetched]
    /\ published' = published \cup {runs}
    /\ \/ job' = "rest" /\ UNCHANGED notifyVars
       \/ job' = "notifying" /\ SendReport(Summary[runs])
    /\ UNCHANGED <<runs, fetches>>

PublicationFails == job = "publishing" /\ Abandon

\* send_report() of the daily or of the notify command is over: it has raised, and the
\* exit status is 1, if a channel has failed.
Exit ==
    /\ job = "notifying" /\ sending = "sent"
    /\ EndSending
    /\ job' = "rest"
    /\ UNCHANGED <<fetchVars, todo, fetched, failures, report, published, runs, fetches>>

\* The notify command, for the report that is there.
NotifyAgain ==
    /\ job = "rest" /\ report # NoReport /\ runs < MaxRuns
    /\ runs' = runs + 1
    /\ job' = "notifying"
    /\ SendReport(Summary[report.run])
    /\ UNCHANGED <<fetchVars, todo, fetched, failures, report, published, fetches>>

DailyDies ==
    /\ job # "rest"
    /\ Die(Daily) /\ EndSending
    /\ job' = "rest"
    /\ todo' = {} /\ fetched' = [c \in Code |-> NoAnswer] /\ failures' = {}
    /\ UNCHANGED <<report, published, runs, fetches>>

DailyFetches == job = "fetching" /\ FetchNext(Daily, runs) /\ UNCHANGED <<notifyVars, jobVars>>

DailyNotifies == job = "notifying" /\ NotifyNext /\ UNCHANGED <<fetchVars, jobVars>>

DailyStep ==
    \/ FetchStock \/ DailyFetches \/ StockDone
    \/ StocksMissing \/ StocksComplete
    \/ Publish \/ PublicationFails
    \/ DailyNotifies \/ Exit

Next ==
    \/ \E w \in Worker :
          \/ WorkerFetches(w)
          \/ FetchNext(w, w) /\ UNCHANGED <<notifyVars, jobVars>>
          \/ WorkerReturns(w) \/ WorkerDies(w)
    \/ \E q \in Provider : Resume(q) /\ UNCHANGED <<notifyVars, jobVars>>
    \/ Begin \/ NotifyAgain \/ DailyDies
    \/ DailyStep

\* A run that has begun goes on; nothing is assumed of the workers.
Spec == Init /\ [][Next]_vars /\ WF_vars(DailyStep)
----------------------------------------------------------------------------
\* Whoever fetched it and by whatever way: what the cache has for a provider and a code
\* is that provider's answer for that code, which the quality gate has accepted, and a
\* published report has such an answer for each of its stocks.
AnswersAreTheirs ==
    /\ \A q \in Provider, c \in Code :
          cache[q][c] # NoAnswer => /\ cache[q][c].provider = q /\ cache[q][c].code = c
                                    /\ cache[q][c].accepted
    /\ report # NoReport =>
          \A c \in Code : report.bars[c] # NoAnswer /\ report.bars[c].code = c
                          /\ report.bars[c].accepted

\* "Commit them only after every required request succeeds": the cache has a response
\* of a daily run only if that run has published its report, with that response in it.
\* (A worker's responses are its own.)
StoredWithReport ==
    \A q \in Provider, c \in Code :
       cache[q][c] # NoAnswer /\ cache[q][c].by \notin Worker =>
          /\ cache[q][c].by \in published
          /\ cache[q][c].by = report.run => report.bars[c] = cache[q][c]

\* At no time has a channel got a part without the one before it.
PartsInOrder ==
    \A ch \in Channel : \A i \in DOMAIN chat[ch] :
       chat[ch][i] = 1 \/ \E j \in 1 .. i - 1 : chat[ch][j] = chat[ch][i] - 1

\* No part arrives more often than it may be posted, lost answers included.
CopiesAreBounded ==
    \A ch \in Channel : \A i \in DOMAIN chat[ch] :
       Cardinality({j \in DOMAIN chat[ch] : chat[ch][j] = chat[ch][i]}) <= MaxAttempts

\* A status of zero after notifying (~Failed) means that each channel has been sent every
\* risk of the report, in order, whatever was lost and sent again on the way; and at no
\* time has a channel got a part without the one before it, or more copies than attempts.
DeliveredInFull ==
    /\ PartsInOrder
    /\ CopiesAreBounded
    /\ job = "notifying" /\ sending = "sent" /\ ~Failed /\ summary # <<>> =>
          \A ch \in Channel :
             LET parts == Parts(summary, Limit[ch])
             IN  UNION {{line.line : line \in Range(parts[k])} : k \in Range(chat[ch])}
                   = DOMAIN summary

\* A failing channel does not keep the others from being tried, nor from being told of.
EveryChannelTried ==
    job = "notifying" /\ sending = "sent" =>
       \A ch \in Channel : /\ outcome[ch] # "open"
                           /\ outcome[ch] = "delivered" => chat[ch] # <<>>

\* Every run comes to an end: it returns a status, or dies.
RunsEnd == job # "rest" ~> job = "rest"
=============================================================================
