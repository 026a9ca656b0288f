---------------------------- MODULE ProviderFetch ---------------------------
(***************************************************************************)
(* MarketDataService.fetch(), for the processes that share a response      *)
(* cache: the workers of a scan, which store an answer at once, and the    *)
(* daily run, which keeps the lock of the cache from its first fetch on    *)
(* and puts its stores off.  RequestGate has the gate's clock and file;    *)
(* here a provider is paused or it is not.  An answer is data that the     *)
(* quality gate accepts or rejects, the same way on every reading.         *)
(***************************************************************************)
EXTENDS Naturals, Sequences

CONSTANTS
    Client,             \* the processes
    Deferring,          \* those that call fetch() with defer_cache
    Code,
    Primary, Fallback,  \* primary_provider, fallback_provider
    NoAnswer,
    NoClient            \* nobody holds the lock of the cache

ASSUME SelectionType == Primary # Fallback
ASSUME ClientType == Deferring \subseteq Client /\ NoClient \notin Client

VARIABLES
    cache,      \* per provider and code: the response stored
    lock,       \* who holds the lock of the cache
    paused,     \* the providers whose circuit is open
    at,         \* per process: the step of its fetch
    code,       \* per process: the code it fetches
    cached,     \* per process and provider: what load() returned
    asking,     \* per process: the providers still to be loaded, or to be asked
    response,   \* per process: the response it checks, stores or returns
    staged      \* per process: _staged_cache_writes

fetchVars == <<cache, lock, paused, at, code, cached, asking, response, staged>>

Selection == <<Primary, Fallback>>
Provider == {Primary, Fallback}

\* Who asked is history: a process, or one of its runs.
Answer(asker) == [provider : Provider, code : Code, accepted : BOOLEAN, by : asker]

FetchInit ==
    /\ cache = [q \in Provider |-> [c \in Code |-> NoAnswer]]
    /\ lock = NoClient
    /\ paused = {}
    /\ at = [p \in Client |-> "idle"]
    /\ code = [p \in Client |-> CHOOSE c \in Code : TRUE]
    /\ cached = [p \in Client |-> [q \in Provider |-> NoAnswer]]
    /\ asking = [p \in Client |-> <<>>]
    /\ response = [p \in Client |-> NoAnswer]
    /\ staged = [p \in Client |-> {}]

GoTo(p, step) == at' = [at EXCEPT ![p] = step]

\* The lock of the cache is free, or the process has it already (transaction_lock()).
Accessible(p) == lock \in {p, NoClient}
----------------------------------------------------------------------------
(* The cache *)

Fetch(p, c) ==
    /\ at[p] = "idle"
    /\ GoTo(p, "load")
    /\ code' = [code EXCEPT ![p] = c]
    /\ asking' = [asking EXCEPT ![p] = Selection]
    /\ UNCHANGED <<cache, lock, paused, cached, response, staged>>

\* Cached responses first, each group in the configured order.
Ordered(found) ==
    IF found[Primary] = NoAnswer /\ found[Fallback] # NoAnswer
    THEN <<Fallback, Primary>> ELSE Selection

\* load() of one provider's response; one that is too old, or that the clock says is
\* from the future, is dropped.
Load(p) ==
    LET q == Head(asking[p])
        entry == cache[q][code[p]]
    IN  /\ at[p] = "load" /\ Accessible(p)
        /\ \E valid \in IF entry = NoAnswer THEN {TRUE} ELSE BOOLEAN :
              /\ cached' = [cached EXCEPT ![p][q] = IF valid THEN entry ELSE NoAnswer]
              /\ cache' = [cache EXCEPT ![q][code[p]] = IF valid THEN entry ELSE NoAnswer]
        /\ IF Len(asking[p]) > 1
           THEN asking' = [asking EXCEPT ![p] = Tail(@)] /\ UNCHANGED at
           ELSE asking' = [asking EXCEPT ![p] = Ordered(cached'[p])] /\ GoTo(p, "ask")
        /\ UNCHANGED <<lock, paused, code, response, staged>>
----------------------------------------------------------------------------
(* The providers *)

\* fetch() raises: the data was rejected, or no provider is left.
Fail(p) ==
    /\ GoTo(p, "failed")
    /\ response' = [response EXCEPT ![p] = NoAnswer]
    /\ UNCHANGED asking

\* Mutant: an unavailable provider is asked until it answers.
TrySame(p) == GoTo(p, "ask") /\ UNCHANGED <<asking, response>>

\* An unavailable provider: on to the next.
TryNext(p) ==
    IF Len(asking[p]) = 1 THEN Fail(p)
    ELSE /\ GoTo(p, "ask")
         /\ asking' = [asking EXCEPT ![p] = Tail(@)]
         /\ UNCHANGED response

TakeCached(p) ==
    LET found == cached[p][Head(asking[p])]
    IN  /\ at[p] = "ask" /\ found # NoAnswer
        /\ response' = [response EXCEPT ![p] = found]
        /\ GoTo(p, "check")
        /\ UNCHANGED <<cache, lock, paused, code, cached, asking, staged>>

\* acquire() admits the request, or raises provider_circuit_open.
AskGate(p) ==
    /\ at[p] = "ask" /\ cached[p][Head(asking[p])] = NoAnswer
    /\ IF Head(asking[p]) \in paused THEN TryNext(p)
       ELSE GoTo(p, "request") /\ UNCHANGED <<asking, response>>
    /\ UNCHANGED <<cache, lock, paused, code, cached, staged>>

\* get_daily_bars() returns something.
Respond(p, asker) ==
    /\ at[p] = "request"
    /\ \E accepted \in BOOLEAN :
          response' = [response EXCEPT ![p] = [provider |-> Head(asking[p]), code |-> code[p],
                                               accepted |-> accepted, by |-> asker]]
    /\ GoTo(p, "check")
    /\ UNCHANGED <<cache, lock, paused, code, cached, asking, staged>>

\* It raises ProviderAvailabilityError, which opens the circuit.
BeUnavailable(p) ==
    /\ at[p] = "request"
    /\ GoTo(p, "record")
    /\ UNCHANGED <<cache, lock, paused, code, cached, asking, response, staged>>

RecordFailure(p) ==
    /\ at[p] = "record"
    /\ paused' = paused \cup {Head(asking[p])}
    /\ TryNext(p)
    /\ UNCHANGED <<cache, lock, code, cached, staged>>

\* It raises another ProviderError, which no other provider makes up for.
RaiseDataError(p) ==
    /\ at[p] = "request"
    /\ Fail(p)
    /\ UNCHANGED <<cache, lock, paused, code, cached, staged>>
----------------------------------------------------------------------------
(* The answer *)

FromCache(p) == cached[p][response[p].provider] # NoAnswer

\* The quality gate and the normalisation of the bars.
Check(p) ==
    /\ at[p] = "check"
    /\ IF ~response[p].accepted THEN Fail(p) /\ UNCHANGED staged
       ELSE /\ staged' = [staged EXCEPT ![p] = IF p \in Deferring /\ ~FromCache(p)
                                               THEN @ \cup {response[p]} ELSE @]
            /\ GoTo(p, IF FromCache(p) \/ p \in Deferring THEN "answered" ELSE "store")
            /\ UNCHANGED <<asking, response>>
    /\ UNCHANGED <<cache, lock, paused, code, cached>>

\* Mutant: each filed under the provider that is first in the selection.
FiledUnderPrimary(answers) ==
    [cache EXCEPT ![Primary] = [c \in Code |->
        IF \E a \in answers : a.code = c THEN CHOOSE a \in answers : a.code = c ELSE @[c]]]

\* A set of responses, each filed under its provider and its code.
Stored(answers) ==
    [q \in Provider |-> [c \in Code |->
        IF \E a \in answers : a.provider = q /\ a.code = c
        THEN CHOOSE a \in answers : a.provider = q /\ a.code = c
        ELSE cache[q][c]]]

Store(p) ==
    /\ at[p] = "store" /\ Accessible(p)
    /\ cache' = Stored({response[p]})
    /\ GoTo(p, "answered")
    /\ UNCHANGED <<lock, paused, code, cached, asking, response, staged>>
----------------------------------------------------------------------------
\* What only the call knew is gone with it.
Forget(p) ==
    /\ GoTo(p, "idle")
    /\ code' = [code EXCEPT ![p] = CHOOSE c \in Code : TRUE]
    /\ cached' = [cached EXCEPT ![p] = [q \in Provider |-> NoAnswer]]
    /\ asking' = [asking EXCEPT ![p] = <<>>]
    /\ response' = [response EXCEPT ![p] = NoAnswer]

\* The caller has the bars or the error.
Return(p) ==
    /\ at[p] \in {"answered", "failed"}
    /\ Forget(p)
    /\ UNCHANGED <<cache, lock, paused, staged>>

\* The time of a pause passes.
Resume(q) ==
    /\ q \in paused /\ paused' = paused \ {q}
    /\ UNCHANGED <<cache, lock, at, code, cached, asking, response, staged>>

\* The process is gone: killed at its timeout, or with the machine.
Die(p) ==
    /\ Forget(p)
    /\ lock' = IF lock = p THEN NoClient ELSE lock
    /\ staged' = [staged EXCEPT ![p] = {}]
    /\ UNCHANGED <<cache, paused>>

FetchNext(p, asker) ==
    \/ Load(p)
    \/ TakeCached(p) \/ AskGate(p)
    \/ Respond(p, asker) \/ BeUnavailable(p) \/ RecordFailure(p) \/ RaiseDataError(p)
    \/ Check(p) \/ Store(p)
=============================================================================
