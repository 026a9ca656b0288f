----------------------------- MODULE DailyRunProofs ----------------------------
(***************************************************************************)
(* The daily run and the workers of a scan never mix up answers: what the  *)
(* cache has is its provider's answer for its code, and the responses of a *)
(* daily run are there only with its report.  For any number of workers,   *)
(* stocks and runs, with deaths at any step.  And what a run tells of its  *)
(* report arrives in full and in order, for any summary and any limits.    *)
(***************************************************************************)
EXTENDS DailyRun, Recursion

USE SelectionType, ClientType, DailyType, NoAnswerType

Answers == Answer(Worker \cup Nat)
Maybe == Answers \cup {NoAnswer}

FetchStep == {"idle", "load", "ask", "request", "record", "check", "store", "answered", "failed"}

TypeOK ==
    /\ cache \in [Provider -> [Code -> Maybe]]
    /\ at \in [Client -> FetchStep]
    /\ code \in [Client -> Code \cup {CHOOSE c \in Code : TRUE}]
    /\ cached \in [Client -> [Provider -> Maybe]]
    /\ asking \in [Client -> Seq(Provider)]
    /\ response \in [Client -> Maybe]
    /\ staged \in [Client -> SUBSET Answers]
    /\ todo \subseteq Code /\ failures \subseteq Code
    /\ fetched \in [Code -> Maybe]
    /\ runs \in Nat /\ published \subseteq Nat

\* An answer of that provider for that code, which the quality gate has accepted.
Filed(entry, q, c) ==
    entry # NoAnswer => /\ entry \in Answers
                        /\ entry.provider = q /\ entry.code = c /\ entry.accepted

\* Under whose name a process asks.
Asker(p) == IF p = Daily THEN runs ELSE p

\* What a process that fetches knows: the cached responses are for the code it fetches,
\* and what it will store is new, for that code, and its own.
LoadedInv(p) ==
    /\ at[p] = "idle" => \A q \in Provider : cached[p][q] = NoAnswer
    /\ at[p] # "idle" => code[p] \in Code
    /\ \A q \in Provider : Filed(cached[p][q], q, code[p])

AskingInv(p) ==
    /\ at[p] \in {"load", "ask", "request", "record"} => asking[p] # <<>>
    /\ at[p] = "request" => cached[p][Head(asking[p])] = NoAnswer

ResponseInv(p) ==
    /\ at[p] \in {"check", "store", "answered"} =>
          response[p] \in Answers /\ response[p].code = code[p]
    /\ at[p] \in {"store", "answered"} => response[p].accepted
    /\ at[p] = "check" /\ ~FromCache(p) => response[p].by = Asker(p)
    /\ at[p] = "store" => p \in Worker /\ response[p].by = p

FetchInv(p) == LoadedInv(p) /\ AskingInv(p) /\ ResponseInv(p)

\* The entries of the cache; those of a daily run came with its report.
EntryInv(q, c) ==
    LET entry == cache[q][c]
    IN  /\ Filed(entry, q, c)
        /\ entry # NoAnswer /\ entry.by \notin Worker =>
              /\ entry.by \in published
              /\ entry.by = report.run => report.bars[c] = entry

CacheInv == \A q \in Provider, c \in Code : EntryInv(q, c)

Got(c) == fetched[c] \in Answers /\ fetched[c].code = c /\ fetched[c].accepted

\* The stocks are either still to be fetched, failed or there.
ProgressInv ==
    /\ job \notin {"fetching", "publishing"} => \A c \in Code : fetched[c] = NoAnswer
    /\ \A c \in todo : fetched[c] = NoAnswer
    /\ job = "fetching" => \A c \in Code : c \in todo \/ c \in failures \/ Got(c)
    /\ job = "publishing" => \A c \in Code : Got(c)

\* The daily run fetches as long as it has not begun to publish, one of the stocks that
\* are left at a time, under a number that no earlier run had.
TurnInv ==
    /\ job # "fetching" => at[Daily] = "idle"
    /\ at[Daily] # "idle" => code[Daily] \in todo
    /\ \A n \in published : n <= runs
    /\ job \in {"fetching", "publishing"} => runs \notin published

\* What is staged is what this run has fetched, or has just been answered.
StagedInv ==
    /\ job \notin {"fetching", "publishing"} => staged[Daily] = {}
    /\ \A a \in staged[Daily] :
          /\ a.accepted /\ a.by = runs
          /\ fetched[a.code] = a \/ (at[Daily] = "answered" /\ response[Daily] = a)

ReportInv ==
    report # NoReport =>
       \A c \in Code : report.bars[c] \in Answers /\ report.bars[c].code = c
                       /\ report.bars[c].accepted

IInv ==
    /\ TypeOK
    /\ \A p \in Client : FetchInv(p)
    /\ CacheInv /\ ProgressInv /\ TurnInv /\ StagedInv /\ ReportInv
-----------------------------------------------------------------------------
(* What any step of a fetch keeps *)

LEMMA DailyIsClient == Daily \in Client /\ Worker \subseteq Client
  OBVIOUS

LEMMA HeadIsProvider ==
  ASSUME NEW s \in Seq(Provider), s # <<>>
  PROVE  /\ Head(s) \in Provider /\ Tail(s) \in Seq(Provider)
         /\ Len(s) # 1 => Tail(s) # <<>>
         /\ Len(s) > 1 => Tail(s) # <<>>
<1>1. Head(s) \in Provider /\ Tail(s) \in Seq(Provider) /\ Len(Tail(s)) = Len(s) - 1
  BY HeadTailProperties
<1>2. Len(s) \in Nat \ {0}
  BY EmptySeq
<1>3. Tail(s) = <<>> => Len(Tail(s)) = 0
  BY EmptySeq
<1> QED
  BY <1>1, <1>2, <1>3

\* The variables of every other process stand.
OthersStand(p) ==
    \A o \in Client \ {p} :
       /\ at'[o] = at[o] /\ code'[o] = code[o] /\ cached'[o] = cached[o]
       /\ asking'[o] = asking[o] /\ response'[o] = response[o]

\* A process keeps its part of the invariant while its variables stand; the number of
\* the run matters to a daily run that fetches.
LEMMA FetchStands ==
  ASSUME NEW p \in Client, FetchInv(p),
         at'[p] = at[p], code'[p] = code[p], cached'[p] = cached[p],
         asking'[p] = asking[p], response'[p] = response[p],
         runs' = runs \/ (p = Daily => at[p] = "idle")
  PROVE  FetchInv(p)'
<1>1. LoadedInv(p)'
  BY DEF FetchInv, LoadedInv, Filed, Answers, Answer
<1>2. AskingInv(p)'
  BY DEF FetchInv, AskingInv
<1>3. ResponseInv(p)'
  BY DEF FetchInv, ResponseInv, FromCache, Asker, Answers, Answer
<1> QED
  BY <1>1, <1>2, <1>3 DEF FetchInv

LEMMA CacheStands ==
  ASSUME CacheInv, UNCHANGED <<cache, published, report>>
  PROVE  CacheInv'
  BY DEF CacheInv, EntryInv, Filed, Answers, Answer

LEMMA JobStands ==
  ASSUME IInv, UNCHANGED jobVars,
         job = "fetching" \/ at'[Daily] = at[Daily],
         at[Daily] # "idle" \/ at'[Daily] = at[Daily],
         code'[Daily] = code[Daily]
  PROVE  ProgressInv' /\ TurnInv' /\ ReportInv'
<1>1. ProgressInv'
  BY DEF IInv, ProgressInv, Got, jobVars, Answers, Answer
<1>2. TurnInv'
  BY DEF IInv, TurnInv, jobVars
<1>3. ReportInv'
  BY DEF IInv, ReportInv, jobVars, Answers, Answer
<1> QED
  BY <1>1, <1>2, <1>3

\* No answer of the daily run is on its way to the caller but where its fetch ends.
LEMMA StagedStands ==
  ASSUME IInv, UNCHANGED <<job, fetched, runs>>, staged'[Daily] = staged[Daily],
         \/ at[Daily] # "answered"
         \/ at'[Daily] = at[Daily] /\ response'[Daily] = response[Daily]
  PROVE  StagedInv'
  BY DEF IInv, StagedInv

\* One step of one process that fetches.
LEMMA FetchStepKeeps ==
  ASSUME IInv, NEW p \in Client, UNCHANGED jobVars,
         p = Daily => job = "fetching" /\ at[p] # "idle" /\ code' = code,
         OthersStand(p), TypeOK', FetchInv(p)', CacheInv', StagedInv'
  PROVE  IInv'
<1>1. \A o \in Client : FetchInv(o)'
  <2> SUFFICES ASSUME NEW o \in Client PROVE FetchInv(o)'
    OBVIOUS
  <2>1. CASE o = p
    BY <2>1
  <2>2. CASE o # p
    <3>1. FetchInv(o) /\ runs' = runs
      BY DEF IInv, jobVars
    <3> QED
      BY <2>2, <3>1, FetchStands DEF OthersStand
  <2> QED
    BY <2>1, <2>2
<1>2. ProgressInv' /\ TurnInv' /\ ReportInv'
  <2>1. code'[Daily] = code[Daily] /\ (job = "fetching" \/ at'[Daily] = at[Daily])
    BY DailyIsClient DEF OthersStand
  <2>2. at[Daily] # "idle" \/ at'[Daily] = at[Daily]
    BY DailyIsClient DEF OthersStand
  <2> QED
    BY <2>1, <2>2, JobStands
<1> QED
  BY <1>1, <1>2 DEF IInv
-----------------------------------------------------------------------------
(* The steps of a fetch *)

LEMMA OrderedIsSelection ==
  ASSUME NEW found PROVE Ordered(found) \in Seq(Provider) /\ Ordered(found) # <<>>
<1>1. <<Primary, Fallback>> \in Seq(Provider) /\ <<Fallback, Primary>> \in Seq(Provider)
  BY DEF Provider
<1>2. <<Primary, Fallback>> # <<>> /\ <<Fallback, Primary>> # <<>>
  OBVIOUS
<1> QED
  BY <1>1, <1>2 DEF Ordered, Selection

LEMMA LoadKeeps ==
  ASSUME IInv, NEW p \in Client, Load(p), UNCHANGED jobVars, p = Daily => job = "fetching"
  PROVE  IInv'
<1> DEFINE q == Head(asking[p])
           entry == cache[q][code[p]]
<1>1. asking[p] \in Seq(Provider) /\ asking[p] # <<>> /\ code[p] \in Code /\ at[p] = "load"
  BY DEF IInv, TypeOK, FetchInv, LoadedInv, AskingInv, Load
<1>2. /\ q \in Provider /\ Tail(asking[p]) \in Seq(Provider)
      /\ Len(asking[p]) > 1 => Tail(asking[p]) # <<>>
  BY <1>1, HeadIsProvider
<1>3. PICK loaded \in {entry, NoAnswer} :
         /\ cached' = [cached EXCEPT ![p][q] = loaded]
         /\ cache' = [cache EXCEPT ![q][code[p]] = loaded]
  BY DEF Load
<1>4. \/ asking' = [asking EXCEPT ![p] = Tail(@)] /\ at' = at /\ Len(asking[p]) > 1
      \/ /\ asking' = [asking EXCEPT ![p] = Ordered(cached'[p])]
         /\ at' = [at EXCEPT ![p] = "ask"]
  BY DEF Load, GoTo
<1>5. UNCHANGED <<lock, paused, code, response, staged>>
  BY DEF Load
<1>6. entry \in Maybe /\ Filed(entry, q, code[p]) /\ Filed(NoAnswer, q, code[p])
  BY <1>1, <1>2 DEF IInv, TypeOK, CacheInv, EntryInv, Filed
<1>7. TypeOK'
  <2>1. cache' \in [Provider -> [Code -> Maybe]] /\ cached' \in [Client -> [Provider -> Maybe]]
    BY <1>1, <1>2, <1>3, <1>6 DEF IInv, TypeOK, Maybe
  <2>2. Ordered(cached'[p]) \in Seq(Provider)
    BY OrderedIsSelection
  <2>3. asking \in [Client -> Seq(Provider)] /\ at \in [Client -> FetchStep]
    BY DEF IInv, TypeOK
  <2>4. asking' \in [Client -> Seq(Provider)]
    BY <1>2, <1>4, <2>2, <2>3
  <2>5. at' \in [Client -> FetchStep]
    BY <1>4, <2>3 DEF FetchStep
  <2> QED
    BY <2>1, <2>4, <2>5, <1>5 DEF IInv, TypeOK, jobVars
<1>8. FetchInv(p)'
  <2>1. at'[p] \in {"load", "ask"} /\ asking'[p] # <<>>
    BY <1>1, <1>2, <1>4, OrderedIsSelection DEF IInv, TypeOK
  <2>2. \A r \in Provider : Filed(cached'[p][r], r, code[p])
    <3> SUFFICES ASSUME NEW r \in Provider PROVE Filed(cached'[p][r], r, code[p])
      OBVIOUS
    <3>1. CASE r = q
      <4>1. cached'[p][r] \in {entry, NoAnswer}
        BY <1>2, <1>3, <3>1 DEF IInv, TypeOK
      <4> QED
        BY <4>1, <3>1, <1>6
    <3>2. CASE r # q
      <4>1. cached'[p][r] = cached[p][r]
        BY <1>3, <3>2 DEF IInv, TypeOK
      <4> QED
        BY <4>1 DEF IInv, FetchInv, LoadedInv
    <3> QED
      BY <3>1, <3>2
  <2>3. LoadedInv(p)'
    BY <1>1, <1>5, <2>1, <2>2 DEF LoadedInv, Filed, Answers, Answer
  <2> QED
    BY <2>1, <2>3 DEF FetchInv, AskingInv, ResponseInv
<1>9. CacheInv'
  <2> SUFFICES ASSUME NEW r \in Provider, NEW c \in Code PROVE EntryInv(r, c)'
    BY DEF CacheInv
  <2>1. cache'[r][c] = cache[r][c] \/ cache'[r][c] = NoAnswer
    BY <1>1, <1>2, <1>3 DEF IInv, TypeOK
  <2>2. UNCHANGED <<published, report>> /\ EntryInv(r, c)
    BY DEF IInv, CacheInv, jobVars
  <2> QED
    BY <2>1, <2>2 DEF EntryInv, Filed, Answers, Answer
<1>10. StagedInv'
  BY <1>1, <1>4, <1>5, StagedStands DEF IInv, TypeOK, jobVars
<1> QED
  <2>1. OthersStand(p)
    BY <1>3, <1>4, <1>5 DEF IInv, TypeOK, OthersStand
  <2> QED
    BY <1>1, <1>5, <1>7, <1>8, <1>9, <1>10, <2>1, FetchStepKeeps

\* The steps that leave the cache and what is staged alone.
LEMMA AskStepKeeps ==
  ASSUME IInv, NEW p \in Client, UNCHANGED jobVars, p = Daily => job = "fetching",
         at[p] \notin {"idle", "answered"}, at'[p] # "idle",
         UNCHANGED <<cache, code, cached, staged>>,
         OthersStand(p), TypeOK', AskingInv(p)', ResponseInv(p)'
  PROVE  IInv'
<1>1. FetchInv(p)'
  BY DEF IInv, FetchInv, LoadedInv, Filed, Answers, Answer
<1>2. CacheInv'
  BY CacheStands DEF IInv, jobVars
<1>3. StagedInv'
  <2>1. p # Daily => at'[Daily] = at[Daily] /\ response'[Daily] = response[Daily]
    BY DailyIsClient DEF OthersStand
  <2> QED
    BY <2>1, StagedStands DEF jobVars
<1> QED
  BY <1>1, <1>2, <1>3, FetchStepKeeps

\* The end of a fetch that fails.
LEMMA FailKeeps ==
  ASSUME IInv, NEW p \in Client, Fail(p), UNCHANGED jobVars, p = Daily => job = "fetching",
         at[p] \notin {"idle", "answered"}, UNCHANGED <<cache, code, cached, staged>>
  PROVE  IInv'
<1>1. /\ at' = [at EXCEPT ![p] = "failed"] /\ UNCHANGED asking
      /\ response' = [response EXCEPT ![p] = NoAnswer]
  BY DEF Fail, GoTo
<1>2. TypeOK
  BY DEF IInv
<1>3. at' \in [Client -> FetchStep] /\ response' \in [Client -> Maybe] /\ asking' \in [Client -> Seq(Provider)]
  BY <1>1, <1>2 DEF TypeOK, Maybe, FetchStep
<1>4. TypeOK'
  BY <1>2, <1>3 DEF TypeOK, jobVars
<1>5. OthersStand(p) /\ at'[p] = "failed"
  BY <1>1, <1>2 DEF TypeOK, OthersStand
<1>6. AskingInv(p)' /\ ResponseInv(p)'
  BY <1>5 DEF AskingInv, ResponseInv
<1> QED
  BY <1>4, <1>5, <1>6, AskStepKeeps

\* On to the next provider, or the end of the fetch.
LEMMA TryNextKeeps ==
  ASSUME IInv, NEW p \in Client, TryNext(p), UNCHANGED jobVars, p = Daily => job = "fetching",
         at[p] \in {"ask", "record"}, UNCHANGED <<cache, code, cached, staged>>
  PROVE  IInv'
<1>1. asking[p] \in Seq(Provider) /\ asking[p] # <<>>
  BY DEF IInv, TypeOK, FetchInv, AskingInv
<1>2. CASE Len(asking[p]) = 1
  BY <1>2, FailKeeps DEF TryNext
<1>3. CASE Len(asking[p]) # 1
  <2>1. Tail(asking[p]) \in Seq(Provider) /\ Tail(asking[p]) # <<>>
    BY <1>1, <1>3, HeadIsProvider
  <2>2. /\ at' = [at EXCEPT ![p] = "ask"] /\ asking' = [asking EXCEPT ![p] = Tail(asking[p])]
        /\ response' = response
    BY <1>3 DEF TryNext, GoTo
  <2>3. TypeOK
    BY DEF IInv
  <2>4. at' \in [Client -> FetchStep]
    BY <2>2, <2>3 DEF TypeOK, FetchStep
  <2>5. asking' \in [Client -> Seq(Provider)]
    BY <2>1, <2>2, <2>3 DEF TypeOK
  <2>6. TypeOK'
    BY <2>2, <2>3, <2>4, <2>5 DEF TypeOK, jobVars
  <2>7. OthersStand(p) /\ at'[p] = "ask" /\ asking'[p] # <<>>
    BY <2>1, <2>2, <2>3 DEF TypeOK, OthersStand
  <2>8. AskingInv(p)' /\ ResponseInv(p)'
    BY <2>7 DEF AskingInv, ResponseInv
  <2> QED
    BY <2>6, <2>7, <2>8, AskStepKeeps
<1> QED
  BY <1>2, <1>3

LEMMA TakeCachedKeeps ==
  ASSUME IInv, NEW p \in Client, TakeCached(p), UNCHANGED jobVars, p = Daily => job = "fetching"
  PROVE  IInv'
<1> DEFINE q == Head(asking[p])
           found == cached[p][q]
<1>1. /\ at[p] = "ask" /\ found # NoAnswer /\ at' = [at EXCEPT ![p] = "check"]
      /\ response' = [response EXCEPT ![p] = found]
      /\ UNCHANGED <<cache, code, cached, asking, staged>>
  BY DEF TakeCached, GoTo
<1>2. TypeOK
  BY DEF IInv
<1>3. q \in Provider
  BY <1>1, <1>2, HeadIsProvider DEF TypeOK, IInv, FetchInv, AskingInv
<1>4. found \in Answers /\ found.provider = q /\ found.code = code[p]
  BY <1>1, <1>3 DEF IInv, FetchInv, LoadedInv, Filed
<1>5. at' \in [Client -> FetchStep] /\ response' \in [Client -> Maybe]
  BY <1>1, <1>2, <1>4 DEF TypeOK, Maybe, FetchStep
<1>6. TypeOK'
  BY <1>1, <1>2, <1>5 DEF TypeOK, jobVars
<1>7. OthersStand(p) /\ at'[p] = "check" /\ response'[p] = found
  BY <1>1, <1>2 DEF TypeOK, OthersStand
<1>8. AskingInv(p)' /\ ResponseInv(p)'
  BY <1>1, <1>4, <1>7 DEF AskingInv, ResponseInv, FromCache
<1> QED
  BY <1>1, <1>6, <1>7, <1>8, AskStepKeeps

LEMMA AskGateKeeps ==
  ASSUME IInv, NEW p \in Client, AskGate(p), UNCHANGED jobVars, p = Daily => job = "fetching"
  PROVE  IInv'
<1>1. /\ at[p] = "ask" /\ cached[p][Head(asking[p])] = NoAnswer
      /\ UNCHANGED <<cache, code, cached, staged>>
  BY DEF AskGate
<1>2. CASE TryNext(p)
  BY <1>1, <1>2, TryNextKeeps
<1>3. CASE ~TryNext(p)
  <2>1. at' = [at EXCEPT ![p] = "request"] /\ UNCHANGED <<asking, response>>
    BY <1>3 DEF AskGate, GoTo
  <2>2. TypeOK
    BY DEF IInv
  <2>3. at' \in [Client -> FetchStep]
    BY <2>1, <2>2 DEF TypeOK, FetchStep
  <2>4. TypeOK'
    BY <1>1, <2>1, <2>2, <2>3 DEF TypeOK, jobVars
  <2>5. OthersStand(p) /\ at'[p] = "request" /\ asking[p] # <<>>
    BY <1>1, <2>1, <2>2 DEF TypeOK, OthersStand, IInv, FetchInv, AskingInv
  <2>6. AskingInv(p)' /\ ResponseInv(p)'
    BY <1>1, <2>1, <2>5 DEF AskingInv, ResponseInv
  <2> QED
    BY <1>1, <2>4, <2>5, <2>6, AskStepKeeps
<1> QED
  BY <1>2, <1>3

LEMMA RespondKeeps ==
  ASSUME IInv, NEW p \in Client, Respond(p, Asker(p)), UNCHANGED jobVars,
         p = Daily => job = "fetching"
  PROVE  IInv'
<1> DEFINE q == Head(asking[p])
<1>1. /\ at[p] = "request" /\ at' = [at EXCEPT ![p] = "check"]
      /\ UNCHANGED <<cache, code, cached, asking, staged>>
  BY DEF Respond, GoTo
<1>2. PICK accepted \in BOOLEAN :
         response' = [response EXCEPT ![p] = [provider |-> q, code |-> code[p],
                                              accepted |-> accepted, by |-> Asker(p)]]
  BY DEF Respond
<1> DEFINE answer == [provider |-> q, code |-> code[p], accepted |-> accepted, by |-> Asker(p)]
<1>3. TypeOK
  BY DEF IInv
<1>4. q \in Provider /\ code[p] \in Code
  BY <1>1, <1>3, HeadIsProvider DEF TypeOK, IInv, FetchInv, AskingInv, LoadedInv
<1>5. Asker(p) \in Worker \cup Nat
  BY <1>3 DEF Asker, TypeOK
<1>6. answer \in Answers
  BY <1>4, <1>5 DEF Answers, Answer
<1>7. at' \in [Client -> FetchStep] /\ response' \in [Client -> Maybe]
  BY <1>1, <1>2, <1>3, <1>6 DEF TypeOK, Maybe, FetchStep
<1>8. TypeOK'
  BY <1>1, <1>3, <1>7 DEF TypeOK, jobVars
<1>9. OthersStand(p) /\ at'[p] = "check" /\ response'[p] = answer
  BY <1>1, <1>2, <1>3 DEF TypeOK, OthersStand
<1>10. Asker(p)' = Asker(p)
  BY DEF Asker, jobVars
<1>11. AskingInv(p)' /\ ResponseInv(p)'
  BY <1>1, <1>6, <1>9, <1>10 DEF AskingInv, ResponseInv
<1> QED
  BY <1>1, <1>8, <1>9, <1>11, AskStepKeeps

LEMMA BeUnavailableKeeps ==
  ASSUME IInv, NEW p \in Client, BeUnavailable(p), UNCHANGED jobVars,
         p = Daily => job = "fetching"
  PROVE  IInv'
<1>1. /\ at[p] = "request" /\ at' = [at EXCEPT ![p] = "record"]
      /\ UNCHANGED <<cache, code, cached, asking, response, staged>>
  BY DEF BeUnavailable, GoTo
<1>2. TypeOK
  BY DEF IInv
<1>3. at' \in [Client -> FetchStep]
  BY <1>1, <1>2 DEF TypeOK, FetchStep
<1>4. TypeOK'
  BY <1>1, <1>2, <1>3 DEF TypeOK, jobVars
<1>5. OthersStand(p) /\ at'[p] = "record" /\ asking[p] # <<>>
  BY <1>1, <1>2 DEF TypeOK, OthersStand, IInv, FetchInv, AskingInv
<1>6. AskingInv(p)' /\ ResponseInv(p)'
  BY <1>1, <1>5 DEF AskingInv, ResponseInv
<1> QED
  BY <1>1, <1>4, <1>5, <1>6, AskStepKeeps

LEMMA RecordFailureKeeps ==
  ASSUME IInv, NEW p \in Client, RecordFailure(p), UNCHANGED jobVars,
         p = Daily => job = "fetching"
  PROVE  IInv'
  BY TryNextKeeps DEF RecordFailure

LEMMA RaiseDataErrorKeeps ==
  ASSUME IInv, NEW p \in Client, RaiseDataError(p), UNCHANGED jobVars,
         p = Daily => job = "fetching"
  PROVE  IInv'
  BY FailKeeps DEF RaiseDataError

\* A response that is accepted is returned, staged and returned, or stored.
LEMMA CheckKeeps ==
  ASSUME IInv, NEW p \in Client, Check(p), UNCHANGED jobVars, p = Daily => job = "fetching"
  PROVE  IInv'
<1> DEFINE step == IF FromCache(p) \/ p \in Deferring THEN "answered" ELSE "store"
<1>1. at[p] = "check" /\ UNCHANGED <<cache, code, cached>>
  BY DEF Check
<1>2. CASE ~response[p].accepted
  BY <1>1, <1>2, FailKeeps DEF Check
<1>3. CASE response[p].accepted
  <2>1. /\ staged' = [staged EXCEPT ![p] = IF p \in Deferring /\ ~FromCache(p)
                                           THEN @ \cup {response[p]} ELSE @]
        /\ at' = [at EXCEPT ![p] = step] /\ UNCHANGED <<asking, response>>
    BY <1>3 DEF Check, GoTo
  <2>2. TypeOK /\ response[p] \in Answers /\ response[p].code = code[p]
        /\ (~FromCache(p) => response[p].by = Asker(p))
    BY <1>1 DEF IInv, FetchInv, ResponseInv
  <2>3. at' \in [Client -> FetchStep]
    BY <2>1, <2>2 DEF TypeOK, FetchStep
  <2>4. staged' \in [Client -> SUBSET Answers]
    BY <2>1, <2>2 DEF TypeOK
  <2>5. TypeOK'
    BY <1>1, <2>1, <2>2, <2>3, <2>4 DEF TypeOK, jobVars
  <2>6. OthersStand(p) /\ at'[p] = step
    BY <1>1, <2>1, <2>2 DEF TypeOK, OthersStand
  <2>7. FetchInv(p)'
    <3>1. LoadedInv(p)'
      BY <1>1, <2>6 DEF IInv, FetchInv, LoadedInv, Filed, Answers, Answer
    <3>2. AskingInv(p)'
      BY <2>6 DEF AskingInv
    <3>3. step = "store" => p \in Worker /\ Asker(p) = p
      BY DEF Asker
    <3>4. ResponseInv(p)'
      BY <1>1, <1>3, <2>1, <2>2, <2>6, <3>3 DEF ResponseInv
    <3> QED
      BY <3>1, <3>2, <3>4 DEF FetchInv
  <2>8. CacheInv'
    BY <1>1, CacheStands DEF IInv, jobVars
  <2>9. StagedInv'
    <3>1. CASE p = Daily
      <4>1. \A a \in staged[Daily] : a.accepted /\ a.by = runs /\ fetched[a.code] = a
        BY <1>1, <3>1 DEF IInv, StagedInv
      <4>2. staged'[Daily] \subseteq staged[Daily] \cup {response[Daily]}
        BY <2>1, <2>2, <3>1 DEF TypeOK
      <4>3. response[Daily] \in staged'[Daily] =>
               response[Daily].by = runs \/ response[Daily] \in staged[Daily]
        BY <2>1, <2>2, <3>1 DEF TypeOK, Asker
      <4>4. at'[Daily] = "answered" /\ response'[Daily] = response[Daily]
        BY <2>1, <2>6, <3>1
      <4>5. job = "fetching" /\ UNCHANGED <<job, fetched, runs>>
        BY <3>1 DEF jobVars
      <4> QED
        BY <1>3, <3>1, <4>1, <4>2, <4>3, <4>4, <4>5 DEF StagedInv
    <3>2. CASE p # Daily
      <4>1. /\ staged'[Daily] = staged[Daily] /\ at'[Daily] = at[Daily]
            /\ response'[Daily] = response[Daily]
        BY <2>1, <2>2, <2>6, <3>2, DailyIsClient DEF TypeOK, OthersStand
      <4> QED
        BY <4>1, StagedStands DEF jobVars
    <3> QED
      BY <3>1, <3>2
  <2> QED
    BY <1>1, <2>5, <2>6, <2>7, <2>8, <2>9, FetchStepKeeps
<1> QED
  BY <1>2, <1>3

LEMMA StoredIsCachedOrNew ==
  ASSUME NEW answers, NEW q \in Provider, NEW c \in Code
  PROVE  \/ Stored(answers)[q][c] = cache[q][c]
         \/ \E a \in answers : a.provider = q /\ a.code = c /\ Stored(answers)[q][c] = a
<1>1. CASE \E a \in answers : a.provider = q /\ a.code = c
  <2> DEFINE new == CHOOSE a \in answers : a.provider = q /\ a.code = c
  <2>1. new \in answers /\ new.provider = q /\ new.code = c
    BY <1>1
  <2>2. Stored(answers)[q][c] = new
    BY <1>1 DEF Stored
  <2> QED
    BY <2>1, <2>2
<1>2. CASE ~\E a \in answers : a.provider = q /\ a.code = c
  BY <1>2 DEF Stored
<1> QED
  BY <1>1, <1>2

LEMMA StoredIsCache ==
  ASSUME TypeOK, NEW answers \in SUBSET Answers
  PROVE  Stored(answers) \in [Provider -> [Code -> Maybe]]
<1>1. ASSUME NEW q \in Provider, NEW c \in Code PROVE Stored(answers)[q][c] \in Maybe
  BY StoredIsCachedOrNew DEF TypeOK, Maybe
<1>2. \A q \in Provider : Stored(answers)[q] \in [Code -> Maybe]
  <2> SUFFICES ASSUME NEW q \in Provider PROVE Stored(answers)[q] \in [Code -> Maybe]
    OBVIOUS
  <2>1. Stored(answers)[q] = [c \in Code |-> Stored(answers)[q][c]]
    BY DEF Stored
  <2> QED
    BY <2>1, <1>1
<1> QED
  BY <1>2 DEF Stored

\* Only workers store by themselves.
LEMMA StoreKeeps ==
  ASSUME IInv, NEW p \in Client, Store(p), UNCHANGED jobVars, p = Daily => job = "fetching"
  PROVE  IInv'
<1>1. /\ at[p] = "store" /\ cache' = Stored({response[p]})
      /\ at' = [at EXCEPT ![p] = "answered"]
      /\ UNCHANGED <<code, cached, asking, response, staged>>
  BY DEF Store, GoTo
<1>2. /\ TypeOK /\ response[p] \in Answers /\ response[p].code = code[p]
      /\ response[p].accepted /\ p \in Worker /\ response[p].by = p
  BY <1>1 DEF IInv, FetchInv, ResponseInv
<1>3. at' \in [Client -> FetchStep] /\ cache' \in [Provider -> [Code -> Maybe]]
  <2>1. {response[p]} \in SUBSET Answers
    BY <1>2
  <2> QED
    BY <1>1, <1>2, <2>1, StoredIsCache DEF TypeOK, FetchStep
<1>4. TypeOK'
  BY <1>1, <1>2, <1>3 DEF TypeOK, jobVars
<1>5. OthersStand(p) /\ at'[p] = "answered" /\ p # Daily
  BY <1>1, <1>2 DEF TypeOK, OthersStand
<1>6. FetchInv(p)'
  <2>1. LoadedInv(p)'
    BY <1>1, <1>5 DEF IInv, FetchInv, LoadedInv, Filed, Answers, Answer
  <2>2. AskingInv(p)' /\ ResponseInv(p)'
    BY <1>1, <1>2, <1>5 DEF AskingInv, ResponseInv, Answers, Answer
  <2> QED
    BY <2>1, <2>2 DEF FetchInv
<1>7. CacheInv'
  <2> SUFFICES ASSUME NEW q \in Provider, NEW c \in Code PROVE EntryInv(q, c)'
    BY DEF CacheInv
  <2>1. UNCHANGED <<published, report>> /\ EntryInv(q, c)
    BY DEF IInv, CacheInv, jobVars
  <2>2. CASE cache'[q][c] = cache[q][c]
    BY <2>1, <2>2 DEF EntryInv, Filed, Answers, Answer
  <2>3. CASE cache'[q][c] # cache[q][c]
    <3>1. \E a \in {response[p]} : a.provider = q /\ a.code = c /\ cache'[q][c] = a
      BY <1>1, <2>3, StoredIsCachedOrNew
    <3>2. cache'[q][c] = response[p] /\ response[p].provider = q /\ response[p].code = c
      BY <3>1
    <3> QED
      BY <1>2, <3>2 DEF EntryInv, Filed, Answers, Answer
  <2> QED
    BY <2>2, <2>3
<1>8. StagedInv'
  <2>1. at'[Daily] = at[Daily] /\ response'[Daily] = response[Daily]
    BY <1>5, DailyIsClient DEF OthersStand
  <2> QED
    BY <1>1, <2>1, StagedStands DEF jobVars
<1> QED
  BY <1>5, <1>4, <1>6, <1>7, <1>8, FetchStepKeeps

LEMMA FetchNextKeeps ==
  ASSUME IInv, NEW p \in Client, FetchNext(p, Asker(p)), UNCHANGED jobVars,
         p = Daily => job = "fetching"
  PROVE  IInv'
  BY LoadKeeps, TakeCachedKeeps, AskGateKeeps, RespondKeeps, BeUnavailableKeeps,
     RecordFailureKeeps, RaiseDataErrorKeeps, CheckKeeps, StoreKeeps DEF FetchNext
-----------------------------------------------------------------------------
(* Where a fetch begins and ends *)

FetchTypes ==
    /\ at \in [Client -> FetchStep]
    /\ code \in [Client -> Code \cup {CHOOSE c \in Code : TRUE}]
    /\ cached \in [Client -> [Provider -> Maybe]]
    /\ asking \in [Client -> Seq(Provider)]
    /\ response \in [Client -> Maybe]

LEMMA FetchBegins ==
  ASSUME TypeOK, NEW p \in Client, FetchInv(p), NEW c \in Code, Fetch(p, c)
  PROVE  FetchTypes' /\ OthersStand(p) /\ FetchInv(p)' /\ at'[p] = "load" /\ code'[p] = c
<1>1. /\ at' = [at EXCEPT ![p] = "load"] /\ code' = [code EXCEPT ![p] = c]
      /\ asking' = [asking EXCEPT ![p] = Selection] /\ UNCHANGED <<cached, response>>
      /\ at[p] = "idle"
  BY DEF Fetch, GoTo
<1>2. Selection \in Seq(Provider) /\ Selection # <<>>
  <2>1. <<Primary, Fallback>> \in Seq(Provider)
    BY DEF Provider
  <2>2. <<Primary, Fallback>> # <<>>
    OBVIOUS
  <2> QED
    BY <2>1, <2>2 DEF Selection
<1>3. at' \in [Client -> FetchStep] /\ asking' \in [Client -> Seq(Provider)]
  BY <1>1, <1>2 DEF TypeOK, FetchStep
<1>4. FetchTypes'
  BY <1>1, <1>3 DEF TypeOK, FetchTypes
<1>5. /\ OthersStand(p) /\ at'[p] = "load" /\ code'[p] = c /\ asking'[p] # <<>>
      /\ cached'[p] = cached[p]
  BY <1>1, <1>2 DEF TypeOK, OthersStand
<1>6. \A q \in Provider : cached[p][q] = NoAnswer
  BY <1>1 DEF FetchInv, LoadedInv
<1>7. FetchInv(p)'
  BY <1>5, <1>6 DEF FetchInv, LoadedInv, AskingInv, ResponseInv, Filed
<1> QED
  BY <1>4, <1>5, <1>7

LEMMA FetchEnds ==
  ASSUME TypeOK, NEW p \in Client, Forget(p)
  PROVE  FetchTypes' /\ OthersStand(p) /\ FetchInv(p)' /\ at'[p] = "idle"
<1>1. /\ at' = [at EXCEPT ![p] = "idle"] /\ code' = [code EXCEPT ![p] = CHOOSE c \in Code : TRUE]
      /\ cached' = [cached EXCEPT ![p] = [q \in Provider |-> NoAnswer]]
      /\ asking' = [asking EXCEPT ![p] = <<>>]
      /\ response' = [response EXCEPT ![p] = NoAnswer]
  BY DEF Forget, GoTo
<1>2. at' \in [Client -> FetchStep] /\ response' \in [Client -> Maybe]
  BY <1>1 DEF TypeOK, FetchStep, Maybe
<1>3. asking' \in [Client -> Seq(Provider)]
  <2>1. <<>> \in Seq(Provider)
    BY EmptySeq
  <2> QED
    BY <1>1, <2>1 DEF TypeOK
<1>4. cached' \in [Client -> [Provider -> Maybe]]
  BY <1>1 DEF TypeOK, Maybe
<1>5. code' \in [Client -> Code \cup {CHOOSE c \in Code : TRUE}]
  BY <1>1 DEF TypeOK
<1>6. FetchTypes'
  BY <1>2, <1>3, <1>4, <1>5 DEF FetchTypes
<1>7. OthersStand(p) /\ at'[p] = "idle" /\ \A q \in Provider : cached'[p][q] = NoAnswer
  BY <1>1 DEF TypeOK, OthersStand
<1>8. FetchInv(p)'
  BY <1>7 DEF FetchInv, LoadedInv, AskingInv, ResponseInv, Filed
<1> QED
  BY <1>6, <1>7, <1>8

\* A worker begins a fetch, has its answer, or is gone.
LEMMA WorkerStepKeeps ==
  ASSUME IInv, NEW w \in Worker, UNCHANGED <<job, todo, fetched, failures, report, published, runs>>,
         UNCHANGED cache, staged' = staged \/ staged' = [staged EXCEPT ![w] = {}],
         FetchTypes', OthersStand(w), FetchInv(w)'
  PROVE  IInv'
<1>1. TypeOK /\ w \in Client /\ w # Daily
  BY DailyIsClient DEF IInv
<1>2. staged' \in [Client -> SUBSET Answers] /\ staged'[Daily] = staged[Daily]
  BY <1>1, DailyIsClient DEF TypeOK
<1>3. TypeOK'
  BY <1>1, <1>2 DEF TypeOK, FetchTypes
<1>4. /\ at'[Daily] = at[Daily] /\ response'[Daily] = response[Daily]
      /\ code'[Daily] = code[Daily]
  BY <1>1, DailyIsClient DEF OthersStand
<1>5. \A p \in Client : FetchInv(p)'
  <2> SUFFICES ASSUME NEW p \in Client, p # w PROVE FetchInv(p)'
    OBVIOUS
  <2>1. FetchInv(p)
    BY DEF IInv
  <2> QED
    BY <2>1, FetchStands DEF OthersStand
<1>6. CacheInv'
  BY CacheStands DEF IInv
<1>7. StagedInv'
  BY <1>2, <1>4, StagedStands
<1>8. ProgressInv'
  BY DEF IInv, ProgressInv, Got, Answers, Answer
<1>9. TurnInv' /\ ReportInv'
  BY <1>4 DEF IInv, TurnInv, ReportInv, Answers, Answer
<1> QED
  BY <1>3, <1>5, <1>6, <1>7, <1>8, <1>9 DEF IInv

LEMMA WorkerFetchesKeeps ==
  ASSUME IInv, NEW w \in Worker, WorkerFetches(w)
  PROVE  IInv'
<1>1. PICK c \in Code : Fetch(w, c)
  BY DEF WorkerFetches
<1>2. TypeOK /\ w \in Client /\ FetchInv(w)
  BY DailyIsClient DEF IInv
<1>3. UNCHANGED <<job, todo, fetched, failures, report, published, runs, cache, staged>>
  BY <1>1 DEF WorkerFetches, Fetch
<1> QED
  BY <1>1, <1>2, <1>3, FetchBegins, WorkerStepKeeps

LEMMA WorkerEndsKeeps ==
  ASSUME IInv, NEW w \in Worker, WorkerReturns(w) \/ WorkerDies(w)
  PROVE  IInv'
<1>1. Forget(w)
  BY DEF WorkerReturns, WorkerDies, Return, Die
<1>2. /\ UNCHANGED <<job, todo, fetched, failures, report, published, runs, cache>>
      /\ staged' = staged \/ staged' = [staged EXCEPT ![w] = {}]
  BY DEF WorkerReturns, WorkerDies, Return, Die, jobVars
<1>3. TypeOK /\ w \in Client
  BY DailyIsClient DEF IInv
<1> QED
  BY <1>1, <1>2, <1>3, FetchEnds, WorkerStepKeeps
-----------------------------------------------------------------------------
(* The steps of the daily run *)

\* No other process is touched by what the daily run does with its own variables, and it
\* begins to fetch under a new number only while none of its fetches is on.
LEMMA DailyFetchInv ==
  ASSUME IInv, FetchInv(Daily)', OthersStand(Daily)
  PROVE  \A p \in Client : FetchInv(p)'
<1> SUFFICES ASSUME NEW p \in Client, p # Daily PROVE FetchInv(p)'
  OBVIOUS
<1>1. FetchInv(p)
  BY DEF IInv
<1> QED
  BY <1>1, FetchStands DEF OthersStand

LEMMA FetchVarsStand ==
  ASSUME IInv, UNCHANGED <<at, code, cached, asking, response>>,
         runs' = runs \/ at[Daily] = "idle"
  PROVE  \A p \in Client : FetchInv(p)'
<1> SUFFICES ASSUME NEW p \in Client PROVE FetchInv(p)'
  OBVIOUS
<1>1. FetchInv(p)
  BY DEF IInv
<1> QED
  BY <1>1, FetchStands

LEMMA BeginKeeps ==
  ASSUME IInv, Begin
  PROVE  IInv'
<1>1. /\ job = "rest" /\ job' = "fetching" /\ todo' = Code /\ runs' = runs + 1
      /\ UNCHANGED <<cache, at, code, cached, asking, response, staged, fetched, failures>>
      /\ UNCHANGED <<report, published>>
  BY DEF Begin
<1>2. /\ TypeOK /\ at[Daily] = "idle" /\ staged[Daily] = {}
      /\ \A c \in Code : fetched[c] = NoAnswer
      /\ \A n \in published : n <= runs
  BY <1>1 DEF IInv, TurnInv, StagedInv, ProgressInv
<1>3. TypeOK'
  BY <1>1, <1>2 DEF TypeOK
<1>4. \A p \in Client : FetchInv(p)'
  BY <1>1, <1>2, FetchVarsStand
<1>5. CacheInv'
  BY <1>1, CacheStands DEF IInv
<1>6. ProgressInv'
  BY <1>1, <1>2 DEF ProgressInv
<1>7. TurnInv'
  BY <1>1, <1>2 DEF TurnInv, TypeOK
<1>8. StagedInv' /\ ReportInv'
  BY <1>1, <1>2 DEF IInv, StagedInv, ReportInv, Answers, Answer
<1> QED
  BY <1>3, <1>4, <1>5, <1>6, <1>7, <1>8 DEF IInv

LEMMA FetchStockKeeps ==
  ASSUME IInv, FetchStock
  PROVE  IInv'
<1> DEFINE c == CHOOSE c \in todo : TRUE
<1>1. /\ job = "fetching" /\ at[Daily] = "idle" /\ todo # {} /\ Fetch(Daily, c)
      /\ UNCHANGED <<job, todo, fetched, failures, report, published, runs>>
  BY DEF FetchStock, jobVars
<1>2. c \in todo
  BY <1>1
<1>3. TypeOK /\ c \in Code /\ FetchInv(Daily) /\ Daily \in Client
  BY <1>2, DailyIsClient DEF IInv, TypeOK
<1>4. UNCHANGED <<cache, staged>>
  BY <1>1 DEF Fetch
<1>5. /\ FetchTypes' /\ OthersStand(Daily) /\ FetchInv(Daily)' /\ at'[Daily] = "load"
      /\ code'[Daily] = c
  BY <1>1, <1>3, FetchBegins
<1>6. TypeOK'
  BY <1>1, <1>3, <1>4, <1>5 DEF TypeOK, FetchTypes
<1>7. \A p \in Client : FetchInv(p)'
  BY <1>5, DailyFetchInv
<1>8. CacheInv'
  BY <1>1, <1>4, CacheStands DEF IInv
<1>9. ProgressInv'
  BY <1>1 DEF IInv, ProgressInv, Got, Answers, Answer
<1>10. TurnInv'
  BY <1>1, <1>2, <1>5 DEF IInv, TurnInv
<1>11. StagedInv'
  BY <1>1, <1>4, StagedStands
<1>12. ReportInv'
  BY <1>1 DEF IInv, ReportInv, Answers, Answer
<1> QED
  BY <1>6, <1>7, <1>8, <1>9, <1>10, <1>11, <1>12 DEF IInv

\* The stock is no longer to be fetched, and what was staged for it is what it has.
LEMMA StockDoneKeeps ==
  ASSUME IInv, StockDone
  PROVE  IInv'
<1> DEFINE c == code[Daily]
<1>1. /\ job = "fetching" /\ Return(Daily) /\ todo' = todo \ {c}
      /\ UNCHANGED <<job, report, published, runs>>
  BY DEF StockDone
<1>2. /\ TypeOK /\ Daily \in Client /\ at[Daily] \in {"answered", "failed"}
      /\ Forget(Daily) /\ UNCHANGED <<cache, staged>>
  BY <1>1, DailyIsClient DEF IInv, Return
<1>3. /\ FetchTypes' /\ OthersStand(Daily) /\ FetchInv(Daily)' /\ at'[Daily] = "idle"
  BY <1>2, FetchEnds
<1>4. c \in todo /\ c \in Code
  BY <1>2 DEF IInv, TurnInv, TypeOK
<1>5. at[Daily] = "answered" =>
         response[Daily] \in Answers /\ response[Daily].code = c /\ response[Daily].accepted
  BY <1>2 DEF IInv, FetchInv, ResponseInv
<1>6. \/ /\ at[Daily] = "answered" /\ failures' = failures
         /\ fetched' = [fetched EXCEPT ![c] = response[Daily]]
      \/ at[Daily] = "failed" /\ failures' = failures \cup {c} /\ fetched' = fetched
  BY <1>2 DEF StockDone
<1>7. fetched' \in [Code -> Maybe] /\ failures' \subseteq Code
  BY <1>2, <1>4, <1>5, <1>6 DEF TypeOK, Maybe
<1>8. TypeOK'
  BY <1>1, <1>2, <1>3, <1>7 DEF TypeOK, FetchTypes
<1>9. \A p \in Client : FetchInv(p)'
  BY <1>3, DailyFetchInv
<1>10. CacheInv'
  BY <1>1, <1>2, CacheStands DEF IInv
<1>11. \A d \in Code \ {c} : fetched'[d] = fetched[d]
  BY <1>2, <1>6 DEF TypeOK
<1>12. at[Daily] = "answered" => fetched'[c] = response[Daily]
  BY <1>2, <1>4, <1>6 DEF TypeOK
<1>13. ProgressInv'
  <2>1. \A d \in todo' : fetched'[d] = NoAnswer
    BY <1>1, <1>2, <1>11 DEF IInv, ProgressInv, TypeOK
  <2>2. \A d \in Code : d \in todo' \/ d \in failures' \/ Got(d)'
    <3> SUFFICES ASSUME NEW d \in Code PROVE d \in todo' \/ d \in failures' \/ Got(d)'
      OBVIOUS
    <3>1. CASE d = c
      BY <3>1, <1>2, <1>5, <1>6, <1>12 DEF Got, Answers, Answer
    <3>2. CASE d # c
      <4>1. d \in todo \/ d \in failures \/ Got(d)
        BY <1>1 DEF IInv, ProgressInv
      <4> QED
        BY <4>1, <3>2, <1>1, <1>6, <1>11 DEF Got, Answers, Answer
    <3> QED
      BY <3>1, <3>2
  <2> QED
    BY <1>1, <2>1, <2>2 DEF ProgressInv
<1>14. TurnInv'
  BY <1>1, <1>3 DEF IInv, TurnInv
<1>15. StagedInv'
  <2>1. SUFFICES ASSUME NEW a \in staged[Daily]
                 PROVE  a.accepted /\ a.by = runs /\ fetched'[a.code] = a
    BY <1>1, <1>2 DEF StagedInv
  <2>2. a.accepted /\ a.by = runs /\ a \in Answers /\ a.code \in Code
    BY <1>2 DEF IInv, StagedInv, TypeOK, Answers, Answer
  <2>3. CASE fetched[a.code] = a
    <3>1. a # NoAnswer
      BY <2>2 DEF Answers
    <3>2. a.code # c
      BY <1>4, <2>3, <3>1 DEF IInv, ProgressInv
    <3> QED
      BY <1>11, <2>2, <2>3, <3>2
  <2>4. CASE fetched[a.code] # a
    <3>1. at[Daily] = "answered" /\ response[Daily] = a
      BY <2>4 DEF IInv, StagedInv
    <3> QED
      BY <1>5, <1>12, <2>2, <3>1
  <2> QED
    BY <2>3, <2>4
<1>16. ReportInv'
  BY <1>1 DEF IInv, ReportInv, Answers, Answer
<1> QED
  BY <1>8, <1>9, <1>10, <1>13, <1>14, <1>15, <1>16 DEF IInv

\* The run is over: nothing of it is left but what it has published.
LEMMA RunOverKeeps ==
  ASSUME IInv, job' \in {"rest", "notifying"},
         todo' = {}, fetched' = [c \in Code |-> NoAnswer], failures' = {},
         staged' = [staged EXCEPT ![Daily] = {}], UNCHANGED runs,
         FetchTypes', \A p \in Client : FetchInv(p)', at'[Daily] = "idle",
         published' \subseteq published \cup {runs},
         cache' \in [Provider -> [Code -> Maybe]], CacheInv', ReportInv'
  PROVE  IInv'
<1>1. TypeOK
  BY DEF IInv
<1>2. staged' \in [Client -> SUBSET Answers] /\ staged'[Daily] = {}
  BY <1>1, DailyIsClient DEF TypeOK
<1>3. fetched' \in [Code -> Maybe]
  BY DEF Maybe
<1>4. TypeOK'
  BY <1>1, <1>2, <1>3 DEF TypeOK, FetchTypes
<1>5. ProgressInv'
  BY DEF ProgressInv
<1>6. TurnInv'
  BY <1>1 DEF IInv, TurnInv, TypeOK
<1>7. StagedInv'
  BY <1>2 DEF StagedInv
<1> QED
  BY <1>4, <1>5, <1>6, <1>7 DEF IInv

LEMMA AbandonKeeps ==
  ASSUME IInv, Abandon, at[Daily] = "idle"
  PROVE  IInv'
<1>1. /\ job' = "rest" /\ todo' = {} /\ fetched' = [c \in Code |-> NoAnswer] /\ failures' = {}
      /\ staged' = [staged EXCEPT ![Daily] = {}]
      /\ UNCHANGED <<at, code, cached, asking, response, cache, report, published, runs>>
  BY DEF Abandon, Free, Discard
<1>2. FetchTypes' /\ cache' \in [Provider -> [Code -> Maybe]]
  BY <1>1 DEF IInv, TypeOK, FetchTypes
<1>3. \A p \in Client : FetchInv(p)'
  BY <1>1, FetchVarsStand
<1>4. CacheInv'
  BY <1>1, CacheStands DEF IInv
<1>5. ReportInv'
  BY <1>1 DEF IInv, ReportInv, Answers, Answer
<1> QED
  BY <1>1, <1>2, <1>3, <1>4, <1>5, RunOverKeeps

LEMMA StocksCompleteKeeps ==
  ASSUME IInv, StocksComplete
  PROVE  IInv'
<1>1. /\ job = "fetching" /\ at[Daily] = "idle" /\ todo = {} /\ failures = {}
      /\ job' = "publishing" /\ UNCHANGED fetchVars
      /\ UNCHANGED <<todo, fetched, failures, report, published, runs>>
  BY DEF StocksComplete
<1>2. TypeOK'
  BY <1>1 DEF IInv, TypeOK, fetchVars
<1>3. \A p \in Client : FetchInv(p)'
  BY <1>1, FetchVarsStand DEF fetchVars
<1>4. CacheInv'
  BY <1>1, CacheStands DEF IInv, fetchVars
<1>5. ProgressInv'
  BY <1>1 DEF IInv, ProgressInv, Got, Answers, Answer
<1>6. TurnInv' /\ StagedInv'
  BY <1>1 DEF IInv, TurnInv, StagedInv, fetchVars
<1>7. ReportInv'
  BY <1>1 DEF IInv, ReportInv, Answers, Answer
<1> QED
  BY <1>2, <1>3, <1>4, <1>5, <1>6, <1>7 DEF IInv

\* Every entry that comes with the report is in it, and no older entry has its number.
LEMMA PublishKeeps ==
  ASSUME IInv, Publish
  PROVE  IInv'
<1>1. /\ job = "publishing" /\ cache' \in {cache, Stored(staged[Daily])}
      /\ job' \in {"rest", "notifying"}
      /\ todo' = {} /\ fetched' = [c \in Code |-> NoAnswer] /\ failures' = {}
      /\ staged' = [staged EXCEPT ![Daily] = {}]
      /\ UNCHANGED <<at, code, cached, asking, response, runs>>
      /\ report' = [run |-> runs, bars |-> fetched] /\ published' = published \cup {runs}
  BY DEF Publish, Free, Discard
<1>2. /\ TypeOK /\ at[Daily] = "idle" /\ runs \notin published
      /\ \A c \in Code : Got(c)
  BY <1>1 DEF IInv, TurnInv, ProgressInv
<1>3. \A a \in staged[Daily] : a \in Answers /\ a.accepted /\ a.by = runs /\ fetched[a.code] = a
  BY <1>2, DailyIsClient DEF IInv, StagedInv, TypeOK
<1>4. FetchTypes'
  BY <1>1, <1>2 DEF TypeOK, FetchTypes
<1>5. cache' \in [Provider -> [Code -> Maybe]]
  <2>1. staged[Daily] \in SUBSET Answers
    BY <1>3
  <2> QED
    BY <1>1, <1>2, <2>1, StoredIsCache DEF TypeOK
<1>6. \A p \in Client : FetchInv(p)'
  BY <1>1, <1>2, FetchVarsStand
<1>7. CacheInv'
  <2> SUFFICES ASSUME NEW q \in Provider, NEW c \in Code PROVE EntryInv(q, c)'
    BY DEF CacheInv
  <2>1. report'.run = runs /\ report'.bars = fetched /\ EntryInv(q, c)
    BY <1>1 DEF IInv, CacheInv
  <2>2. CASE cache'[q][c] = cache[q][c]
    BY <1>1, <1>2, <2>1, <2>2 DEF EntryInv, Filed, Answers, Answer
  <2>3. CASE cache'[q][c] # cache[q][c]
    <3>1. PICK a \in staged[Daily] : a.provider = q /\ a.code = c /\ cache'[q][c] = a
      BY <1>1, <2>3, StoredIsCachedOrNew
    <3>2. a \in Answers /\ a.accepted /\ a.by = runs /\ fetched[c] = a /\ runs \in published'
      BY <1>1, <1>3, <3>1
    <3> QED
      BY <2>1, <3>1, <3>2 DEF EntryInv, Filed, Answers, Answer
  <2> QED
    BY <2>2, <2>3
<1>8. ReportInv'
  BY <1>1, <1>2 DEF ReportInv, Got, Answers, Answer
<1>9. at'[Daily] = "idle"
  BY <1>1, <1>2
<1> QED
  BY <1>1, <1>4, <1>5, <1>6, <1>7, <1>8, <1>9, RunOverKeeps

LEMMA DailyDiesKeeps ==
  ASSUME IInv, DailyDies
  PROVE  IInv'
<1>1. /\ Forget(Daily) /\ job' = "rest" /\ todo' = {} /\ failures' = {}
      /\ fetched' = [c \in Code |-> NoAnswer] /\ staged' = [staged EXCEPT ![Daily] = {}]
      /\ UNCHANGED <<cache, report, published, runs>>
  BY DEF DailyDies, Die
<1>2. TypeOK /\ Daily \in Client
  BY DailyIsClient DEF IInv
<1>3. FetchTypes' /\ OthersStand(Daily) /\ FetchInv(Daily)' /\ at'[Daily] = "idle"
  BY <1>1, <1>2, FetchEnds
<1>4. \A p \in Client : FetchInv(p)'
  BY <1>3, DailyFetchInv
<1>5. CacheInv' /\ cache' \in [Provider -> [Code -> Maybe]]
  BY <1>1, <1>2, CacheStands DEF IInv, TypeOK
<1>6. ReportInv'
  BY <1>1 DEF IInv, ReportInv, Answers, Answer
<1> QED
  BY <1>1, <1>3, <1>4, <1>5, <1>6, RunOverKeeps

\* Notifying, its end and its repetition: the fetches and what they brought stand.
LEMMA NotifyStepKeeps ==
  ASSUME IInv, UNCHANGED fetchVars, job # "fetching", job # "publishing",
         job' \in {"rest", "notifying"}, runs' \in Nat, runs' >= runs,
         UNCHANGED <<todo, fetched, failures, report, published>>
  PROVE  IInv'
<1>1. TypeOK /\ at[Daily] = "idle"
  BY DEF IInv, TurnInv
<1>2. TypeOK'
  BY <1>1 DEF TypeOK, fetchVars
<1>3. \A p \in Client : FetchInv(p)'
  BY <1>1, FetchVarsStand DEF fetchVars
<1>4. CacheInv'
  BY CacheStands DEF IInv, fetchVars
<1>5. ProgressInv'
  BY DEF IInv, ProgressInv
<1>6. TurnInv'
  BY <1>1 DEF IInv, TurnInv, TypeOK, fetchVars
<1>7. StagedInv'
  BY DEF IInv, StagedInv, fetchVars
<1>8. ReportInv'
  BY DEF IInv, ReportInv, Answers, Answer
<1> QED
  BY <1>2, <1>3, <1>4, <1>5, <1>6, <1>7, <1>8 DEF IInv

LEMMA ExitKeeps ==
  ASSUME IInv, DailyNotifies \/ Exit \/ NotifyAgain
  PROVE  IInv'
<1>1. /\ UNCHANGED <<fetchVars, todo, fetched, failures, report, published>>
      /\ job \in {"rest", "notifying"} /\ job' \in {"rest", "notifying"}
      /\ runs' \in {runs, runs + 1}
  BY DEF DailyNotifies, Exit, NotifyAgain, jobVars
<1>2. runs \in Nat
  BY DEF IInv, TypeOK
<1> QED
  BY <1>1, <1>2, NotifyStepKeeps

\* A provider that is asked again, and steps that change nothing.
LEMMA ResumeKeeps ==
  ASSUME IInv, UNCHANGED <<cache, at, code, cached, asking, response, staged, jobVars>>
  PROVE  IInv'
<1>1. TypeOK'
  BY DEF IInv, TypeOK, jobVars
<1>2. \A p \in Client : FetchInv(p)'
  BY FetchVarsStand DEF jobVars
<1>3. CacheInv'
  BY CacheStands DEF IInv, jobVars
<1>4. ProgressInv' /\ TurnInv' /\ ReportInv'
  BY JobStands
<1>5. StagedInv'
  BY StagedStands DEF jobVars
<1> QED
  BY <1>1, <1>2, <1>3, <1>4, <1>5 DEF IInv
-----------------------------------------------------------------------------
LEMMA InitHasIInv == Init => IInv
<1> SUFFICES ASSUME Init PROVE IInv
  OBVIOUS
<1>1. /\ cache = [q \in Provider |-> [c \in Code |-> NoAnswer]]
      /\ at = [p \in Client |-> "idle"] /\ code = [p \in Client |-> CHOOSE c \in Code : TRUE]
      /\ cached = [p \in Client |-> [q \in Provider |-> NoAnswer]]
      /\ asking = [p \in Client |-> <<>>] /\ response = [p \in Client |-> NoAnswer]
      /\ staged = [p \in Client |-> {}]
      /\ job = "rest" /\ todo = {} /\ fetched = [c \in Code |-> NoAnswer] /\ failures = {}
      /\ report = NoReport /\ published = {} /\ runs = 0
  BY DEF Init, FetchInit
<1>2. TypeOK
  <2>1. asking \in [Client -> Seq(Provider)]
    BY <1>1, EmptySeq
  <2>2. /\ cache \in [Provider -> [Code -> Maybe]] /\ cached \in [Client -> [Provider -> Maybe]]
        /\ response \in [Client -> Maybe] /\ fetched \in [Code -> Maybe]
    BY <1>1 DEF Maybe
  <2>3. at \in [Client -> FetchStep] /\ code \in [Client -> Code \cup {CHOOSE c \in Code : TRUE}]
        /\ staged \in [Client -> SUBSET Answers]
    BY <1>1 DEF FetchStep
  <2> QED
    BY <1>1, <2>1, <2>2, <2>3 DEF TypeOK
<1>3. \A p \in Client : FetchInv(p)
  BY <1>1 DEF FetchInv, LoadedInv, AskingInv, ResponseInv, Filed
<1>4. CacheInv
  BY <1>1 DEF CacheInv, EntryInv, Filed
<1>5. ProgressInv /\ ReportInv
  BY <1>1 DEF ProgressInv, ReportInv
<1>6. TurnInv /\ StagedInv
  BY <1>1, DailyIsClient DEF TurnInv, StagedInv
<1> QED
  BY <1>2, <1>3, <1>4, <1>5, <1>6 DEF IInv

LEMMA NextKeepsIInv == IInv /\ [Next]_vars => IInv'
<1> SUFFICES ASSUME IInv, [Next]_vars PROVE IInv'
  OBVIOUS
<1>1. ASSUME NEW w \in Worker, WorkerFetches(w) PROVE IInv'
  BY <1>1, WorkerFetchesKeeps
<1>2. ASSUME NEW w \in Worker, FetchNext(w, w), UNCHANGED <<notifyVars, jobVars>> PROVE IInv'
  <2>1. w \in Client /\ w # Daily /\ Asker(w) = w
    BY DailyIsClient DEF Asker
  <2> QED
    BY <1>2, <2>1, FetchNextKeeps
<1>3. ASSUME NEW w \in Worker, WorkerReturns(w) \/ WorkerDies(w) PROVE IInv'
  BY <1>3, WorkerEndsKeeps
<1>4. ASSUME NEW q \in Provider, Resume(q), UNCHANGED <<notifyVars, jobVars>> PROVE IInv'
  BY <1>4, ResumeKeeps DEF Resume
<1>5. CASE Begin
  BY <1>5, BeginKeeps
<1>6. CASE DailyDies
  BY <1>6, DailyDiesKeeps
<1>7. CASE FetchStock
  BY <1>7, FetchStockKeeps
<1>8. CASE DailyFetches
  <2>1. FetchNext(Daily, Asker(Daily)) /\ UNCHANGED jobVars /\ job = "fetching"
    BY <1>8 DEF DailyFetches, Asker
  <2> QED
    BY <2>1, DailyIsClient, FetchNextKeeps
<1>9. CASE StockDone
  BY <1>9, StockDoneKeeps
<1>10. CASE StocksMissing
  BY <1>10, AbandonKeeps DEF StocksMissing
<1>11. CASE StocksComplete
  BY <1>11, StocksCompleteKeeps
<1>12. CASE Publish
  BY <1>12, PublishKeeps
<1>13. CASE PublicationFails
  <2>1. Abandon /\ at[Daily] = "idle"
    BY <1>13 DEF PublicationFails, IInv, TurnInv
  <2> QED
    BY <2>1, AbandonKeeps
<1>14. CASE DailyNotifies \/ Exit \/ NotifyAgain
  BY <1>14, ExitKeeps
<1>15. CASE UNCHANGED vars
  BY <1>15, ResumeKeeps DEF vars, fetchVars
<1> QED
  BY <1>1, <1>2, <1>3, <1>4, <1>5, <1>6, <1>7, <1>8, <1>9, <1>10, <1>11, <1>12, <1>13,
     <1>14, <1>15 DEF Next, DailyStep

\* The inductive invariant: every answer keeps its provider, its code and the run that
\* asked for it on its way from the provider through the process to the cache and the report.
THEOREM Invariance == Spec => []IInv
  BY InitHasIInv, NextKeepsIInv, PTL DEF Spec

\* For any number of workers, stocks and runs: what is loaded from the cache as a provider's
\* response is one, and a report has an accepted answer for each stock.
THEOREM AnswersNeverMixed == Spec => []AnswersAreTheirs
<1>1. IInv => AnswersAreTheirs
  <2> SUFFICES ASSUME IInv PROVE AnswersAreTheirs
    OBVIOUS
  <2>1. \A q \in Provider, c \in Code : Filed(cache[q][c], q, c)
    BY DEF IInv, CacheInv, EntryInv
  <2>2. NoAnswer \notin Answers
    BY DEF Answers
  <2> QED
    BY <2>1, <2>2 DEF IInv, ReportInv, Filed, AnswersAreTheirs
<1> QED
  BY <1>1, Invariance, PTL

\* For any number of workers, stocks and runs: no response of a daily run that has not
\* published is in the cache, and those of the run whose report stands are the report's.
THEOREM StoredOnlyWithReport == Spec => []StoredWithReport
<1>1. IInv => StoredWithReport
  BY DEF IInv, CacheInv, EntryInv, StoredWithReport
<1> QED
  BY <1>1, Invariance, PTL

-----------------------------------------------------------------------------
(* Notifying *)

\* The channels before the present one have been tried, what was delivered has arrived,
\* and the part before the one that is posted has.
NotifyInv ==
    /\ chat \in [Channel -> Seq(Nat)]
    /\ outcome \in [Channel -> {"open", "failed", "delivered"}]
    /\ turn \in Nat /\ part \in Nat \ {0}
    /\ sending \in {"idle", "url"} => turn = 1
    /\ sending = "url" => Channels # <<>>
    /\ sending # "post" => part = 1
    /\ sending \in {"open", "post"} =>
          /\ turn \in DOMAIN Channels
          /\ \A i \in 1 .. turn - 1 : outcome[Channels[i]] # "open"
    /\ sending = "sent" => \A ch \in Channel : outcome[ch] # "open"
    /\ \A ch \in Channel : outcome[ch] = "delivered" => chat[ch] # <<>>
    /\ sending = "post" /\ part > 1 => \E j \in DOMAIN chat[Now] : chat[Now][j] = part - 1
    /\ PartsInOrder

LEMMA NowIsChannel ==
  ASSUME NotifyInv, sending \in {"open", "post"}
  PROVE  /\ Now \in Channel /\ Channels \in Seq(Channel)
         /\ Len(Channels) \in Nat /\ DOMAIN Channels = 1 .. Len(Channels)
         /\ \A ch \in Channel : \E i \in 1 .. Len(Channels) : ch = Channels[i]
<1>1. /\ Channels \in Seq(Channel)
      /\ Len(Channels) \in Nat /\ DOMAIN Channels = 1 .. Len(Channels)
  BY ChannelsType, LenProperties
<1>2. Now \in Channel
  BY DEF NotifyInv, Now, Channel
<1>3. \A ch \in Channel : \E i \in DOMAIN Channels : ch = Channels[i]
  BY DEF Channel
<1> QED
  BY <1>1, <1>2, <1>3

\* A part that is appended comes after the one before it, which is there.
LEMMA ArrivalKeeps ==
  ASSUME NotifyInv, sending = "post", NEW arrived \in BOOLEAN, Arrives(arrived)
  PROVE  /\ chat' \in [Channel -> Seq(Nat)] /\ PartsInOrder'
         /\ \A ch \in Channel : chat[ch] # <<>> => chat'[ch] # <<>>
         /\ \A k : (\E j \in DOMAIN chat[Now] : chat[Now][j] = k)
                     => \E j \in DOMAIN chat'[Now] : chat'[Now][j] = k
         /\ arrived => \E j \in DOMAIN chat'[Now] : chat'[Now][j] = part
<1> DEFINE old == chat[Now]
           new == Append(old, part)
<1>1. CASE ~arrived
  <2>1. chat' = chat
    BY <1>1 DEF Arrives
  <2> QED
    BY <1>1, <2>1 DEF NotifyInv, PartsInOrder
<1>2. CASE arrived
  <2>1. Now \in Channel /\ old \in Seq(Nat) /\ part \in Nat
    BY NowIsChannel DEF NotifyInv
  <2>2. /\ new \in Seq(Nat) /\ Len(new) = Len(old) + 1 /\ new[Len(old) + 1] = part
        /\ \A i \in 1 .. Len(old) : new[i] = old[i]
    BY <2>1, AppendProperties
  <2>3. /\ Len(old) \in Nat /\ DOMAIN old = 1 .. Len(old) /\ DOMAIN new = 1 .. Len(old) + 1
    BY <2>1, <2>2, LenProperties
  <2>4. chat' = [chat EXCEPT ![Now] = new]
    BY <1>2 DEF Arrives
  <2>5. chat' \in [Channel -> Seq(Nat)] /\ chat'[Now] = new
        /\ \A ch \in Channel : ch # Now => chat'[ch] = chat[ch]
    BY <2>1, <2>2, <2>4 DEF NotifyInv
  <2>6. new # <<>>
    BY <2>3
  <2>7. part = 1 \/ \E j \in 1 .. Len(old) : old[j] = part - 1
    BY <2>3 DEF NotifyInv
  <2>8. \A i \in DOMAIN new : new[i] = 1 \/ \E j \in 1 .. i - 1 : new[j] = new[i] - 1
    <3>1. ASSUME NEW i \in 1 .. Len(old)
          PROVE  new[i] = 1 \/ \E j \in 1 .. i - 1 : new[j] = new[i] - 1
      <4>1. old[i] = 1 \/ \E j \in 1 .. i - 1 : old[j] = old[i] - 1
        BY <2>1, <2>3 DEF NotifyInv, PartsInOrder
      <4>2. \A j \in 1 .. i - 1 : j \in 1 .. Len(old)
        BY <2>3
      <4> HIDE DEF old, new
      <4> QED
        BY <2>2, <4>1, <4>2
    <3>2. new[Len(old) + 1] = 1
            \/ \E j \in 1 .. (Len(old) + 1) - 1 : new[j] = new[Len(old) + 1] - 1
      <4>1. (Len(old) + 1) - 1 = Len(old)
        BY <2>3
      <4> HIDE DEF old, new
      <4> QED
        BY <2>2, <2>7, <4>1
    <3> HIDE DEF old, new
    <3>3. \A i \in DOMAIN new : i \in 1 .. Len(old) \/ i = Len(old) + 1
      BY <2>3
    <3> QED
      BY <3>1, <3>2, <3>3
  <2>9. PartsInOrder'
    <3>1. ASSUME NEW ch \in Channel, NEW i \in DOMAIN chat'[ch]
          PROVE  chat'[ch][i] = 1 \/ \E j \in 1 .. i - 1 : chat'[ch][j] = chat'[ch][i] - 1
      <4> HIDE DEF old, new
      <4>1. CASE ch = Now
        BY <2>5, <2>8, <4>1
      <4>2. CASE ch # Now
        BY <2>5, <4>2 DEF NotifyInv, PartsInOrder
      <4> QED
        BY <4>1, <4>2
    <3> QED
      BY <3>1 DEF PartsInOrder
  <2>10. \A ch \in Channel : chat[ch] # <<>> => chat'[ch] # <<>>
    BY <2>5, <2>6
  <2>11. \A j \in DOMAIN old : j \in DOMAIN new /\ new[j] = old[j]
    BY <2>2, <2>3
  <2>12. Len(old) + 1 \in DOMAIN new
    BY <2>3
  <2>13. chat'[Now] = new
    BY <2>5
  <2>14. \A k : (\E j \in DOMAIN chat[Now] : chat[Now][j] = k)
                  => \E j \in DOMAIN chat'[Now] : chat'[Now][j] = k
    BY <2>11, <2>13
  <2>15. \E j \in DOMAIN chat'[Now] : chat'[Now][j] = part
    <3> HIDE DEF old, new
    <3> QED
      BY <2>2, <2>12, <2>13
  <2> QED
    BY <2>5, <2>9, <2>10, <2>14, <2>15
<1> QED
  BY <1>1, <1>2

\* Whatever became of the present channel, the next one is tried, or all have been.
LEMMA NextChannelKeeps ==
  ASSUME NotifyInv, sending \in {"open", "post"},
         NEW result \in {"failed", "delivered"}, NextChannel(result),
         chat' \in [Channel -> Seq(Nat)], PartsInOrder',
         \A ch \in Channel : chat[ch] # <<>> => chat'[ch] # <<>>,
         result = "delivered" => chat'[Now] # <<>>
  PROVE  NotifyInv'
<1>1. /\ Now \in Channel /\ Now = Channels[turn]
      /\ Len(Channels) \in Nat /\ DOMAIN Channels = 1 .. Len(Channels)
      /\ \A ch \in Channel : \E i \in 1 .. Len(Channels) : ch = Channels[i]
  BY NowIsChannel DEF Now
<1>2. /\ turn \in 1 .. Len(Channels) /\ turn \in Nat
      /\ \A i \in 1 .. turn - 1 : outcome[Channels[i]] # "open"
  BY <1>1 DEF NotifyInv
<1>3. /\ outcome' = [outcome EXCEPT ![Now] = result]
      /\ outcome \in [Channel -> {"open", "failed", "delivered"}]
      /\ part' = 1
  BY DEF NotifyInv, NextChannel
<1>4. /\ outcome' \in [Channel -> {"open", "failed", "delivered"}]
      /\ outcome'[Now] = result
      /\ \A ch \in Channel : ch # Now => outcome'[ch] = outcome[ch]
  BY <1>1, <1>3
<1>5. \A i \in 1 .. turn : outcome'[Channels[i]] # "open"
  <2>1. ASSUME NEW i \in 1 .. turn PROVE outcome'[Channels[i]] # "open"
    <3>1. i = turn \/ i \in 1 .. turn - 1
      BY <1>2
    <3>2. Channels[i] \in Channel
      BY <1>1, <1>2 DEF Channel
    <3> QED
      BY <1>1, <1>2, <1>4, <3>1, <3>2
  <2> QED
    BY <2>1
<1>6. \A ch \in Channel : outcome'[ch] = "delivered" => chat'[ch] # <<>>
  BY <1>1, <1>4 DEF NotifyInv
<1>7. CASE turn = Len(Channels)
  <2>1. sending' = "sent" /\ turn' = turn
    BY <1>7 DEF NextChannel
  <2>2. \A ch \in Channel : outcome'[ch] # "open"
    BY <1>1, <1>5, <1>7
  <2> QED
    BY <1>2, <1>3, <1>4, <1>6, <2>1, <2>2 DEF NotifyInv
<1>8. CASE turn # Len(Channels)
  <2>1. sending' = "open" /\ turn' = turn + 1
    BY <1>8 DEF NextChannel
  <2>2. turn + 1 \in 1 .. Len(Channels) /\ turn + 1 \in Nat /\ (turn + 1) - 1 = turn
    <3>1. /\ Len(Channels) \in Nat /\ turn \in 1 .. Len(Channels)
          /\ turn # Len(Channels)
      BY <1>1, <1>2, <1>8
    <3> QED
      BY ONLY <3>1
  <2>3. turn' \in DOMAIN Channels /\ turn' \in Nat /\ turn' - 1 = turn
    BY <1>1, <2>1, <2>2
  <2> QED
    BY <1>3, <1>4, <1>5, <1>6, <2>1, <2>3 DEF NotifyInv
<1> QED
  BY <1>7, <1>8

LEMMA SendReportKeeps ==
  ASSUME NotifyInv, NEW sizes, SendReport(sizes) PROVE NotifyInv'
<1>1. UNCHANGED <<turn, part, chat, outcome>> /\ sending = "idle"
      /\ sending' = IF Channels = <<>> THEN "sent" ELSE "url"
  BY DEF SendReport
<1>2. Channels = <<>> => Channel = {}
  BY DEF Channel
<1> QED
  BY <1>1, <1>2 DEF NotifyInv, PartsInOrder

LEMMA EndSendingKeeps == ASSUME EndSending PROVE NotifyInv'
<1>1. /\ chat' = [ch \in Channel |-> <<>>] /\ outcome' = [ch \in Channel |-> "open"]
      /\ sending' = "idle" /\ turn' = 1 /\ part' = 1
  BY DEF EndSending, Nobody, Untried
<1>2. <<>> \in Seq(Nat) /\ DOMAIN <<>> = {}
  BY EmptySeq
<1>3. PartsInOrder'
  BY <1>1, <1>2 DEF PartsInOrder
<1> QED
  BY <1>1, <1>2, <1>3 DEF NotifyInv

LEMMA UrlKeeps ==
  ASSUME NotifyInv, InvalidUrl \/ ValidUrl PROVE NotifyInv'
<1>1. CASE InvalidUrl
  BY <1>1 DEF InvalidUrl, NotifyInv, PartsInOrder
<1>2. CASE ValidUrl
  <2>1. /\ UNCHANGED <<turn, part, chat, outcome>> /\ sending = "url" /\ sending' = "open"
        /\ turn = 1 /\ Channels # <<>>
    BY <1>2 DEF ValidUrl, NotifyInv
  <2>2. 1 \in DOMAIN Channels /\ 1 .. 1 - 1 = {}
    BY <2>1, ChannelsType, EmptySeq, LenProperties
  <2> QED
    BY <2>1, <2>2 DEF NotifyInv, PartsInOrder
<1> QED
  BY <1>1, <1>2

LEMMA OpenKeeps ==
  ASSUME NotifyInv, CannotOpen \/ Open PROVE NotifyInv'
<1>1. CASE CannotOpen
  <2>1. sending = "open" /\ NextChannel("failed") /\ chat' = chat
    BY <1>1 DEF CannotOpen
  <2>2. chat' \in [Channel -> Seq(Nat)] /\ PartsInOrder'
    BY <2>1 DEF NotifyInv, PartsInOrder
  <2> QED
    BY <2>1, <2>2, NextChannelKeeps
<1>2. CASE Open
  BY <1>2 DEF Open, NotifyInv, PartsInOrder, Now
<1> QED
  BY <1>1, <1>2

\* The next part, or another attempt at the same one.
LEMMA PostAgainKeeps ==
  ASSUME NotifyInv, sending = "post", UNCHANGED <<sending, turn, outcome>>,
         chat' \in [Channel -> Seq(Nat)], PartsInOrder',
         \A ch \in Channel : chat[ch] # <<>> => chat'[ch] # <<>>,
         part' \in Nat \ {0},
         part' > 1 => \E j \in DOMAIN chat'[Now] : chat'[Now][j] = part' - 1
  PROVE  NotifyInv'
  BY DEF NotifyInv, Now

LEMMA DeliveredKeeps ==
  ASSUME NotifyInv, Delivered PROVE NotifyInv'
<1>1. sending = "post" /\ Arrives(TRUE)
  BY DEF Delivered
<1>2. /\ chat' \in [Channel -> Seq(Nat)] /\ PartsInOrder'
      /\ \A ch \in Channel : chat[ch] # <<>> => chat'[ch] # <<>>
      /\ \E j \in DOMAIN chat'[Now] : chat'[Now][j] = part
  BY <1>1, ArrivalKeeps
<1>3. CASE NextChannel("delivered")
  <2>1. chat'[Now] # <<>>
    BY <1>2, EmptySeq
  <2> QED
    BY <1>1, <1>2, <1>3, <2>1, NextChannelKeeps
<1>4. CASE part' = part + 1 /\ UNCHANGED <<sending, turn, outcome>>
  <2>1. part' \in Nat \ {0} /\ part' - 1 = part
    BY <1>4 DEF NotifyInv
  <2> QED
    BY <1>1, <1>2, <1>4, <2>1, PostAgainKeeps
<1> QED
  BY <1>3, <1>4 DEF Delivered

LEMMA FailureKeeps ==
  ASSUME NotifyInv, NEW arrived \in BOOLEAN,
         TransientFailure(arrived) \/ PermanentFailure(arrived)
  PROVE  NotifyInv'
<1>1. sending = "post" /\ Arrives(arrived)
  BY DEF TransientFailure, PermanentFailure
<1>2. /\ chat' \in [Channel -> Seq(Nat)] /\ PartsInOrder'
      /\ \A ch \in Channel : chat[ch] # <<>> => chat'[ch] # <<>>
      /\ \A k : (\E j \in DOMAIN chat[Now] : chat[Now][j] = k)
                  => \E j \in DOMAIN chat'[Now] : chat'[Now][j] = k
  BY <1>1, ArrivalKeeps
<1>3. CASE NextChannel("failed")
  BY <1>1, <1>2, <1>3, NextChannelKeeps
<1>4. CASE UNCHANGED <<sending, turn, part, outcome>>
  <2>1. /\ part' \in Nat \ {0}
        /\ part' > 1 => \E j \in DOMAIN chat'[Now] : chat'[Now][j] = part' - 1
    BY <1>1, <1>2, <1>4 DEF NotifyInv
  <2> QED
    BY <1>1, <1>2, <1>4, <2>1, PostAgainKeeps
<1> QED
  BY <1>3, <1>4 DEF TransientFailure, PermanentFailure, TryAgain, GiveUp

LEMMA NotifyNextKeeps == ASSUME NotifyInv, NotifyNext PROVE NotifyInv'
  BY UrlKeeps, OpenKeeps, DeliveredKeeps, FailureKeeps DEF NotifyNext

\* A step leaves what is sent alone, begins or ends a sending, or is one of its own.
LEMMA NotifyingSteps ==
  ASSUME [Next]_vars
  PROVE  \/ UNCHANGED notifyVars
         \/ Publish /\ SendReport(Summary[runs])
         \/ NotifyAgain /\ SendReport(Summary[report.run])
         \/ EndSending \/ NotifyNext
<1>1. CASE Publish
  BY <1>1 DEF Publish
<1>2. CASE NotifyAgain
  BY <1>2 DEF NotifyAgain
<1>3. CASE Exit \/ DailyDies
  BY <1>3 DEF Exit, DailyDies
<1>4. CASE DailyNotifies
  BY <1>4 DEF DailyNotifies
<1>5. ASSUME NEW w \in Worker,
             \/ WorkerFetches(w)
             \/ FetchNext(w, w) /\ UNCHANGED <<notifyVars, jobVars>>
             \/ WorkerReturns(w) \/ WorkerDies(w)
      PROVE  UNCHANGED notifyVars
  BY <1>5 DEF WorkerFetches, WorkerReturns, WorkerDies
<1>6. CASE \/ \E q \in Provider : Resume(q) /\ UNCHANGED <<notifyVars, jobVars>>
           \/ Begin \/ FetchStock \/ DailyFetches \/ StockDone
  BY <1>6 DEF Begin, FetchStock, DailyFetches, StockDone
<1>7. CASE StocksMissing \/ StocksComplete \/ PublicationFails
  BY <1>7 DEF StocksMissing, StocksComplete, PublicationFails, Abandon
<1>8. CASE UNCHANGED vars
  BY <1>8 DEF vars
<1> QED
  BY <1>1, <1>2, <1>3, <1>4, <1>5, <1>6, <1>7, <1>8 DEF Next, DailyStep

LEMMA NextKeepsNotifyInv == NotifyInv /\ [Next]_vars => NotifyInv'
<1> SUFFICES ASSUME NotifyInv, [Next]_vars PROVE NotifyInv'
  OBVIOUS
<1>1. ASSUME UNCHANGED notifyVars PROVE NotifyInv'
  BY <1>1 DEF notifyVars, NotifyInv, PartsInOrder, Now
<1> QED
  BY <1>1, NotifyingSteps, SendReportKeeps, EndSendingKeeps, NotifyNextKeeps

LEMMA NotifyInvariance == Spec => []NotifyInv
<1>1. Init => NotifyInv
  <2>1. <<>> \in Seq(Nat) /\ DOMAIN <<>> = {}
    BY EmptySeq
  <2> QED
    BY <2>1 DEF Init, NotifyInit, Nobody, Untried, NotifyInv, PartsInOrder
<1> QED
  BY <1>1, NextKeepsNotifyInv, PTL DEF Spec

\* For any number of channels, whatever is lost, refused or cannot be opened: when
\* sending is over each channel has been tried, and what counts as delivered has arrived.
THEOREM AllChannelsTried == Spec => []EveryChannelTried
<1>1. NotifyInv => EveryChannelTried
  BY DEF NotifyInv, EveryChannelTried
<1> QED
  BY <1>1, NotifyInvariance, PTL

\* For any number of channels, parts and attempts: no channel gets a part before the
\* one that precedes it.
THEOREM PartsAreInOrder == Spec => []PartsInOrder
<1>1. NotifyInv => PartsInOrder
  BY DEF NotifyInv
<1> QED
  BY <1>1, NotifyInvariance, PTL

-----------------------------------------------------------------------------
(* Attempts *)

Places(seq, k) == {j \in DOMAIN seq : seq[j] = k}

Copies(ch, k) == Cardinality(Places(chat[ch], k))

\* Of the part that is posted there are fewer copies than attempts, of the later ones none,
\* and the channels whose turn is to come have been sent nothing.
AttemptInv ==
    /\ attempt \in 1 .. MaxAttempts
    /\ sending # "post" => attempt = 1
    /\ \A ch \in Channel : \A k \in Nat : Copies(ch, k) <= MaxAttempts
    /\ sending \in {"idle", "url", "open"} =>
          \A i \in turn .. Len(Channels) : chat[Channels[i]] = <<>>
    /\ sending = "post" =>
          /\ \A i \in turn + 1 .. Len(Channels) : chat[Channels[i]] = <<>>
          /\ \A j \in DOMAIN chat[Now] : chat[Now][j] <= part
          /\ Copies(Now, part) <= attempt - 1

\* An element that is appended adds one to its own places and none to those of another.
LEMMA PlacesAppend ==
  ASSUME NEW seq \in Seq(Nat), NEW p \in Nat, NEW k \in Nat
  PROVE  /\ IsFiniteSet(Places(seq, k)) /\ Cardinality(Places(seq, k)) \in Nat
         /\ Cardinality(Places(Append(seq, p), k))
              = IF k = p THEN Cardinality(Places(seq, k)) + 1 ELSE Cardinality(Places(seq, k))
<1> DEFINE n == Len(seq)
           new == Append(seq, p)
<1>1. /\ n \in Nat /\ DOMAIN seq = 1 .. n /\ new \in Seq(Nat) /\ Len(new) = n + 1
      /\ DOMAIN new = 1 .. n + 1 /\ new[n + 1] = p /\ \A j \in 1 .. n : new[j] = seq[j]
  BY AppendProperties, LenProperties
<1>2. Places(seq, k) \subseteq 1 .. n
  BY <1>1 DEF Places
<1>3. IsFiniteSet(Places(seq, k)) /\ Cardinality(Places(seq, k)) \in Nat
  <2>1. IsFiniteSet(1 .. n)
    <3>1. 1 \in Int /\ n \in Int
      BY <1>1
    <3> QED
      BY ONLY <3>1, FS_Interval
  <2> QED
    BY <1>2, <2>1, FS_Subset, FS_CardinalityType
<1>4. \A j : j \in 1 .. n + 1 <=> j \in 1 .. n \/ j = n + 1
  BY <1>1
<1>5. n + 1 \notin 1 .. n
  BY <1>1
<1> HIDE DEF n, new
<1>6. CASE k = p
  <2>1. Places(new, k) = Places(seq, k) \cup {n + 1}
    BY <1>1, <1>4, <1>5, <1>6 DEF Places
  <2>2. n + 1 \notin Places(seq, k)
    BY <1>2, <1>5
  <2>3. Cardinality(Places(seq, k) \cup {n + 1}) = Cardinality(Places(seq, k)) + 1
    BY <1>3, <2>2, FS_AddElement
  <2> QED
    BY <1>3, <1>6, <2>1, <2>3 DEF new
<1>7. CASE k # p
  <2>1. Places(new, k) = Places(seq, k)
    BY <1>1, <1>4, <1>5, <1>7 DEF Places
  <2> QED
    BY <1>3, <1>7, <2>1 DEF new
<1> QED
  BY <1>6, <1>7

\* Nothing has no places.
LEMMA NoPlaces ==
  ASSUME NEW k PROVE Cardinality(Places(<<>>, k)) = 0
<1>1. Places(<<>>, k) = {}
  BY EmptySeq DEF Places
<1> QED
  BY <1>1, FS_EmptySet

\* One arrival makes one more copy of the part that is posted, and of nothing else.
LEMMA ArrivalCounts ==
  ASSUME NotifyInv, AttemptInv, sending = "post", NEW arrived \in BOOLEAN, Arrives(arrived)
  PROVE  /\ \A ch \in Channel : \A k \in Nat :
               Cardinality(Places(chat'[ch], k)) <= MaxAttempts
         /\ \A i \in turn + 1 .. Len(Channels) : chat'[Channels[i]] = <<>>
         /\ \A j \in DOMAIN chat'[Now] : chat'[Now][j] <= part
         /\ Cardinality(Places(chat'[Now], part)) <= attempt
<1>1. /\ Now \in Channel /\ chat \in [Channel -> Seq(Nat)] /\ chat[Now] \in Seq(Nat)
      /\ part \in Nat /\ turn \in Nat /\ turn \in DOMAIN Channels
      /\ DOMAIN Channels = 1 .. Len(Channels) /\ Len(Channels) \in Nat
  BY NowIsChannel DEF NotifyInv
<1>2. /\ attempt \in Nat /\ attempt <= MaxAttempts /\ MaxAttempts \in Nat
      /\ Copies(Now, part) \in Nat /\ Copies(Now, part) <= attempt - 1
  BY <1>1, PlacesAppend, NumberTypes DEF AttemptInv, Copies
<1>3. CASE ~arrived
  <2>1. chat' = chat
    BY <1>3 DEF Arrives
  <2> QED
    BY <1>2, <2>1 DEF AttemptInv, Copies
<1>4. CASE arrived
  <2>1. /\ chat' = [chat EXCEPT ![Now] = Append(chat[Now], part)]
        /\ chat'[Now] = Append(chat[Now], part)
        /\ \A ch \in Channel : ch # Now => chat'[ch] = chat[ch]
    BY <1>1, <1>4 DEF Arrives
  <2>2. \A k \in Nat : Cardinality(Places(chat'[Now], k))
                         = IF k = part THEN Copies(Now, k) + 1 ELSE Copies(Now, k)
    <3>1. ASSUME NEW k \in Nat
          PROVE  Cardinality(Places(Append(chat[Now], part), k))
                   = IF k = part THEN Copies(Now, k) + 1 ELSE Copies(Now, k)
      BY <1>1, PlacesAppend DEF Copies
    <3> QED
      BY <2>1, <3>1
  <2>3. Cardinality(Places(chat'[Now], part)) <= attempt
    BY <1>1, <1>2, <2>2
  <2>4. ASSUME NEW ch \in Channel, NEW k \in Nat
        PROVE  Cardinality(Places(chat'[ch], k)) <= MaxAttempts
    <3>1. CASE ch = Now /\ k = part
      BY <1>2, <2>2, <2>3, <3>1
    <3>2. CASE ch = Now /\ k # part
      BY <2>2, <3>2 DEF AttemptInv
    <3>3. CASE ch # Now
      BY <2>1, <3>3 DEF AttemptInv, Copies
    <3> QED
      BY <3>1, <3>2, <3>3
  <2>5. \A i \in turn + 1 .. Len(Channels) : chat'[Channels[i]] = <<>>
    <3>1. ASSUME NEW i \in turn + 1 .. Len(Channels) PROVE chat'[Channels[i]] = <<>>
      <4>1. i \in DOMAIN Channels /\ i # turn
        BY <1>1
      <4>2. Channels[i] \in Channel /\ Channels[i] # Now
        BY <1>1, <4>1, ChannelType DEF Channel, Now
      <4> QED
        BY <2>1, <4>2 DEF AttemptInv
    <3> QED
      BY <3>1
  <2>6. ASSUME NEW j \in DOMAIN chat'[Now] PROVE chat'[Now][j] <= part
    <3> DEFINE old == chat[Now]
               new == Append(old, part)
    <3>1. /\ Len(old) \in Nat /\ DOMAIN old = 1 .. Len(old)
          /\ DOMAIN new = 1 .. Len(old) + 1 /\ new[Len(old) + 1] = part
          /\ \A i \in 1 .. Len(old) : new[i] = old[i]
      BY <1>1, AppendProperties, LenProperties
    <3>2. \A i \in 1 .. Len(old) : old[i] <= part
      BY <3>1 DEF AttemptInv
    <3>3. j \in DOMAIN new /\ chat'[Now] = new
      BY <2>1
    <3> HIDE DEF old, new
    <3>4. j \in 1 .. Len(old) \/ j = Len(old) + 1
      BY <3>1, <3>3
    <3> QED
      BY <1>1, <3>1, <3>2, <3>3, <3>4
  <2> QED
    BY <2>3, <2>4, <2>5, <2>6
<1> QED
  BY <1>3, <1>4

\* The next channel begins with its first attempt and without a copy.
LEMMA NextChannelRenews ==
  ASSUME NotifyInv, AttemptInv, sending \in {"open", "post"}, NEW result, NextChannel(result),
         \A ch \in Channel : \A k \in Nat : Cardinality(Places(chat'[ch], k)) <= MaxAttempts,
         \A i \in turn + 1 .. Len(Channels) : chat'[Channels[i]] = <<>>
  PROVE  AttemptInv'
<1>1. attempt' = 1 /\ (sending' = "sent" \/ (sending' = "open" /\ turn' = turn + 1))
  BY DEF NextChannel
<1>2. 1 \in 1 .. MaxAttempts
  BY NumberTypes
<1> QED
  BY <1>1, <1>2 DEF AttemptInv, Copies

LEMMA AttemptStep == ASSUME NotifyInv, AttemptInv, NotifyNext PROVE AttemptInv'
<1>1. CASE InvalidUrl \/ ValidUrl
  BY <1>1 DEF InvalidUrl, ValidUrl, AttemptInv, Copies
<1>2. CASE CannotOpen
  <2>1. /\ sending = "open" /\ NextChannel("failed") /\ chat' = chat /\ turn \in Nat
        /\ \A i \in turn .. Len(Channels) : chat[Channels[i]] = <<>>
    BY <1>2 DEF CannotOpen, AttemptInv, NotifyInv
  <2>2. \A i \in turn + 1 .. Len(Channels) : chat'[Channels[i]] = <<>>
    BY <2>1, NowIsChannel
  <2>3. \A ch \in Channel : \A k \in Nat : Cardinality(Places(chat'[ch], k)) <= MaxAttempts
    BY <2>1 DEF AttemptInv, Copies
  <2> QED
    BY <2>1, <2>2, <2>3, NextChannelRenews
<1>3. CASE Open
  <2>1. /\ sending = "open" /\ sending' = "post" /\ UNCHANGED <<turn, part, attempt, chat>>
        /\ attempt = 1 /\ turn \in Nat /\ Len(Channels) \in Nat
        /\ turn \in 1 .. Len(Channels)
        /\ \A i \in turn .. Len(Channels) : chat[Channels[i]] = <<>>
    BY <1>3, NowIsChannel DEF Open, AttemptInv, NotifyInv
  <2>2. turn \in turn .. Len(Channels)
    BY <2>1
  <2>3. \A i \in turn + 1 .. Len(Channels) : chat[Channels[i]] = <<>>
    BY <2>1
  <2>4. chat[Now] = <<>>
    BY <2>1, <2>2 DEF Now
  <2>5. Copies(Now, part) = 0 /\ DOMAIN chat[Now] = {}
    BY <2>4, NoPlaces, EmptySeq DEF Copies
  <2> QED
    BY <2>1, <2>3, <2>5 DEF AttemptInv, Copies, Now
<1>4. ASSUME NEW arrived \in BOOLEAN, sending = "post", Arrives(arrived),
             \/ NextChannel("delivered") \/ NextChannel("failed")
             \/ part' = part + 1 /\ attempt' = 1 /\ UNCHANGED <<sending, turn>>
             \/ attempt < MaxAttempts /\ attempt' = attempt + 1
                /\ UNCHANGED <<sending, turn, part>>
      PROVE  AttemptInv'
  <2>1. /\ \A ch \in Channel : \A k \in Nat :
              Cardinality(Places(chat'[ch], k)) <= MaxAttempts
        /\ \A i \in turn + 1 .. Len(Channels) : chat'[Channels[i]] = <<>>
        /\ \A j \in DOMAIN chat'[Now] : chat'[Now][j] <= part
        /\ Cardinality(Places(chat'[Now], part)) <= attempt
    BY <1>4, ArrivalCounts
  <2>2. CASE NextChannel("delivered") \/ NextChannel("failed")
    BY <1>4, <2>1, <2>2, NextChannelRenews
  <2>3. CASE part' = part + 1 /\ attempt' = 1 /\ UNCHANGED <<sending, turn>>
    <3>1. Now \in Channel /\ chat' \in [Channel -> Seq(Nat)] /\ chat'[Now] \in Seq(Nat)
          /\ part \in Nat
      BY <1>4, ArrivalKeeps, NowIsChannel DEF NotifyInv
    <3>2. \A j \in DOMAIN chat'[Now] : chat'[Now][j] \in Nat
      BY <3>1, LenProperties
    <3>3. \A j \in DOMAIN chat'[Now] : chat'[Now][j] <= part + 1 /\ chat'[Now][j] # part + 1
      BY <2>1, <3>1, <3>2
    <3>4. Cardinality(Places(chat'[Now], part + 1)) = 0
      <4>1. Places(chat'[Now], part + 1) = {}
        BY <3>3 DEF Places
      <4> QED
        BY <4>1, FS_EmptySet
    <3>5. 1 \in 1 .. MaxAttempts
      BY NumberTypes
    <3> QED
      BY <1>4, <2>1, <2>3, <3>3, <3>4, <3>5 DEF AttemptInv, Copies, Now
  <2>4. CASE attempt < MaxAttempts /\ attempt' = attempt + 1 /\ UNCHANGED <<sending, turn, part>>
    <3>1. attempt \in 1 .. MaxAttempts
      BY DEF AttemptInv
    <3>2. attempt + 1 \in 1 .. MaxAttempts /\ (attempt + 1) - 1 = attempt
      BY <2>4, <3>1, NumberTypes
    <3> QED
      BY <1>4, <2>1, <2>4, <3>2 DEF AttemptInv, Copies, Now
  <2> QED
    BY <1>4, <2>2, <2>3, <2>4
<1>5. CASE Delivered
  BY <1>4, <1>5 DEF Delivered
<1>6. ASSUME NEW arrived \in BOOLEAN, TransientFailure(arrived) \/ PermanentFailure(arrived)
      PROVE  AttemptInv'
  BY <1>4, <1>6 DEF TransientFailure, PermanentFailure, TryAgain, GiveUp
<1> QED
  BY <1>1, <1>2, <1>3, <1>5, <1>6 DEF NotifyNext

LEMMA SendReportStarts ==
  ASSUME AttemptInv, NEW sizes, SendReport(sizes) PROVE AttemptInv'
  BY DEF SendReport, AttemptInv, Copies

LEMMA EndSendingStarts == ASSUME EndSending PROVE AttemptInv'
<1>1. /\ chat' = [ch \in Channel |-> <<>>] /\ sending' = "idle" /\ turn' = 1 /\ attempt' = 1
  BY DEF EndSending, Nobody
<1>2. \A i \in 1 .. Len(Channels) : Channels[i] \in Channel
  BY ChannelsType, LenProperties DEF Channel
<1> QED
  BY <1>1, <1>2, NoPlaces, NumberTypes DEF AttemptInv, Copies

LEMMA AttemptInvariance == Spec => [](NotifyInv /\ AttemptInv)
<1>1. Init => AttemptInv
  <2>1. \A i \in 1 .. Len(Channels) : Channels[i] \in Channel
    BY ChannelsType, LenProperties DEF Channel
  <2> QED
    BY <2>1, NoPlaces, NumberTypes DEF Init, NotifyInit, Nobody, AttemptInv, Copies
<1>2. NotifyInv /\ AttemptInv /\ [Next]_vars => AttemptInv'
  <2> SUFFICES ASSUME NotifyInv, AttemptInv, [Next]_vars PROVE AttemptInv'
    OBVIOUS
  <2>1. ASSUME UNCHANGED notifyVars PROVE AttemptInv'
    BY <2>1 DEF notifyVars, AttemptInv, Copies, Now
  <2> QED
    BY <2>1, NotifyingSteps, AttemptStep, SendReportStarts, EndSendingStarts
<1> QED
  BY <1>1, <1>2, NotifyInvariance, PTL DEF Spec

LEMMA CopiesWithin == NotifyInv /\ AttemptInv => CopiesAreBounded
<1> SUFFICES ASSUME NotifyInv, AttemptInv, NEW ch \in Channel, NEW i \in DOMAIN chat[ch]
             PROVE  Cardinality(Places(chat[ch], chat[ch][i])) <= MaxAttempts
  BY DEF CopiesAreBounded, Places
<1>1. chat[ch] \in Seq(Nat)
  BY DEF NotifyInv
<1>2. chat[ch][i] \in Nat
  BY <1>1, LenProperties
<1> QED
  BY <1>2 DEF AttemptInv, Copies

\* For any number of channels, parts and attempts: whatever arrived without an answer and
\* was posted again, no channel gets more copies of a part than there are attempts.
THEOREM CopiesAreLimited == Spec => []CopiesAreBounded
<1> QED
  BY CopiesWithin, AttemptInvariance, PTL

-----------------------------------------------------------------------------
(* Delivery in full *)

\* What split_text() makes of the lines of a text: finished parts, and the current one.
Line == [line : Nat, size : Nat]
Packing == [chunks : Seq(Seq(Line)), current : Seq(Line)]

\* The lines of a part, and of several.
LinesOf(chunk) == {line.line : line \in Range(chunk)}

Told(chunks) == UNION {LinesOf(chunks[k]) : k \in DOMAIN chunks}

\* The text has a line at least, and one for each size.
LEMMA RiskLinesType ==
  ASSUME NEW sizes \in Seq(Nat)
  PROVE  /\ RiskLines(sizes) \in Seq(Line) /\ Len(RiskLines(sizes)) \in Nat \ {0}
         /\ sizes # <<>> => /\ Len(RiskLines(sizes)) = Len(sizes)
                            /\ \A i \in 1 .. Len(sizes) : RiskLines(sizes)[i].line = i
<1>1. CASE sizes = <<>>
  <2>1. RiskLines(sizes) = <<[line |-> 0, size |-> 1]>>
    BY <1>1 DEF RiskLines
  <2> DEFINE none == [line |-> 0, size |-> 1]
  <2>2. none \in Line
    BY DEF Line
  <2> HIDE DEF none
  <2>3. <<none>> \in Seq(Line) /\ Len(<<none>>) = 1
    BY <2>2
  <2>4. RiskLines(sizes) = <<none>>
    BY <2>1 DEF none
  <2>5. RiskLines(sizes) \in Seq(Line) /\ Len(RiskLines(sizes)) = 1
    BY <2>3, <2>4
  <2>6. Len(RiskLines(sizes)) \in Nat \ {0}
    BY <2>5
  <2> QED
    BY ONLY <1>1, <2>5, <2>6, Zenon
<1>2. CASE sizes # <<>>
  <2>1. RiskLines(sizes) = [i \in 1 .. Len(sizes) |-> [line |-> i, size |-> sizes[i]]]
        /\ Len(sizes) \in Nat \ {0} /\ \A i \in 1 .. Len(sizes) : sizes[i] \in Nat
    BY <1>2, EmptySeq, LenProperties DEF RiskLines
  <2> QED
    BY <2>1 DEF Line
<1> QED
  BY <1>1, <1>2

\* One line more is in the parts, and nothing else changes.
LEMMA PackKeeps ==
  ASSUME NEW packed \in Packing, NEW line \in Line, NEW limit
  PROVE  LET next == Pack(packed, line, limit)
         IN  /\ next \in Packing
             /\ Told(next.chunks) \cup LinesOf(next.current)
                  = (Told(packed.chunks) \cup LinesOf(packed.current)) \cup {line.line}
<1> DEFINE next == Pack(packed, line, limit)
<1>1. /\ packed.chunks \in Seq(Seq(Line)) /\ packed.current \in Seq(Line)
      /\ packed = [chunks |-> packed.chunks, current |-> packed.current]
  BY DEF Packing
<1>2. CASE next = [chunks |-> Append(packed.chunks, packed.current), current |-> <<line>>]
  <2>1. /\ Append(packed.chunks, packed.current) \in Seq(Seq(Line)) /\ <<line>> \in Seq(Line)
    BY <1>1, AppendProperties
  <2>2. LinesOf(<<line>>) = {line.line}
    BY DEF LinesOf, Range
  <2>3. Told(Append(packed.chunks, packed.current))
          = Told(packed.chunks) \cup LinesOf(packed.current)
    <3> DEFINE c == packed.chunks
               d == Append(c, packed.current)
    <3>1. /\ DOMAIN c = 1 .. Len(c) /\ DOMAIN d = 1 .. Len(c) + 1 /\ Len(c) \in Nat
          /\ d[Len(c) + 1] = packed.current /\ \A i \in 1 .. Len(c) : d[i] = c[i]
      BY <1>1, AppendProperties, LenProperties
    <3> HIDE DEF d, c
    <3>2. \A i : i \in 1 .. Len(c) + 1 <=> i \in 1 .. Len(c) \/ i = Len(c) + 1
      BY <3>1
    <3>3. Told(d) = Told(c) \cup LinesOf(packed.current)
      BY <3>1, <3>2 DEF Told
    <3> QED
      BY <3>3 DEF c, d
  <2>4. next \in Packing
    BY <1>2, <2>1 DEF Packing
  <2>5. next.chunks = Append(packed.chunks, packed.current) /\ next.current = <<line>>
    BY <1>2
  <2> QED
    BY <2>2, <2>3, <2>4, <2>5
<1>3. CASE next = [packed EXCEPT !.current = Append(@, line)]
  <2>1. /\ Append(packed.current, line) \in Seq(Line)
        /\ next = [chunks |-> packed.chunks, current |-> Append(packed.current, line)]
    BY <1>1, <1>3, AppendProperties
  <2>2. LinesOf(Append(packed.current, line)) = LinesOf(packed.current) \cup {line.line}
    <3> DEFINE c == packed.current
               d == Append(c, line)
    <3>1. /\ DOMAIN c = 1 .. Len(c) /\ DOMAIN d = 1 .. Len(c) + 1 /\ Len(c) \in Nat
          /\ d[Len(c) + 1] = line /\ \A i \in 1 .. Len(c) : d[i] = c[i]
      BY <1>1, AppendProperties, LenProperties
    <3> HIDE DEF d, c
    <3>2. \A i : i \in 1 .. Len(c) + 1 <=> i \in 1 .. Len(c) \/ i = Len(c) + 1
      BY <3>1
    <3>3. LinesOf(d) = LinesOf(c) \cup {line.line}
      BY <3>1, <3>2 DEF LinesOf, Range
    <3> QED
      BY <3>3 DEF c, d
  <2>3. next \in Packing
    BY <1>1, <2>1 DEF Packing
  <2> QED
    BY <2>1, <2>2, <2>3
<1> QED
  BY <1>2, <1>3 DEF Pack

\* The function by which Packed is defined exists.
LEMMA PackedSteps ==
  ASSUME NEW lines \in Seq(Line), NEW limit
  PROVE  LET packed == Packed(lines, limit)
         IN  /\ packed \in [0 .. Len(lines) -> Packing]
             /\ packed[0] = [chunks |-> <<>>, current |-> <<>>]
             /\ \A n \in 1 .. Len(lines) : packed[n] = Pack(packed[n - 1], lines[n], limit)
<1> DEFINE N == Len(lines)
           base == [chunks |-> <<>>, current |-> <<>>]
           Turn(n, p) == IF n \in 1 .. N THEN Pack(p, lines[n], limit) ELSE base
           step == [np \in Nat \X Packing |-> Turn(np[1], np[2])]
           Body(f) == [n \in 0 .. N |-> IF n = 0 THEN base ELSE Pack(f[n - 1], lines[n], limit)]
<1>1. N \in Nat /\ base \in Packing /\ \A n \in 1 .. N : lines[n] \in Line
  BY LenProperties, EmptySeq DEF Packing
<1>2. step \in [Nat \X Packing -> Packing]
  <2>1. \A n \in Nat, p \in Packing : Turn(n, p) \in Packing
    BY <1>1, PackKeeps
  <2> HIDE DEF Turn
  <2> QED
    BY <2>1
<1>3. PICK f \in [0 .. N -> Packing] : Recursive(f, base, step, N)
  <2>1. N \in Nat /\ base \in Packing
    BY <1>1
  <2> HIDE DEF N, base, step
  <2> QED
    BY <1>2, <2>1, RecursiveFunction
<1>4. \A n \in 1 .. N : f[n] = Pack(f[n - 1], lines[n], limit)
  <2>1. ASSUME NEW n \in 1 .. N PROVE f[n] = Pack(f[n - 1], lines[n], limit)
    <3>1. n \in Nat /\ n - 1 \in 0 .. N /\ f[n - 1] \in Packing
      BY <1>1
    <3>2. step[<<n, f[n - 1]>>] = Turn(n, f[n - 1])
      <4> HIDE DEF Turn
      <4> QED
        BY <3>1
    <3> QED
      BY <1>3, <3>2 DEF Recursive
  <2> QED
    BY <2>1
<1>5. f = Body(f)
  BY <1>1, <1>3, <1>4 DEF Recursive
<1>6. Packed(lines, limit) = CHOOSE g : g = Body(g)
  BY DEF Packed
<1>7. Packed(lines, limit) = Body(Packed(lines, limit))
  <2> HIDE DEF Body
  <2> QED
    BY <1>5, <1>6
<1> DEFINE packed == Packed(lines, limit)
<1>8. /\ packed[0] = base
      /\ \A n \in 1 .. N : packed[n] = Pack(packed[n - 1], lines[n], limit)
  <2> HIDE DEF packed
  <2>1. packed = Body(packed)
    BY <1>7 DEF packed
  <2>2. N \in Nat
    BY <1>1
  <2> HIDE DEF base, N
  <2>3. packed = [n \in 0 .. N |-> IF n = 0 THEN base ELSE Pack(packed[n - 1], lines[n], limit)]
    BY ONLY <2>1
  <2> QED
    BY ONLY <2>2, <2>3
<1>9. \A n \in 0 .. N : packed[n] \in Packing
  <2> DEFINE P == {n \in 0 .. N : packed[n] \in Packing}
  <2>1. P \in SUBSET (0 .. N) /\ 0 \in P
    BY <1>1, <1>8
  <2>2. ASSUME NEW n \in P, n < N PROVE n + 1 \in P
    <3>1. n + 1 \in 1 .. N /\ n + 1 \in 0 .. N /\ (n + 1) - 1 = n
      BY <1>1, <2>2
    <3>2. packed[n + 1] = Pack(packed[n], lines[n + 1], limit) /\ lines[n + 1] \in Line
      BY <1>1, <1>8, <3>1
    <3> QED
      BY <3>1, <3>2, PackKeeps
  <2>3. P = 0 .. N
    <3> HIDE DEF P, N
    <3> QED
      BY <1>1, <2>1, <2>2, BoundedInduction
  <2> QED
    BY <2>3
<1>10. packed \in [0 .. N -> Packing]
  <2> HIDE DEF packed, N
  <2>1. packed = Body(packed)
    BY <1>7 DEF packed
  <2> QED
    BY <1>9, <2>1
<1> QED
  BY <1>8, <1>10

\* Every line of the summary is in a part, and every part is one of its lines.
LEMMA PartsTellAll ==
  ASSUME NEW sizes \in Seq(Nat), NEW limit
  PROVE  LET parts == Parts(sizes, limit)
         IN  /\ parts \in Seq(Seq(Line)) /\ Len(parts) \in Nat \ {0}
             /\ sizes # <<>> => Told(parts) = DOMAIN sizes
<1> DEFINE lines == RiskLines(sizes)
           N == Len(lines)
           packed == Packed(lines, limit)
           last == packed[N]
<1>1. lines \in Seq(Line) /\ N \in Nat \ {0}
  BY RiskLinesType
<1> HIDE DEF lines
<1>2. /\ packed \in [0 .. N -> Packing] /\ packed[0] = [chunks |-> <<>>, current |-> <<>>]
      /\ \A n \in 1 .. N : packed[n] = Pack(packed[n - 1], lines[n], limit)
  BY <1>1, PackedSteps
<1> HIDE DEF packed
<1>3. \A n \in 1 .. N : lines[n] \in Line
  BY <1>1, LenProperties
<1>4. Parts(sizes, limit) = Append(last.chunks, last.current)
  BY DEF Parts, lines, packed
<1>5. last \in Packing /\ last.chunks \in Seq(Seq(Line)) /\ last.current \in Seq(Line)
  <2>1. last \in Packing
    BY ONLY <1>1, <1>2
  <2> HIDE DEF last
  <2> QED
    BY <2>1 DEF Packing
<1> DEFINE parts == Append(last.chunks, last.current)
<1>6. parts \in Seq(Seq(Line)) /\ Len(parts) \in Nat \ {0}
  <2> HIDE DEF last
  <2>1. Len(parts) = Len(last.chunks) + 1 /\ Len(last.chunks) \in Nat
    BY <1>5, AppendProperties, LenProperties
  <2> QED
    BY <1>5, <2>1, AppendProperties
<1> DEFINE Lines(p) == Told(p.chunks) \cup LinesOf(p.current)
           P == {n \in 0 .. N : Lines(packed[n]) = {lines[i].line : i \in 1 .. n}}
<1>7. P = 0 .. N
  <2>1. 0 \in P
    <3>1. Lines(packed[0]) = {}
      BY <1>2, EmptySeq DEF Told, LinesOf, Range
    <3> QED
      BY <1>1, <3>1
  <2>2. ASSUME NEW n \in P, n < N PROVE n + 1 \in P
    <3>1. /\ n + 1 \in 1 .. N /\ n + 1 \in 0 .. N /\ (n + 1) - 1 = n /\ n \in 0 .. N
          /\ \A i : i \in 1 .. n + 1 <=> i \in 1 .. n \/ i = n + 1
      BY <1>1, <2>2
    <3>2. packed[n + 1] = Pack(packed[n], lines[n + 1], limit) /\ packed[n] \in Packing
      BY <1>2, <3>1
    <3>3. Lines(packed[n + 1]) = Lines(packed[n]) \cup {lines[n + 1].line}
      <4>1. lines[n + 1] \in Line
        BY <1>3, <3>1
      <4> DEFINE old == packed[n]
                 new == Pack(old, lines[n + 1], limit)
      <4>2. Lines(new) = Lines(old) \cup {lines[n + 1].line}
        <5> HIDE DEF old
        <5>1. old \in Packing
          BY <3>2 DEF old
        <5> QED
          BY <4>1, <5>1, PackKeeps
      <4> HIDE DEF Lines
      <4> QED
        BY <3>2, <4>2
    <3>4. Lines(packed[n]) = {lines[i].line : i \in 1 .. n}
      OBVIOUS
    <3> HIDE DEF Lines
    <3>5. {lines[i].line : i \in 1 .. n} \cup {lines[n + 1].line}
             = {lines[i].line : i \in 1 .. n + 1}
      BY <3>1
    <3> QED
      BY <3>1, <3>3, <3>4, <3>5
  <2> HIDE DEF P, N
  <2>3. P \in SUBSET (0 .. N)
    BY DEF P
  <2> QED
    BY <1>1, <2>1, <2>2, <2>3, BoundedInduction
<1>8. Told(parts) = Lines(last)
  <2> DEFINE c == last.chunks
  <2>1. /\ DOMAIN c = 1 .. Len(c) /\ DOMAIN parts = 1 .. Len(c) + 1 /\ Len(c) \in Nat
        /\ parts[Len(c) + 1] = last.current /\ \A i \in 1 .. Len(c) : parts[i] = c[i]
    <3> HIDE DEF last
    <3> QED
      BY <1>5, AppendProperties, LenProperties
  <2> HIDE DEF parts, last
  <2>2. \A i : i \in 1 .. Len(c) + 1 <=> i \in 1 .. Len(c) \/ i = Len(c) + 1
    BY <2>1
  <2>3. Told(parts) = Told(c) \cup LinesOf(last.current)
    <3> HIDE DEF c
    <3> QED
      BY <2>1, <2>2 DEF Told
  <2> QED
    BY <2>3
<1>9. ASSUME sizes # <<>> PROVE Told(parts) = DOMAIN sizes
  <2>1. N \in P
    <3> HIDE DEF P
    <3>1. N \in 0 .. N
      BY <1>1
    <3> QED
      BY <1>7, <3>1
  <2>2. Lines(last) = {lines[i].line : i \in 1 .. N}
    BY <2>1
  <2>3. N = Len(sizes) /\ \A i \in 1 .. N : lines[i].line = i
    BY <1>9, RiskLinesType DEF lines
  <2>4. DOMAIN sizes = 1 .. N
    BY <2>3, LenProperties
  <2> HIDE DEF N, parts, Lines
  <2> QED
    BY <1>8, <2>2, <2>3, <2>4
<1> QED
  BY <1>4, <1>6, <1>9

\* The run whose report is there is one that has begun.
RunsInv ==
    /\ runs \in 0 .. MaxRuns
    /\ job # "rest" => runs # 0
    /\ report # NoReport => report.run \in 1 .. MaxRuns

LEMMA NextKeepsRunsInv == RunsInv /\ [Next]_vars => RunsInv'
<1> SUFFICES ASSUME RunsInv, [Next]_vars PROVE RunsInv'
  OBVIOUS
<1> USE SummaryType DEF RunsInv
<1>1. ASSUME UNCHANGED <<runs, report>>, job' \in {"rest", job} PROVE RunsInv'
  BY <1>1
<1>2. CASE Publish
  <2>1. /\ job = "publishing" /\ runs' = runs
        /\ report' = [run |-> runs, bars |-> fetched]
    BY <1>2 DEF Publish
  <2>2. report'.run = runs
    BY <2>1
  <2>3. runs \in 1 .. MaxRuns
    BY <2>1
  <2> QED
    BY <2>1, <2>2, <2>3
<1>3. CASE NotifyAgain \/ Begin
  <2>1. runs' = runs + 1 /\ runs < MaxRuns /\ report' = report
    BY <1>3 DEF NotifyAgain, Begin
  <2> QED
    BY <2>1
<1>4. CASE Exit \/ DailyDies
  BY <1>1, <1>4 DEF Exit, DailyDies
<1>5. CASE DailyNotifies \/ FetchStock \/ DailyFetches
  BY <1>1, <1>5 DEF DailyNotifies, FetchStock, DailyFetches, jobVars
<1>6. ASSUME NEW w \in Worker,
             \/ WorkerFetches(w)
             \/ FetchNext(w, w) /\ UNCHANGED <<notifyVars, jobVars>>
             \/ WorkerReturns(w) \/ WorkerDies(w)
      PROVE  RunsInv'
  BY <1>1, <1>6 DEF WorkerFetches, WorkerReturns, WorkerDies, jobVars
<1>7. CASE StockDone \/ StocksMissing \/ PublicationFails
  BY <1>1, <1>7 DEF StockDone, StocksMissing, PublicationFails, Abandon
<1>8. CASE StocksComplete
  BY <1>8 DEF StocksComplete
<1>9. CASE \E q \in Provider : Resume(q) /\ UNCHANGED <<notifyVars, jobVars>>
  BY <1>1, <1>9 DEF jobVars
<1>10. CASE UNCHANGED vars
  BY <1>1, <1>10 DEF vars, jobVars
<1> QED
  BY <1>2, <1>3, <1>4, <1>5, <1>6, <1>7, <1>8, <1>9, <1>10 DEF Next, DailyStep

LEMMA RunsInvariance == Spec => []RunsInv
<1>1. Init => RunsInv
  BY SummaryType DEF Init, RunsInv
<1> QED
  BY <1>1, NextKeepsRunsInv, PTL DEF Spec

\* What is sent is the summary of a run, which is one of the lengths of its lines.
LEMMA SentIsSummary ==
  ASSUME RunsInv,
         \/ Publish /\ SendReport(Summary[runs])
         \/ NotifyAgain /\ SendReport(Summary[report.run])
  PROVE  \E sizes \in Seq(Nat) : SendReport(sizes)
<1>1. \A n \in 1 .. MaxRuns : Summary[n] \in Seq(Nat)
  BY SummaryType
<1>2. CASE Publish /\ SendReport(Summary[runs])
  <2>1. runs \in 1 .. MaxRuns
    BY <1>2, SummaryType DEF Publish, RunsInv
  <2> QED
    BY <1>1, <1>2, <2>1
<1>3. CASE NotifyAgain /\ SendReport(Summary[report.run])
  <2>1. report.run \in 1 .. MaxRuns
    BY <1>3 DEF NotifyAgain, RunsInv
  <2> QED
    BY <1>1, <1>3, <2>1
<1> QED
  BY <1>2, <1>3

\* Part k is among what the channel has been sent.
Arrived(ch, k) == \E j \in DOMAIN chat[ch] : chat[ch][j] = k

\* The inductive invariant of a delivery: of the message of the channel whose turn it is,
\* the parts before the one that is posted have arrived; a channel counts as delivered
\* when all of them have.
FullInv ==
    /\ summary \in Seq(Nat)
    /\ sending # "sent" =>
          \A i \in turn .. Len(Channels) : outcome[Channels[i]] = "open"
    /\ sending = "post" =>
          /\ message = Parts(summary, Limit[Now])
          /\ part \in DOMAIN message
          /\ \A k \in 1 .. part - 1 : Arrived(Now, k)
    /\ \A ch \in Channel : outcome[ch] = "delivered" =>
          Range(chat[ch]) = DOMAIN Parts(summary, Limit[ch])

\* There is at least one part.
LEMMA PartsDomain ==
  ASSUME NEW sizes \in Seq(Nat), NEW limit
  PROVE  /\ Len(Parts(sizes, limit)) \in Nat \ {0}
         /\ DOMAIN Parts(sizes, limit) = 1 .. Len(Parts(sizes, limit))
<1>1. /\ Parts(sizes, limit) \in Seq(Seq(Line)) /\ Len(Parts(sizes, limit)) \in Nat \ {0}
  BY PartsTellAll
<1> HIDE DEF Line
<1> QED
  BY <1>1, LenProperties

\* What one arrival leaves: the other chats stand, and what has arrived has.
LEMMA ArrivalAdds ==
  ASSUME NotifyInv, AttemptInv, sending = "post", NEW arrived \in BOOLEAN, Arrives(arrived)
  PROVE  /\ \A ch \in Channel : ch # Now => chat'[ch] = chat[ch]
         /\ \A k : Arrived(Now, k) => \E j \in DOMAIN chat'[Now] : chat'[Now][j] = k
         /\ arrived => \E j \in DOMAIN chat'[Now] : chat'[Now][j] = part
         /\ \A j \in DOMAIN chat'[Now] : chat'[Now][j] \in 1 .. part
<1>1. chat \in [Channel -> Seq(Nat)] /\ Now \in Channel /\ part \in Nat
  BY NowIsChannel DEF NotifyInv
<1>2. /\ \A k : Arrived(Now, k) => \E j \in DOMAIN chat'[Now] : chat'[Now][j] = k
      /\ arrived => \E j \in DOMAIN chat'[Now] : chat'[Now][j] = part
      /\ chat' \in [Channel -> Seq(Nat)] /\ PartsInOrder'
  BY ArrivalKeeps DEF Arrived
<1>3. \A ch \in Channel : ch # Now => chat'[ch] = chat[ch]
  BY <1>1 DEF Arrives
<1>4. \A j \in DOMAIN chat'[Now] : chat'[Now][j] <= part
  BY ArrivalCounts
<1>5. ASSUME NEW j \in DOMAIN chat'[Now] PROVE chat'[Now][j] \in 1 .. part
  <2> DEFINE got == chat'[Now]
  <2>1. got \in Seq(Nat) /\ DOMAIN got = 1 .. Len(got) /\ Len(got) \in Nat
    BY <1>1, <1>2, LenProperties
  <2>2. got[j] = 1 \/ \E i \in 1 .. j - 1 : got[i] = got[j] - 1
    BY <1>1, <1>2 DEF PartsInOrder
  <2>3. got[j] <= part
    BY <1>4
  <2> HIDE DEF got
  <2>4. j \in 1 .. Len(got) /\ got[j] \in Nat
    BY <2>1, <1>5 DEF got
  <2>5. \A i \in 1 .. j - 1 : got[i] \in Nat
    BY <2>1, <2>4
  <2>6. got[j] >= 1
    BY <2>2, <2>4, <2>5
  <2>7. got[j] \in 1 .. part
    BY <1>1, <2>3, <2>4, <2>6
  <2> QED
    BY <2>7 DEF got
<1> QED
  BY <1>2, <1>3, <1>5

LEMMA FullUrl == ASSUME FullInv, InvalidUrl \/ ValidUrl PROVE FullInv'
  BY DEF FullInv, InvalidUrl, ValidUrl

LEMMA FullOpen ==
  ASSUME NotifyInv, FullInv, Open PROVE FullInv'
<1>1. /\ sending = "open" /\ sending' = "post" /\ UNCHANGED <<summary, turn, part, chat, outcome>>
      /\ message' = Parts(summary, Limit[Now]) /\ part = 1
  BY DEF Open, NotifyInv
<1>2. 1 \in DOMAIN Parts(summary, Limit[Now]) /\ 1 .. part - 1 = {}
  <2>1. /\ Len(Parts(summary, Limit[Now])) \in Nat \ {0}
        /\ DOMAIN Parts(summary, Limit[Now]) = 1 .. Len(Parts(summary, Limit[Now]))
    BY PartsDomain DEF FullInv
  <2> QED
    BY <1>1, <2>1
<1> QED
  BY <1>1, <1>2 DEF FullInv, Now, Arrived

\* The channel that is left has failed, or has got every part.
LEMMA FullNextChannel ==
  ASSUME NotifyInv, FullInv, sending \in {"open", "post"},
         NEW result \in {"failed", "delivered"}, NextChannel(result), summary' = summary,
         \A ch \in Channel : ch # Now => chat'[ch] = chat[ch],
         result = "delivered" => Range(chat'[Now]) = DOMAIN Parts(summary, Limit[Now])
  PROVE  FullInv'
<1>1. /\ outcome' = [outcome EXCEPT ![Now] = result] /\ sending' \in {"open", "sent"}
      /\ outcome \in [Channel -> {"open", "failed", "delivered"}]
  BY DEF NotifyInv, NextChannel
<1>2. Now \in Channel
  BY NowIsChannel
<1>3. ASSUME NEW ch \in Channel, outcome'[ch] = "delivered"
      PROVE  Range(chat'[ch]) = DOMAIN Parts(summary, Limit[ch])
  <2>1. CASE ch = Now
    BY <1>1, <1>2, <1>3, <2>1
  <2>2. CASE ch # Now
    BY <1>1, <1>2, <1>3, <2>2 DEF FullInv
  <2> QED
    BY <2>1, <2>2
<1>4. ASSUME sending' # "sent", NEW i \in turn' .. Len(Channels)
      PROVE  outcome'[Channels[i]] = "open"
  <2>1. turn' = turn + 1 /\ turn \in Nat /\ Len(Channels) \in Nat /\ turn \in 1 .. Len(Channels)
    BY <1>4, NowIsChannel DEF NotifyInv, NextChannel
  <2>2. /\ i \in turn .. Len(Channels) /\ i # turn
        /\ i \in DOMAIN Channels /\ turn \in DOMAIN Channels
    <3>1. i \in turn + 1 .. Len(Channels) /\ DOMAIN Channels = 1 .. Len(Channels)
      BY <2>1, <1>4, NowIsChannel
    <3>2. i \in turn .. Len(Channels) /\ i # turn /\ i \in 1 .. Len(Channels)
      BY ONLY <2>1, <3>1
    <3> QED
      BY <2>1, <3>1, <3>2
  <2>3. Channels[i] # Now /\ Channels[i] \in Channel
    BY <2>2, ChannelType DEF Channel, Now
  <2>4. sending # "sent" /\ outcome[Channels[i]] = "open"
    BY <2>2 DEF FullInv
  <2> QED
    BY <1>1, <1>2, <2>3, <2>4
<1> QED
  BY <1>1, <1>3, <1>4 DEF FullInv

\* The part stays or is the next one, which is there, and the ones before have arrived.
LEMMA FullPostAgain ==
  ASSUME NotifyInv, AttemptInv, FullInv, sending = "post",
         NEW arrived \in BOOLEAN, Arrives(arrived),
         UNCHANGED <<summary, sending, turn, message, outcome>>,
         part' = part \/ (arrived /\ part # Len(message) /\ part' = part + 1)
  PROVE  FullInv'
<1>1. /\ \A ch \in Channel : ch # Now => chat'[ch] = chat[ch]
      /\ \A k : Arrived(Now, k) => \E j \in DOMAIN chat'[Now] : chat'[Now][j] = k
      /\ arrived => \E j \in DOMAIN chat'[Now] : chat'[Now][j] = part
  BY ArrivalAdds
<1>2. /\ Now \in Channel /\ Now' = Now /\ part \in Nat
      /\ message = Parts(summary, Limit[Now])
      /\ part \in DOMAIN message
      /\ \A k \in 1 .. part - 1 : Arrived(Now, k)
  BY NowIsChannel DEF NotifyInv, FullInv, Now
<1>3. Len(message) \in Nat /\ DOMAIN message = 1 .. Len(message)
  BY <1>2, PartsDomain DEF FullInv
<1>4. part' \in DOMAIN message /\ part' \in Nat
  BY <1>2, <1>3
<1>5. ASSUME NEW k \in 1 .. part' - 1 PROVE Arrived(Now, k)'
  <2>1. k \in 1 .. part - 1 \/ (arrived /\ k = part)
    BY <1>2
  <2>2. \E j \in DOMAIN chat'[Now] : chat'[Now][j] = k
    BY <1>1, <1>2, <2>1
  <2> QED
    BY <1>2, <2>2 DEF Arrived
<1>6. outcome[Now] = "open"
  <2>1. turn \in turn .. Len(Channels)
    BY NowIsChannel DEF NotifyInv
  <2> QED
    BY <2>1 DEF FullInv, Now
<1>7. \A ch \in Channel : outcome'[ch] = "delivered" =>
          Range(chat'[ch]) = DOMAIN Parts(summary, Limit[ch])
  BY <1>1, <1>2, <1>6 DEF FullInv
<1> QED
  BY <1>2, <1>4, <1>5, <1>7 DEF FullInv

LEMMA FullDelivered ==
  ASSUME NotifyInv, AttemptInv, FullInv, Delivered PROVE FullInv'
<1>1. /\ sending = "post" /\ Arrives(TRUE) /\ summary' = summary
      /\ \/ part = Len(message) /\ NextChannel("delivered")
         \/ /\ part # Len(message) /\ part' = part + 1
            /\ UNCHANGED <<sending, turn, message, outcome>>
  BY DEF Delivered
<1>2. CASE part # Len(message) /\ part' = part + 1 /\ UNCHANGED <<sending, turn, message, outcome>>
  BY <1>1, <1>2, FullPostAgain
<1>3. CASE part = Len(message) /\ NextChannel("delivered")
  <2>1. /\ \A ch \in Channel : ch # Now => chat'[ch] = chat[ch]
        /\ \A k : Arrived(Now, k) => \E j \in DOMAIN chat'[Now] : chat'[Now][j] = k
        /\ \E j \in DOMAIN chat'[Now] : chat'[Now][j] = part
        /\ \A j \in DOMAIN chat'[Now] : chat'[Now][j] \in 1 .. part
    BY <1>1, ArrivalAdds
  <2>2. /\ message = Parts(summary, Limit[Now]) /\ part \in Nat
        /\ \A k \in 1 .. part - 1 : Arrived(Now, k)
    BY <1>1 DEF FullInv, NotifyInv
  <2>3. DOMAIN Parts(summary, Limit[Now]) = 1 .. part
    BY <1>3, <2>2, PartsDomain DEF FullInv
  <2>4. \A k \in 1 .. part : k = part \/ k \in 1 .. part - 1
    BY <2>2
  <2>5. \A k \in 1 .. part : \E j \in DOMAIN chat'[Now] : chat'[Now][j] = k
    BY <2>1, <2>2, <2>4
  <2>6. Range(chat'[Now]) = DOMAIN Parts(summary, Limit[Now])
    BY <2>1, <2>3, <2>5 DEF Range
  <2> QED
    BY <1>1, <1>3, <2>1, <2>6, FullNextChannel
<1> QED
  BY <1>1, <1>2, <1>3

LEMMA FullFailure ==
  ASSUME NotifyInv, AttemptInv, FullInv, NEW arrived \in BOOLEAN,
         TransientFailure(arrived) \/ PermanentFailure(arrived)
  PROVE  FullInv'
<1>1. /\ sending = "post" /\ Arrives(arrived) /\ summary' = summary
      /\ NextChannel("failed") \/ UNCHANGED <<sending, turn, message, part, outcome>>
  BY DEF TransientFailure, PermanentFailure, TryAgain, GiveUp
<1>2. CASE NextChannel("failed")
  BY <1>1, <1>2, ArrivalAdds, FullNextChannel
<1>3. CASE UNCHANGED <<sending, turn, message, part, outcome>>
  BY <1>1, <1>3, FullPostAgain
<1> QED
  BY <1>1, <1>2, <1>3

LEMMA FullStep == ASSUME NotifyInv, AttemptInv, FullInv, NotifyNext PROVE FullInv'
<1>1. CASE CannotOpen
  BY <1>1, FullNextChannel DEF CannotOpen
<1> QED
  BY <1>1, FullUrl, FullOpen, FullDelivered, FullFailure DEF NotifyNext

\* Before a summary is sent nothing counts as delivered.
LEMMA FullBegins ==
  ASSUME NotifyInv, FullInv, NEW sizes \in Seq(Nat), SendReport(sizes) PROVE FullInv'
<1>1. /\ sending = "idle" /\ summary' = sizes /\ sending' \in {"sent", "url"}
      /\ UNCHANGED <<turn, chat, outcome>>
  BY DEF SendReport
<1>2. turn = 1 /\ \A i \in 1 .. Len(Channels) : outcome[Channels[i]] = "open"
  BY <1>1 DEF NotifyInv, FullInv
<1>3. \A ch \in Channel : outcome[ch] = "open"
  <2>1. DOMAIN Channels = 1 .. Len(Channels)
    BY ChannelsType, LenProperties
  <2> QED
    BY <1>2, <2>1 DEF Channel
<1> QED
  BY <1>1, <1>2, <1>3 DEF FullInv

LEMMA FullEnds == ASSUME EndSending PROVE FullInv'
<1>1. /\ outcome' = [ch \in Channel |-> "open"] /\ summary' = <<>> /\ sending' = "idle"
      /\ turn' = 1
  BY DEF EndSending, Untried
<1>2. \A i \in 1 .. Len(Channels) : Channels[i] \in Channel
  BY ChannelsType, LenProperties DEF Channel
<1>3. <<>> \in Seq(Nat)
  BY EmptySeq
<1> QED
  BY <1>1, <1>2, <1>3 DEF FullInv

LEMMA FullInvariance == Spec => [](NotifyInv /\ FullInv)
<1>1. Init => FullInv
  <2>1. \A i \in 1 .. Len(Channels) : Channels[i] \in Channel
    BY ChannelsType, LenProperties DEF Channel
  <2>2. <<>> \in Seq(Nat)
    BY EmptySeq
  <2> QED
    BY <2>1, <2>2 DEF Init, NotifyInit, Untried, FullInv
<1>2. RunsInv /\ NotifyInv /\ AttemptInv /\ FullInv /\ [Next]_vars => FullInv'
  <2> SUFFICES ASSUME RunsInv, NotifyInv, AttemptInv, FullInv, [Next]_vars PROVE FullInv'
    OBVIOUS
  <2>1. ASSUME UNCHANGED notifyVars PROVE FullInv'
    BY <2>1 DEF notifyVars, FullInv, Now, Arrived
  <2> QED
    BY <2>1, NotifyingSteps, SentIsSummary, FullStep, FullBegins, FullEnds
<1> QED
  BY <1>1, <1>2, RunsInvariance, AttemptInvariance, PTL DEF Spec

\* When send() is over and nothing failed, every line of the summary has arrived at every
\* channel, in parts that came in order and no more often than there are attempts: no line
\* is lost where build_payloads() starts the next part, for any sizes and limits.
THEOREM AllIsDelivered == Spec => []DeliveredInFull
<1>1. NotifyInv /\ FullInv =>
        (sending = "sent" /\ ~Failed /\ summary # <<>> =>
          \A ch \in Channel :
             LET parts == Parts(summary, Limit[ch])
             IN  UNION {{line.line : line \in Range(parts[k])} : k \in Range(chat[ch])}
                   = DOMAIN summary)
  <2> SUFFICES ASSUME NotifyInv, FullInv, sending = "sent", ~Failed, summary # <<>>,
                      NEW ch \in Channel
               PROVE  UNION {{line.line : line \in Range(Parts(summary, Limit[ch])[k])} :
                             k \in Range(chat[ch])} = DOMAIN summary
    OBVIOUS
  <2>1. outcome[ch] = "delivered"
    BY DEF NotifyInv, Failed
  <2>2. Range(chat[ch]) = DOMAIN Parts(summary, Limit[ch])
    BY <2>1 DEF FullInv
  <2>3. Told(Parts(summary, Limit[ch])) = DOMAIN summary
    BY PartsTellAll DEF FullInv
  <2> QED
    BY <2>2, <2>3 DEF Told, LinesOf
<1>2. NotifyInv => PartsInOrder
  BY DEF NotifyInv
<1>3. NotifyInv /\ AttemptInv /\ FullInv => DeliveredInFull
  BY <1>1, <1>2, CopiesWithin DEF DeliveredInFull
<1> QED
  BY <1>3, AttemptInvariance, FullInvariance, PTL
=============================================================================
