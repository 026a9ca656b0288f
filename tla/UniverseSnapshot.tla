-------------------------- MODULE UniverseSnapshot --------------------------
(***************************************************************************)
(* providers/universe.py: the quotes of all stocks on one date, from one   *)
(* of two endpoints, tried again when neither is available, and kept in    *)
(* the response cache once the session is over.  The clock is read three   *)
(* times on the way.  Of the rows of a response only the moment at which   *)
(* it was served is kept.                                                  *)
(***************************************************************************)
EXTENDS ShanghaiClock

CONSTANTS
    Reader,             \* processes that call get_quotes()
    Retries,            \* of AkShareUniverseProvider
    WatchlistRetries,   \* of WatchlistUniverseProvider, around it
    NoQuotes

VARIABLES
    stored,         \* per date: the cached snapshot
    reading         \* per reader: where its get_quotes() is, and what it knows

universeVars == <<stored, reading>>

\* date and final are of the first reading of the clock (the date, and whether the session
\* was over); served and fallback of the response (its moment, and whose it is).
Idle == [step |-> "idle", date |-> 0, final |-> FALSE, served |-> 0, fallback |-> FALSE,
         quotes |-> NoQuotes, inner |-> 0, outer |-> 0]

UniverseInit ==
    /\ stored = [d \in Date |-> NoQuotes]
    /\ reading = [r \in Reader |-> Idle]

Become(r, state) == reading' = [reading EXCEPT ![r] = state]

Turn(r, next) == Become(r, [reading[r] EXCEPT !.step = next])

\* What a raised error leaves of the call: the attempts that were made around it.
RaiseUnavailable(r) == Become(r, [Idle EXCEPT !.step = "unavailable", !.outer = reading[r].outer])

DataError(r) == Become(r, [Idle EXCEPT !.step = "failed"])

ReturnQuotes(r, found) == Become(r, [Idle EXCEPT !.step = "returned", !.quotes = found])
----------------------------------------------------------------------------
(* get_quotes() up to the request *)

GetQuotes(r) ==
    /\ reading[r].step = "idle"
    /\ Turn(r, "first")
    /\ UNCHANGED stored

\* Intraday quotes are never kept.
SessionOver(part) == part >= Settled

ReadDate(r) ==
    /\ reading[r].step = "first"
    /\ \E over \in {SessionOver(PartOf(present))} :
          Become(r, [reading[r] EXCEPT !.date = DateOf(present), !.final = over,
                                       !.step = IF over THEN "load" ELSE "primary"])
    /\ UNCHANGED stored

\* _validated_snapshot() of what is cached.
LoadSnapshot(r) ==
    LET entry == stored[reading[r].date]
    IN  /\ reading[r].step = "load" /\ entry # NoQuotes
        /\ IF entry.date = reading[r].date THEN ReturnQuotes(r, entry) ELSE DataError(r)
        /\ UNCHANGED stored

\* Nothing is cached, or it is too old and dropped.
LoadNothing(r) ==
    /\ reading[r].step = "load"
    /\ stored' = [stored EXCEPT ![reading[r].date] = NoQuotes]
    /\ Turn(r, "primary")
----------------------------------------------------------------------------
(* _fetch_quotes() *)

\* A transient outage: tried again, or given up.
TransientOutage(r) ==
    IF reading[r].inner < Retries
    THEN Become(r, [reading[r] EXCEPT !.step = "primary", !.inner = @ + 1,
                                      !.served = 0, !.fallback = FALSE])
    ELSE RaiseUnavailable(r)

Respond(r, fallback) ==
    Become(r, [reading[r] EXCEPT !.step = "map", !.served = present, !.fallback = fallback])

\* The primary endpoint: an answer, an outage, no AkShare at all, or malformed data.
AskPrimary(r) ==
    /\ reading[r].step = "primary"
    /\ Respond(r, FALSE) \/ Turn(r, "fallback") \/ RaiseUnavailable(r) \/ DataError(r)
    /\ UNCHANGED stored

AskFallback(r) ==
    /\ reading[r].step = "fallback"
    /\ Respond(r, TRUE) \/ TransientOutage(r) \/ DataError(r)
    /\ UNCHANGED stored

\* _quotes_from_response(): the clock is read for the quote_date of the rows.
MapRecords(r) ==
    /\ reading[r].step = "map"
    /\ Become(r, [reading[r] EXCEPT !.step = "date", !.served = 0, !.fallback = FALSE,
                       !.quotes = [date |-> DateOf(present), served |-> reading[r].served]])
    /\ UNCHANGED stored

\* The rows are malformed, or codes are missing from them: deterministic, except for an
\* incomplete answer of the fallback while the primary is out of reach.
RejectRecords(r) ==
    /\ reading[r].step = "map"
    /\ DataError(r) \/ (reading[r].fallback /\ Retries > 0 /\ TransientOutage(r))
    /\ UNCHANGED stored

\* _get_expected_codes(): neither endpoint of the list of codes is available.
ExpectedCodesOutage(r) ==
    /\ reading[r].step = "map"
    /\ TransientOutage(r)
    /\ UNCHANGED stored
----------------------------------------------------------------------------
(* get_quotes() after the request *)

\* Mutant: the date is not compared.
AnyDate(r) == r \in Reader

\* snapshot_date_changed
DateUnchanged(r) == DateOf(present) = reading[r].date

CheckDate(r) ==
    /\ reading[r].step = "date"
    /\ IF ~DateUnchanged(r) THEN RaiseUnavailable(r)
       ELSE IF reading[r].final THEN Turn(r, "store")
       ELSE ReturnQuotes(r, reading[r].quotes)
    /\ UNCHANGED stored

StoreSnapshot(r) ==
    LET found == reading[r].quotes
    IN  /\ reading[r].step = "store"
        /\ IF found.date = reading[r].date
           THEN /\ stored' = [stored EXCEPT ![reading[r].date] = found]
                /\ ReturnQuotes(r, found)
           ELSE DataError(r) /\ UNCHANGED stored

\* WatchlistUniverseProvider: whatever was unavailable is asked for once more, a change
\* of the date included.
RetryAll(r) ==
    /\ reading[r].step = "unavailable" /\ reading[r].outer < WatchlistRetries
    /\ Become(r, [Idle EXCEPT !.step = "first", !.outer = reading[r].outer + 1])
    /\ UNCHANGED stored

\* get_quotes() is over, or its process is killed.
Leave(r) ==
    /\ reading[r].step # "idle"
    /\ Become(r, Idle)
    /\ UNCHANGED stored

UniverseNext ==
    \E r \in Reader :
       \/ GetQuotes(r) \/ ReadDate(r) \/ LoadSnapshot(r) \/ LoadNothing(r)
       \/ AskPrimary(r) \/ AskFallback(r)
       \/ MapRecords(r) \/ RejectRecords(r) \/ ExpectedCodesOutage(r)
       \/ CheckDate(r) \/ StoreSnapshot(r)
       \/ RetryAll(r) \/ Leave(r)
=============================================================================
