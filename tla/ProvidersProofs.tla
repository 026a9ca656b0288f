--------------------------- MODULE ProvidersProofs --------------------------
(***************************************************************************)
(* What is asked of the providers.  The gate keeps its two promises for    *)
(* any number of processes, any clock and any durations.  The quotes of a  *)
(* date carry their date, and the reports on the ETFs agree, for any       *)
(* number of processes, dates, retries and batches.  The three are         *)
(* components of their own; only the last two share a clock.               *)
(***************************************************************************)
EXTENDS RequestGate, DailySnapshots, SequenceTheorems, TLAPS
-----------------------------------------------------------------------------
(* The request gate *)

USE ProcessType, TimeType, DurationTypes

LEMMA LongerProperties ==
    ASSUME NEW a \in Nat, NEW b \in Nat
    PROVE  Longer(a, b) \in Nat /\ Longer(a, b) >= a /\ Longer(a, b) >= b
  BY DEF Longer

\* The inductive invariant of the gate: types, exclusive access to the state file,
\* and a state file that never forgets a start or a failure.
THEOREM GateInvariance == Spec => []IInv
<1>1. Init => IInv
  BY DEF Init, IInv, TypeOK, GateInv, State, Step, Locked
<1>2. IInv /\ [Next]_vars => IInv'
  <2> SUFFICES ASSUME IInv, [Next]_vars
               PROVE  IInv'
    OBVIOUS
  <2> USE DEF IInv, TypeOK, GateInv, State, Step, Locked, GoTo
  <2>1. ASSUME NEW p \in Process, Acquire(p)
        PROVE  IInv'
    BY <2>1 DEF Acquire
  <2>2. ASSUME NEW p \in Process, LockToAdmit(p)
        PROVE  IInv'
    BY <2>2 DEF LockToAdmit, Lock
  <2>3. ASSUME NEW p \in Process, ReadClockToAdmit(p)
        PROVE  IInv'
    BY <2>3 DEF ReadClockToAdmit, ReadClock
  <2>4. ASSUME NEW p \in Process, CircuitOpen(p)
        PROVE  IInv'
    BY <2>4 DEF CircuitOpen, Unlock
  <2>5. ASSUME NEW p \in Process, TooEarly(p)
        PROVE  IInv'
    BY <2>5 DEF TooEarly, Unlock
  <2>6. ASSUME NEW p \in Process, Admit(p)
        PROVE  IInv'
    BY <2>6 DEF Admit, Unlock
  <2>7. ASSUME NEW p \in Process, Succeed(p)
        PROVE  IInv'
    BY <2>7 DEF Succeed
  <2>8. ASSUME NEW p \in Process, Unavailable(p)
        PROVE  IInv'
    BY <2>8 DEF Unavailable
  <2>9. ASSUME NEW p \in Process, LockToRecord(p)
        PROVE  IInv'
    BY <2>9 DEF LockToRecord, Lock
  <2>10. ASSUME NEW p \in Process, ReadClockToRecord(p)
         PROVE  IInv'
    BY <2>10 DEF ReadClockToRecord, ReadClock
  <2>11. ASSUME NEW p \in Process, Record(p)
         PROVE  IInv'
    <3> DEFINE pause == Longer(seen[p].retry_after, clock[p] + Cooldown)
    <3>1. seen[p] = file /\ clock[p] \in Nat /\ seen[p].retry_after \in Nat
      BY <2>11 DEF Record
    <3>2. pause \in Nat /\ pause >= file.retry_after /\ pause >= clock[p] + Cooldown
      <4>1. clock[p] + Cooldown \in Nat
        BY <3>1
      <4>2. pause \in Nat /\ pause >= seen[p].retry_after /\ pause >= clock[p] + Cooldown
        BY ONLY <3>1, <4>1, LongerProperties
      <4> QED
        BY <3>1, <4>2
    <3>3. /\ file' = [file EXCEPT !.retry_after = pause]
          /\ file'.retry_after = pause /\ file'.next_request = file.next_request
      BY <2>11, <3>1 DEF Record, Unlock
    <3>4. lastFailure' \in Int /\ lastFailure' + Cooldown <= pause
      BY <2>11, <3>1, <3>2 DEF Record, Longer
    <3> HIDE DEF pause
    <3>5. lastStart' + Interval <= file'.next_request
      BY <2>11, <3>3 DEF Record
    <3>6. \A q \in Process : pc'[q] \in Locked => holder' = q /\ seen'[q] = file'
      BY <2>11 DEF Record, Unlock
    <3>7. TypeOK'
      BY <2>11, <3>2, <3>3, <3>4 DEF Record, Unlock
    <3>8. lastFailure' + Cooldown <= file'.retry_after
      BY <3>3, <3>4
    <3> QED
      BY <3>5, <3>6, <3>7, <3>8 DEF IInv, GateInv
  <2>12. ASSUME NEW p \in Process, Abort(p)
         PROVE  IInv'
    BY <2>12 DEF Abort
  <2>13. ASSUME NEW t \in Time, SetClock(t)
         PROVE  IInv'
    BY <2>13 DEF SetClock
  <2>14. CASE UNCHANGED vars
    BY <2>14 DEF vars
  <2> QED
    BY <2>1, <2>2, <2>3, <2>4, <2>5, <2>6, <2>7, <2>8, <2>9, <2>10, <2>11, <2>12, <2>13,
       <2>14 DEF Next
<1> QED
  BY <1>1, <1>2, PTL DEF Spec

\* Two requests are an interval apart by the clock readings that admitted them.
THEOREM StartsAreSpaced == Spec => StartsSpaced
<1>1. IInv /\ [Next]_vars => [\A p \in Process : Admit(p) => clock[p] >= lastStart + Interval]_vars
  <2> SUFFICES ASSUME IInv, NEW p \in Process, Admit(p)
               PROVE  clock[p] >= lastStart + Interval
    OBVIOUS
  <2>1. seen[p] = file /\ seen[p].next_request <= clock[p]
    BY DEF IInv, GateInv, Locked, Admit
  <2> QED
    BY <2>1 DEF IInv, TypeOK, GateInv, State
<1> QED
  BY <1>1, GateInvariance, PTL DEF Spec, StartsSpaced

\* No request is admitted during the pause of a recorded failure.
THEOREM PausesAreRespected == Spec => PauseRespected
<1>1. IInv /\ [Next]_vars
        => [\A p \in Process : Admit(p) => clock[p] >= lastFailure + Cooldown]_vars
  <2> SUFFICES ASSUME IInv, NEW p \in Process, Admit(p)
               PROVE  clock[p] >= lastFailure + Cooldown
    OBVIOUS
  <2>1. seen[p] = file /\ seen[p].retry_after <= clock[p]
    BY DEF IInv, GateInv, Locked, Admit
  <2> QED
    BY <2>1 DEF IInv, TypeOK, GateInv, State
<1> QED
  BY <1>1, GateInvariance, PTL DEF Spec, PauseRespected
-----------------------------------------------------------------------------
(* The clock of the snapshots *)

\* The date and the part of a moment are its quotient and its remainder.
LEMMA PartsOfMoment ==
    ASSUME NEW m \in Nat
    PROVE  DateOf(m) \in Nat /\ PartOf(m) \in 0 .. 3 /\ m = 4 * DateOf(m) + PartOf(m)
  BY DEF DateOf, PartOf

\* The first moment of a date bounds the moments of it and of the later dates.
LEMMA DateStarts ==
    ASSUME NEW m \in Nat, NEW d \in Nat
    PROVE  /\ d <= DateOf(m) <=> 4 * d <= m
           /\ DateOf(m) = d <=> 4 * d <= m /\ m < 4 * (d + 1)
           /\ DateOf(m) = d /\ PartOf(m) = Settled <=> m = 4 * d + Settled
<1>1. PICK q \in Nat, part \in 0 .. 3 : DateOf(m) = q /\ PartOf(m) = part /\ m = 4 * q + part
  BY PartsOfMoment
<1>2. /\ d <= q <=> 4 * d <= m
      /\ q = d <=> 4 * d <= m /\ m < 4 * (d + 1)
      /\ q = d /\ part = 3 <=> m = 4 * d + 3
  BY ONLY <1>1, d \in Nat, q \in Nat, part \in 0 .. 3, m = 4 * q + part
<1> QED
  BY <1>1, <1>2 DEF Settled

\* Time passes forward, date by date.
LEMMA DatesAreOrdered ==
    ASSUME NEW m \in Nat, NEW n \in Nat, m <= n
    PROVE  DateOf(m) <= DateOf(n)
<1>1. DateOf(m) \in Nat /\ 4 * DateOf(m) <= m
  BY PartsOfMoment
<1>2. 4 * DateOf(m) <= n
  BY ONLY <1>1, m \in Nat, n \in Nat, m <= n
<1> QED
  BY <1>1, <1>2, DateStarts

\* Moments are numbers and fall on dates.
LEMMA MomentType ==
    /\ Date \subseteq Nat /\ 0 \in Date /\ Moment \subseteq Nat /\ 0 \in Moment
    /\ \A m \in Moment : DateOf(m) \in Date
<1>1. Date \subseteq Nat /\ 0 \in Date /\ Moment \subseteq Nat /\ 0 \in Moment
  BY DayType DEF Date, Moment
<1>2. ASSUME NEW m \in Moment
      PROVE  DateOf(m) \in Date
  <2>1. m \in Nat /\ m < 4 * Days
    BY DayType DEF Moment
  <2> QED
    BY <2>1, DayType, PartsOfMoment DEF Date
<1> QED
  BY <1>1, <1>2
-----------------------------------------------------------------------------
(* The quotes of a date *)

Quotes == [date : Nat, served : Nat]

Reading ==
    [step : {"idle", "first", "load", "primary", "fallback", "map", "date", "store",
             "returned", "unavailable", "failed"},
     date : Date, final : BOOLEAN, served : Nat, fallback : BOOLEAN,
     quotes : Quotes \cup {NoQuotes}, inner : Nat, outer : Nat]

UniverseTypeOK ==
    /\ present \in Moment
    /\ stored \in [Date -> Quotes \cup {NoQuotes}]
    /\ reading \in [Reader -> Reading]

\* A moment of the date whose cache entry a reading is for, or later; if the session was
\* over at the first reading of the clock, it was over at that moment.
Follows(state, moment) ==
    /\ 4 * state.date <= moment
    /\ state.final => 4 * state.date + Settled <= moment

Asking == {"load", "primary", "fallback", "map", "date", "store"}

\* The response is served after the first reading of the clock and dated by the second;
\* only the third, which finds the date of the first, shows that they agree.
ReadingInv(state) ==
    /\ state.step \in Asking => Follows(state, present)
    /\ state.step = "map" => state.served <= present /\ Follows(state, state.served)
    /\ state.step \in {"date", "store", "returned"} => state.quotes \in Quotes
    /\ state.step = "date" =>
          /\ Follows(state, state.quotes.served)
          /\ DateOf(state.quotes.served) <= state.quotes.date
          /\ state.quotes.date <= DateOf(present)
    /\ state.step = "store" =>
          /\ state.final /\ Follows(state, state.quotes.served)
          /\ DateOf(state.quotes.served) = state.date /\ state.quotes.date = state.date
    /\ state.step = "returned" => state.quotes.date = DateOf(state.quotes.served)

StoredInv ==
    \A d \in Date :
       stored[d] # NoQuotes => /\ stored[d].date = d /\ DateOf(stored[d].served) = d
                               /\ PartOf(stored[d].served) = Settled

QuotesInv == UniverseTypeOK /\ StoredInv /\ \A r \in Reader : ReadingInv(reading[r])

\* One reader's step leaves the other readings as they are.
LEMMA ReaderMoves ==
    ASSUME QuotesInv, UNCHANGED present, NEW r \in Reader, NEW state \in Reading,
           Become(r, state), ReadingInv(state),
           stored' \in [Date -> Quotes \cup {NoQuotes}], StoredInv'
    PROVE  QuotesInv'
<1>1. reading' \in [Reader -> Reading]
  BY DEF QuotesInv, UniverseTypeOK, Become
<1>2. ASSUME NEW q \in Reader
      PROVE  ReadingInv(reading[q])'
  BY DEF QuotesInv, UniverseTypeOK, Become, ReadingInv, Follows
<1> QED
  BY <1>1, <1>2 DEF QuotesInv, UniverseTypeOK

LEMMA ReaderMovesOnly ==
    ASSUME QuotesInv, UNCHANGED <<present, stored>>, NEW r \in Reader,
           NEW state \in Reading, Become(r, state), ReadingInv(state)
    PROVE  QuotesInv'
<1>1. stored' \in [Date -> Quotes \cup {NoQuotes}] /\ StoredInv'
  BY DEF QuotesInv, UniverseTypeOK, StoredInv
<1> QED
  BY <1>1, ReaderMoves

\* Each step of get_quotes() keeps the quotes dated as they were served.
LEMMA UniverseStep ==
    ASSUME QuotesInv, UniverseNext, UNCHANGED present
    PROVE  QuotesInv'
<1> PICK r \in Reader :
       \/ GetQuotes(r) \/ ReadDate(r) \/ LoadSnapshot(r) \/ LoadNothing(r)
       \/ AskPrimary(r) \/ AskFallback(r)
       \/ MapRecords(r) \/ RejectRecords(r) \/ ExpectedCodesOutage(r)
       \/ CheckDate(r) \/ StoreSnapshot(r)
       \/ RetryAll(r) \/ Leave(r)
  BY DEF UniverseNext
<1> DEFINE kept == UNCHANGED stored
<1>1. /\ reading[r] \in Reading /\ ReadingInv(reading[r])
      /\ stored \in [Date -> Quotes \cup {NoQuotes}] /\ StoredInv
      /\ present \in Nat /\ DateOf(present) \in Date /\ Date \subseteq Nat
  BY MomentType DEF QuotesInv, UniverseTypeOK
<1>2. Idle \in Reading /\ ReadingInv(Idle)
  BY MomentType DEF Idle, Reading, ReadingInv, Asking
<1>3. ASSUME kept, NEW state \in Reading, Become(r, state), ReadingInv(state)
      PROVE  QuotesInv'
  BY <1>3, ReaderMovesOnly
<1>4. ASSUME kept, RaiseUnavailable(r) \/ DataError(r)
      PROVE  QuotesInv'
  <2>1. [Idle EXCEPT !.step = "failed"] \in Reading
        /\ ReadingInv([Idle EXCEPT !.step = "failed"])
    BY MomentType DEF Idle, Reading, ReadingInv, Asking
  <2>2. [Idle EXCEPT !.step = "unavailable", !.outer = reading[r].outer] \in Reading
        /\ ReadingInv([Idle EXCEPT !.step = "unavailable", !.outer = reading[r].outer])
    BY <1>1, MomentType DEF Idle, Reading, ReadingInv, Asking
  <2> QED
    BY <1>3, <1>4, <2>1, <2>2 DEF RaiseUnavailable, DataError
<1>5. ASSUME NEW found \in Quotes
      PROVE  [Idle EXCEPT !.step = "returned", !.quotes = found] \in Reading
  BY MomentType DEF Idle, Reading
<1>6. ASSUME NEW found \in Quotes, found.date = DateOf(found.served)
      PROVE  ReadingInv([Idle EXCEPT !.step = "returned", !.quotes = found])
  BY <1>6 DEF Idle, ReadingInv, Asking
<1>7. ASSUME kept, TransientOutage(r), reading[r].step \in Asking
      PROVE  QuotesInv'
  <2> DEFINE state == [reading[r] EXCEPT !.step = "primary", !.inner = @ + 1, !.served = 0,
                                         !.fallback = FALSE]
  <2>1. reading[r].inner + 1 \in Nat
    BY <1>1 DEF Reading
  <2>2. state \in Reading
    BY <1>1, <2>1, 0 \in Nat DEF Reading
  <2>3. ReadingInv(state)
    <3>1. state.step = "primary" /\ state.date = reading[r].date /\ state.final = reading[r].final
      BY <1>1 DEF Reading
    <3>2. Follows(state, present)
      BY <1>1, <1>7, <3>1 DEF ReadingInv, Follows
    <3> QED
      BY <3>1, <3>2 DEF ReadingInv
  <2> QED
    BY <1>3, <1>4, <1>7, <2>2, <2>3 DEF TransientOutage
<1>8. ASSUME kept, NEW fallback \in BOOLEAN, Respond(r, fallback), reading[r].step \in Asking
      PROVE  QuotesInv'
  <2> DEFINE state == [reading[r] EXCEPT !.step = "map", !.served = present,
                                         !.fallback = fallback]
  <2>1. state \in Reading
    BY <1>1 DEF Reading
  <2>2. /\ state.step = "map" /\ state.date = reading[r].date /\ state.final = reading[r].final
        /\ state.served = present
    BY <1>1 DEF Reading
  <2>3. Follows(state, present)
    BY <1>1, <1>8, <2>2 DEF ReadingInv, Follows
  <2>4. ReadingInv(state)
    BY <1>1, <2>2, <2>3 DEF ReadingInv
  <2> QED
    BY <1>3, <1>8, <2>1, <2>4 DEF Respond
<1>9. CASE GetQuotes(r)
  <2>1. [reading[r] EXCEPT !.step = "first"] \in Reading
        /\ ReadingInv([reading[r] EXCEPT !.step = "first"])
    BY <1>1 DEF Reading, ReadingInv, Asking
  <2> QED
    BY <1>3, <1>9, <2>1 DEF GetQuotes, Turn
<1>10. CASE ReadDate(r)
  <2> DEFINE over == SessionOver(PartOf(present))
             state == [reading[r] EXCEPT !.date = DateOf(present), !.final = over,
                                         !.step = IF over THEN "load" ELSE "primary"]
  <2>1. over \in BOOLEAN
        /\ 4 * DateOf(present) <= present
        /\ (over => 4 * DateOf(present) + Settled <= present)
    <3>1. PICK q \in Nat, part \in 0 .. 3 :
             DateOf(present) = q /\ PartOf(present) = part /\ present = 4 * q + part
      BY <1>1, PartsOfMoment
    <3>2. 4 * q <= present /\ (part >= 3 => 4 * q + 3 <= present)
      <4>1. present = 4 * q + part
        BY <3>1
      <4> QED
        BY ONLY <4>1, q \in Nat, part \in 0 .. 3
    <3> QED
      BY <3>1, <3>2 DEF SessionOver, Settled
  <2>2. state \in Reading /\ ReadingInv(state)
    BY <1>1, <2>1 DEF Reading, ReadingInv, Asking, Follows
  <2> QED
    BY <1>3, <1>10, <2>2 DEF ReadDate
<1>11. CASE LoadSnapshot(r)
  <2>1. stored[reading[r].date] \in Quotes
        /\ stored[reading[r].date].date = DateOf(stored[reading[r].date].served)
    BY <1>1, <1>11 DEF LoadSnapshot, Reading, StoredInv
  <2> QED
    BY <1>3, <1>4, <1>5, <1>6, <1>11, <2>1 DEF LoadSnapshot, ReturnQuotes
<1>12. CASE LoadNothing(r)
  <2> DEFINE state == [reading[r] EXCEPT !.step = "primary"]
  <2>1. state \in Reading /\ ReadingInv(state)
    BY <1>1, <1>12 DEF Reading, ReadingInv, Asking, Follows, LoadNothing
  <2>2. stored' \in [Date -> Quotes \cup {NoQuotes}] /\ StoredInv'
    BY <1>1, <1>12 DEF LoadNothing, StoredInv
  <2> QED
    BY <1>12, <2>1, <2>2, ReaderMoves DEF LoadNothing, Turn
<1>13. CASE AskPrimary(r)
  <2>1. [reading[r] EXCEPT !.step = "fallback"] \in Reading
        /\ ReadingInv([reading[r] EXCEPT !.step = "fallback"])
    BY <1>1, <1>13 DEF Reading, ReadingInv, Asking, Follows, AskPrimary
  <2> QED
    BY <1>3, <1>4, <1>8, <1>13, <2>1 DEF AskPrimary, Asking, Turn
<1>14. CASE AskFallback(r)
  BY <1>4, <1>7, <1>8, <1>14 DEF AskFallback, Asking
<1>15. CASE MapRecords(r)
  <2> DEFINE found == [date |-> DateOf(present), served |-> reading[r].served]
             state == [reading[r] EXCEPT !.step = "date", !.served = 0, !.fallback = FALSE,
                                         !.quotes = found]
  <2>1. reading[r].served \in Nat /\ DateOf(reading[r].served) <= DateOf(present)
        /\ Follows(reading[r], reading[r].served)
    BY <1>1, <1>15, DatesAreOrdered DEF MapRecords, Reading, ReadingInv
  <2>2. found \in Quotes
    BY <1>1, <2>1 DEF Quotes
  <2>3. state \in Reading
    BY <1>1, <2>2 DEF Reading
  <2>4. ReadingInv(state)
    BY <1>1, <1>15, <2>1, <2>2 DEF MapRecords, Reading, ReadingInv, Asking, Follows
  <2> QED
    BY <1>3, <1>15, <2>3, <2>4 DEF MapRecords
<1>16. CASE RejectRecords(r)
  BY <1>4, <1>7, <1>16 DEF RejectRecords, Asking
<1>17. CASE ExpectedCodesOutage(r)
  BY <1>7, <1>17 DEF ExpectedCodesOutage, Asking
<1>18. CASE CheckDate(r)
  <2> DEFINE found == reading[r].quotes
             state == [reading[r] EXCEPT !.step = "store"]
  <2>1. /\ found \in Quotes /\ Follows(reading[r], found.served)
        /\ DateOf(found.served) <= found.date /\ found.date <= DateOf(present)
        /\ found.date \in Nat /\ DateOf(found.served) \in Nat /\ reading[r].date \in Nat
        /\ reading[r].date <= DateOf(found.served)
    BY <1>1, <1>18, DateStarts, PartsOfMoment
       DEF CheckDate, ReadingInv, Quotes, Reading, Follows
  <2>2. ASSUME DateUnchanged(r)
        PROVE  DateOf(found.served) = reading[r].date /\ found.date = reading[r].date
    BY <1>1, <2>1, <2>2 DEF DateUnchanged
  <2>3. ASSUME DateUnchanged(r), reading[r].final
        PROVE  state \in Reading /\ ReadingInv(state)
    BY <1>1, <1>18, <2>1, <2>2, <2>3 DEF CheckDate, Reading, ReadingInv, Asking, Follows
  <2> QED
    BY <1>3, <1>4, <1>5, <1>6, <1>18, <2>1, <2>2, <2>3 DEF CheckDate, Turn, ReturnQuotes
<1>19. CASE StoreSnapshot(r)
  <2> DEFINE found == reading[r].quotes
  <2>1. /\ found \in Quotes /\ found.served \in Nat /\ reading[r].date \in Date
        /\ found.date = reading[r].date /\ DateOf(found.served) = reading[r].date
        /\ 4 * reading[r].date + Settled <= found.served
    BY <1>1, <1>19 DEF StoreSnapshot, ReadingInv, Quotes, Reading, Follows
  <2>2. PartOf(found.served) = Settled
    <3>1. PICK q \in Nat, part \in 0 .. 3 : /\ DateOf(found.served) = q
                                            /\ PartOf(found.served) = part
                                            /\ found.served = 4 * q + part
      BY <2>1, PartsOfMoment
    <3>2. 4 * q + 3 <= 4 * q + part
      BY <2>1, <3>1 DEF Settled
    <3>3. part = 3
      BY ONLY <3>2, q \in Nat, part \in 0 .. 3
    <3> QED
      BY <3>1, <3>3 DEF Settled
  <2>3. stored' \in [Date -> Quotes \cup {NoQuotes}] /\ StoredInv'
    BY <1>1, <1>19, <2>1, <2>2 DEF StoreSnapshot, StoredInv
  <2> QED
    BY <1>5, <1>6, <1>19, <2>1, <2>3, ReaderMoves DEF StoreSnapshot, ReturnQuotes
<1>20. CASE RetryAll(r)
  <2> DEFINE state == [Idle EXCEPT !.step = "first", !.outer = reading[r].outer + 1]
  <2>1. reading[r].outer + 1 \in Nat
    BY <1>1 DEF Reading
  <2>2. state \in Reading /\ ReadingInv(state)
    BY <2>1, MomentType DEF Idle, Reading, ReadingInv, Asking
  <2> QED
    BY <1>3, <1>20, <2>2 DEF RetryAll
<1>21. CASE Leave(r)
  BY <1>2, <1>3, <1>21 DEF Leave
<1> QED
  BY <1>9, <1>10, <1>11, <1>12, <1>13, <1>14, <1>15, <1>16, <1>17, <1>18, <1>19, <1>20, <1>21

\* Time only passes: what followed a moment follows a later one.
LEMMA TickKeepsQuotes ==
    ASSUME QuotesInv, Tick, UNCHANGED universeVars
    PROVE  QuotesInv'
<1>1. present \in Nat /\ present' = present + 1 /\ present' \in Moment
      /\ DateOf(present) <= DateOf(present') /\ DateOf(present) \in Nat /\ DateOf(present') \in Nat
  BY MomentType, DatesAreOrdered, PartsOfMoment DEF QuotesInv, UniverseTypeOK, Tick
<1>2. UniverseTypeOK' /\ StoredInv'
  BY <1>1 DEF QuotesInv, UniverseTypeOK, StoredInv, universeVars
<1>3. ASSUME NEW r \in Reader
      PROVE  ReadingInv(reading[r])'
  <2>1. /\ reading'[r] = reading[r] /\ ReadingInv(reading[r]) /\ reading[r].date \in Nat
        /\ reading[r].served \in Nat
        /\ (reading[r].step = "date" => reading[r].quotes.date \in Nat)
    BY MomentType DEF QuotesInv, UniverseTypeOK, universeVars, Reading, ReadingInv, Quotes
  <2> QED
    BY <1>1, <2>1 DEF ReadingInv, Follows, Settled
<1> QED
  BY <1>2, <1>3 DEF QuotesInv

\* The inductive invariant of the quotes: where each reading stands to the moments and
\* dates that it has seen, and what is kept of each date.
THEOREM QuotesInvariance == SnapshotsSpec => []QuotesInv
<1>1. SnapshotsInit => QuotesInv
  <2> SUFFICES ASSUME SnapshotsInit
               PROVE  QuotesInv
    OBVIOUS
  <2>1. Idle \in Reading /\ ReadingInv(Idle)
    BY MomentType DEF Idle, Reading, ReadingInv, Asking
  <2> QED
    BY <2>1, MomentType DEF SnapshotsInit, UniverseInit, QuotesInv, UniverseTypeOK, StoredInv
<1>2. QuotesInv /\ [SnapshotsNext]_snapshotVars => QuotesInv'
  <2> SUFFICES ASSUME QuotesInv, [SnapshotsNext]_snapshotVars
               PROVE  QuotesInv'
    OBVIOUS
  <2>1. CASE UNCHANGED <<present, universeVars>>
    BY <2>1 DEF QuotesInv, UniverseTypeOK, StoredInv, ReadingInv, Follows, universeVars
  <2>2. CASE UniverseNext /\ UNCHANGED present
    BY <2>2, UniverseStep
  <2>3. CASE Tick /\ UNCHANGED universeVars
    BY <2>3, TickKeepsQuotes
  <2> QED
    BY <2>1, <2>2, <2>3 DEF SnapshotsNext, snapshotVars
<1> QED
  BY <1>1, <1>2, PTL DEF SnapshotsSpec

\* Quotes are returned under the date on which they were served, and those that are kept
\* were served after the session of that date.
THEOREM QuotesAreDated == SnapshotsSpec => []QuotesAreOfTheirDate
<1>1. QuotesInv => QuotesAreOfTheirDate
  BY DEF QuotesInv, ReadingInv, StoredInv, QuotesAreOfTheirDate
<1> QED
  BY <1>1, QuotesInvariance, PTL
-----------------------------------------------------------------------------
(* The snapshots of the ETFs *)

Snapshot == [date : Date, generated : Nat, stamps : Seq(Nat), by : Collector]

EtfTypeOK ==
    /\ present \in Moment
    /\ snapshots \in [Date -> Snapshot \cup {NoSnapshot}]
    /\ step \in [Collector ->
                   {"idle", "look", "clock", "quotes", "save", "done", "refused"}]
    /\ target \in [Collector -> Date]
    /\ stamps \in [Collector -> Seq(Nat)]
    /\ capture \in [Collector -> Snapshot \cup {NoSnapshot}]
    /\ DOMAIN trackers = Date

\* What is about to be saved was captured on its date, after the close, and it is not yet
\* the time of the next date's capture.
SavingInv(p) ==
    step[p] = "save" =>
       /\ capture[p] \in Snapshot /\ capture[p].date = target[p]
       /\ 4 * target[p] + Capture <= present /\ present < 4 * (target[p] + 1) + Capture

\* A date with a snapshot is at its capture or later.
CapturedInv(d) == snapshots[d] # NoSnapshot => 4 * d + Capture <= present

\* A report that found its snapshot says what a report made now would say.
ReportInv(d) ==
    trackers[d] # NoSnapshot => snapshots[d] # NoSnapshot /\ trackers[d] = History(d)

TrackersInv ==
    /\ EtfTypeOK
    /\ \A p \in Collector : SavingInv(p)
    /\ \A d \in Date : CapturedInv(d) /\ ReportInv(d)

\* A report depends on the snapshots of its date and of those before it only.
LEMMA HistoryIsOfThePast ==
    ASSUME NEW d \in Date,
           \A e \in Date : e <= d => snapshots'[e] = snapshots[e]
    PROVE  History(d)' = History(d)
<1>1. \A e \in Date : e \in Nat
  BY MomentType
<1>2. EarlierDates(d)' = EarlierDates(d)
  BY <1>1 DEF EarlierDates
<1>3. Recent(EarlierDates(d))' = Recent(EarlierDates(d))
  BY <1>2 DEF Recent
<1>4. \A e \in Recent(EarlierDates(d)) \cup {d} : snapshots'[e] = snapshots[e]
  BY <1>1 DEF Recent, EarlierDates
<1> QED
  BY <1>3, <1>4 DEF History

\* A step that touches neither the snapshots nor the reports disturbs only what is about
\* to be saved.
LEMMA CollectorMoves ==
    ASSUME TrackersInv, UNCHANGED <<present, snapshots, trackers>>, EtfTypeOK',
           \A p \in Collector : SavingInv(p)'
    PROVE  TrackersInv'
<1>1. ASSUME NEW d \in Date
      PROVE  CapturedInv(d)' /\ ReportInv(d)'
  <2>1. History(d)' = History(d)
    BY HistoryIsOfThePast
  <2> QED
    BY <2>1 DEF TrackersInv, CapturedInv, ReportInv
<1> QED
  BY <1>1 DEF TrackersInv

\* Each step of collect_tracker() and each report keep what the reports have said.
LEMMA EtfStep ==
    ASSUME TrackersInv, EtfNext, UNCHANGED present
    PROVE  TrackersInv'
<1> USE DEF EtfTypeOK, SavingInv, Proceed
<1>1. /\ EtfTypeOK /\ present \in Nat /\ Date \subseteq Nat /\ 0 \in Date
      /\ \A p \in Collector : SavingInv(p)
      /\ \A d \in Date : CapturedInv(d) /\ ReportInv(d)
  BY MomentType DEF TrackersInv
<1>2. ASSUME NEW p \in Collector, NEW d \in Date, Collect(p, d)
      PROVE  TrackersInv'
  BY <1>1, <1>2, CollectorMoves DEF Collect
<1>3. ASSUME NEW p \in Collector, LookForSnapshot(p) \/ CheckClock(p) \/ FetchError(p)
      PROVE  TrackersInv'
  BY <1>1, <1>3, CollectorMoves DEF LookForSnapshot, CheckClock, FetchError
<1>4. ASSUME NEW p \in Collector, FetchBatch(p)
      PROVE  TrackersInv'
  <2>1. PICK lag \in {0, 4} :
           /\ present >= lag
           /\ stamps' = [stamps EXCEPT ![p] = Append(@, LastTrade(present - lag))]
    BY <1>4 DEF FetchBatch
  <2>2. LastTrade(present - lag) \in Nat
    <3>1. present - lag \in Nat
      BY <1>1, <2>1
    <3> QED
      BY <3>1, PartsOfMoment DEF LastTrade, Closed
  <2>3. Append(stamps[p], LastTrade(present - lag)) \in Seq(Nat)
    BY <1>1, <2>2, AppendProperties
  <2> QED
    BY <1>1, <1>4, <2>1, <2>3, CollectorMoves DEF FetchBatch
<1>5. ASSUME NEW p \in Collector, Assemble(p)
      PROVE  TrackersInv'
  <2> DEFINE taken == [date |-> target[p], generated |-> present, stamps |-> stamps[p],
                       by |-> p]
  <2>1. taken \in Snapshot /\ taken.date = target[p] /\ taken.generated = present
    BY <1>1 DEF Snapshot
  <2> HIDE DEF taken
  <2>2. CASE Valid(taken)
    <3>1. capture' = [capture EXCEPT ![p] = taken] /\ step' = [step EXCEPT ![p] = "save"]
          /\ UNCHANGED <<snapshots, target, stamps, trackers>>
      BY <1>5, <2>2 DEF Assemble, taken
    <3>2. 4 * target[p] + Capture <= present /\ present < 4 * (target[p] + 1) + Capture
      <4>1. PICK q \in Nat, part \in 0 .. 3 :
               DateOf(present) = q /\ PartOf(present) = part /\ present = 4 * q + part
        BY <1>1, PartsOfMoment
      <4>2. q = target[p] /\ part >= 2
        BY <2>1, <2>2, <4>1 DEF Valid, Capture
      <4>3. 4 * q + 2 <= present /\ present < 4 * (q + 1) + 2
        <5>1. present = 4 * q + part
          BY <4>1
        <5> QED
          BY ONLY <5>1, <4>2, q \in Nat, part \in 0 .. 3
      <4> QED
        BY <4>2, <4>3 DEF Capture
    <3>3. EtfTypeOK' /\ \A q \in Collector : SavingInv(q)'
      BY <1>1, <2>1, <3>1, <3>2
    <3> QED
      BY <3>1, <3>3, CollectorMoves
  <2>3. CASE ~Valid(taken)
    <3>1. step' = [step EXCEPT ![p] = "refused"]
          /\ UNCHANGED <<snapshots, target, stamps, capture, trackers>>
      BY <1>5, <2>3 DEF Assemble, taken
    <3> QED
      BY <1>1, <3>1, CollectorMoves
  <2> QED
    BY <2>2, <2>3
<1>6. ASSUME NEW p \in Collector, Save(p)
      PROVE  TrackersInv'
  <2>1. CASE UNCHANGED snapshots
    BY <1>1, <1>6, <2>1, CollectorMoves DEF Save
  <2>2. CASE snapshots[target[p]] = NoSnapshot
             /\ snapshots' = [snapshots EXCEPT ![target[p]] = capture[p]]
    <3>1. EtfTypeOK' /\ \A q \in Collector : SavingInv(q)'
      BY <1>1, <1>6, <2>2 DEF Save
    <3>2. target[p] \in Date /\ 4 * target[p] + Capture <= present
          /\ present < 4 * (target[p] + 1) + Capture
      BY <1>1, <1>6 DEF Save
    <3>3. ASSUME NEW d \in Date
          PROVE  CapturedInv(d)'
      BY <1>1, <1>6, <2>2, <3>2, <3>3 DEF CapturedInv, Save
    <3>4. ASSUME NEW d \in Date, trackers'[d] # NoSnapshot
          PROVE  snapshots'[d] # NoSnapshot /\ trackers'[d] = History(d)'
      <4>1. trackers' = trackers /\ snapshots[d] # NoSnapshot /\ trackers[d] = History(d)
            /\ 4 * d + Capture <= present
        BY <1>1, <1>6, <3>4 DEF Save, ReportInv, CapturedInv
      <4>2. d # target[p]
        BY <2>2, <4>1
      <4>3. d < target[p]
        <5>1. d \in Nat /\ target[p] \in Nat
          BY <1>1, <3>2
        <5>2. 4 * d + 2 < 4 * (target[p] + 1) + 2
          BY <1>1, <3>2, <4>1, <5>1 DEF Capture
        <5> QED
          BY ONLY <4>2, <5>1, <5>2
      <4>4. \A e \in Date : e <= d => snapshots'[e] = snapshots[e]
        BY <1>1, <2>2, <3>2, <4>3
      <4> QED
        <5>1. History(d)' = History(d)
          BY <4>4, HistoryIsOfThePast
        <5>2. snapshots'[d] = snapshots[d]
          BY <1>1, <4>4
        <5> QED
          BY <4>1, <5>1, <5>2
    <3> QED
      BY <3>1, <3>3, <3>4 DEF TrackersInv, ReportInv
  <2> QED
    BY <1>6, <2>1, <2>2 DEF Save
<1>7. ASSUME NEW p \in Collector, Over(p)
      PROVE  TrackersInv'
  BY <1>1, <1>7, CollectorMoves, EmptySeq DEF Over
<1>8. ASSUME NEW d \in Date, Report(d)
      PROVE  TrackersInv'
  <2>1. EtfTypeOK' /\ \A q \in Collector : SavingInv(q)'
    BY <1>1, <1>8 DEF Report
  <2>2. ASSUME NEW e \in Date
        PROVE  CapturedInv(e)' /\ ReportInv(e)'
    <3>1. History(e)' = History(e)
      BY <1>8, HistoryIsOfThePast DEF Report
    <3> QED
      BY <1>1, <1>8, <3>1 DEF Report, CapturedInv, ReportInv
  <2> QED
    BY <2>1, <2>2 DEF TrackersInv
<1> QED
  BY <1>2, <1>3, <1>4, <1>5, <1>6, <1>7, <1>8 DEF EtfNext

\* Time passes, and no collection is left over when the next date may be captured.
LEMMA TickKeepsTrackers ==
    ASSUME TrackersInv, Tick, NoOldCollection, UNCHANGED etfVars
    PROVE  TrackersInv'
<1>1. /\ EtfTypeOK /\ present \in Nat /\ Date \subseteq Nat
      /\ \A p \in Collector : SavingInv(p)
      /\ \A d \in Date : CapturedInv(d) /\ ReportInv(d)
      /\ present' = present + 1 /\ present' \in Moment
  BY MomentType DEF TrackersInv, EtfTypeOK, Tick
<1>2. EtfTypeOK'
  BY <1>1 DEF EtfTypeOK, etfVars
<1>3. ASSUME NEW p \in Collector
      PROVE  SavingInv(p)'
  <2> SUFFICES ASSUME step[p] = "save"
               PROVE  4 * target[p] + Capture <= present + 1
                      /\ present + 1 < 4 * (target[p] + 1) + Capture
    BY <1>1 DEF SavingInv, etfVars
  <2>1. /\ target[p] \in Nat /\ capture[p].date = target[p]
        /\ 4 * target[p] + 2 <= present /\ present < 4 * (target[p] + 1) + 2
    BY <1>1 DEF EtfTypeOK, SavingInv, Capture
  <2>2. PICK q \in Nat, part \in 0 .. 3 :
           DateOf(present + 1) = q /\ PartOf(present + 1) = part /\ present + 1 = 4 * q + part
    <3>1. present + 1 \in Nat
      BY <1>1
    <3> QED
      BY <3>1, PartsOfMoment
  <2>3. q = target[p] \/ part < 2
    BY <2>1, <2>2 DEF NoOldCollection, Capture
  <2>4. present + 1 < 4 * (target[p] + 1) + 2
    <3>1. PICK d \in Nat : d = target[p]
      BY <2>1
    <3>2. present < 4 * (d + 1) + 2 /\ present + 1 = 4 * q + part /\ (q = d \/ part < 2)
      BY <2>1, <2>2, <2>3, <3>1
    <3>3. present \in Nat
      BY <1>1
    <3>4. present + 1 < 4 * (d + 1) + 2
      BY ONLY <3>2, <3>3, d \in Nat, q \in Nat, part \in 0 .. 3
    <3> QED
      BY <3>1, <3>4
  <2> QED
    BY <1>1, <2>1, <2>4 DEF Capture
<1>4. ASSUME NEW d \in Date
      PROVE  CapturedInv(d)' /\ ReportInv(d)'
  <2>1. History(d)' = History(d)
    BY HistoryIsOfThePast DEF etfVars
  <2> QED
    BY <1>1, <2>1 DEF CapturedInv, ReportInv, etfVars, Capture
<1> QED
  BY <1>2, <1>3, <1>4 DEF TrackersInv

\* The inductive invariant of the trackers: what is about to be saved, the snapshots of
\* the dates so far, and the reports, each of which a new one would repeat.
THEOREM TrackersInvariance == SnapshotsSpec => []TrackersInv
<1>1. SnapshotsInit => TrackersInv
  BY MomentType, EmptySeq
     DEF SnapshotsInit, EtfInit, TrackersInv, EtfTypeOK, SavingInv, CapturedInv, ReportInv
<1>2. TrackersInv /\ [SnapshotsNext]_snapshotVars => TrackersInv'
  <2> SUFFICES ASSUME TrackersInv, [SnapshotsNext]_snapshotVars
               PROVE  TrackersInv'
    OBVIOUS
  <2>1. CASE UNCHANGED <<present, etfVars>>
    <3>1. EtfTypeOK' /\ \A p \in Collector : SavingInv(p)'
      BY <2>1 DEF TrackersInv, EtfTypeOK, SavingInv, etfVars
    <3> QED
      BY <2>1, <3>1, CollectorMoves DEF etfVars
  <2>2. CASE EtfNext /\ UNCHANGED present
    BY <2>2, EtfStep
  <2>3. CASE Tick /\ NoOldCollection /\ UNCHANGED etfVars
    BY <2>3, TickKeepsTrackers
  <2> QED
    BY <2>1, <2>2, <2>3 DEF SnapshotsNext, snapshotVars
<1> QED
  BY <1>1, <1>2, PTL DEF SnapshotsSpec

\* Whatever a report has said of the ETFs of its date, every later one says again.
THEOREM ReportsAgree == SnapshotsSpec => TrackerStands
<1>1. TrackersInv /\ [SnapshotsNext]_snapshotVars
        => [\A d \in Date : trackers[d] # NoSnapshot => trackers'[d] = trackers[d]]_snapshotVars
  <2> SUFFICES ASSUME TrackersInv, SnapshotsNext, NEW d \in Date, trackers[d] # NoSnapshot
               PROVE  trackers'[d] = trackers[d]
    OBVIOUS
  <2>1. snapshots[d] # NoSnapshot /\ trackers[d] = History(d) /\ DOMAIN trackers = Date
    BY DEF TrackersInv, ReportInv, EtfTypeOK
  <2>2. CASE UNCHANGED trackers
    BY <2>2
  <2>3. CASE \E e \in Date : Report(e)
    <3> PICK e \in Date : Report(e)
      BY <2>3
    <3>1. trackers' = [trackers EXCEPT ![e] =
                         IF snapshots[e] = NoSnapshot THEN NoSnapshot ELSE History(e)]
      BY DEF Report
    <3> QED
      BY <2>1, <3>1
  <2> QED
    BY <2>2, <2>3 DEF SnapshotsNext, EtfNext, etfVars, Collect, LookForSnapshot, CheckClock,
                      FetchBatch, FetchError, Assemble, Save, Over
<1> QED
  BY <1>1, TrackersInvariance, PTL DEF SnapshotsSpec, TrackerStands
=============================================================================
