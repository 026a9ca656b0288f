------------------------------ MODULE Backtest ------------------------------
(***************************************************************************)
(* backtest/execution.py and evaluate.py: the trades that follow from the  *)
(* signals of a replay, evaluated anew as the history of bars grows.  A    *)
(* step is one more bar, with what the replay shows on its date.  What a   *)
(* replay may show of a signal (Replay: ConfirmedStays, TradableWhenSeen)  *)
(* is the environment here.  Prices are in ticks; returns are left out.    *)
(***************************************************************************)
EXTENDS Integers, Sequences, FiniteSets, SequencesExt

CONSTANTS
    Signal,         \* identities of signals, ordered
    DailyBar,       \* [open, high, low, close, volume]
    HoldingDays,
    LimitPercent,   \* price_limit_pct
    OutOfSample,    \* out_of_sample_start
    Days            \* bound: length of the history

ASSUME BacktestType ==
    /\ Signal \subseteq Nat /\ IsFiniteSet(Signal) /\ HoldingDays \in Nat \ {0}
    /\ LimitPercent \in 1 .. 99 /\ OutOfSample \in Nat /\ Days \in Nat
    /\ DailyBar \subseteq [open : Nat, high : Nat, low : Nat, close : Nat, volume : Nat]

VARIABLES
    dailyBars,  \* the history so far; a date is a position in it
    shown,      \* per signal, what the replay shows of it today
    confirmed,  \* the signals kept for evaluation, with the event kept of each
    trades      \* the evaluation of this history

backtestVars == <<dailyBars, shown, confirmed, trades>>

NoDate == 0
Today == Len(dailyBars)
----------------------------------------------------------------------------
(* What a replay shows *)

Stage == {"unseen", "candidate", "confirmed", "tradable", "gone"}

\* A candidate is confirmed by the next bar or dropped; what is confirmed is tradable on
\* the bar after that, unless the area it left has changed; what is gone stays gone.
Follows(stage) ==
    CASE stage = "unseen" -> {"unseen", "candidate", "confirmed"}
      [] stage = "candidate" -> {"confirmed", "gone"}
      [] stage \in {"confirmed", "tradable"} -> {"tradable", "gone"}
      [] stage = "gone" -> {"gone"}

ShowNext(signal, stage) ==
    [stage |-> stage,
     tradable |-> IF stage = "tradable" /\ shown[signal].tradable = NoDate THEN Today + 1
                  ELSE shown[signal].tradable]
----------------------------------------------------------------------------
(* Executing a signal *)

IsSuspended(bar) == bar.volume = 0

\* Half up, to whole ticks.
RoundedLimit(hundredths) == (hundredths + 50) \div 100

IsFlat(bar) == bar.high = bar.open /\ bar.low = bar.open

IsLimitUp(bar, previous) ==
    bar.open >= RoundedLimit(previous.close * (100 + LimitPercent)) /\ IsFlat(bar)

IsLimitDown(bar, previous) ==
    bar.open <= RoundedLimit(previous.close * (100 - LimitPercent)) /\ IsFlat(bar)

Later(x, y) == IF x >= y THEN x ELSE y

\* The dates on which a signal may be acted on, after it was seen to be tradable.
EntryDates(event, history) ==
    IF event.tradable = NoDate THEN {}
    ELSE {d \in Later(event.tradable, event.observed) + 1 .. Len(history) :
            ~IsSuspended(history[d]) /\ ~IsLimitUp(history[d], history[d - 1])}

\* Mutant: a signal may be acted on at the open of the date on which it is seen.
EntryDatesSameDay(event, history) ==
    IF event.tradable = NoDate THEN {}
    ELSE {d \in Later(event.tradable, event.observed) .. Len(history) :
            d > 1 /\ ~IsSuspended(history[d]) /\ ~IsLimitUp(history[d], history[d - 1])}

ExecuteSignal(event, history) == EntryDates(event, history)

ExitDates(entry, history) ==
    {d \in entry + HoldingDays .. Len(history) :
        ~IsSuspended(history[d]) /\ ~IsLimitDown(history[d], history[d - 1])}
----------------------------------------------------------------------------
(* Evaluating the signals of a history *)

\* Mutant: the latest event of a signal.
LatestEvent(kept, signal, event) == event

\* The first confirmed event of a signal, and the first tradable one in its place.
Deduplicated(kept, signal, event) ==
    IF \/ signal \notin DOMAIN kept
       \/ kept[signal].tradable = NoDate /\ event.tradable # NoDate
    THEN event ELSE kept[signal]

\* The order in which evaluate_signals goes through the events it has kept.
Before(kept, s, t) ==
    LET Key(u) == <<IF kept[u].tradable # NoDate THEN kept[u].tradable ELSE kept[u].observed,
                    kept[u].observed, u>>
        Differs(i) == Key(s)[i] # Key(t)[i]
    IN  \E i \in 1 .. 3 : Key(s)[i] < Key(t)[i] /\ ~\E j \in 1 .. i - 1 : Differs(j)

\* All events that have been kept, in any order.
OrdersOf(kept) ==
    {order \in [1 .. Cardinality(DOMAIN kept) -> DOMAIN kept] :
       {order[i] : i \in DOMAIN order} = DOMAIN kept}

\* Mutant: in the order of their identities.
OrderedByIdentity(kept) ==
    CHOOSE order \in OrdersOf(kept) :
       \A i, j \in DOMAIN order : i < j => order[i] < order[j]

InOrder(kept) ==
    CHOOSE order \in OrdersOf(kept) :
       \A i, j \in DOMAIN order : i < j => Before(kept, order[i], order[j])

\* A trade that cannot be closed yet is no trade, and a position excludes others until
\* the date it is closed on.
Consider(found, signal, event, history) ==
    LET entries == ExecuteSignal(event, history)
        entry == Min(entries)
        exits == ExitDates(entry, history)
    IN  IF \/ entries = {}
           \/ entry <= found.occupied
           \/ entry < OutOfSample
           \/ exits = {}
        THEN found
        ELSE [occupied |-> Min(exits),
              trades |-> Append(found.trades,
                                [signal |-> signal, entry |-> entry, exit |-> Min(exits)])]

\* The first n events have been considered.
Considered(kept, history) ==
    LET order == InOrder(kept)
        considered[n \in 0 .. Cardinality(DOMAIN kept)] ==
            IF n = 0 THEN [occupied |-> NoDate, trades |-> <<>>]
            ELSE Consider(considered[n - 1], order[n], kept[order[n]], history)
    IN  considered

EvaluateSignals(kept, history) ==
    Considered(kept, history)[Cardinality(DOMAIN kept)].trades
----------------------------------------------------------------------------
SeenEvent(signal, next) == [observed |-> Today + 1, tradable |-> next[signal].tradable]

\* The next bar, what the replay shows on its date, and the evaluation of all of it.
NextBar(bar, stage) ==
    /\ Today < Days
    /\ dailyBars' = Append(dailyBars, bar)
    /\ shown' = [s \in Signal |-> ShowNext(s, stage[s])]
    /\ LET visible == {s \in Signal : stage[s] \in {"confirmed", "tradable"}}
       IN  confirmed' = [s \in DOMAIN confirmed \cup visible |->
                           IF s \in visible THEN Deduplicated(confirmed, s, SeenEvent(s, shown'))
                           ELSE confirmed[s]]
    /\ trades' = EvaluateSignals(confirmed', dailyBars')

BacktestInit ==
    /\ dailyBars = <<>>
    /\ shown = [s \in Signal |-> [stage |-> "unseen", tradable |-> NoDate]]
    /\ confirmed = <<>>
    /\ trades = <<>>

BacktestNext ==
    \E bar \in DailyBar, stage \in [Signal -> Stage] :
       /\ \A s \in Signal : stage[s] \in Follows(shown[s].stage)
       /\ NextBar(bar, stage)

BacktestSpec == BacktestInit /\ [][BacktestNext]_backtestVars
----------------------------------------------------------------------------
\* One position at a time, one trade per signal, opened after the date on which the
\* signal was first shown as tradable, and closed when a seller could sell
\* (occupied_until and earliest_entry).
OnePositionAtATime ==
    /\ \A i \in DOMAIN trades :
          /\ trades[i].entry > shown[trades[i].signal].tradable
          /\ shown[trades[i].signal].tradable # NoDate
          /\ trades[i].exit >= trades[i].entry + HoldingDays
          /\ trades[i].entry >= OutOfSample
    /\ \A i, j \in DOMAIN trades :
          i < j => /\ trades[i].exit < trades[j].entry
                   /\ trades[i].signal # trades[j].signal

\* A signal that could be bought and sold again is left out only for a position that was
\* open on the date on which it would have been bought, never for one opened later: the
\* order in which signals are considered is the order in which they can be acted on.
LeftOutForAnOpenPosition ==
    \A s \in DOMAIN confirmed :
       LET entries == ExecuteSignal(confirmed[s], dailyBars)
           entry == Min(entries)
       IN  entries # {} /\ entry >= OutOfSample /\ ExitDates(entry, dailyBars) # {}
             => \E i \in DOMAIN trades : \/ trades[i].signal = s
                                        \/ entry \in trades[i].entry .. trades[i].exit

\* No hindsight: a longer history adds trades behind those of a shorter one and changes
\* none of them, although all are worked out anew: neither a later bar nor a signal that
\* is seen later moves, removes or replaces a trade that was already closed.
TradesStand == [][IsPrefix(trades, trades')]_backtestVars
=============================================================================
