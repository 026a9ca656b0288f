----------------------------- MODULE MCBacktest -----------------------------
(***************************************************************************)
(* Histories in which trading is normal on most dates and, on at most      *)
(* MaxOdd of them, suspended or held at one price, which is the upper or   *)
(* lower limit or neither, according to the close before.                  *)
(***************************************************************************)
EXTENDS Backtest

CONSTANT MaxOdd     \* bound: dates without normal trading

Normal == [open |-> 10, high |-> 11, low |-> 9, close |-> 10, volume |-> 1]
Suspended == [open |-> 10, high |-> 10, low |-> 10, close |-> 10, volume |-> 0]
Flat(price) == [open |-> price, high |-> price, low |-> price, close |-> price, volume |-> 1]

MCDailyBar == {Normal, Suspended, Flat(9), Flat(11)}

FewOdd == Cardinality({d \in DOMAIN dailyBars : dailyBars[d] # Normal}) <= MaxOdd

MCSpec == BacktestInit /\ [][BacktestNext /\ FewOdd']_backtestVars
=============================================================================
