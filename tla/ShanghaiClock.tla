---------------------------- MODULE ShanghaiClock ---------------------------
(***************************************************************************)
(* The clock on which the daily inputs depend.  A date is a number, and of *)
(* the time of day only what the code compares it with is kept.            *)
(***************************************************************************)
EXTENDS Naturals

CONSTANTS
    Days,           \* bound: dates
    Weekend         \* the dates on which there is no session

ASSUME DayType == Days \in Nat \ {0} /\ Weekend \subseteq 0 .. Days - 1

VARIABLE present    \* the moment

Date == 0 .. Days - 1

\* The parts of a date: until the close at 15:00, until 15:10, until 15:30, and after.
Session == 0
Closed == 1
Capture == 2
Settled == 3

Moment == 0 .. 4 * Days - 1
DateOf(moment) == moment \div 4
PartOf(moment) == moment % 4

\* The last trade that a source knows of at a moment.
LastTrade(moment) ==
    IF PartOf(moment) = Session THEN moment ELSE 4 * DateOf(moment) + Closed

Tick == present + 1 \in Moment /\ present' = present + 1
=============================================================================
