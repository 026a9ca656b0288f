------------------------------ MODULE ChanBars ------------------------------
(***************************************************************************)
(* The daily bars of one stock, as an analyzer is given them, and the      *)
(* effective bars into which inclusion merges them.  Both analyzers        *)
(* (chan/simplified.py and chan/strict.py) merge in the same way, in one   *)
(* pass from the first bar to the last, so the merged bars of a longer     *)
(* history are those of a shorter one and one further turn of that loop.   *)
(* A date is the position of its bar.                                      *)
(***************************************************************************)
EXTENDS Integers, Sequences

CONSTANT Bar    \* the bars that may be supplied

\* DailyBar refuses a bar whose range does not hold its closing price.
ASSUME BarType ==
    /\ Bar \subseteq [high : Int, low : Int, close : Int]
    /\ \A bar \in Bar : bar.low <= bar.close /\ bar.close <= bar.high

VARIABLES
    bars,       \* the bars supplied so far
    processed   \* the effective bars; first and last are the dates they cover

None == 0       \* no date, no price

Includes(left, right) ==
    \/ left.high >= right.high /\ left.low <= right.low
    \/ right.high >= left.high /\ right.low <= left.low

Direction(left, right) ==
    IF right.high > left.high /\ right.low >= left.low THEN "up"
    ELSE IF right.high <= left.high /\ right.low < left.low THEN "down"
    ELSE "neutral"

Incoming(bar, date) ==
    [high |-> bar.high, low |-> bar.low, direction |-> "neutral",
     first |-> date, last |-> date]

\* A tie between the first two bars resolves upward.
MergeDirection(previous, incoming) ==
    IF previous.direction # "neutral" THEN previous.direction
    ELSE IF Direction(previous, incoming) = "down" THEN "down" ELSE "up"

Higher(x, y) == IF x >= y THEN x ELSE y
Lower(x, y) == IF x <= y THEN x ELSE y

\* Mutant: the direction is that of the incoming bar.
MergeLatest(previous, incoming) ==
    LET up == Direction(previous, incoming) # "down"
    IN  [high |-> IF up THEN Higher(previous.high, incoming.high)
                  ELSE Lower(previous.high, incoming.high),
         low |-> IF up THEN Higher(previous.low, incoming.low)
                 ELSE Lower(previous.low, incoming.low),
         direction |-> IF up THEN "up" ELSE "down",
         first |-> previous.first, last |-> incoming.last]

Merge(previous, incoming) ==
    LET direction == MergeDirection(previous, incoming)
        Extreme(x, y) == IF direction = "up" THEN Higher(x, y) ELSE Lower(x, y)
    IN  [high |-> Extreme(previous.high, incoming.high),
         low |-> Extreme(previous.low, incoming.low),
         direction |-> direction, first |-> previous.first, last |-> incoming.last]

\* One turn of _process_inclusion.
ProcessInclusion(effective, incoming) ==
    LET n == Len(effective)
    IN  IF n = 0 THEN <<incoming>>
        ELSE IF Includes(effective[n], incoming)
        THEN [effective EXCEPT ![n] = Merge(effective[n], incoming)]
        ELSE Append(effective,
                    [incoming EXCEPT !.direction = Direction(effective[n], incoming)])

Supply(bar) ==
    /\ bars' = Append(bars, bar)
    /\ processed' = ProcessInclusion(processed, Incoming(bar, Len(bars) + 1))

BarsInit == bars = <<>> /\ processed = <<>>

BarsSpec == BarsInit /\ [][\E bar \in Bar : Supply(bar)]_<<bars, processed>>
----------------------------------------------------------------------------
Above(a, b) == a.high > b.high /\ a.low > b.low

\* The effective bar i has its neighbours on both sides below it, or above it.
IsTop(effective, i) ==
    /\ i \in 2 .. Len(effective) - 1
    /\ Above(effective[i], effective[i - 1]) /\ Above(effective[i], effective[i + 1])

IsBottom(effective, i) ==
    /\ i \in 2 .. Len(effective) - 1
    /\ Above(effective[i - 1], effective[i]) /\ Above(effective[i + 1], effective[i])

IsFractal(effective, i) == IsTop(effective, i) \/ IsBottom(effective, i)

FractalIndices(effective) == {i \in 1 .. Len(effective) : IsFractal(effective, i)}

FractalKind(effective, i) == IF IsTop(effective, i) THEN "top" ELSE "bottom"

FractalPrice(effective, i) ==
    IF IsTop(effective, i) THEN effective[i].high ELSE effective[i].low

\* The date of the bar that follows, once it is there.
TradeDateAfter(date, today) == IF date < today THEN date + 1 ELSE None

MoreExtreme(kind, new, old) == IF kind = "top" THEN new > old ELSE new < old

\* The starts of a search through 1 .. last that goes on from each start at the next one:
\* the loops over strokes that find areas and segments, by turns.
Visited(last, next) ==
    LET start[turn \in 0 .. last] ==
            IF turn = 0 THEN 1
            ELSE IF start[turn - 1] > last THEN start[turn - 1] ELSE next[start[turn - 1]]
    IN  {start[turn] : turn \in 0 .. last} \cap 1 .. last

\* A fractal seen stays: neither a merge nor a new bar takes away the shape around an
\* effective bar, and that bar itself is final (what confirmed fractals rest on in
\* simplified.py's and strict.py's _find_fractals).
FractalsStay ==
    [][\A i \in 1 .. Len(processed) :
          /\ IsTop(processed, i) => IsTop(processed', i)
          /\ IsBottom(processed, i) => IsBottom(processed', i)
          /\ i < Len(processed) => processed'[i] = processed[i]]_<<bars, processed>>
=============================================================================
