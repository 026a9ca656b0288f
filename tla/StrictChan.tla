----------------------------- MODULE StrictChan -----------------------------
(***************************************************************************)
(* StrictChanAnalyzer.analyze under a profile that asks for a next bar     *)
(* (strict-v1 cannot be overridden): fractals, strokes, central areas,     *)
(* segments and signals of a prefix of bars, from its effective bars.      *)
(***************************************************************************)
EXTENDS ChanBars, SequencesExt

CONSTANTS
    StrictSeparation,   \* minimum_stroke_separation
    CentralStrokes      \* minimum_central_strokes

ASSUME StrictProfileType ==
    StrictSeparation \in Nat /\ CentralStrokes \in Nat /\ CentralStrokes >= 3

\* Confirmed by the first day of its right bar, whatever is merged into that later.
StrictFractal(effective, i, today) ==
    LET right == effective[i + 1]
    IN  [kind |-> FractalKind(effective, i), price |-> FractalPrice(effective, i),
         formed |-> effective[i].last, confirmed |-> right.first,
         tradable |-> TradeDateAfter(right.first, today), index |-> i]

StrictFractals(effective, today) ==
    {StrictFractal(effective, i, today) : i \in FractalIndices(effective)}

\* start and end are the prices where the stroke starts and ends.
StrictStroke(start, formed, end) ==
    [start |-> start, end |-> end.price, formed |-> formed,
     low |-> Lower(start, end.price), high |-> Higher(start, end.price),
     confirmed |-> end.confirmed, tradable |-> end.tradable,
     direction |-> IF end.price > start THEN "up" ELSE "down"]

NoActive == [kind |-> "none"]

\* The latest stroke is moved to a more extreme end while it cannot be traded on.
MoveStrokeEnd(strokes, end) ==
    LET n == Len(strokes)
    IN  [strokes EXCEPT ![n] = StrictStroke(strokes[n].start, strokes[n].formed, end)]

\* Mutant: the latest stroke always follows the more extreme fractal.
SameKindMoves(found, fractal) ==
    IF ~MoreExtreme(fractal.kind, fractal.price, found.active.price) THEN found
    ELSE [active |-> fractal,
          strokes |-> IF found.strokes = <<>> THEN <<>> ELSE MoveStrokeEnd(found.strokes, fractal)]

\* A fractal of the kind of the active one: before the first stroke the more extreme one
\* counts, later only if the last stroke may still be moved.
SameKindStrict(found, fractal) ==
    LET strokes == found.strokes
    IN  IF ~MoreExtreme(fractal.kind, fractal.price, found.active.price) THEN found
        ELSE IF strokes = <<>> THEN [found EXCEPT !.active = fractal]
        ELSE IF strokes[Len(strokes)].tradable = None
        THEN [active |-> fractal, strokes |-> MoveStrokeEnd(strokes, fractal)]
        ELSE found

\* One turn of _find_strokes.
ExtendStrict(found, fractal) ==
    LET active == found.active
    IN  IF active = NoActive THEN [found EXCEPT !.active = fractal]
        ELSE IF fractal.kind = active.kind THEN SameKindStrict(found, fractal)
        ELSE IF \/ ~MoreExtreme(fractal.kind, fractal.price, active.price)
                \/ fractal.index - active.index < StrictSeparation
        THEN found
        ELSE [active |-> fractal,
              strokes |-> Append(found.strokes,
                                 StrictStroke(active.price, active.formed, fractal))]

\* The strokes after each effective bar.
StrictFound(effective, today) ==
    LET found[i \in 0 .. Len(effective)] ==
            IF i = 0 THEN [active |-> NoActive, strokes |-> <<>>]
            ELSE IF IsFractal(effective, i)
            THEN ExtendStrict(found[i - 1], StrictFractal(effective, i, today))
            ELSE found[i - 1]
    IN  found

StrictStrokes(effective, today) == StrictFound(effective, today)[Len(effective)].strokes

CommonLow(strokes, first, last) == Max({strokes[i].low : i \in first .. last})
CommonHigh(strokes, first, last) == Min({strokes[i].high : i \in first .. last})

\* The first strokes of an area fix its range and its dates; what follows and still
\* touches the range only belongs to it.
StrictAreaFrom(strokes, start) ==
    LET last == start + CentralStrokes - 1
    IN  [low |-> CommonLow(strokes, start, last), high |-> CommonHigh(strokes, start, last),
         formed |-> strokes[start + 2].formed, confirmed |-> strokes[last].confirmed,
         tradable |-> strokes[last].tradable]

Leaves(stroke, area) == stroke.high < area.low \/ stroke.low > area.high

\* The first stroke behind an area.
StrictEnd(strokes, start) ==
    LET n == Len(strokes)
        area == StrictAreaFrom(strokes, start)
        behind == {e \in start + CentralStrokes .. n : Leaves(strokes[e], area)}
    IN  IF behind = {} THEN n + 1 ELSE Min(behind)

\* The strokes with which areas begin.
StrictStarts(strokes) ==
    LET last == Len(strokes) - CentralStrokes + 1
        Found(s) == StrictAreaFrom(strokes, s).low <= StrictAreaFrom(strokes, s).high
        next == [s \in 1 .. last |-> IF Found(s) THEN StrictEnd(strokes, s) ELSE s + 1]
    IN  {s \in Visited(last, next) : Found(s)}

StrictAreas(strokes) == {StrictAreaFrom(strokes, s) : s \in StrictStarts(strokes)}

\* The latest two strokes behind the areas, if they overlap.
StrictCandidates(strokes) ==
    LET n == Len(strokes)
        starts == StrictStarts(strokes)
        free == IF starts = {} THEN 1 ELSE StrictEnd(strokes, Max(starts))
    IN  {[low |-> CommonLow(strokes, n - 1, n), high |-> CommonHigh(strokes, n - 1, n),
          formed |-> strokes[k].formed] :
         k \in {i \in {n} : i - 1 >= free
                            /\ CommonLow(strokes, i - 1, i) <= CommonHigh(strokes, i - 1, i)}}

\* Three strokes of which the third goes beyond the first.
StrictSegment(strokes, start) ==
    [formed |-> strokes[start].formed, confirmed |-> strokes[start + 2].confirmed,
     tradable |-> strokes[start + 2].tradable,
     low |-> Min({strokes[i].low : i \in start .. start + 2}),
     high |-> Max({strokes[i].high : i \in start .. start + 2})]

Beyond(first, third) ==
    /\ first.direction = third.direction
    /\ IF first.direction = "up" THEN third.end > first.end ELSE third.end < first.end

StrictSegments(strokes) ==
    LET last == Len(strokes) - 2
        Found(s) == Beyond(strokes[s], strokes[s + 2])
        next == [s \in 1 .. last |-> IF Found(s) THEN s + 3 ELSE s + 1]
    IN  {StrictSegment(strokes, s) : s \in {s \in Visited(last, next) : Found(s)}}

Side(close, area) ==
    IF close > area.high THEN "up" ELSE IF close < area.low THEN "down" ELSE "inside"

\* Mutant: closes before the confirmation of the area count.
SignalsSinceFormed(supplied, area) ==
    LET today == Len(supplied)
        On(date) == Side(supplied[date].close, area)
        pairs == {d \in area.formed + 1 .. today - 1 : On(d) = On(d + 1) /\ On(d) # "inside"}
        first == Min(pairs)
    IN  IF pairs = {} THEN {}
        ELSE {[formed |-> first, confirmed |-> first + 1,
               tradable |-> TradeDateAfter(first + 1, today), status |-> "confirmed",
               direction |-> On(first)]}

\* Two closes in a row on one side of an area, after its confirmation, are a signal; the
\* first such pair counts.  Today's close alone is a candidate.
StrictSignalsFor(supplied, area) ==
    LET today == Len(supplied)
        On(date) == Side(supplied[date].close, area)
        pairs == {d \in area.confirmed + 1 .. today - 1 : On(d) = On(d + 1) /\ On(d) # "inside"}
        first == Min(pairs)
    IN  IF pairs # {}
        THEN {[formed |-> first, confirmed |-> first + 1,
               tradable |-> TradeDateAfter(first + 1, today), status |-> "confirmed",
               direction |-> On(first)]}
        ELSE IF area.confirmed < today /\ On(today) # "inside"
        THEN {[formed |-> today, confirmed |-> None, tradable |-> None,
               status |-> "candidate", direction |-> On(today)]}
        ELSE {}

\* Every confirmed signal and, of the candidates, that of the latest area.
StrictSignals(supplied, strokes) ==
    LET starts == StrictStarts(strokes)
        signals == [s \in starts |-> StrictSignalsFor(supplied, StrictAreaFrom(strokes, s))]
        Waits(s) == \E signal \in signals[s] : signal.status = "candidate"
        waiting == {s \in starts : Waits(s)}
    IN  UNION {signals[s] : s \in {u \in starts : ~Waits(u) \/ u = Max(waiting)}}
=============================================================================
