--------------------------- MODULE SimplifiedChan ---------------------------
(***************************************************************************)
(* SimplifiedChanAnalyzer.analyze: fractals, strokes, central areas and    *)
(* the breakout observation of a prefix of bars, from its effective bars.  *)
(* Support and resistance levels and the state's label restate these and   *)
(* are not observed by a replay.                                           *)
(***************************************************************************)
EXTENDS ChanBars, SequencesExt

CONSTANT SimplifiedSeparation   \* MINIMUM_STROKE_SEPARATION

ASSUME SimplifiedSeparationType == SimplifiedSeparation \in Nat

\* Confirmed by its right bar, once a further bar has closed that one.
SimplifiedFractal(effective, i, today) ==
    LET right == effective[i + 1]
        tradable == TradeDateAfter(right.last, today)
        confirmed == tradable # None
    IN  [kind |-> FractalKind(effective, i), price |-> FractalPrice(effective, i),
         formed |-> effective[i].last,
         confirmed |-> IF confirmed THEN right.last ELSE None, tradable |-> tradable,
         status |-> IF confirmed THEN "confirmed" ELSE "candidate", index |-> i]

SimplifiedFractals(effective, today) ==
    {SimplifiedFractal(effective, i, today) : i \in FractalIndices(effective)}

SimplifiedStroke(start, end) ==
    [kind |-> IF end.kind = "top" THEN "up" ELSE "down",
     low |-> Lower(start.price, end.price), high |-> Higher(start.price, end.price),
     formed |-> start.formed, confirmed |-> end.confirmed, tradable |-> end.tradable,
     end |-> end.formed]

NoFractal == [kind |-> "none"]

\* One turn of _find_strokes: a more extreme fractal of the same kind takes the place
\* of the active one, an opposite one far enough away ends a stroke.
ExtendSimplified(found, fractal) ==
    LET active == found.active
    IN  IF \/ active = NoFractal
           \/ fractal.kind = active.kind
              /\ MoreExtreme(fractal.kind, fractal.price, active.price)
        THEN [found EXCEPT !.active = fractal]
        ELSE IF \/ fractal.kind = active.kind
                \/ fractal.index - active.index < SimplifiedSeparation
        THEN found
        ELSE [active |-> fractal,
              strokes |-> Append(found.strokes, SimplifiedStroke(active, fractal))]

\* The strokes after each effective bar; only confirmed fractals count.
SimplifiedFound(effective, today) ==
    LET found[i \in 0 .. Len(effective)] ==
            IF i = 0 THEN [active |-> NoFractal, strokes |-> <<>>]
            ELSE LET fractal == SimplifiedFractal(effective, i, today)
                 IN  IF IsFractal(effective, i) /\ fractal.status = "confirmed"
                     THEN ExtendSimplified(found[i - 1], fractal)
                     ELSE found[i - 1]
    IN  found

SimplifiedStrokes(effective, today) ==
    SimplifiedFound(effective, today)[Len(effective)].strokes

\* The range that the strokes first .. last share is low .. high, if low <= high.
SharedLow(strokes, first, last) == Max({strokes[i].low : i \in first .. last})
SharedHigh(strokes, first, last) == Min({strokes[i].high : i \in first .. last})

Overlap(strokes, first, last) ==
    SharedLow(strokes, first, last) <= SharedHigh(strokes, first, last)

\* An area takes in all further strokes that share a range with all of its strokes.
AreaEnd(strokes, start) ==
    Max({e \in start + 2 .. Len(strokes) : Overlap(strokes, start, e)})

CentralArea(strokes, start) ==
    LET end == AreaEnd(strokes, start)
    IN  [low |-> SharedLow(strokes, start, end), high |-> SharedHigh(strokes, start, end),
         formed |-> strokes[start + 2].end, confirmed |-> strokes[end].confirmed,
         tradable |-> strokes[end].tradable, status |-> "confirmed"]

\* The strokes with which areas begin: of three that overlap the first; the search goes
\* on behind the last of its area.
SimplifiedStarts(strokes) ==
    LET last == Len(strokes) - 2
        Found(s) == Overlap(strokes, s, s + 2)
        next == [s \in 1 .. last |-> IF Found(s) THEN AreaEnd(strokes, s) + 1 ELSE s + 1]
    IN  {s \in Visited(last, next) : Found(s)}

SimplifiedAreas(strokes) == {CentralArea(strokes, s) : s \in SimplifiedStarts(strokes)}

\* Mutant: two strokes already confirm an area.
CandidatesConfirmed(strokes) ==
    LET n == Len(strokes)
    IN  {[low |-> SharedLow(strokes, n - 1, n), high |-> SharedHigh(strokes, n - 1, n),
          formed |-> strokes[n].end, confirmed |-> strokes[n].confirmed,
          tradable |-> strokes[n].tradable, status |-> "confirmed"] :
         i \in {k \in {n} : k >= 2 /\ Overlap(strokes, k - 1, k)}}

\* The latest two strokes, if they overlap.
SimplifiedCandidates(strokes) ==
    LET n == Len(strokes)
    IN  {[low |-> SharedLow(strokes, n - 1, n), high |-> SharedHigh(strokes, n - 1, n),
          formed |-> strokes[n].end, confirmed |-> None, tradable |-> None,
          status |-> "candidate"] :
         i \in {k \in {n} : k >= 2 /\ Overlap(strokes, k - 1, k)}}

\* The closes above the latest area, without a gap up to today, since its confirmation;
\* the second of them confirms the breakout.
SimplifiedObservations(supplied, strokes) ==
    LET today == Len(supplied)
        areas == SimplifiedStarts(strokes)
        latest == CentralArea(strokes, Max(areas))
        Outside(date) == \A d \in date .. today : supplied[d].close > latest.high
        starts == {d \in latest.confirmed + 1 .. today : Outside(d)}
        start == Min(starts)
        confirmed == start < today
    IN  IF areas = {} \/ starts = {} THEN {}
        ELSE {[formed |-> start, confirmed |-> IF confirmed THEN start + 1 ELSE None,
               tradable |-> IF confirmed THEN TradeDateAfter(start + 1, today) ELSE None,
               status |-> IF confirmed THEN "confirmed" ELSE "candidate"]}
=============================================================================
