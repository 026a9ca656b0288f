---------------------------- MODULE ReplayProofs ----------------------------
(***************************************************************************)
(* What a replay shows, for any bars.  Effective bars stand strictly apart  *)
(* and cover the dates, so that a fractal once seen is never taken away     *)
(* and is dated before what confirms it.  Strokes, areas, segments and      *)
(* signals of a longer prefix are therefore those of a shorter one, and     *)
(* more: the events of either analyzer are Sound in every prefix, and what  *)
(* is confirmed in one remains in the next (ComesAfter).  And the trades of *)
(* a backtest, for any bars and signals: one position at a time, none left  *)
(* out without need, none changed by what is seen later.                    *)
(***************************************************************************)
EXTENDS Replay, Backtest, Recursion

EffectiveBar ==
    [high : Int, low : Int, direction : {"up", "down", "neutral"}, first : Nat, last : Nat]

ChanTypeOK == bars \in Seq(Bar) /\ processed \in Seq(EffectiveBar)

\* Two neighbours never include one another: each is above or below its predecessor, as
\* its direction says.
StrictlyApart ==
    \A i \in 2 .. Len(processed) :
       \/ processed[i].direction = "up" /\ Above(processed[i], processed[i - 1])
       \/ processed[i].direction = "down" /\ Above(processed[i - 1], processed[i])

DatesInOrder ==
    /\ \A i \in 1 .. Len(processed) :
          /\ 1 <= processed[i].first /\ processed[i].first <= processed[i].last
          /\ processed[i].last <= Len(bars)
    /\ \A i \in 2 .. Len(processed) : processed[i].first = processed[i - 1].last + 1
    /\ Len(processed) > 0 => processed[Len(processed)].last = Len(bars)

EffectiveInv == ChanTypeOK /\ StrictlyApart /\ DatesInOrder

\* A bar supplied is an effective bar of its own date.
LEMMA IncomingType ==
    ASSUME NEW bar \in Bar, NEW date \in Nat
    PROVE  Incoming(bar, date) \in EffectiveBar
<1>1. bar.high \in Int /\ bar.low \in Int
  BY BarType
<1> QED
  BY <1>1 DEF Incoming, EffectiveBar

\* Merging up raises both ends, merging down lowers them.
LEMMA MergeMoves ==
    ASSUME NEW previous \in EffectiveBar, NEW incoming \in EffectiveBar
    PROVE  LET merged == Merge(previous, incoming)
           IN  /\ merged \in EffectiveBar
               /\ merged.first = previous.first /\ merged.last = incoming.last
               /\ previous.direction = "up" =>
                     /\ merged.direction = "up"
                     /\ merged.high >= previous.high /\ merged.low >= previous.low
               /\ previous.direction = "down" =>
                     /\ merged.direction = "down"
                     /\ merged.high <= previous.high /\ merged.low <= previous.low
<1>1. MergeDirection(previous, incoming) \in {"up", "down"}
  BY DEF MergeDirection, EffectiveBar
<1>2. previous.direction # "neutral" =>
         MergeDirection(previous, incoming) = previous.direction
  BY DEF MergeDirection
<1> QED
  BY <1>1, <1>2 DEF Merge, Higher, Lower, EffectiveBar

\* Bars that do not include one another have a direction, and it tells which is above.
LEMMA ApartHasDirection ==
    ASSUME NEW left \in EffectiveBar, NEW right \in EffectiveBar, ~Includes(left, right)
    PROVE  \/ Direction(left, right) = "up" /\ Above(right, left)
           \/ Direction(left, right) = "down" /\ Above(left, right)
  BY DEF Includes, Direction, Above, EffectiveBar

\* A bar is merged into the latest effective bar or stands apart from it.
LEMMA SupplyKeeps ==
    ASSUME EffectiveInv, NEW bar \in Bar, Supply(bar)
    PROVE  /\ EffectiveInv'
           /\ Len(processed') \in {Len(processed), Len(processed) + 1}
           /\ \A i \in 1 .. Len(processed) : i < Len(processed) => processed'[i] = processed[i]
           /\ Len(processed) > 0 /\ Len(processed') = Len(processed) =>
                 processed'[Len(processed)] =
                    Merge(processed[Len(processed)], Incoming(bar, Len(bars) + 1))
           /\ Len(processed') = Len(processed) + 1 =>
                 \A i \in 1 .. Len(processed) : processed'[i] = processed[i]
<1> DEFINE n == Len(processed)
           incoming == Incoming(bar, Len(bars) + 1)
<1>1. bars \in Seq(Bar) /\ processed \in Seq(EffectiveBar) /\ n \in Nat /\ Len(bars) \in Nat
  BY DEF EffectiveInv, ChanTypeOK
<1>2. /\ incoming \in EffectiveBar /\ incoming.first = Len(bars) + 1
      /\ incoming.last = Len(bars) + 1
  BY <1>1, IncomingType DEF Incoming
<1>3. bars' \in Seq(Bar) /\ Len(bars') = Len(bars) + 1
  BY <1>1 DEF Supply
<1>4. processed' = ProcessInclusion(processed, incoming)
  BY DEF Supply
<1> HIDE DEF incoming
<1>5. CASE n = 0
  <2>1. processed' = <<incoming>>
    BY <1>4, <1>5 DEF ProcessInclusion
  <2>2. processed' \in Seq(EffectiveBar) /\ Len(processed') = 1 /\ processed'[1] = incoming
    BY <2>1, <1>2
  <2> QED
    BY <1>1, <1>2, <1>3, <1>5, <2>2 DEF EffectiveInv, ChanTypeOK, StrictlyApart, DatesInOrder
<1>6. CASE n > 0 /\ Includes(processed[n], incoming)
  <2> DEFINE merged == Merge(processed[n], incoming)
  <2>1. processed[n] \in EffectiveBar
    BY <1>1, <1>6
  <2>2. /\ merged \in EffectiveBar
        /\ merged.first = processed[n].first /\ merged.last = incoming.last
        /\ processed[n].direction = "up" =>
              /\ merged.direction = "up"
              /\ merged.high >= processed[n].high /\ merged.low >= processed[n].low
        /\ processed[n].direction = "down" =>
              /\ merged.direction = "down"
              /\ merged.high <= processed[n].high /\ merged.low <= processed[n].low
    BY <1>2, <2>1, MergeMoves
  <2>3. processed' = [processed EXCEPT ![n] = merged]
    BY <1>4, <1>6 DEF ProcessInclusion
  <2> HIDE DEF merged
  <2>4. /\ processed' \in Seq(EffectiveBar) /\ Len(processed') = n /\ processed'[n] = merged
        /\ \A i \in 1 .. n : i < n => processed'[i] = processed[i]
    BY <1>1, <1>6, <2>2, <2>3
  <2>5. StrictlyApart'
    <3> SUFFICES ASSUME NEW i \in 2 .. n
                 PROVE  \/ processed'[i].direction = "up" /\ Above(processed'[i], processed'[i - 1])
                        \/ /\ processed'[i].direction = "down"
                           /\ Above(processed'[i - 1], processed'[i])
      BY <2>4 DEF StrictlyApart
    <3>1. \/ processed[i].direction = "up" /\ Above(processed[i], processed[i - 1])
          \/ processed[i].direction = "down" /\ Above(processed[i - 1], processed[i])
      BY DEF EffectiveInv, StrictlyApart
    <3>2. processed[i] \in EffectiveBar /\ processed[i - 1] \in EffectiveBar
      BY <1>1
    <3>3. processed'[i - 1] = processed[i - 1]
      BY <1>1, <2>4
    <3>4. CASE i < n
      BY <1>1, <2>4, <3>1, <3>3, <3>4
    <3>5. CASE i = n
      <4> DEFINE before == processed[i - 1]
                 latest == processed[n]
      <4>1. /\ before \in EffectiveBar /\ latest \in EffectiveBar /\ merged \in EffectiveBar
            /\ processed'[i] = merged /\ processed'[i - 1] = before
        BY <2>2, <2>4, <3>2, <3>3, <3>5
      <4>2. \/ latest.direction = "up" /\ Above(latest, before)
            \/ latest.direction = "down" /\ Above(before, latest)
        BY <3>1, <3>5
      <4>3. /\ latest.direction = "up" =>
                  /\ merged.direction = "up"
                  /\ merged.high >= latest.high /\ merged.low >= latest.low
            /\ latest.direction = "down" =>
                  /\ merged.direction = "down"
                  /\ merged.high <= latest.high /\ merged.low <= latest.low
        BY <2>2
      <4> HIDE DEF before, latest
      <4>4. \/ merged.direction = "up" /\ Above(merged, before)
            \/ merged.direction = "down" /\ Above(before, merged)
        <5>1. CASE latest.direction = "up" /\ Above(latest, before)
          BY <4>1, <4>3, <5>1 DEF Above, EffectiveBar
        <5>2. CASE latest.direction = "down" /\ Above(before, latest)
          BY <4>1, <4>3, <5>2 DEF Above, EffectiveBar
        <5> QED
          BY <4>2, <5>1, <5>2
      <4> QED
        BY <4>1, <4>4
    <3> QED
      BY <1>1, <3>4, <3>5
  <2>6. DatesInOrder'
    <3>1. \A i \in 1 .. n : processed[i] \in EffectiveBar
      BY <1>1
    <3>2. \A i \in 1 .. n : /\ processed'[i].first = processed[i].first
                            /\ i < n => processed'[i].last = processed[i].last
      BY <1>1, <2>2, <2>4
    <3>3. processed'[n].last = Len(bars')
      BY <1>2, <1>3, <2>2, <2>4
    <3>4. \A i \in 1 .. n : /\ 1 <= processed'[i].first
                            /\ processed'[i].first <= processed'[i].last
                            /\ processed'[i].last <= Len(bars')
      <4> SUFFICES ASSUME NEW i \in 1 .. n
                   PROVE  /\ 1 <= processed'[i].first
                          /\ processed'[i].first <= processed'[i].last
                          /\ processed'[i].last <= Len(bars')
        OBVIOUS
      <4>1. /\ processed[i].first \in Nat /\ processed[i].last \in Nat
            /\ processed'[i].first = processed[i].first
            /\ i < n => processed'[i].last = processed[i].last
        BY <3>1, <3>2 DEF EffectiveBar
      <4>2. /\ 1 <= processed[i].first /\ processed[i].first <= processed[i].last
            /\ processed[i].last <= Len(bars)
        BY DEF EffectiveInv, DatesInOrder
      <4>3. i = n => processed'[i].last = Len(bars')
        BY <3>3
      <4>4. i < n \/ i = n
        BY <1>1
      <4> QED
        BY <1>1, <1>3, <4>1, <4>2, <4>3, <4>4
    <3>5. \A i \in 2 .. n : processed'[i].first = processed'[i - 1].last + 1
      <4> SUFFICES ASSUME NEW i \in 2 .. n
                   PROVE  processed'[i].first = processed'[i - 1].last + 1
        OBVIOUS
      <4>1. i \in 1 .. n /\ i - 1 \in 1 .. n /\ i - 1 < n
        BY <1>1
      <4>2. /\ processed'[i].first = processed[i].first
            /\ processed'[i - 1].last = processed[i - 1].last
        BY <3>2, <4>1
      <4>3. processed[i].first = processed[i - 1].last + 1
        BY <1>1 DEF EffectiveInv, DatesInOrder
      <4> QED
        BY <4>2, <4>3
    <3> QED
      BY <2>4, <3>3, <3>4, <3>5 DEF DatesInOrder
  <2> QED
    BY <1>1, <1>3, <1>6, <2>4, <2>5, <2>6 DEF EffectiveInv, ChanTypeOK, merged, incoming
<1>7. CASE n > 0 /\ ~Includes(processed[n], incoming)
  <2> DEFINE added == [incoming EXCEPT !.direction = Direction(processed[n], incoming)]
  <2>1. processed[n] \in EffectiveBar
    BY <1>1, <1>7
  <2>2. \/ Direction(processed[n], incoming) = "up" /\ Above(incoming, processed[n])
        \/ Direction(processed[n], incoming) = "down" /\ Above(processed[n], incoming)
    BY <1>2, <1>7, <2>1, ApartHasDirection
  <2>3. /\ added \in EffectiveBar
        /\ added.first = Len(bars) + 1 /\ added.last = Len(bars) + 1
        /\ \/ added.direction = "up" /\ Above(added, processed[n])
           \/ added.direction = "down" /\ Above(processed[n], added)
    <3>1. Direction(processed[n], incoming) \in {"up", "down"}
      BY <2>2
    <3>2. /\ added \in EffectiveBar
          /\ added.first = incoming.first /\ added.last = incoming.last
          /\ added.high = incoming.high /\ added.low = incoming.low
          /\ added.direction = Direction(processed[n], incoming)
      BY <1>2, <3>1 DEF EffectiveBar
    <3> QED
      BY <1>2, <2>2, <3>2 DEF Above
  <2>4. processed' = Append(processed, added)
    BY <1>4, <1>7 DEF ProcessInclusion
  <2> HIDE DEF added
  <2>5. /\ processed' \in Seq(EffectiveBar) /\ Len(processed') = n + 1
        /\ processed'[n + 1] = added
        /\ \A i \in 1 .. n : processed'[i] = processed[i]
    BY <1>1, <2>3, <2>4
  <2>6. StrictlyApart'
    <3> SUFFICES ASSUME NEW i \in 2 .. n + 1
                 PROVE  \/ processed'[i].direction = "up" /\ Above(processed'[i], processed'[i - 1])
                        \/ /\ processed'[i].direction = "down"
                           /\ Above(processed'[i - 1], processed'[i])
      BY <2>5 DEF StrictlyApart
    <3>1. CASE i <= n
      BY <1>1, <2>5, <3>1 DEF EffectiveInv, StrictlyApart
    <3>2. CASE i = n + 1
      BY <1>1, <1>7, <2>3, <2>5, <3>2
    <3> QED
      BY <1>1, <3>1, <3>2
  <2>7. DatesInOrder'
    <3>1. processed[n].last = Len(bars)
      BY <1>7 DEF EffectiveInv, DatesInOrder
    <3>2. \A i \in 1 .. n + 1 : /\ 1 <= processed'[i].first
                                /\ processed'[i].first <= processed'[i].last
                                /\ processed'[i].last <= Len(bars')
      <4> SUFFICES ASSUME NEW i \in 1 .. n + 1
                   PROVE  /\ 1 <= processed'[i].first
                          /\ processed'[i].first <= processed'[i].last
                          /\ processed'[i].last <= Len(bars')
        OBVIOUS
      <4>1. CASE i = n + 1
        BY <1>1, <1>3, <2>3, <2>5, <4>1
      <4>2. CASE i \in 1 .. n
        <5>1. processed'[i] = processed[i] /\ processed[i] \in EffectiveBar
          BY <1>1, <2>5, <4>2
        <5>2. /\ 1 <= processed[i].first /\ processed[i].first <= processed[i].last
              /\ processed[i].last <= Len(bars)
          BY <4>2 DEF EffectiveInv, DatesInOrder
        <5> QED
          BY <1>1, <1>3, <5>1, <5>2 DEF EffectiveBar
      <4> QED
        BY <1>1, <4>1, <4>2
    <3>3. \A i \in 2 .. n + 1 : processed'[i].first = processed'[i - 1].last + 1
      <4> SUFFICES ASSUME NEW i \in 2 .. n + 1
                   PROVE  processed'[i].first = processed'[i - 1].last + 1
        OBVIOUS
      <4>1. CASE i = n + 1
        <5>1. processed'[i] = added /\ processed'[i - 1] = processed[n]
          BY <1>1, <1>7, <2>5, <4>1
        <5> QED
          BY <2>3, <3>1, <5>1
      <4>2. CASE i \in 2 .. n
        BY <1>1, <2>5, <4>2 DEF EffectiveInv, DatesInOrder
      <4> QED
        BY <1>1, <4>1, <4>2
    <3> QED
      BY <1>1, <1>3, <2>3, <2>5, <3>2, <3>3 DEF DatesInOrder
  <2> QED
    BY <1>1, <1>3, <1>7, <2>5, <2>6, <2>7 DEF EffectiveInv, ChanTypeOK
<1> QED
  BY <1>1, <1>5, <1>6, <1>7

\* The supply of one bar keeps every fractal and every effective bar but the latest.
LEMMA SupplyKeepsFractals ==
    ASSUME EffectiveInv, NEW bar \in Bar, Supply(bar), NEW i \in 1 .. Len(processed)
    PROVE  /\ IsTop(processed, i) => IsTop(processed', i)
           /\ IsBottom(processed, i) => IsBottom(processed', i)
           /\ i < Len(processed) => processed'[i] = processed[i]
<1> DEFINE n == Len(processed)
           merged == Merge(processed[n], Incoming(bar, Len(bars) + 1))
<1>1. /\ processed \in Seq(EffectiveBar) /\ n \in Nat /\ i \in 1 .. n
      /\ Len(processed') \in {n, n + 1} /\ \A j \in 1 .. n : j < n => processed'[j] = processed[j]
  BY SupplyKeeps DEF EffectiveInv, ChanTypeOK
<1>2. CASE Len(processed') = n + 1
  <2>1. \A j \in 1 .. n : processed'[j] = processed[j]
    BY <1>2, SupplyKeeps
  <2> QED
    BY <1>1, <1>2, <2>1 DEF IsTop, IsBottom
<1>3. CASE Len(processed') = n
  <2>1. processed'[n] = merged
    BY <1>1, <1>3, SupplyKeeps
  <2>2. /\ processed[n].direction = "up" =>
              merged.high >= processed[n].high /\ merged.low >= processed[n].low
        /\ processed[n].direction = "down" =>
              merged.high <= processed[n].high /\ merged.low <= processed[n].low
        /\ merged \in EffectiveBar
    <3>1. Incoming(bar, Len(bars) + 1) \in EffectiveBar
      BY IncomingType DEF EffectiveInv, ChanTypeOK
    <3>2. processed[n] \in EffectiveBar
      BY <1>1
    <3> QED
      BY <3>1, <3>2, MergeMoves
  <2> HIDE DEF merged
  <2>3. ASSUME NEW j \in 2 .. n - 1
        PROVE  /\ Above(processed[j], processed[j + 1]) => Above(processed'[j], processed'[j + 1])
               /\ Above(processed[j + 1], processed[j]) => Above(processed'[j + 1], processed'[j])
    <3>1. processed'[j] = processed[j]
      BY <1>1
    <3>2. CASE j + 1 < n
      BY <1>1, <3>1, <3>2
    <3>3. CASE j + 1 = n
      <4>1. \/ processed[n].direction = "up" /\ Above(processed[n], processed[j])
            \/ processed[n].direction = "down" /\ Above(processed[j], processed[n])
        <5>1. n \in 2 .. n /\ n - 1 = j
          BY <1>1, <3>3
        <5> QED
          BY <5>1 DEF EffectiveInv, StrictlyApart
      <4>2. processed[j] \in EffectiveBar /\ processed[n] \in EffectiveBar
        BY <1>1
      <4> QED
        BY <2>1, <2>2, <3>1, <3>3, <4>1, <4>2 DEF Above, EffectiveBar
    <3> QED
      BY <1>1, <3>2, <3>3
  <2>4. \A j \in 2 .. n - 1 : processed'[j] = processed[j] /\ processed'[j - 1] = processed[j - 1]
    BY <1>1
  <2> QED
    BY <1>1, <1>3, <2>3, <2>4 DEF IsTop, IsBottom
<1> QED
  BY <1>1, <1>2, <1>3

\* A step of a replay supplies a bar, or leaves the bars alone.
LEMMA StepSupplies ==
    ASSUME [Next]_vars
    PROVE  (\E bar \in Bar : Supply(bar)) \/ UNCHANGED <<bars, processed>>
  BY DEF Next, ReplayPrefix, vars

\* On any history the effective bars are typed, strictly apart, and cover the dates.
THEOREM EffectiveBarsStandApart == Spec => []EffectiveInv
<1>1. Init => EffectiveInv
  BY DEF Init, BarsInit, EffectiveInv, ChanTypeOK, StrictlyApart, DatesInOrder
<1>2. EffectiveInv /\ [Next]_vars => EffectiveInv'
  <2> SUFFICES ASSUME EffectiveInv, [Next]_vars PROVE EffectiveInv'
    OBVIOUS
  <2>1. CASE \E bar \in Bar : Supply(bar)
    BY <2>1, SupplyKeeps
  <2>2. CASE UNCHANGED <<bars, processed>>
    BY <2>2 DEF EffectiveInv, ChanTypeOK, StrictlyApart, DatesInOrder
  <2> QED
    BY <2>1, <2>2, StepSupplies
<1> QED
  BY <1>1, <1>2, PTL DEF Spec

\* No bar that any replay may be given takes a fractal away again.
THEOREM FractalsAreFinal == Spec => FractalsStay
<1>1. EffectiveInv /\ [Next]_vars =>
         [\A i \in 1 .. Len(processed) :
             /\ IsTop(processed, i) => IsTop(processed', i)
             /\ IsBottom(processed, i) => IsBottom(processed', i)
             /\ i < Len(processed) => processed'[i] = processed[i]]_<<bars, processed>>
  BY StepSupplies, SupplyKeepsFractals
<1> QED
  BY <1>1, EffectiveBarsStandApart, PTL DEF Spec, FractalsStay

\* Neither analyzer dates a fractal by a bar that has not come: it is formed before it
\* is confirmed, confirmed by today, and tradable on the next date only.
FractalsAreDated ==
    \A i \in 1 .. Len(processed) :
       IsTop(processed, i) \/ IsBottom(processed, i) =>
          LET strict == StrictFractal(processed, i, Len(bars))
              simplified == SimplifiedFractal(processed, i, Len(bars))
          IN  /\ strict.formed < strict.confirmed /\ strict.confirmed <= Len(bars)
              /\ strict.tradable # None => strict.tradable = strict.confirmed + 1
                                           /\ strict.tradable <= Len(bars)
              /\ simplified.tradable # None =>
                    /\ simplified.formed < simplified.confirmed
                    /\ simplified.tradable = simplified.confirmed + 1
                    /\ simplified.tradable <= Len(bars)

\* In every prefix the fractals of both analyzers are dated as above.
THEOREM NoFractalLooksAhead == Spec => []FractalsAreDated
<1>1. EffectiveInv => FractalsAreDated
  <2> SUFFICES ASSUME EffectiveInv, NEW i \in 2 .. Len(processed) - 1
               PROVE  LET strict == StrictFractal(processed, i, Len(bars))
                          simplified == SimplifiedFractal(processed, i, Len(bars))
                      IN  /\ strict.formed < strict.confirmed /\ strict.confirmed <= Len(bars)
                          /\ strict.tradable # None => strict.tradable = strict.confirmed + 1
                                                       /\ strict.tradable <= Len(bars)
                          /\ simplified.tradable # None =>
                                /\ simplified.formed < simplified.confirmed
                                /\ simplified.tradable = simplified.confirmed + 1
                                /\ simplified.tradable <= Len(bars)
    BY DEF FractalsAreDated, IsTop, IsBottom
  <2>1. /\ processed \in Seq(EffectiveBar) /\ Len(processed) \in Nat /\ Len(bars) \in Nat
        /\ i \in 1 .. Len(processed) /\ i + 1 \in 2 .. Len(processed)
        /\ i + 1 \in 1 .. Len(processed) /\ (i + 1) - 1 = i
    BY DEF EffectiveInv, ChanTypeOK
  <2>2. processed[i] \in EffectiveBar /\ processed[i + 1] \in EffectiveBar
    BY <2>1
  <2>3. /\ processed[i + 1].first = processed[i].last + 1
        /\ processed[i + 1].first <= processed[i + 1].last
        /\ processed[i + 1].last <= Len(bars)
    BY <2>1 DEF EffectiveInv, DatesInOrder
  <2> DEFINE strict == StrictFractal(processed, i, Len(bars))
             simplified == SimplifiedFractal(processed, i, Len(bars))
             right == processed[i + 1]
  <2>4. /\ processed[i].last \in Nat /\ right.first \in Nat /\ right.last \in Nat
    BY <2>2 DEF EffectiveBar
  <2>5. /\ strict.formed = processed[i].last /\ strict.confirmed = right.first
        /\ strict.tradable = TradeDateAfter(right.first, Len(bars))
    BY DEF StrictFractal
  <2>6. /\ simplified.formed = processed[i].last
        /\ simplified.tradable = TradeDateAfter(right.last, Len(bars))
        /\ simplified.tradable # None => simplified.confirmed = right.last
    BY DEF SimplifiedFractal, strict, right
  <2>7. \A date \in Nat : TradeDateAfter(date, Len(bars)) # None =>
           /\ TradeDateAfter(date, Len(bars)) = date + 1 /\ date + 1 <= Len(bars)
    BY <2>1 DEF TradeDateAfter, None
  <2>8. /\ strict.formed < strict.confirmed /\ strict.confirmed <= Len(bars)
        /\ strict.tradable # None => strict.tradable = strict.confirmed + 1
                                     /\ strict.tradable <= Len(bars)
    BY <2>1, <2>3, <2>4, <2>5, <2>7
  <2>9. simplified.tradable # None =>
           /\ simplified.formed < simplified.confirmed
           /\ simplified.tradable = simplified.confirmed + 1
           /\ simplified.tradable <= Len(bars)
    BY <2>1, <2>3, <2>4, <2>6, <2>7
  <2> QED
    BY <2>8, <2>9
<1> QED
  BY <1>1, EffectiveBarsStandApart, PTL

-----------------------------------------------------------------------------
(* The trades of a structural backtest *)

Kept == [observed : Nat, tradable : Nat]

\* What evaluate_signals may have kept of a history: an event is seen within it, and
\* tradable on the date on which it is seen.
KeptOk(kept, days) ==
    /\ DOMAIN kept \subseteq Signal
    /\ kept = [s \in DOMAIN kept |-> kept[s]]
    /\ \A s \in DOMAIN kept :
          /\ kept[s] \in Kept /\ kept[s].observed \in 1 .. Len(days)
          /\ kept[s].tradable # NoDate => kept[s].tradable = kept[s].observed

\* The least element of a set of dates is the one that Min chooses.
LEMMA LeastOfSet ==
  ASSUME NEW X \in SUBSET Nat, X # {}
  PROVE  Min(X) \in X /\ \A y \in X : Min(X) <= y
  BY LeastNatural DEF Min

\* The pairs of kept signals of which the first is considered before the second.
Preceding(kept) ==
    {p \in (DOMAIN kept) \X (DOMAIN kept) : Before(kept, p[1], p[2])}

\* Before is a strict order of the kept signals, whatever their dates.
LEMMA BeforeOrders ==
  ASSUME NEW kept, NEW days, KeptOk(kept, days)
  PROVE  Orders(Preceding(kept), DOMAIN kept)
<1> DEFINE D == DOMAIN kept
           R == Preceding(kept)
           First(u) == IF kept[u].tradable # NoDate THEN kept[u].tradable ELSE kept[u].observed
           Lex(s, t) == \/ First(s) < First(t)
                        \/ First(s) = First(t) /\ kept[s].observed < kept[t].observed
                        \/ First(s) = First(t) /\ kept[s].observed = kept[t].observed /\ s < t
<1>1. \A s \in D : First(s) \in Nat /\ kept[s].observed \in Nat /\ s \in Nat
  BY BacktestType DEF KeptOk, Kept
<1>2. ASSUME NEW s \in D, NEW t \in D PROVE Before(kept, s, t) <=> Lex(s, t)
  <2> DEFINE Key(u) == <<First(u), kept[u].observed, u>>
             Differs(i) == Key(s)[i] # Key(t)[i]
             Least(i) == Key(s)[i] < Key(t)[i] /\ ~\E j \in 1 .. i - 1 : Differs(j)
  <2>1. Before(kept, s, t) <=> \E i \in 1 .. 3 : Least(i)
    BY DEF Before
  <2>2. (\E i \in 1 .. 3 : Least(i)) <=> Least(1) \/ Least(2) \/ Least(3)
    <3> HIDE DEF Least
    <3>1. 1 .. 3 = {1, 2, 3}
      OBVIOUS
    <3> QED
      BY <3>1
  <2>3. /\ \A j \in 1 .. 1 - 1 : FALSE
        /\ (\E j \in 1 .. 2 - 1 : Differs(j)) <=> Differs(1)
        /\ (\E j \in 1 .. 3 - 1 : Differs(j)) <=> Differs(1) \/ Differs(2)
    <3> HIDE DEF Differs
    <3>1. 1 .. 1 - 1 = {} /\ 1 .. 2 - 1 = {1} /\ 1 .. 3 - 1 = {1, 2}
      OBVIOUS
    <3> QED
      BY <3>1
  <2>4. /\ Least(1) <=> First(s) < First(t)
        /\ Least(2) <=> kept[s].observed < kept[t].observed /\ First(s) = First(t)
        /\ Least(3) <=> s < t /\ First(s) = First(t) /\ kept[s].observed = kept[t].observed
    <3> HIDE DEF First
    <3>1. \A u : Key(u)[1] = First(u) /\ Key(u)[2] = kept[u].observed /\ Key(u)[3] = u
      OBVIOUS
    <3> HIDE DEF Key
    <3> QED
      BY <2>3, <3>1
  <2> QED
    BY <2>1, <2>2, <2>4
<1>3. \A s, t \in D : <<s, t>> \in R <=> Lex(s, t)
  <2> HIDE DEF Lex
  <2>1. \A s, t \in D : <<s, t>> \in R <=> Before(kept, s, t)
    BY DEF Preceding
  <2> HIDE DEF R, D
  <2> QED
    BY <1>2, <2>1
<1>4. \A s, t, u \in D : Lex(s, t) /\ Lex(t, u) => Lex(s, u)
  <2> HIDE DEF First
  <2> QED
    BY <1>1
<1>5. \A s, t \in D : s # t => Lex(s, t) \/ Lex(t, s)
  <2> HIDE DEF First
  <2> QED
    BY <1>1
<1> HIDE DEF Lex, R
<1> QED
  BY <1>3, <1>4, <1>5 DEF Orders, R

\* The order that InOrder chooses exists.
LEMMA InOrderSorts ==
  ASSUME NEW kept, NEW days, KeptOk(kept, days)
  PROVE  LET order == InOrder(kept)
             n == Cardinality(DOMAIN kept)
         IN  /\ n \in Nat /\ order \in [1 .. n -> DOMAIN kept]
             /\ {order[i] : i \in 1 .. n} = DOMAIN kept
             /\ \A i, j \in 1 .. n : i < j => Before(kept, order[i], order[j])
<1> DEFINE D == DOMAIN kept
           R == Preceding(kept)
           n == Cardinality(D)
           InIt(order) == \A i, j \in DOMAIN order : i < j => Before(kept, order[i], order[j])
<1>1. IsFiniteSet(D) /\ n \in Nat
  BY BacktestType, FS_Subset, FS_CardinalityType DEF KeptOk
<1>2. Orders(R, D)
  BY BeforeOrders
<1>3. PICK order \in [1 .. n -> D] : Sorts(order, D, R)
  <2> HIDE DEF D, R
  <2> QED
    BY <1>1, <1>2, SortedSequence DEF n
<1>4. order \in OrdersOf(kept) /\ InIt(order)
  BY <1>3 DEF OrdersOf, Sorts, Preceding
<1>5. InOrder(kept) = CHOOSE o \in OrdersOf(kept) : InIt(o)
  BY DEF InOrder
<1>6. InOrder(kept) \in OrdersOf(kept) /\ InIt(InOrder(kept))
  <2> HIDE DEF InIt
  <2> QED
    BY <1>4, <1>5
<1> QED
  BY <1>1, <1>6 DEF OrdersOf

-----------------------------------------------------------------------------
Entries(s, kept, days) == ExecuteSignal(kept[s], days)
Entry(s, kept, days) == Min(Entries(s, kept, days))
Exits(s, kept, days) == ExitDates(Entry(s, kept, days), days)
Exit(s, kept, days) == Min(Exits(s, kept, days))

\* A signal that could have been bought, inside the sample, and sold again.
Eligible(s, kept, days) ==
    /\ Entries(s, kept, days) # {} /\ Exits(s, kept, days) # {}
    /\ Entry(s, kept, days) >= OutOfSample

TradeOf(s, kept, days) ==
    [signal |-> s, entry |-> Entry(s, kept, days), exit |-> Exit(s, kept, days)]

\* Of two tradable signals the one that was tradable earlier comes first.
Ahead(s, t, kept) ==
    \/ kept[s].tradable < kept[t].tradable
    \/ kept[s].tradable = kept[t].tradable /\ s < t

\* A signal is bought after it was seen to be tradable, on the first date possible, and
\* sold on the first date possible.
LEMMA EligibleDates ==
  ASSUME NEW kept, NEW days, Len(days) \in Nat, KeptOk(kept, days),
         NEW s \in DOMAIN kept, Entries(s, kept, days) # {}
  PROVE  /\ kept[s].tradable \in Nat \ {NoDate}
         /\ Entry(s, kept, days) \in Entries(s, kept, days)
         /\ Entry(s, kept, days) \in kept[s].tradable + 1 .. Len(days)
         /\ \A d \in Entries(s, kept, days) : Entry(s, kept, days) <= d
         /\ Exits(s, kept, days) # {} =>
               /\ Exit(s, kept, days) \in Exits(s, kept, days)
               /\ Exit(s, kept, days) \in Entry(s, kept, days) + HoldingDays .. Len(days)
               /\ \A d \in Exits(s, kept, days) : Exit(s, kept, days) <= d
<1> DEFINE entries == Entries(s, kept, days)
           exits == Exits(s, kept, days)
<1>1. /\ kept[s] \in Kept /\ kept[s].tradable # NoDate
      /\ kept[s].tradable \in Nat /\ kept[s].tradable = kept[s].observed
  BY DEF KeptOk, Entries, ExecuteSignal, EntryDates, Kept
<1>2. entries \subseteq kept[s].tradable + 1 .. Len(days)
  BY <1>1 DEF Entries, ExecuteSignal, EntryDates, Later
<1>3. kept[s].tradable + 1 .. Len(days) \subseteq Nat
  BY <1>1
<1>4. Entry(s, kept, days) \in entries /\ \A d \in entries : Entry(s, kept, days) <= d
  <2> HIDE DEF entries
  <2>1. entries \in SUBSET Nat /\ entries # {}
    BY <1>2, <1>3 DEF entries
  <2> QED
    BY <2>1, LeastOfSet DEF Entry, entries
<1>5. Entry(s, kept, days) \in Nat
  BY <1>2, <1>3, <1>4
<1>6. exits \subseteq Entry(s, kept, days) + HoldingDays .. Len(days)
  BY DEF Exits, ExitDates
<1>7. exits \subseteq Nat
  BY BacktestType, <1>5, <1>6
<1>8. exits # {} => Exit(s, kept, days) \in exits /\ \A d \in exits : Exit(s, kept, days) <= d
  <2> HIDE DEF exits
  <2> QED
    BY <1>7, LeastOfSet DEF Exit, exits
<1> QED
  BY <1>1, <1>2, <1>4, <1>6, <1>8

\* Between tradable signals, the order of evaluation is that of the dates.
LEMMA BeforeIsAhead ==
  ASSUME NEW kept, NEW days, KeptOk(kept, days),
         NEW s \in DOMAIN kept, NEW t \in DOMAIN kept, Before(kept, s, t),
         kept[s].tradable # NoDate, kept[t].tradable # NoDate
  PROVE  Ahead(s, t, kept)
<1>1. /\ kept[s].tradable = kept[s].observed /\ kept[t].tradable = kept[t].observed
      /\ s \in Nat /\ t \in Nat
  BY BacktestType DEF KeptOk
<1> DEFINE Key(u) == <<IF kept[u].tradable # NoDate THEN kept[u].tradable ELSE kept[u].observed,
                       kept[u].observed, u>>
<1>2. PICK i \in 1 .. 3 : Key(s)[i] < Key(t)[i] /\ \A j \in 1 .. i - 1 : Key(s)[j] = Key(t)[j]
  BY DEF Before
<1>3. /\ Key(s)[1] = kept[s].tradable /\ Key(s)[2] = kept[s].tradable /\ Key(s)[3] = s
      /\ Key(t)[1] = kept[t].tradable /\ Key(t)[2] = kept[t].tradable /\ Key(t)[3] = t
  BY <1>1
<1> HIDE DEF Key
<1>4. CASE i = 1
  BY <1>2, <1>3, <1>4 DEF Ahead
<1>5. CASE i = 2
  BY <1>2, <1>3, <1>5 DEF Ahead
<1>6. CASE i = 3
  <2>1. 1 \in 1 .. i - 1
    BY <1>6
  <2> QED
    BY <1>2, <1>3, <1>6, <2>1 DEF Ahead
<1> QED
  BY <1>4, <1>5, <1>6

-----------------------------------------------------------------------------
Trade == [signal : Signal, entry : Nat, exit : Nat]

\* The i-th trade is that of a signal considered, which its position is closed by.
TradeOk(i, found, done, kept, days) ==
    LET trade == found.trades[i]
    IN  /\ trade.signal \in done /\ Eligible(trade.signal, kept, days)
        /\ trade = TradeOf(trade.signal, kept, days)
        /\ trade.exit <= found.occupied

InTurn(done) == \A i, j \in DOMAIN done : i < j => done[i].exit < done[j].entry

\* A signal has its trade, or one considered before it was still open.
LeftOut(s, found, kept, days) ==
    \/ \E i \in DOMAIN found.trades : found.trades[i].signal = s
    \/ \E i \in DOMAIN found.trades :
          /\ Before(kept, found.trades[i].signal, s)
          /\ Entry(s, kept, days) <= found.trades[i].exit

\* What has been found when the signals of done have been considered.
Chosen(found, done, kept, days) ==
    /\ found \in [occupied : Nat, trades : Seq(Trade)]
    /\ \A i \in DOMAIN found.trades : TradeOk(i, found, done, kept, days)
    /\ InTurn(found.trades)
    /\ \/ found.occupied = NoDate
       \/ \E i \in DOMAIN found.trades : found.trades[i].exit = found.occupied
    /\ \A s \in done : Eligible(s, kept, days) => LeftOut(s, found, kept, days)

\* Considering one signal more.
LEMMA ConsiderKeeps ==
  ASSUME NEW kept, NEW days, Len(days) \in Nat, KeptOk(kept, days),
         NEW found, NEW done \in SUBSET (DOMAIN kept), NEW s \in DOMAIN kept,
         Chosen(found, done, kept, days),
         \A t \in done : Before(kept, t, s)
  PROVE  Chosen(Consider(found, s, kept[s], days), done \cup {s}, kept, days)
<1> DEFINE entry == Entry(s, kept, days)
           exit == Exit(s, kept, days)
           trade == TradeOf(s, kept, days)
           n == Len(found.trades)
           more == Append(found.trades, trade)
           next == Consider(found, s, kept[s], days)
           Takes == Eligible(s, kept, days) /\ entry > found.occupied
<1>1. /\ found.trades \in Seq(Trade) /\ found.occupied \in Nat
      /\ n \in Nat /\ DOMAIN found.trades = 1 .. n
  BY LenProperties DEF Chosen
<1>2. Eligible(s, kept, days) =>
         /\ entry \in Nat /\ exit \in Nat /\ entry > 0 /\ exit >= entry /\ trade \in Trade
  <2> SUFFICES ASSUME Eligible(s, kept, days)
               PROVE  /\ entry \in Nat /\ exit \in Nat /\ entry > 0 /\ exit >= entry
                      /\ trade \in Trade
    OBVIOUS
  <2>1. /\ kept[s].tradable \in Nat /\ entry \in kept[s].tradable + 1 .. Len(days)
        /\ exit \in entry + HoldingDays .. Len(days)
    BY EligibleDates DEF Eligible
  <2>2. s \in Signal
    BY DEF KeptOk
  <2> HIDE DEF entry, exit
  <2>3. entry \in Nat /\ exit \in Nat /\ entry > 0 /\ exit >= entry
    BY <2>1, BacktestType
  <2> QED
    BY <2>2, <2>3 DEF Trade, TradeOf, entry, exit
<1>3. next = IF Takes THEN [occupied |-> exit, trades |-> more] ELSE found
  <2>1. Entries(s, kept, days) = {} \/ entry \in Nat
    BY EligibleDates
  <2>2. /\ ExecuteSignal(kept[s], days) = Entries(s, kept, days)
        /\ Min(ExecuteSignal(kept[s], days)) = entry
        /\ ExitDates(Min(ExecuteSignal(kept[s], days)), days) = Exits(s, kept, days)
        /\ Min(ExitDates(Min(ExecuteSignal(kept[s], days)), days)) = exit
    BY DEF Entries, Entry, Exits, Exit
  <2>3. next = IF \/ Entries(s, kept, days) = {} \/ entry <= found.occupied
                  \/ entry < OutOfSample \/ Exits(s, kept, days) = {}
               THEN found
               ELSE [occupied |-> exit,
                     trades |-> Append(found.trades,
                                       [signal |-> s, entry |-> entry, exit |-> exit])]
    BY <2>2 DEF Consider
  <2> HIDE DEF entry, exit, next
  <2>4. Takes <=> ~(\/ Entries(s, kept, days) = {} \/ entry <= found.occupied
                    \/ entry < OutOfSample \/ Exits(s, kept, days) = {})
    BY <1>1, <2>1, BacktestType DEF Eligible, entry
  <2>5. trade = [signal |-> s, entry |-> entry, exit |-> exit]
    BY DEF TradeOf, entry, exit
  <2> QED
    BY <2>3, <2>4, <2>5
<1> HIDE DEF next
<1>4. CASE ~Takes
  <2>1. next = found
    BY <1>3, <1>4
  <2>2. Eligible(s, kept, days) => LeftOut(s, found, kept, days)
    <3> SUFFICES ASSUME Eligible(s, kept, days) PROVE LeftOut(s, found, kept, days)
      OBVIOUS
    <3>1. entry <= found.occupied /\ found.occupied # NoDate
      BY <1>1, <1>2, <1>4 DEF NoDate
    <3>2. PICK i \in DOMAIN found.trades : found.trades[i].exit = found.occupied
      BY <3>1 DEF Chosen
    <3>3. found.trades[i].signal \in done
      BY <3>2 DEF Chosen, TradeOk
    <3> QED
      BY <3>1, <3>2, <3>3 DEF LeftOut
  <2>3. \A i \in DOMAIN found.trades : TradeOk(i, found, done \cup {s}, kept, days)
    BY DEF Chosen, TradeOk
  <2>4. \A t \in done \cup {s} : Eligible(t, kept, days) => LeftOut(t, found, kept, days)
    BY <2>2 DEF Chosen
  <2> HIDE DEF Takes
  <2> QED
    BY <2>1, <2>3, <2>4 DEF Chosen, next
<1>5. CASE Takes
  <2>1. next = [occupied |-> exit, trades |-> more]
    BY <1>3, <1>5
  <2>2. /\ Eligible(s, kept, days) /\ entry > found.occupied
        /\ entry \in Nat /\ exit \in Nat /\ exit >= entry /\ trade \in Trade
    BY <1>2, <1>5
  <2>3. /\ more \in Seq(Trade) /\ DOMAIN more = 1 .. n + 1 /\ more[n + 1] = trade
        /\ \A i \in 1 .. n : more[i] = found.trades[i]
    <3> HIDE DEF trade
    <3> QED
      BY <1>1, <2>2, AppendProperties, LenProperties
  <2>4. trade.signal = s /\ trade.entry = entry /\ trade.exit = exit
    BY DEF TradeOf
  <2> HIDE DEF Takes, trade, more, entry, exit
  <2>5. \A i : i \in 1 .. n + 1 <=> i \in 1 .. n \/ i = n + 1
    BY <1>1
  <2>6. ASSUME NEW i \in 1 .. n
        PROVE  /\ found.trades[i].signal \in done
               /\ Eligible(found.trades[i].signal, kept, days)
               /\ found.trades[i] = TradeOf(found.trades[i].signal, kept, days)
               /\ found.trades[i].exit <= found.occupied /\ found.trades[i].exit \in Nat
    <3>1. found.trades[i] \in Trade
      BY <1>1
    <3> QED
      BY <1>1, <3>1 DEF Chosen, TradeOk, Trade
  <2>7. /\ next \in [occupied : Nat, trades : Seq(Trade)]
        /\ next.trades = more /\ next.occupied = exit
    BY <2>1, <2>2, <2>3
  <2>8. ASSUME NEW i \in DOMAIN more PROVE TradeOk(i, next, done \cup {s}, kept, days)
    <3>1. CASE i = n + 1
      <4>1. more[i] = trade /\ exit <= exit
        BY <2>2, <2>3, <3>1
      <4>2. TradeOf(s, kept, days) = trade
        BY DEF trade
      <4> QED
        BY <2>2, <2>4, <2>7, <4>1, <4>2 DEF TradeOk
    <3>2. CASE i \in 1 .. n
      <4>1. more[i] = found.trades[i] /\ more[i].exit <= exit
        BY <1>1, <2>2, <2>3, <2>6, <3>2
      <4> QED
        BY <2>6, <2>7, <3>2, <4>1 DEF TradeOk
    <3> QED
      BY <2>3, <2>5, <3>1, <3>2
  <2>9. InTurn(more)
    <3> SUFFICES ASSUME NEW i \in 1 .. n + 1, NEW j \in 1 .. n + 1, i < j
                 PROVE  more[i].exit < more[j].entry
      BY <2>3 DEF InTurn
    <3>1. i \in 1 .. n
      BY <1>1
    <3>2. CASE j = n + 1
      <4>1. more[j].entry = entry
        BY <2>3, <2>4, <3>2
      <4>2. /\ more[i].exit = found.trades[i].exit
            /\ found.trades[i].exit <= found.occupied /\ found.trades[i].exit \in Nat
        BY <2>3, <2>6, <3>1
      <4> QED
        BY ONLY <1>1, <2>2, <4>1, <4>2
    <3>3. CASE j \in 1 .. n
      BY <1>1, <2>3, <3>1, <3>3 DEF Chosen, InTurn
    <3> QED
      BY <2>5, <3>2, <3>3
  <2>10. \E i \in DOMAIN more : more[i].exit = exit
    <3>1. n + 1 \in DOMAIN more
      BY <2>3, <2>5
    <3> QED
      BY <2>3, <2>4, <3>1
  <2>11. ASSUME NEW t \in done \cup {s}, Eligible(t, kept, days)
         PROVE  LeftOut(t, next, kept, days)
    <3>1. CASE t = s
      <4>1. n + 1 \in DOMAIN more
        BY <2>3, <2>5
      <4> QED
        BY <2>3, <2>4, <2>7, <3>1, <4>1 DEF LeftOut
    <3>2. CASE t \in done
      <4>1. LeftOut(t, found, kept, days)
        BY <2>11, <3>2 DEF Chosen
      <4>2. \A i \in DOMAIN found.trades : i \in DOMAIN more /\ more[i] = found.trades[i]
        BY <1>1, <2>3, <2>5
      <4> QED
        BY <2>7, <4>1, <4>2 DEF LeftOut
    <3> QED
      BY <3>1, <3>2
  <2>12. Chosen(next, done \cup {s}, kept, days)
    BY <2>7, <2>8, <2>9, <2>10, <2>11 DEF Chosen
  <2> QED
    BY <2>12 DEF next
<1> QED
  BY <1>4, <1>5

\* A turn over the signals leaves a date and a list of trades.
LEMMA ConsiderType ==
  ASSUME NEW kept, NEW days, Len(days) \in Nat, KeptOk(kept, days),
         NEW found \in [occupied : Nat, trades : Seq(Trade)], NEW s \in DOMAIN kept
  PROVE  Consider(found, s, kept[s], days) \in [occupied : Nat, trades : Seq(Trade)]
<1> DEFINE entry == Entry(s, kept, days)
           exit == Exit(s, kept, days)
           trade == TradeOf(s, kept, days)
<1>1. \/ Consider(found, s, kept[s], days) = found
      \/ /\ Entries(s, kept, days) # {} /\ Exits(s, kept, days) # {}
         /\ Consider(found, s, kept[s], days)
              = [occupied |-> exit, trades |-> Append(found.trades, trade)]
  BY DEF Consider, TradeOf, Entries, Entry, Exits, Exit
<1>2. ASSUME Entries(s, kept, days) # {}, Exits(s, kept, days) # {}
      PROVE  exit \in Nat /\ trade \in Trade
  <2>1. /\ kept[s].tradable \in Nat /\ entry \in kept[s].tradable + 1 .. Len(days)
        /\ exit \in entry + HoldingDays .. Len(days)
    BY <1>2, EligibleDates
  <2>2. s \in Signal
    BY DEF KeptOk
  <2> HIDE DEF entry, exit
  <2>3. entry \in Nat /\ exit \in Nat
    BY <2>1, BacktestType
  <2> QED
    BY <2>2, <2>3 DEF Trade, TradeOf, entry, exit
<1>3. found.trades \in Seq(Trade)
  OBVIOUS
<1> HIDE DEF entry, exit, trade
<1>4. CASE /\ exit \in Nat /\ trade \in Trade
           /\ Consider(found, s, kept[s], days)
                = [occupied |-> exit, trades |-> Append(found.trades, trade)]
  <2>1. Append(found.trades, trade) \in Seq(Trade)
    BY <1>3, <1>4, AppendProperties
  <2> QED
    BY <1>4, <2>1
<1> QED
  BY <1>1, <1>2, <1>4

\* The function by which Considered is defined exists.
LEMMA ConsideredSteps ==
  ASSUME NEW kept, NEW days, Len(days) \in Nat, KeptOk(kept, days)
  PROVE  LET considered == Considered(kept, days)
             order == InOrder(kept)
         IN  /\ considered[0] = [occupied |-> NoDate, trades |-> <<>>]
             /\ \A n \in 1 .. Cardinality(DOMAIN kept) :
                   considered[n] = Consider(considered[n - 1], order[n], kept[order[n]], days)
<1> DEFINE N == Cardinality(DOMAIN kept)
           Found == [occupied : Nat, trades : Seq(Trade)]
           order == InOrder(kept)
           base == [occupied |-> NoDate, trades |-> <<>>]
           Turn(n, found) == IF n \in 1 .. N
                             THEN Consider(found, order[n], kept[order[n]], days) ELSE base
           step == [nf \in Nat \X Found |-> Turn(nf[1], nf[2])]
           Body(f) == [n \in 0 .. N |->
                         IF n = 0 THEN base
                         ELSE Consider(f[n - 1], order[n], kept[order[n]], days)]
<1>1. N \in Nat /\ base \in Found /\ \A n \in 1 .. N : order[n] \in DOMAIN kept
  <2>1. N \in Nat /\ order \in [1 .. N -> DOMAIN kept]
    BY InOrderSorts
  <2>2. <<>> \in Seq(Trade) /\ NoDate \in Nat
    BY EmptySeq DEF NoDate
  <2> HIDE DEF N, order
  <2> QED
    BY <2>1, <2>2
<1>2. step \in [Nat \X Found -> Found]
  <2>1. \A n \in Nat, found \in Found : Turn(n, found) \in Found
    <3> SUFFICES ASSUME NEW n \in Nat, NEW found \in Found PROVE Turn(n, found) \in Found
      OBVIOUS
    <3>1. n \in 1 .. N => Consider(found, order[n], kept[order[n]], days) \in Found
      <4> HIDE DEF order, N
      <4> QED
        BY <1>1, ConsiderType
    <3> HIDE DEF Found, base
    <3> QED
      BY <1>1, <3>1
  <2> HIDE DEF Turn, Found
  <2> QED
    BY <2>1
<1>3. PICK f \in [0 .. N -> Found] : Recursive(f, base, step, N)
  <2>1. N \in Nat /\ base \in Found
    BY <1>1
  <2> HIDE DEF N, base, step, Found
  <2> QED
    BY <1>2, <2>1, RecursiveFunction
<1>4. \A n \in 1 .. N : f[n] = Consider(f[n - 1], order[n], kept[order[n]], days)
  <2>1. ASSUME NEW n \in 1 .. N
        PROVE  f[n] = Consider(f[n - 1], order[n], kept[order[n]], days)
    <3>1. n \in Nat /\ n - 1 \in 0 .. N /\ f[n - 1] \in Found
      <4> HIDE DEF Found, N
      <4> QED
        BY <1>1
    <3>2. step[<<n, f[n - 1]>>] = Turn(n, f[n - 1])
      <4> HIDE DEF Turn, Found
      <4> QED
        BY <3>1
    <3> QED
      BY <1>3, <3>2 DEF Recursive
  <2> QED
    BY <2>1
<1>5. f = Body(f)
  BY <1>1, <1>3, <1>4 DEF Recursive
<1>6. Considered(kept, days) = CHOOSE g : g = Body(g)
  BY DEF Considered
<1>7. Considered(kept, days) = Body(Considered(kept, days))
  <2> HIDE DEF Body
  <2> QED
    BY <1>5, <1>6
<1> DEFINE considered == Considered(kept, days)
<1> HIDE DEF considered
<1>8. considered = Body(considered)
  BY <1>7 DEF considered
<1>9. /\ considered[0] = base
      /\ \A n \in 1 .. N :
            considered[n] = Consider(considered[n - 1], order[n], kept[order[n]], days)
  BY <1>1, <1>8
<1> QED
  BY <1>9 DEF considered

\* What evaluate_signals makes of a history.
LEMMA EvaluationIsChosen ==
  ASSUME NEW kept, NEW days, Len(days) \in Nat, KeptOk(kept, days)
  PROVE  \E found : /\ Chosen(found, DOMAIN kept, kept, days)
                    /\ EvaluateSignals(kept, days) = found.trades
<1> DEFINE N == Cardinality(DOMAIN kept)
           order == InOrder(kept)
           considered == Considered(kept, days)
           Done(n) == {order[i] : i \in 1 .. n}
           P == {n \in 0 .. N : Chosen(considered[n], Done(n), kept, days)}
<1>1. /\ N \in Nat /\ order \in [1 .. N -> DOMAIN kept] /\ Done(N) = DOMAIN kept
      /\ \A i, j \in 1 .. N : i < j => Before(kept, order[i], order[j])
  BY InOrderSorts
<1>2. /\ considered[0] = [occupied |-> NoDate, trades |-> <<>>]
      /\ \A n \in 1 .. N :
            considered[n] = Consider(considered[n - 1], order[n], kept[order[n]], days)
  BY ConsideredSteps
<1> HIDE DEF N, order, considered
<1>3. 0 \in P
  <2>1. Done(0) = {} /\ 0 \in 0 .. N
    BY <1>1
  <2>2. <<>> \in Seq(Trade) /\ DOMAIN <<>> = {} /\ NoDate \in Nat
    BY EmptySeq DEF NoDate
  <2> HIDE DEF Done
  <2>3. Chosen(considered[0], Done(0), kept, days)
    BY <1>2, <2>1, <2>2 DEF Chosen, InTurn
  <2> QED
    BY <2>1, <2>3
<1>4. ASSUME NEW n \in P, n < N PROVE n + 1 \in P
  <2>1. /\ n \in Nat /\ n + 1 \in 1 .. N /\ (n + 1) - 1 = n /\ n + 1 \in 0 .. N
        /\ \A i : i \in 1 .. n + 1 <=> i \in 1 .. n \/ i = n + 1
        /\ \A i \in 1 .. n : i \in 1 .. N /\ i < n + 1
    BY <1>1, <1>4
  <2> DEFINE s == order[n + 1]
  <2>2. /\ s \in DOMAIN kept /\ Done(n) \in SUBSET (DOMAIN kept)
        /\ \A t \in Done(n) : Before(kept, t, s)
        /\ Done(n + 1) = Done(n) \cup {s}
    BY <1>1, <2>1
  <2>3. considered[n + 1] = Consider(considered[n], s, kept[s], days)
    BY <1>2, <2>1
  <2>4. Chosen(considered[n], Done(n), kept, days)
    OBVIOUS
  <2> HIDE DEF Done, s
  <2>5. Chosen(considered[n + 1], Done(n + 1), kept, days)
    BY <2>2, <2>3, <2>4, ConsiderKeeps
  <2> QED
    BY <2>1, <2>5
<1>5. N \in P
  <2>1. P \in SUBSET (0 .. N)
    OBVIOUS
  <2> HIDE DEF P
  <2>2. P = 0 .. N
    BY <1>1, <1>3, <1>4, <2>1, BoundedInduction
  <2> QED
    BY <1>1, <2>2
<1>6. Chosen(considered[N], DOMAIN kept, kept, days)
  BY <1>1, <1>5
<1>7. EvaluateSignals(kept, days) = considered[N].trades
  BY DEF EvaluateSignals, considered, N
<1> QED
  BY <1>6, <1>7

-----------------------------------------------------------------------------
\* The inductive invariant of a backtest: what is kept is what the replay has shown, and
\* the trades are the evaluation of it.
BacktestInv ==
    /\ dailyBars \in Seq(DailyBar)
    /\ shown \in [Signal -> [stage : Stage, tradable : Nat]]
    /\ KeptOk(confirmed, dailyBars)
    /\ \A s \in DOMAIN confirmed : confirmed[s].tradable = shown[s].tradable
    /\ \A s \in Signal \ DOMAIN confirmed : shown[s].tradable = NoDate
    /\ trades = EvaluateSignals(confirmed, dailyBars)

\* At first no signal is tradable, and there are no trades.
LEMMA BacktestStarts == BacktestInit => BacktestInv
<1> SUFFICES ASSUME BacktestInit PROVE BacktestInv
  OBVIOUS
<1>1. /\ dailyBars \in Seq(DailyBar) /\ Len(dailyBars) \in Nat
      /\ shown \in [Signal -> [stage : Stage, tradable : Nat]]
      /\ \A s \in Signal : shown[s].tradable = NoDate
  BY EmptySeq DEF BacktestInit, Stage, NoDate
<1>2. DOMAIN confirmed = {} /\ KeptOk(confirmed, dailyBars)
  <2>1. confirmed = <<>> /\ DOMAIN confirmed = {}
    BY DEF BacktestInit
  <2>2. confirmed = [s \in DOMAIN confirmed |-> confirmed[s]]
    BY <2>1
  <2> QED
    BY <2>1, <2>2 DEF KeptOk
<1>3. PICK found : /\ Chosen(found, DOMAIN confirmed, confirmed, dailyBars)
                   /\ EvaluateSignals(confirmed, dailyBars) = found.trades
  BY <1>1, <1>2, EvaluationIsChosen
<1>4. found.trades \in Seq(Trade) /\ DOMAIN found.trades = {}
  BY <1>2, <1>3 DEF Chosen, TradeOk
<1>5. found.trades = <<>>
  <2>1. Len(found.trades) = 0
    <3>1. Len(found.trades) \in Nat /\ DOMAIN found.trades = 1 .. Len(found.trades)
      BY <1>4, LenProperties
    <3>2. 1 \notin 1 .. Len(found.trades)
      BY <1>4, <3>1
    <3> QED
      BY <3>1, <3>2
  <2> QED
    BY <1>4, <2>1, EmptySeq
<1> QED
  BY <1>1, <1>2, <1>3, <1>5 DEF BacktestInit, BacktestInv

\* What a step may change of the events kept and of the history.
Grows(kept, days, kept2, days2) ==
    /\ Len(days) \in Nat /\ Len(days2) \in Nat /\ Len(days) <= Len(days2)
    /\ KeptOk(kept, days) /\ KeptOk(kept2, days2)
    /\ \A d \in 1 .. Len(days) : days2[d] = days[d]
    /\ \A s \in DOMAIN kept :
          s \in DOMAIN kept2 /\ (kept[s].tradable # NoDate => kept2[s] = kept[s])
    /\ \A s \in DOMAIN kept2 : kept2[s].tradable \in 1 .. Len(days)
          => s \in DOMAIN kept /\ kept2[s] = kept[s]

\* An event is replaced only by one of today, so the next bar keeps the invariant.
LEMMA NextBarKeeps ==
  ASSUME BacktestInv, NEW bar \in DailyBar, NEW stage \in [Signal -> Stage], NextBar(bar, stage)
  PROVE  BacktestInv' /\ Grows(confirmed, dailyBars, confirmed', dailyBars')
<1> DEFINE offered == {s \in Signal : stage[s] \in {"confirmed", "tradable"}}
           n == Len(dailyBars)
           event(s) == [observed |-> n + 1, tradable |-> shown'[s].tradable]
<1>1. /\ n \in Nat /\ dailyBars' \in Seq(DailyBar) /\ Len(dailyBars') = n + 1
      /\ \A d \in 1 .. n : dailyBars'[d] = dailyBars[d]
  <2>1. dailyBars \in Seq(DailyBar) /\ dailyBars' = Append(dailyBars, bar)
    BY DEF BacktestInv, NextBar
  <2> QED
    BY <2>1, AppendProperties, LenProperties
<1>2. /\ shown' \in [Signal -> [stage : Stage, tradable : Nat]]
      /\ \A s \in Signal :
            shown'[s].tradable = IF stage[s] = "tradable" /\ shown[s].tradable = NoDate
                                 THEN n + 1 ELSE shown[s].tradable
  <2>1. shown' = [s \in Signal |-> ShowNext(s, stage[s])]
    BY DEF NextBar
  <2>2. \A s \in Signal : ShowNext(s, stage[s]) \in [stage : Stage, tradable : Nat]
    BY <1>1 DEF ShowNext, Today, BacktestInv
  <2>3. \A s \in Signal :
            ShowNext(s, stage[s]).tradable =
              IF stage[s] = "tradable" /\ shown[s].tradable = NoDate THEN n + 1
              ELSE shown[s].tradable
    BY DEF ShowNext, Today
  <2> QED
    BY <2>1, <2>2, <2>3
<1>3. /\ DOMAIN confirmed \subseteq Signal
      /\ DOMAIN confirmed' = DOMAIN confirmed \cup offered
      /\ \A s \in DOMAIN confirmed' :
            confirmed'[s] = IF s \in offered THEN Deduplicated(confirmed, s, event(s))
                            ELSE confirmed[s]
      /\ confirmed' = [s \in DOMAIN confirmed' |-> confirmed'[s]]
  <2>1. confirmed' = [s \in DOMAIN confirmed \cup offered |->
                        IF s \in offered THEN Deduplicated(confirmed, s, SeenEvent(s, shown'))
                        ELSE confirmed[s]]
    BY DEF NextBar
  <2>2. \A s : SeenEvent(s, shown') = event(s)
    BY DEF SeenEvent, Today
  <2>3. DOMAIN confirmed \subseteq Signal
    BY DEF BacktestInv, KeptOk
  <2> HIDE DEF event, offered
  <2> QED
    BY <2>1, <2>2, <2>3
<1>4. \A s \in DOMAIN confirmed :
         /\ confirmed[s] \in Kept /\ confirmed[s].observed \in 1 .. n
         /\ confirmed[s].tradable = shown[s].tradable /\ confirmed[s].tradable \in Nat
         /\ confirmed[s].tradable # NoDate =>
               confirmed[s].tradable = confirmed[s].observed /\ confirmed[s].tradable \in 1 .. n
  BY DEF BacktestInv, KeptOk, Kept
<1>5. \A s \in Signal \ DOMAIN confirmed : shown[s].tradable = NoDate
  BY DEF BacktestInv
<1>6. ASSUME NEW s \in DOMAIN confirmed'
      PROVE  \/ /\ s \in DOMAIN confirmed /\ confirmed'[s] = confirmed[s]
                /\ confirmed[s].tradable = shown'[s].tradable
             \/ /\ s \in DOMAIN confirmed => confirmed[s].tradable = NoDate
                /\ confirmed'[s] = event(s) /\ shown'[s].tradable \in {NoDate, n + 1}
  <2>1. s \in Signal /\ (s \notin offered => s \in DOMAIN confirmed /\ stage[s] # "tradable")
    BY <1>3
  <2>2. CASE s \notin offered
    BY <1>2, <1>3, <1>4, <2>1, <2>2
  <2>3. CASE s \in offered
    <3>1. confirmed'[s] = IF \/ s \notin DOMAIN confirmed
                             \/ confirmed[s].tradable = NoDate /\ shown'[s].tradable # NoDate
                          THEN event(s) ELSE confirmed[s]
      BY <1>3, <2>3 DEF Deduplicated
    <3> HIDE DEF event, offered
    <3> QED
      BY <1>2, <1>4, <1>5, <2>1, <3>1
  <2> QED
    BY <2>2, <2>3
<1>7. \A s \in DOMAIN confirmed' :
         /\ confirmed'[s] \in Kept /\ confirmed'[s].observed \in 1 .. n + 1
         /\ confirmed'[s].tradable # NoDate => confirmed'[s].tradable = confirmed'[s].observed
         /\ confirmed'[s].tradable = shown'[s].tradable
  <2> SUFFICES ASSUME NEW s \in DOMAIN confirmed'
               PROVE  /\ confirmed'[s] \in Kept /\ confirmed'[s].observed \in 1 .. n + 1
                      /\ confirmed'[s].tradable # NoDate =>
                            confirmed'[s].tradable = confirmed'[s].observed
                      /\ confirmed'[s].tradable = shown'[s].tradable
    OBVIOUS
  <2>1. CASE s \in DOMAIN confirmed /\ confirmed'[s] = confirmed[s]
             /\ confirmed[s].tradable = shown'[s].tradable
    BY <1>1, <1>4, <2>1
  <2>2. CASE confirmed'[s] = event(s) /\ shown'[s].tradable \in {NoDate, n + 1}
    <3>1. event(s) \in Kept /\ event(s).observed = n + 1 /\ event(s).tradable = shown'[s].tradable
      BY <1>1, <2>2 DEF Kept, NoDate
    <3> HIDE DEF event
    <3> QED
      BY <1>1, <2>2, <3>1
  <2> QED
    BY <1>6, <2>1, <2>2
<1>8. KeptOk(confirmed', dailyBars')
  BY <1>1, <1>3, <1>7 DEF KeptOk
<1>9. \A s \in Signal \ DOMAIN confirmed' : shown'[s].tradable = NoDate
  BY <1>2, <1>3, <1>5
<1>10. trades' = EvaluateSignals(confirmed', dailyBars')
  BY DEF NextBar
<1>11. BacktestInv'
  BY <1>1, <1>2, <1>7, <1>8, <1>9, <1>10 DEF BacktestInv
<1>12. \A s \in DOMAIN confirmed :
          /\ s \in DOMAIN confirmed'
          /\ confirmed[s].tradable # NoDate => confirmed'[s] = confirmed[s]
  BY <1>3, <1>6
<1>13. \A s \in DOMAIN confirmed' : confirmed'[s].tradable \in 1 .. n
          => s \in DOMAIN confirmed /\ confirmed'[s] = confirmed[s]
  <2> SUFFICES ASSUME NEW s \in DOMAIN confirmed', confirmed'[s].tradable \in 1 .. n
               PROVE  s \in DOMAIN confirmed /\ confirmed'[s] = confirmed[s]
    OBVIOUS
  <2>1. shown'[s].tradable \notin {NoDate, n + 1}
    BY <1>1, <1>7 DEF NoDate
  <2> QED
    BY <1>6, <2>1
<1>14. KeptOk(confirmed, dailyBars)
  BY DEF BacktestInv
<1>15. Grows(confirmed, dailyBars, confirmed', dailyBars')
  <2> HIDE DEF event, offered
  <2> QED
    BY <1>1, <1>8, <1>12, <1>13, <1>14 DEF Grows
<1> QED
  BY <1>11, <1>15

\* A further day keeps signals as they were confirmed, and evaluates them anew.
LEMMA BacktestKeeps == BacktestInv /\ [BacktestNext]_backtestVars => BacktestInv'
<1> SUFFICES ASSUME BacktestInv, [BacktestNext]_backtestVars PROVE BacktestInv'
  OBVIOUS
<1>1. CASE BacktestNext
  BY <1>1, NextBarKeeps DEF BacktestNext
<1>2. CASE UNCHANGED backtestVars
  BY <1>2 DEF BacktestInv, backtestVars, KeptOk
<1> QED
  BY <1>1, <1>2

\* What is kept of each signal in every state, and that the trades follow from it.
THEOREM BacktestInvariance == BacktestSpec => []BacktestInv
<1> QED
  BY BacktestStarts, BacktestKeeps, PTL DEF BacktestSpec

\* The evaluation of every state is one that was chosen in turn.
LEMMA TradesAreChosen ==
  ASSUME BacktestInv
  PROVE  \E found : Chosen(found, DOMAIN confirmed, confirmed, dailyBars) /\ trades = found.trades
<1>1. Len(dailyBars) \in Nat
  BY LenProperties DEF BacktestInv
<1> QED
  BY <1>1, EvaluationIsChosen DEF BacktestInv

\* What each trade of an evaluation says of its signal and its dates.
LEMMA TradesByDate ==
  ASSUME NEW kept, NEW days, Len(days) \in Nat, KeptOk(kept, days),
         NEW found, Chosen(found, DOMAIN kept, kept, days),
         NEW i \in DOMAIN found.trades
  PROVE  LET trade == found.trades[i]
             s == trade.signal
         IN  /\ s \in DOMAIN kept /\ Eligible(s, kept, days)
             /\ trade = TradeOf(s, kept, days)
             /\ trade.entry = Entry(s, kept, days) /\ trade.exit = Exit(s, kept, days)
             /\ kept[s].tradable \in Nat \ {0} /\ kept[s].tradable < trade.entry
             /\ trade.entry \in Nat /\ trade.exit \in Nat
             /\ trade.entry + HoldingDays <= trade.exit /\ trade.entry <= trade.exit
             /\ trade.entry >= OutOfSample /\ trade.exit <= Len(days)
<1> DEFINE trade == found.trades[i]
           s == trade.signal
<1>1. s \in DOMAIN kept /\ Eligible(s, kept, days) /\ trade = TradeOf(s, kept, days)
  BY DEF Chosen, TradeOk
<1>2. trade.entry = Entry(s, kept, days) /\ trade.exit = Exit(s, kept, days)
  BY <1>1 DEF TradeOf
<1>3. /\ kept[s].tradable \in Nat \ {0}
      /\ Entry(s, kept, days) \in kept[s].tradable + 1 .. Len(days)
      /\ Exit(s, kept, days) \in Entry(s, kept, days) + HoldingDays .. Len(days)
      /\ Entry(s, kept, days) >= OutOfSample
  BY <1>1, EligibleDates DEF Eligible, NoDate
<1> HIDE DEF s, trade
<1>4. /\ kept[s].tradable < trade.entry /\ trade.entry \in Nat /\ trade.exit \in Nat
      /\ trade.entry + HoldingDays <= trade.exit /\ trade.entry <= trade.exit
      /\ trade.exit <= Len(days)
  BY BacktestType, <1>2, <1>3
<1> QED
  BY <1>1, <1>2, <1>3, <1>4 DEF s, trade

\* The trades taken, in the order of their keys, do not overlap.
LEMMA PositionsApart == BacktestInv => OnePositionAtATime
<1> SUFFICES ASSUME BacktestInv PROVE OnePositionAtATime
  OBVIOUS
<1>1. PICK found : Chosen(found, DOMAIN confirmed, confirmed, dailyBars) /\ trades = found.trades
  BY TradesAreChosen
<1>2. Len(dailyBars) \in Nat /\ KeptOk(confirmed, dailyBars)
  BY LenProperties DEF BacktestInv
<1>3. \A i \in DOMAIN trades :
         /\ trades[i].signal \in DOMAIN confirmed
         /\ trades[i] = TradeOf(trades[i].signal, confirmed, dailyBars)
         /\ confirmed[trades[i].signal].tradable \in Nat \ {0}
         /\ confirmed[trades[i].signal].tradable < trades[i].entry
         /\ trades[i].entry \in Nat /\ trades[i].exit \in Nat
         /\ trades[i].entry + HoldingDays <= trades[i].exit /\ trades[i].entry <= trades[i].exit
         /\ trades[i].entry >= OutOfSample
  BY <1>1, <1>2, TradesByDate
<1>4. ASSUME NEW i \in DOMAIN trades
      PROVE  /\ trades[i].entry > shown[trades[i].signal].tradable
             /\ shown[trades[i].signal].tradable # NoDate
             /\ trades[i].exit >= trades[i].entry + HoldingDays
             /\ trades[i].entry >= OutOfSample
  <2>1. shown[trades[i].signal].tradable = confirmed[trades[i].signal].tradable
    BY <1>3 DEF BacktestInv
  <2> QED
    BY <1>3, <2>1 DEF NoDate
<1>5. ASSUME NEW i \in DOMAIN trades, NEW j \in DOMAIN trades, i < j
      PROVE  trades[i].exit < trades[j].entry /\ trades[i].signal # trades[j].signal
  <2>1. trades[i].exit < trades[j].entry
    BY <1>1, <1>5 DEF Chosen, InTurn
  <2>2. trades[i].signal = trades[j].signal => trades[i] = trades[j]
    BY <1>3
  <2>3. trades[i].entry <= trades[i].exit /\ trades[i].entry \in Nat /\ trades[i].exit \in Nat
    BY <1>3
  <2> QED
    BY <2>1, <2>2, <2>3
<1> QED
  BY <1>4, <1>5 DEF OnePositionAtATime

\* evaluate_signals never holds two positions, buys before a signal was seen to be tradable
\* or sells before the holding time, for any bars, signals and limits.
THEOREM OnePosition == BacktestSpec => []OnePositionAtATime
<1> QED
  BY BacktestInvariance, PositionsApart, PTL

\* What comes first can be bought first.
LEMMA FirstInIsFirstBought ==
  ASSUME NEW kept, NEW days, Len(days) \in Nat, KeptOk(kept, days),
         NEW s \in DOMAIN kept, NEW t \in DOMAIN kept, Before(kept, s, t),
         Entries(s, kept, days) # {}, Entries(t, kept, days) # {}
  PROVE  Ahead(s, t, kept) /\ Entry(s, kept, days) <= Entry(t, kept, days)
<1>1. /\ \A u \in {s, t} :
            /\ kept[u].tradable \in Nat \ {NoDate} /\ kept[u].tradable = kept[u].observed
            /\ Entry(u, kept, days) \in Entries(u, kept, days)
            /\ Entry(u, kept, days) \in kept[u].tradable + 1 .. Len(days)
            /\ \A d \in Entries(u, kept, days) : Entry(u, kept, days) <= d
  BY EligibleDates DEF KeptOk
<1>2. Ahead(s, t, kept)
  BY <1>1, BeforeIsAhead
<1>3. kept[s].tradable <= kept[t].tradable
  BY <1>1, <1>2 DEF Ahead
<1>4. Entry(t, kept, days) \in Entries(s, kept, days)
  BY <1>1, <1>3 DEF Entries, ExecuteSignal, EntryDates, Later
<1> QED
  BY <1>1, <1>2, <1>4

\* A signal that could be bought and sold has its trade, or met an open position.
LEMMA LeftOutForOne == BacktestInv => LeftOutForAnOpenPosition
<1> SUFFICES ASSUME BacktestInv, NEW s \in DOMAIN confirmed,
                    Eligible(s, confirmed, dailyBars)
             PROVE  \E i \in DOMAIN trades :
                       \/ trades[i].signal = s
                       \/ Entry(s, confirmed, dailyBars) \in trades[i].entry .. trades[i].exit
  BY DEF LeftOutForAnOpenPosition, Eligible, Entry, Entries, Exits
<1> DEFINE entry == Entry(s, confirmed, dailyBars)
<1>1. PICK found : Chosen(found, DOMAIN confirmed, confirmed, dailyBars) /\ trades = found.trades
  BY TradesAreChosen
<1>2. Len(dailyBars) \in Nat /\ KeptOk(confirmed, dailyBars)
  BY LenProperties DEF BacktestInv
<1>3. LeftOut(s, found, confirmed, dailyBars)
  BY <1>1 DEF Chosen
<1>4. CASE \E i \in DOMAIN trades : trades[i].signal = s
  BY <1>4
<1>5. CASE \E i \in DOMAIN trades :
              Before(confirmed, trades[i].signal, s) /\ entry <= trades[i].exit
  <2>1. PICK i \in DOMAIN trades :
                Before(confirmed, trades[i].signal, s) /\ entry <= trades[i].exit
    BY <1>5
  <2>2. /\ trades[i].signal \in DOMAIN confirmed
        /\ Eligible(trades[i].signal, confirmed, dailyBars)
        /\ trades[i].entry = Entry(trades[i].signal, confirmed, dailyBars)
        /\ trades[i].entry \in Nat /\ trades[i].exit \in Nat
    BY <1>1, <1>2, TradesByDate
  <2>3. trades[i].entry <= entry
    BY <1>2, <2>1, <2>2, FirstInIsFirstBought DEF Eligible
  <2>4. entry \in Nat
    <3>1. entry \in confirmed[s].tradable + 1 .. Len(dailyBars) /\ confirmed[s].tradable \in Nat
      BY <1>2, EligibleDates DEF Eligible
    <3> QED
      BY <3>1
  <2> HIDE DEF entry
  <2>5. entry \in trades[i].entry .. trades[i].exit
    BY <2>1, <2>2, <2>3, <2>4
  <2> QED
    BY <2>5 DEF entry
<1> QED
  BY <1>1, <1>3, <1>4, <1>5 DEF LeftOut

\* evaluate_signals leaves out a signal that could be bought and sold only for a position
\* that was open on the date on which it would have been bought.
THEOREM LeftOutForAPosition == BacktestSpec => []LeftOutForAnOpenPosition
<1> QED
  BY BacktestInvariance, LeftOutForOne, PTL

-----------------------------------------------------------------------------
(* No hindsight *)

\* The dates on which a kept signal may be bought stay, and there are no others in the
\* shorter history; the dates on which a position may be closed likewise.
LEMMA DatesStay ==
  ASSUME NEW kept, NEW days, NEW kept2, NEW days2, Grows(kept, days, kept2, days2)
  PROVE  /\ \A s \in DOMAIN kept : kept[s].tradable # NoDate =>
               \A d \in 1 .. Len(days) :
                  d \in Entries(s, kept, days) <=> d \in Entries(s, kept2, days2)
         /\ \A e \in Nat \ {0} : \A d \in 1 .. Len(days) :
               d \in ExitDates(e, days) <=> d \in ExitDates(e, days2)
<1>1. /\ Len(days) \in Nat /\ Len(days2) \in Nat /\ Len(days) <= Len(days2)
      /\ \A d \in 1 .. Len(days) : days2[d] = days[d]
  BY DEF Grows
<1>2. ASSUME NEW s \in DOMAIN kept, kept[s].tradable # NoDate, NEW d \in 1 .. Len(days)
      PROVE  d \in Entries(s, kept, days) <=> d \in Entries(s, kept2, days2)
  <2>1. /\ kept2[s] = kept[s] /\ kept[s].tradable = kept[s].observed
        /\ kept[s].tradable \in Nat \ {0}
    BY <1>2 DEF Grows, KeptOk, Kept, NoDate
  <2>2. d > kept[s].tradable => d - 1 \in 1 .. Len(days)
    BY <1>1, <2>1
  <2>3. d > kept[s].tradable => days2[d] = days[d] /\ days2[d - 1] = days[d - 1]
    BY <1>1, <2>2
  <2>4. \A h : d \in kept[s].tradable + 1 .. Len(h) <=> d > kept[s].tradable /\ d <= Len(h)
    BY <1>1, <2>1
  <2>5. /\ d \in Entries(s, kept, days) <=>
              /\ d > kept[s].tradable /\ ~IsSuspended(days[d])
              /\ ~IsLimitUp(days[d], days[d - 1])
        /\ d \in Entries(s, kept2, days2) <=>
              /\ d > kept[s].tradable /\ ~IsSuspended(days2[d])
              /\ ~IsLimitUp(days2[d], days2[d - 1])
    BY <1>1, <1>2, <2>1 DEF Entries, ExecuteSignal, EntryDates, Later
  <2> QED
    BY <2>3, <2>5
<1>3. ASSUME NEW e \in Nat \ {0}, NEW d \in 1 .. Len(days)
      PROVE  d \in ExitDates(e, days) <=> d \in ExitDates(e, days2)
  <2>1. d >= e + HoldingDays => d - 1 \in 1 .. Len(days)
    BY <1>1, BacktestType
  <2>2. d >= e + HoldingDays => days2[d] = days[d] /\ days2[d - 1] = days[d - 1]
    BY <1>1, <2>1
  <2>3. /\ d \in ExitDates(e, days) <=>
              /\ d >= e + HoldingDays /\ ~IsSuspended(days[d])
              /\ ~IsLimitDown(days[d], days[d - 1])
        /\ d \in ExitDates(e, days2) <=>
              /\ d >= e + HoldingDays /\ ~IsSuspended(days2[d])
              /\ ~IsLimitDown(days2[d], days2[d - 1])
    BY <1>1, BacktestType DEF ExitDates
  <2> QED
    BY <2>2, <2>3
<1> QED
  BY <1>2, <1>3

\* A signal that could be bought by the date e, on which a position opened in the shorter
\* history that is closed in it, could be bought and sold in the shorter one already.
LEMMA BoughtBefore ==
  ASSUME NEW kept, NEW days, NEW kept2, NEW days2, Grows(kept, days, kept2, days2),
         NEW s \in DOMAIN kept2, Eligible(s, kept2, days2),
         NEW e \in Nat, Entry(s, kept2, days2) <= e, ExitDates(e, days) # {}
  PROVE  /\ s \in DOMAIN kept /\ kept2[s] = kept[s] /\ Eligible(s, kept, days)
         /\ TradeOf(s, kept, days) = TradeOf(s, kept2, days2)
<1> DEFINE entry2 == Entry(s, kept2, days2)
           exit2 == Exit(s, kept2, days2)
           entry == Entry(s, kept, days)
           exit == Exit(s, kept, days)
<1>1. /\ Len(days) \in Nat /\ Len(days2) \in Nat /\ Len(days) <= Len(days2)
      /\ KeptOk(kept, days) /\ KeptOk(kept2, days2)
  BY DEF Grows
<1>2. /\ kept2[s].tradable \in Nat \ {NoDate}
      /\ entry2 \in Entries(s, kept2, days2) /\ entry2 \in kept2[s].tradable + 1 .. Len(days2)
      /\ \A d \in Entries(s, kept2, days2) : entry2 <= d
      /\ exit2 \in Exits(s, kept2, days2)
      /\ exit2 \in entry2 + HoldingDays .. Len(days2)
      /\ \A d \in Exits(s, kept2, days2) : exit2 <= d
  BY <1>1, EligibleDates DEF Eligible
<1>3. PICK x : x \in ExitDates(e, days)
  OBVIOUS
<1>4. /\ x \in e + HoldingDays .. Len(days)
      /\ ~IsSuspended(days[x]) /\ ~IsLimitDown(days[x], days[x - 1])
  BY <1>3 DEF ExitDates
<1> HIDE DEF entry2, exit2, entry, exit
<1>5. /\ entry2 \in Nat \ {0} /\ entry2 <= e /\ entry2 \in 1 .. Len(days)
      /\ kept2[s].tradable \in 1 .. Len(days) /\ x \in 1 .. Len(days)
      /\ x \in entry2 + HoldingDays .. Len(days)
  <2>1. entry2 <= e
    BY DEF entry2
  <2>2. HoldingDays \in Nat
    BY BacktestType
  <2>3. kept2[s].tradable \in Nat \ {0}
    BY <1>2 DEF NoDate
  <2>4. entry2 \in Nat \ {0} /\ kept2[s].tradable < entry2
    BY <1>1, <1>2, <2>3
  <2>5. x \in Nat /\ e + HoldingDays <= x /\ x <= Len(days)
    BY <1>1, <1>4, <2>2
  <2>6. x \in 1 .. Len(days) /\ entry2 \in 1 .. Len(days)
    BY <1>1, <2>1, <2>2, <2>4, <2>5
  <2>7. x \in entry2 + HoldingDays .. Len(days)
    BY <1>1, <2>1, <2>2, <2>4, <2>5
  <2>8. kept2[s].tradable \in 1 .. Len(days)
    BY <1>1, <2>3, <2>4, <2>6
  <2> QED
    BY <2>1, <2>4, <2>6, <2>7, <2>8
<1>6. s \in DOMAIN kept /\ kept2[s] = kept[s] /\ kept[s].tradable # NoDate
  BY <1>2, <1>5 DEF Grows
<1>7. \A d \in 1 .. Len(days) :
         /\ d \in Entries(s, kept, days) <=> d \in Entries(s, kept2, days2)
         /\ d \in ExitDates(entry2, days) <=> d \in ExitDates(entry2, days2)
  BY <1>5, <1>6, DatesStay
<1>8. Entries(s, kept, days) # {}
  BY <1>2, <1>5, <1>7
<1>9. /\ entry \in Entries(s, kept, days) /\ entry \in kept[s].tradable + 1 .. Len(days)
      /\ \A d \in Entries(s, kept, days) : entry <= d
      /\ kept[s].tradable \in Nat
  BY <1>1, <1>6, <1>8, EligibleDates DEF entry
<1>10. entry = entry2
  <2>1. entry \in 1 .. Len(days)
    BY <1>1, <1>9
  <2>2. entry2 <= entry /\ entry <= entry2
    BY <1>2, <1>5, <1>7, <1>9, <2>1
  <2> QED
    BY <1>5, <2>1, <2>2
<1>11. /\ Exits(s, kept, days) = ExitDates(entry2, days)
       /\ Exits(s, kept2, days2) = ExitDates(entry2, days2)
  BY <1>10 DEF Exits, entry, entry2
<1>12. x \in Exits(s, kept, days)
  <2>1. x \in ExitDates(entry2, days)
    BY <1>4, <1>5 DEF ExitDates
  <2> QED
    BY <1>11, <2>1
<1>13. /\ exit \in Exits(s, kept, days) /\ exit \in entry + HoldingDays .. Len(days)
       /\ \A d \in Exits(s, kept, days) : exit <= d
  BY <1>1, <1>6, <1>8, <1>12, EligibleDates DEF entry, exit
<1>14. exit = exit2
  <2>1. exit \in 1 .. Len(days) /\ exit2 \in Nat
    BY <1>1, <1>2, <1>5, <1>10, <1>13, BacktestType
  <2>2. exit \in Exits(s, kept2, days2)
    BY <1>7, <1>11, <1>13, <2>1
  <2>3. exit2 <= exit
    BY <1>2, <2>2
  <2>4. exit2 \in 1 .. Len(days)
    BY <1>1, <1>2, <1>5, <2>1, <2>3, BacktestType
  <2>5. exit2 \in Exits(s, kept, days)
    BY <1>2, <1>7, <1>11, <2>4
  <2>6. exit <= exit2
    BY <1>13, <2>5
  <2> QED
    BY <2>1, <2>3, <2>6
<1>15. Eligible(s, kept, days)
  <2>1. entry >= OutOfSample
    BY <1>10 DEF Eligible, entry2
  <2> QED
    BY <1>8, <1>12, <2>1 DEF Eligible, entry
<1> QED
  BY <1>6, <1>10, <1>14, <1>15 DEF TradeOf, entry, entry2, exit, exit2

\* What could be bought and sold in the shorter history is so in the longer one.
LEMMA BoughtStill ==
  ASSUME NEW kept, NEW days, NEW kept2, NEW days2, Grows(kept, days, kept2, days2),
         NEW s \in DOMAIN kept, Eligible(s, kept, days)
  PROVE  /\ s \in DOMAIN kept2 /\ kept2[s] = kept[s] /\ Eligible(s, kept2, days2)
         /\ TradeOf(s, kept, days) = TradeOf(s, kept2, days2)
<1> DEFINE entry2 == Entry(s, kept2, days2)
           entry == Entry(s, kept, days)
           exit == Exit(s, kept, days)
<1>1. /\ Len(days) \in Nat /\ Len(days2) \in Nat /\ Len(days) <= Len(days2)
      /\ KeptOk(kept, days) /\ KeptOk(kept2, days2)
  BY DEF Grows
<1>2. /\ kept[s].tradable \in Nat \ {NoDate}
      /\ entry \in Entries(s, kept, days) /\ entry \in kept[s].tradable + 1 .. Len(days)
      /\ \A d \in Entries(s, kept, days) : entry <= d
      /\ exit \in Exits(s, kept, days)
      /\ exit \in entry + HoldingDays .. Len(days)
  BY <1>1, EligibleDates DEF Eligible
<1>3. s \in DOMAIN kept2 /\ kept2[s] = kept[s]
  BY <1>2 DEF Grows
<1> HIDE DEF entry, entry2, exit
<1>4. entry \in 1 .. Len(days) /\ exit \in 1 .. Len(days)
  BY <1>1, <1>2, BacktestType
<1>5. \A d \in 1 .. Len(days) :
         /\ d \in Entries(s, kept, days) <=> d \in Entries(s, kept2, days2)
         /\ d \in ExitDates(entry, days) <=> d \in ExitDates(entry, days2)
  BY <1>2, <1>4, DatesStay
<1>6. Entries(s, kept2, days2) # {}
  BY <1>2, <1>4, <1>5
<1>7. /\ entry2 \in Entries(s, kept2, days2) /\ entry2 \in kept2[s].tradable + 1 .. Len(days2)
      /\ \A d \in Entries(s, kept2, days2) : entry2 <= d
  BY <1>1, <1>3, <1>6, EligibleDates DEF entry2
<1>8. entry2 = entry
  <2>1. entry2 \in Nat \ {0}
    BY <1>1, <1>2, <1>3, <1>7
  <2>2. entry2 <= entry
    BY <1>2, <1>4, <1>5, <1>7
  <2>3. entry2 \in 1 .. Len(days)
    BY <1>1, <1>4, <2>1, <2>2
  <2>4. entry <= entry2
    BY <1>2, <1>5, <1>7, <2>3
  <2> QED
    BY <1>4, <2>1, <2>2, <2>4
<1>9. /\ Exits(s, kept, days) = ExitDates(entry, days)
      /\ Exits(s, kept2, days2) = ExitDates(entry, days2)
  BY <1>8 DEF Exits, entry, entry2
<1>10. exit \in Exits(s, kept2, days2)
  BY <1>2, <1>4, <1>5, <1>9
<1>11. Eligible(s, kept2, days2)
  <2>1. entry2 >= OutOfSample
    BY <1>8 DEF Eligible, entry
  <2> QED
    BY <1>6, <1>10, <2>1 DEF Eligible, entry2
<1>12. TradeOf(s, kept, days) = TradeOf(s, kept2, days2)
  <2>1. entry2 \in Nat /\ entry2 <= entry /\ entry \in Nat /\ ExitDates(entry, days) # {}
    BY <1>2, <1>4, <1>8, <1>9
  <2> QED
    BY <1>3, <1>11, <2>1, BoughtBefore DEF entry2
<1> QED
  BY <1>3, <1>11, <1>12

\* A trade of the longer history that is opened no later than the i-th one of the shorter
\* history, and comes before it, is among those before it.
LEMMA NoneInBetween ==
  ASSUME NEW kept, NEW days, NEW kept2, NEW days2, Grows(kept, days, kept2, days2),
         NEW found, Chosen(found, DOMAIN kept, kept, days),
         NEW found2, Chosen(found2, DOMAIN kept2, kept2, days2),
         NEW i \in DOMAIN found.trades,
         \A m \in 1 .. i - 1 :
            m \in DOMAIN found2.trades /\ found2.trades[m] = found.trades[m],
         NEW k \in DOMAIN found2.trades, k >= i,
         \/ found2.trades[k].entry < found.trades[i].entry
         \/ /\ found2.trades[k].entry <= found.trades[i].entry
            /\ Ahead(found2.trades[k].signal, found.trades[i].signal, kept2)
  PROVE  FALSE
<1> DEFINE T == found.trades
           T2 == found2.trades
           s == T[i].signal
           t == T2[k].signal
<1>1. /\ Len(days) \in Nat /\ Len(days2) \in Nat
      /\ KeptOk(kept, days) /\ KeptOk(kept2, days2)
  BY DEF Grows
<1>2. /\ T \in Seq(Trade) /\ Len(T) \in Nat /\ DOMAIN T = 1 .. Len(T)
      /\ T2 \in Seq(Trade) /\ Len(T2) \in Nat /\ DOMAIN T2 = 1 .. Len(T2)
  BY LenProperties DEF Chosen
<1>3. \A m \in DOMAIN T :
         /\ T[m].signal \in DOMAIN kept /\ Eligible(T[m].signal, kept, days)
         /\ T[m] = TradeOf(T[m].signal, kept, days)
         /\ T[m].entry = Entry(T[m].signal, kept, days)
         /\ T[m].entry \in Nat /\ T[m].exit \in Nat /\ T[m].entry <= T[m].exit
  BY <1>1, TradesByDate
<1>4. /\ t \in DOMAIN kept2 /\ Eligible(t, kept2, days2)
      /\ T2[k] = TradeOf(t, kept2, days2)
      /\ T2[k].entry = Entry(t, kept2, days2)
      /\ T2[k].entry \in Nat /\ T2[k].exit \in Nat /\ T2[k].entry <= T2[k].exit
  BY <1>1, TradesByDate
<1>5. /\ \A m, j \in DOMAIN T : m < j => T[m].exit < T[j].entry
      /\ \A m, j \in DOMAIN T2 : m < j => T2[m].exit < T2[j].entry
  BY DEF Chosen, InTurn
<1>6. T2[k].entry <= T[i].entry
  BY <1>3, <1>4
<1>7. ExitDates(T[i].entry, days) # {}
  BY <1>3 DEF Eligible, Exits
<1> DEFINE e == T[i].entry
<1>8. e \in Nat /\ Entry(t, kept2, days2) <= e /\ ExitDates(e, days) # {}
  BY <1>3, <1>4, <1>6, <1>7
<1> HIDE DEF T, T2, s, t, e
<1>9. /\ t \in DOMAIN kept /\ kept2[t] = kept[t] /\ Eligible(t, kept, days)
      /\ TradeOf(t, kept, days) = TradeOf(t, kept2, days2)
  BY <1>4, <1>8, BoughtBefore
<1>10. Entry(t, kept, days) = T2[k].entry
  BY <1>4, <1>9 DEF TradeOf
<1>11. s \in DOMAIN kept /\ kept2[s] = kept[s]
  BY <1>3, BoughtStill DEF s, T
<1>12. i \in DOMAIN T /\ k \in DOMAIN T2 /\ k >= i /\ i \in Nat /\ k \in Nat
  BY <1>2 DEF T, T2
<1>13. \A m \in 1 .. i - 1 : m \in DOMAIN T2 /\ T2[m] = T[m] /\ m < k
  BY <1>12 DEF T, T2
<1>14. T2[k].entry < T[i].entry \/ Ahead(t, s, kept2)
  BY DEF T, T2, s, t
<1>15. /\ kept[s].tradable \in Nat /\ kept[t].tradable \in Nat /\ s \in Nat /\ t \in Nat
  BY <1>1, <1>9, <1>11, BacktestType DEF KeptOk, Kept
<1>16. LeftOut(t, found, kept, days)
  BY <1>9 DEF Chosen
<1>17. ASSUME NEW m \in DOMAIN T, T[m].signal = t PROVE FALSE
  <2>1. T[m] = T2[k] /\ m \in Nat
    BY <1>2, <1>3, <1>4, <1>9, <1>17
  <2>2. CASE m < i
    <3>1. m \in DOMAIN T2 /\ m < k /\ T2[m].exit < T2[k].entry /\ T2[m] = T2[k]
      BY <1>2, <1>5, <1>12, <1>13, <2>1, <2>2
    <3> QED
      BY <1>4, <3>1
  <2>3. CASE m = i
    <3>1. t = s /\ T2[k].entry = T[i].entry
      BY <1>17, <2>1, <2>3 DEF s
    <3>2. Ahead(t, s, kept2)
      BY <1>3, <1>12, <1>14, <3>1
    <3> QED
      BY <1>9, <1>15, <3>1, <3>2 DEF Ahead
  <2>4. CASE m > i
    <3>1. T[i].exit < T[m].entry
      BY <1>5, <1>12, <2>4
    <3> QED
      BY <1>3, <1>6, <1>12, <2>1, <3>1 DEF T, T2
  <2> QED
    BY <1>12, <2>1, <2>2, <2>3, <2>4
<1>18. ASSUME NEW m \in DOMAIN T, Before(kept, T[m].signal, t),
              Entry(t, kept, days) <= T[m].exit
       PROVE  FALSE
  <2>1. m \in Nat /\ T2[k].entry <= T[m].exit
    BY <1>2, <1>10, <1>18
  <2>2. Ahead(T[m].signal, t, kept) /\ T[m].entry <= T2[k].entry
    BY <1>1, <1>3, <1>9, <1>10, <1>18, FirstInIsFirstBought DEF Eligible
  <2>3. CASE m < i
    <3>1. m \in DOMAIN T2 /\ T2[m].exit < T2[k].entry /\ T2[m] = T[m]
      BY <1>2, <1>5, <1>12, <1>13, <2>1, <2>3
    <3> QED
      BY <1>3, <1>4, <2>1, <3>1
  <2>4. CASE m = i
    <3>1. T[m].signal = s /\ T[i].entry <= T2[k].entry
      BY <2>2, <2>4 DEF s
    <3>2. Ahead(t, s, kept2)
      BY <1>3, <1>4, <1>12, <1>14, <3>1
    <3> QED
      BY <1>9, <1>11, <1>15, <2>2, <3>1, <3>2 DEF Ahead
  <2>5. CASE m > i
    <3>1. T[i].exit < T[m].entry /\ T[i].entry <= T[i].exit /\ T[i].exit \in Nat
          /\ T[i].entry \in Nat /\ T[m].entry \in Nat
      BY <1>3, <1>5, <1>12, <2>5
    <3>2. T[m].entry <= T2[k].entry /\ T2[k].entry <= T[i].entry /\ T2[k].entry \in Nat
      BY <1>4, <1>6, <2>2 DEF T, T2
    <3> QED
      BY ONLY <3>1, <3>2
  <2> QED
    BY <1>12, <2>1, <2>3, <2>4, <2>5
<1> QED
  BY <1>16, <1>17, <1>18 DEF LeftOut, T

\* By the first trade that would not stand.
LEMMA EarlierTradesStand ==
  ASSUME NEW kept, NEW days, NEW kept2, NEW days2, Grows(kept, days, kept2, days2),
         NEW found, Chosen(found, DOMAIN kept, kept, days),
         NEW found2, Chosen(found2, DOMAIN kept2, kept2, days2)
  PROVE  \A i \in DOMAIN found.trades :
            i \in DOMAIN found2.trades /\ found2.trades[i] = found.trades[i]
<1> DEFINE T == found.trades
           T2 == found2.trades
           Stands(i) == i \in DOMAIN T2 /\ T2[i] = T[i]
           Bad == {i \in DOMAIN T : ~Stands(i)}
<1>1. /\ Len(days) \in Nat /\ Len(days2) \in Nat
      /\ KeptOk(kept, days) /\ KeptOk(kept2, days2)
  BY DEF Grows
<1>2. /\ T \in Seq(Trade) /\ Len(T) \in Nat /\ DOMAIN T = 1 .. Len(T)
      /\ T2 \in Seq(Trade) /\ Len(T2) \in Nat /\ DOMAIN T2 = 1 .. Len(T2)
  BY LenProperties DEF Chosen
<1> SUFFICES ASSUME Bad # {} PROVE FALSE
  OBVIOUS
<1>3. PICK i \in Bad : \A j \in Bad : i <= j
  <2>1. Bad \in SUBSET Nat
    BY <1>2
  <2> HIDE DEF Bad
  <2> QED
    BY <2>1, LeastNatural
<1> DEFINE s == T[i].signal
<1>4. i \in DOMAIN T /\ ~Stands(i) /\ i \in 1 .. Len(T) /\ i \in Nat
  BY <1>2, <1>3
<1>5. \A m \in 1 .. i - 1 : m \in DOMAIN T /\ Stands(m)
  <2> SUFFICES ASSUME NEW m \in 1 .. i - 1 PROVE m \in DOMAIN T /\ Stands(m)
    OBVIOUS
  <2>1. m \in DOMAIN T /\ ~(i <= m)
    BY <1>2, <1>4
  <2> HIDE DEF Stands
  <2> QED
    BY <1>3, <2>1
<1>6. \A m \in DOMAIN T :
         /\ T[m].signal \in DOMAIN kept /\ Eligible(T[m].signal, kept, days)
         /\ T[m] = TradeOf(T[m].signal, kept, days)
         /\ T[m].entry = Entry(T[m].signal, kept, days)
         /\ T[m].entry \in Nat /\ T[m].exit \in Nat /\ T[m].entry <= T[m].exit
  BY <1>1, TradesByDate
<1>7. \A m \in DOMAIN T2 :
         /\ T2[m].signal \in DOMAIN kept2 /\ Eligible(T2[m].signal, kept2, days2)
         /\ T2[m] = TradeOf(T2[m].signal, kept2, days2)
         /\ T2[m].entry = Entry(T2[m].signal, kept2, days2)
         /\ T2[m].entry \in Nat /\ T2[m].exit \in Nat /\ T2[m].entry <= T2[m].exit
  BY <1>1, TradesByDate
<1>8. /\ \A m, j \in DOMAIN T : m < j => T[m].exit < T[j].entry
      /\ \A m, j \in DOMAIN T2 : m < j => T2[m].exit < T2[j].entry
  BY DEF Chosen, InTurn
<1>9. /\ s \in DOMAIN kept2 /\ Eligible(s, kept2, days2)
      /\ TradeOf(s, kept2, days2) = T[i]
      /\ Entry(s, kept2, days2) = T[i].entry
  <2>1. /\ s \in DOMAIN kept /\ Eligible(s, kept, days) /\ T[i] = TradeOf(s, kept, days)
    BY <1>4, <1>6
  <2> HIDE DEF s
  <2>2. /\ s \in DOMAIN kept2 /\ Eligible(s, kept2, days2)
        /\ TradeOf(s, kept2, days2) = T[i]
    BY <2>1, BoughtStill
  <2> HIDE DEF T
  <2>3. Entry(s, kept2, days2) = T[i].entry
    BY <2>2 DEF TradeOf
  <2> QED
    BY <2>2, <2>3
<1>10. LeftOut(s, found2, kept2, days2)
  BY <1>9 DEF Chosen
<1>11. ASSUME NEW k \in DOMAIN T2, k >= i,
              \/ T2[k].entry < T[i].entry
              \/ T2[k].entry <= T[i].entry /\ Ahead(T2[k].signal, s, kept2)
       PROVE  FALSE
  BY <1>4, <1>5, <1>11, NoneInBetween
<1> HIDE DEF T, T2, s, Bad
<1>12. ASSUME NEW j \in DOMAIN T2, T2[j].signal = s PROVE FALSE
  <2>1. T2[j] = T[i] /\ j \in Nat
    BY <1>2, <1>7, <1>9, <1>12
  <2>2. CASE j < i
    <3>1. j \in DOMAIN T /\ T[j].exit < T[i].entry /\ T[j] = T[i]
      BY <1>2, <1>4, <1>5, <1>8, <2>1, <2>2
    <3> QED
      BY <1>4, <1>6, <3>1
  <2>3. CASE j = i
    BY <1>4, <2>1, <2>3
  <2>4. CASE j > i
    <3>1. i \in DOMAIN T2 /\ T2[i].exit < T2[j].entry /\ i >= i
      BY <1>2, <1>4, <1>8, <2>1, <2>4
    <3>2. T2[i].entry < T[i].entry
      BY <1>4, <1>6, <1>7, <2>1, <3>1
    <3> QED
      BY <1>11, <3>1, <3>2
  <2> QED
    BY <1>4, <2>1, <2>2, <2>3, <2>4
<1>13. ASSUME NEW j \in DOMAIN T2, Before(kept2, T2[j].signal, s),
              Entry(s, kept2, days2) <= T2[j].exit
       PROVE  FALSE
  <2>1. j \in Nat /\ T[i].entry <= T2[j].exit
    BY <1>2, <1>9, <1>13
  <2>2. CASE j < i
    <3>1. j \in DOMAIN T /\ T[j].exit < T[i].entry /\ T2[j] = T[j]
      BY <1>2, <1>4, <1>5, <1>8, <2>1, <2>2
    <3> QED
      BY <1>4, <1>6, <2>1, <3>1
  <2>3. CASE j >= i
    <3>1. Ahead(T2[j].signal, s, kept2) /\ T2[j].entry <= T[i].entry
      BY <1>1, <1>7, <1>9, <1>13, FirstInIsFirstBought DEF Eligible
    <3> QED
      BY <1>11, <2>3, <3>1
  <2> QED
    BY <1>4, <2>1, <2>2, <2>3
<1> QED
  BY <1>10, <1>12, <1>13 DEF LeftOut, T2

\* The days of a step extend the trades.
LEMMA StepsLetTradesStand ==
  ASSUME BacktestInv, [BacktestNext]_backtestVars
  PROVE  IsPrefix(trades, trades')
<1>1. CASE BacktestNext
  <2>1. PICK bar \in DailyBar, stage \in [Signal -> Stage] : NextBar(bar, stage)
    BY <1>1 DEF BacktestNext
  <2>2. BacktestInv' /\ Grows(confirmed, dailyBars, confirmed', dailyBars')
    BY <2>1, NextBarKeeps
  <2>3. PICK found : Chosen(found, DOMAIN confirmed, confirmed, dailyBars) /\ trades = found.trades
    BY TradesAreChosen
  <2>4. PICK found2 : /\ Chosen(found2, DOMAIN confirmed', confirmed', dailyBars')
                      /\ EvaluateSignals(confirmed', dailyBars') = found2.trades
    BY <2>2, EvaluationIsChosen DEF Grows
  <2>5. trades' = found2.trades
    BY <2>2, <2>4 DEF BacktestInv
  <2>6. \A i \in DOMAIN trades : i \in DOMAIN trades' /\ trades'[i] = trades[i]
    <3> DEFINE kept2 == confirmed'
               days2 == dailyBars'
    <3>1. Grows(confirmed, dailyBars, kept2, days2) /\ Chosen(found2, DOMAIN kept2, kept2, days2)
      BY <2>2, <2>4
    <3> HIDE DEF kept2, days2
    <3> QED
      BY <2>3, <2>5, <3>1, EarlierTradesStand
  <2>7. trades \in Seq(Trade) /\ trades' \in Seq(Trade)
    BY <2>3, <2>4, <2>5 DEF Chosen
  <2> DEFINE n == Len(trades)
             T2 == trades'
  <2>8. /\ n \in Nat /\ DOMAIN trades = 1 .. n /\ Len(T2) \in Nat /\ DOMAIN T2 = 1 .. Len(T2)
    BY <2>7, LenProperties
  <2>9. n <= Len(T2)
    <3>1. CASE n = 0
      BY <2>8, <3>1
    <3>2. CASE n # 0
      <4>1. n \in DOMAIN trades
        BY <2>8, <3>2
      <4>2. n \in DOMAIN T2
        BY <2>6, <4>1
      <4> QED
        BY <2>8, <4>2
    <3> QED
      BY <3>1, <3>2
  <2>10. \A i \in 1 .. n : trades[i] \in Trade /\ T2[i] \in Trade /\ T2[i] = trades[i]
    BY <2>6, <2>7, <2>8
  <2> HIDE DEF n, T2
  <2>11. /\ SubSeq(T2, 1, n) \in Seq(Trade) /\ Len(SubSeq(T2, 1, n)) = n
         /\ \A i \in 1 .. n : SubSeq(T2, 1, n)[i] = T2[i]
    <3>1. 1 \in Int /\ n \in Int /\ \A i \in 1 .. n : T2[i] \in Trade
      BY <2>8, <2>10
    <3>2. /\ SubSeq(T2, 1, n) \in Seq(Trade)
          /\ Len(SubSeq(T2, 1, n)) = IF 1 <= n THEN n - 1 + 1 ELSE 0
          /\ \A i \in 1 .. n - 1 + 1 : SubSeq(T2, 1, n)[i] = T2[1 + i - 1]
      BY <3>1, SubSeqProperties
    <3>3. n - 1 + 1 = n /\ \A i \in 1 .. n : 1 + i - 1 = i
      BY <2>8
    <3> QED
      BY <2>8, <3>2, <3>3
  <2>12. SubSeq(trades, 1, n) = trades
    BY <2>7, SubSeqFull DEF n
  <2>13. SubSeq(T2, 1, n) = trades
    <3> DEFINE part == SubSeq(T2, 1, n)
    <3>1. /\ part \in Seq(Trade) /\ Len(part) = Len(trades)
          /\ \A i \in 1 .. Len(part) : part[i] = trades[i]
      BY <2>10, <2>11 DEF n
    <3> HIDE DEF part
    <3>2. part = trades
      BY <2>7, <3>1, SeqEqual
    <3> QED
      BY <3>2 DEF part
  <2> QED
    BY <2>9, <2>12, <2>13 DEF IsPrefix, n, T2
<1>2. CASE UNCHANGED backtestVars
  <2>1. trades' = trades /\ Len(trades) \in Nat
    <3>1. PICK found : /\ Chosen(found, DOMAIN confirmed, confirmed, dailyBars)
                       /\ trades = found.trades
      BY TradesAreChosen
    <3> QED
      BY <1>2, <3>1, LenProperties DEF Chosen, backtestVars
  <2> QED
    BY <2>1 DEF IsPrefix
<1> QED
  BY <1>1, <1>2

\* No hindsight: a bar more, with whatever the replay shows on its date, only adds trades
\* behind those of the shorter history.
THEOREM ClosedTradesStand == BacktestSpec => TradesStand
<1>1. BacktestInv /\ [BacktestNext]_backtestVars => [IsPrefix(trades, trades')]_backtestVars
  BY StepsLetTradesStand
<1> QED
  BY <1>1, BacktestInvariance, PTL DEF BacktestSpec, TradesStand

\* The image of a finite set under a function is finite.
LEMMA FiniteImage ==
  ASSUME NEW S, IsFiniteSet(S), NEW f
  PROVE  IsFiniteSet({f[x] : x \in S})
<1> DEFINE T == {f[x] : x \in S}
           g == [x \in S |-> f[x]]
<1>1. g \in Surjection(S, T)
  BY DEF Surjection
<1> QED
  BY <1>1, FS_Surjection

\* The greatest and the least element of a finite set of integers.
LEMMA ExtremesOfSet ==
  ASSUME NEW X \in SUBSET Int, IsFiniteSet(X), X # {}
  PROVE  /\ Max(X) \in X /\ \A y \in X : y <= Max(X)
         /\ Min(X) \in X /\ \A y \in X : Min(X) <= y
<1> DEFINE Less == {p \in Int \X Int : p[1] < p[2]}
           Greater == {p \in Int \X Int : p[1] > p[2]}
<1>1. Orders(Less, Int) /\ Orders(Greater, Int)
  BY DEF Orders
<1>2. \A x, y \in Int : /\ <<x, y>> \in Less => x < y
                        /\ <<x, y>> \in Greater => x > y
  OBVIOUS
<1> HIDE DEF Less, Greater
<1>3. \E x \in X : \A y \in X : y <= x
  <2>1. PICK x \in X : LastOf(x, X, Less)
    BY <1>1, LastElement
  <2>2. ASSUME NEW y \in X PROVE y <= x
    <3>1. x \in Int /\ y \in Int /\ (y # x => <<y, x>> \in Less)
      BY <2>1 DEF LastOf
    <3>2. y # x => y < x
      BY <1>2, <3>1
    <3> QED
      BY <3>1, <3>2
  <2> QED
    BY <2>2
<1>4. \E x \in X : \A y \in X : x <= y
  <2>1. PICK x \in X : LastOf(x, X, Greater)
    BY <1>1, LastElement
  <2>2. ASSUME NEW y \in X PROVE x <= y
    <3>1. x \in Int /\ y \in Int /\ (y # x => <<y, x>> \in Greater)
      BY <2>1 DEF LastOf
    <3>2. y # x => y > x
      BY <1>2, <3>1
    <3> QED
      BY <3>1, <3>2
  <2> QED
    BY <2>2
<1>5. Max(X) \in X /\ \A y \in X : y <= Max(X)
  BY <1>3 DEF Max
<1>6. Min(X) \in X /\ \A y \in X : Min(X) <= y
  BY <1>4 DEF Min
<1> QED
  BY <1>5, <1>6

\* The search begins with the first start and goes on from each to the next.
LEMMA VisitedStarts ==
  ASSUME NEW last \in Int, NEW next \in [1 .. last -> Nat], \A s \in 1 .. last : next[s] > s
  PROVE  LET V == Visited(last, next)
         IN  /\ V \subseteq 1 .. last
             /\ \A s \in 1 .. last : s \in V <=> s = 1 \/ \E p \in V : next[p] = s
<1> DEFINE V == Visited(last, next)
<1>1. CASE last <= 0
  <2>1. 1 .. last = {}
    BY <1>1
  <2> QED
    BY <2>1 DEF Visited
<1>2. CASE last \in Nat \ {0}
  <2> DEFINE Turn(x) == IF x > last THEN x ELSE IF x \in 1 .. last THEN next[x] ELSE 1
             step == [np \in Nat \X Nat |-> Turn(np[2])]
             Body(f) == [turn \in 0 .. last |->
                           IF turn = 0 THEN 1
                           ELSE IF f[turn - 1] > last THEN f[turn - 1] ELSE next[f[turn - 1]]]
  <2>1. step \in [Nat \X Nat -> Nat]
    <3>1. \A x \in Nat : Turn(x) \in Nat
      OBVIOUS
    <3> HIDE DEF Turn
    <3> QED
      BY <3>1
  <2>2. PICK f \in [0 .. last -> Nat] : Recursive(f, 1, step, last)
    <3> HIDE DEF step
    <3> QED
      BY <1>2, <2>1, RecursiveFunction
  <2>3. f[0] = 1 /\ \A t \in 1 .. last : f[t] = Turn(f[t - 1])
    <3>1. ASSUME NEW t \in 1 .. last PROVE f[t] = Turn(f[t - 1])
      <4>1. t \in Nat /\ t - 1 \in 0 .. last /\ f[t - 1] \in Nat
        BY <1>2
      <4>2. step[<<t, f[t - 1]>>] = Turn(f[t - 1])
        <5> HIDE DEF Turn
        <5> QED
          BY <4>1
      <4> QED
        BY <2>2, <4>2 DEF Recursive
    <3> QED
      BY <2>2, <3>1 DEF Recursive
  <2>4. \A t \in 0 .. last : f[t] > last \/ f[t] >= t + 1
    <3> DEFINE P == {t \in 0 .. last : f[t] > last \/ f[t] >= t + 1}
    <3>1. P \in SUBSET (0 .. last) /\ 0 \in P
      BY <1>2, <2>3
    <3>2. ASSUME NEW t \in P, t < last PROVE t + 1 \in P
      <4>1. /\ t \in Nat /\ t + 1 \in 1 .. last /\ (t + 1) - 1 = t
            /\ f[t] \in Nat /\ t + 1 \in 0 .. last
        BY <1>2, <3>2
      <4>2. f[t + 1] = Turn(f[t])
        BY <2>3, <4>1
      <4>3. CASE f[t] > last
        BY <1>2, <4>1, <4>2, <4>3
      <4>4. CASE ~(f[t] > last)
        <5>1. f[t] >= t + 1 /\ f[t] \in 1 .. last
          BY <1>2, <4>1, <4>4
        <5>2. f[t + 1] = next[f[t]] /\ next[f[t]] > f[t] /\ next[f[t]] \in Nat
          BY <4>2, <4>4, <5>1
        <5> QED
          BY <4>1, <5>1, <5>2
      <4> QED
        BY <4>3, <4>4
    <3>3. P = 0 .. last
      <4> HIDE DEF P
      <4> QED
        BY <1>2, <3>1, <3>2, BoundedInduction
    <3> QED
      BY <3>3
  <2>5. \A t \in 1 .. last :
           f[t] = IF f[t - 1] > last THEN f[t - 1] ELSE next[f[t - 1]]
    <3> SUFFICES ASSUME NEW t \in 1 .. last
                 PROVE  f[t] = IF f[t - 1] > last THEN f[t - 1] ELSE next[f[t - 1]]
      OBVIOUS
    <3>1. t - 1 \in 0 .. last /\ f[t - 1] \in Nat
      BY <1>2
    <3>2. f[t - 1] > last \/ f[t - 1] \in 1 .. last
      BY <1>2, <2>4, <3>1
    <3> QED
      BY <1>2, <2>3, <3>1, <3>2
  <2>6. f = Body(f)
    BY <1>2, <2>3, <2>5
  <2> DEFINE start == CHOOSE g : g = Body(g)
  <2>7. V = {start[turn] : turn \in 0 .. last} \cap 1 .. last
    BY DEF Visited
  <2>8. start = Body(start)
    <3> HIDE DEF Body
    <3> QED
      BY <2>6
  <2> HIDE DEF start
  <2>9. start[0] = 1 /\ \A t \in 1 .. last :
           start[t] = IF start[t - 1] > last THEN start[t - 1] ELSE next[start[t - 1]]
    <3>1. start = [turn \in 0 .. last |->
                     IF turn = 0 THEN 1
                     ELSE IF start[turn - 1] > last THEN start[turn - 1]
                     ELSE next[start[turn - 1]]]
      BY ONLY <2>8
    <3>2. 0 \in 0 .. last /\ \A t \in 1 .. last : t \in 0 .. last /\ t # 0
      BY <1>2
    <3>3. start[0] = 1
      BY ONLY <3>1, <3>2
    <3>4. ASSUME NEW t \in 1 .. last
          PROVE  start[t] = IF start[t - 1] > last THEN start[t - 1] ELSE next[start[t - 1]]
      BY ONLY <3>1, <3>2, t \in 1 .. last
    <3> QED
      BY <3>3, <3>4
  <2>10. \A t \in 0 .. last : start[t] \in Nat /\ (start[t] > last \/ start[t] >= t + 1)
    <3> DEFINE P == {t \in 0 .. last : start[t] = f[t]}
    <3>1. P \in SUBSET (0 .. last) /\ 0 \in P
      BY <1>2, <2>3, <2>9
    <3>2. ASSUME NEW t \in P, t < last PROVE t + 1 \in P
      <4>1. t + 1 \in 1 .. last /\ (t + 1) - 1 = t /\ t + 1 \in 0 .. last
        BY <1>2, <3>2
      <4>2. /\ f[t + 1] = IF f[t] > last THEN f[t] ELSE next[f[t]]
            /\ start[t + 1] = IF start[t] > last THEN start[t] ELSE next[start[t]]
        BY <2>5, <2>9, <4>1
      <4> QED
        BY <4>1, <4>2
    <3>3. P = 0 .. last
      <4> HIDE DEF P
      <4> QED
        BY <1>2, <3>1, <3>2, BoundedInduction
    <3> QED
      BY <2>4, <3>3
  <2>11. V \subseteq 1 .. last
    BY <2>7
  <2>12. 1 \in V
    BY <1>2, <2>7, <2>9
  <2>13. ASSUME NEW p \in V, next[p] \in 1 .. last PROVE next[p] \in V
    <3>1. PICK t \in 0 .. last : start[t] = p
      BY <2>7
    <3>2. p \in 1 .. last /\ p >= t + 1
      <4>1. p \in 1 .. last
        BY <2>11
      <4>2. start[t] > last \/ start[t] >= t + 1
        BY <2>10
      <4> QED
        BY <1>2, <3>1, <4>1, <4>2
    <3>3. t + 1 \in 1 .. last /\ (t + 1) - 1 = t /\ t + 1 \in 0 .. last
      BY <1>2, <3>2
    <3>4. start[t + 1] = next[p]
      <4>1. start[t + 1] = IF start[t] > last THEN start[t] ELSE next[start[t]]
        BY <2>9, <3>3
      <4> QED
        BY <1>2, <3>1, <3>2, <4>1
    <3> QED
      BY <2>7, <2>13, <3>3, <3>4
  <2>14. ASSUME NEW s \in V, s # 1 PROVE \E p \in V : next[p] = s
    <3>1. PICK t \in 0 .. last : start[t] = s
      BY <2>7
    <3>2. s \in 1 .. last /\ t # 0 /\ t \in 1 .. last /\ t - 1 \in 0 .. last
      BY <1>2, <2>9, <2>11, <2>14, <3>1
    <3>3. start[t - 1] \in Nat /\ (start[t - 1] > last \/ start[t - 1] >= (t - 1) + 1)
      BY <2>10, <3>2
    <3>4. start[t] = IF start[t - 1] > last THEN start[t - 1] ELSE next[start[t - 1]]
      BY <2>9, <3>2
    <3>5. ~(start[t - 1] > last)
      BY <1>2, <3>1, <3>2, <3>3, <3>4
    <3>6. start[t - 1] \in 1 .. last /\ next[start[t - 1]] = s
      <4>1. next[start[t - 1]] = s
        BY <3>1, <3>4, <3>5
      <4>2. t - 1 \in Nat /\ start[t - 1] >= (t - 1) + 1
        BY <3>2, <3>3, <3>5
      <4> DEFINE x == start[t - 1]
      <4>3. x \in Nat /\ x >= 1 /\ ~(x > last)
        BY <3>3, <3>5, <4>2
      <4> HIDE DEF x
      <4>4. x \in 1 .. last
        BY <1>2, <4>3
      <4> QED
        BY <4>1, <4>4 DEF x
    <3>7. start[t - 1] \in V
      BY <2>7, <3>2, <3>6
    <3> QED
      BY <3>6, <3>7
  <2> HIDE DEF V
  <2>15. \A s \in 1 .. last : s \in V <=> s = 1 \/ \E p \in V : next[p] = s
    BY <2>12, <2>13, <2>14
  <2> QED
    BY <2>11, <2>15 DEF V
<1> QED
  BY <1>1, <1>2

\* Two searches that agree on where to go within the shorter one visit the same there.
LEMMA SearchesAgree ==
  ASSUME NEW last \in Int, NEW next \in [1 .. last -> Nat], \A s \in 1 .. last : next[s] > s,
         NEW last2 \in Int, NEW next2 \in [1 .. last2 -> Nat], \A s \in 1 .. last2 : next2[s] > s,
         last <= last2,
         \A s \in 1 .. last : next2[s] = next[s] \/ (next[s] > last /\ next2[s] > last)
  PROVE  \A s \in 1 .. last : s \in Visited(last, next) <=> s \in Visited(last2, next2)
<1> DEFINE V == Visited(last, next)
           V2 == Visited(last2, next2)
<1>1. /\ V \subseteq 1 .. last
      /\ \A s \in 1 .. last : s \in V <=> s = 1 \/ \E p \in V : next[p] = s
  BY VisitedStarts
<1>2. /\ V2 \subseteq 1 .. last2
      /\ \A s \in 1 .. last2 : s \in V2 <=> s = 1 \/ \E p \in V2 : next2[p] = s
  BY VisitedStarts
<1> HIDE DEF V, V2
<1> DEFINE Bad == {s \in 1 .. last : ~(s \in V <=> s \in V2)}
<1>3. SUFFICES ASSUME Bad # {} PROVE FALSE
  BY DEF V, V2
<1>4. PICK s \in Bad : \A r \in Bad : s <= r
  <2>1. Bad \in SUBSET Nat
    OBVIOUS
  <2> HIDE DEF Bad
  <2> QED
    BY <1>3, <2>1, LeastNatural
<1>5. s \in 1 .. last /\ s \in 1 .. last2 /\ s \in Nat /\ \A r \in 1 .. s - 1 : r \in V <=> r \in V2
  BY <1>4
<1>6. ASSUME NEW p \in V, next[p] = s PROVE s \in V2
  <2>1. p \in 1 .. last /\ p < s /\ p \in 1 .. s - 1
    BY <1>1, <1>5, <1>6
  <2>2. p \in V2 /\ next2[p] = s
    BY <1>5, <1>6, <2>1
  <2> QED
    BY <1>2, <1>5, <2>2
<1>7. ASSUME NEW p \in V2, next2[p] = s PROVE s \in V
  <2>1. p \in 1 .. last2 /\ p < s /\ p \in 1 .. s - 1 /\ p \in 1 .. last
    BY <1>2, <1>5, <1>7
  <2>2. p \in V /\ next[p] = s
    BY <1>5, <1>7, <2>1
  <2> QED
    BY <1>1, <1>5, <2>2
<1>8. s \in V <=> s \in V2
  BY <1>1, <1>2, <1>5, <1>6, <1>7
<1> QED
  BY <1>4, <1>8

-----------------------------------------------------------------------------
(* A prefix and the next one: effective bars and fractals *)

\* The effective bars E of the first T bars cover their dates.
Covers(E, T) ==
    /\ E \in Seq(EffectiveBar) /\ T \in Nat
    /\ \A i \in 1 .. Len(E) :
          /\ 1 <= E[i].first /\ E[i].first <= E[i].last /\ E[i].last <= T
    /\ \A i \in 2 .. Len(E) : E[i].first = E[i - 1].last + 1
    /\ Len(E) > 0 => E[Len(E)].last = T

\* E2 are those of one bar more: the latest one may have taken it in, or one is added.
Lengthens(E, E2) ==
    LET n == Len(E)
    IN  /\ Len(E2) \in {n, n + 1}
        /\ \A i \in 1 .. n - 1 : /\ E2[i] = E[i]
                                 /\ IsTop(E2, i) <=> IsTop(E, i)
                                 /\ IsBottom(E2, i) <=> IsBottom(E, i)
        /\ \A i \in 1 .. n : E2[i].first = E[i].first
        /\ Len(E2) = n + 1 => \A i \in 1 .. n : E2[i] = E[i]

\* Neither merging nor adding a bar makes a fractal that was not there: a merged bar stays
\* on its side of the one before.
LEMMA SupplyLengthens ==
  ASSUME EffectiveInv, NEW bar \in Bar, Supply(bar)
  PROVE  /\ Covers(processed, Len(bars)) /\ Covers(processed', Len(bars'))
         /\ Len(bars') = Len(bars) + 1
         /\ Lengthens(processed, processed')
<1> DEFINE n == Len(processed)
           incoming == Incoming(bar, Len(bars) + 1)
           latest == processed[n]
           merged == Merge(latest, incoming)
<1>1. /\ EffectiveInv'
      /\ Len(processed') \in {n, n + 1}
      /\ \A i \in 1 .. n : i < n => processed'[i] = processed[i]
      /\ n > 0 /\ Len(processed') = n => processed'[n] = merged
      /\ Len(processed') = n + 1 => \A i \in 1 .. n : processed'[i] = processed[i]
  BY SupplyKeeps
<1>2. /\ bars \in Seq(Bar) /\ processed \in Seq(EffectiveBar)
      /\ n \in Nat /\ Len(bars) \in Nat
      /\ bars' \in Seq(Bar) /\ processed' \in Seq(EffectiveBar) /\ Len(bars') \in Nat
  BY <1>1 DEF EffectiveInv, ChanTypeOK
<1>3. Covers(processed, Len(bars)) /\ Covers(processed', Len(bars'))
  BY <1>1, <1>2 DEF EffectiveInv, DatesInOrder, Covers
<1>4. Len(bars') = Len(bars) + 1
  BY <1>2 DEF Supply
<1> DEFINE Same(i) == /\ IsTop(processed', i) <=> IsTop(processed, i)
                      /\ IsBottom(processed', i) <=> IsBottom(processed, i)
<1>5. CASE Len(processed') = n + 1
  <2>1. \A i \in 1 .. n : processed'[i] = processed[i]
    BY <1>1, <1>5
  <2>2. ASSUME NEW i \in 1 .. n - 1 PROVE Same(i)
    <3>1. /\ i \in 1 .. n /\ i + 1 \in 1 .. n /\ i + 1 <= n
          /\ i \in 2 .. n - 1 <=> i \in 2 .. (n + 1) - 1
          /\ i >= 2 => i - 1 \in 1 .. n
      BY <1>2
    <3>2. processed'[i] = processed[i] /\ processed'[i + 1] = processed[i + 1]
      BY <2>1, <3>1
    <3>3. i \in 2 .. n - 1 => processed'[i - 1] = processed[i - 1]
      BY <2>1, <3>1
    <3> QED
      BY <1>5, <3>1, <3>2, <3>3 DEF IsTop, IsBottom
  <2> QED
    BY <1>1, <1>2, <1>3, <1>4, <1>5, <2>1, <2>2 DEF Lengthens
<1>6. CASE Len(processed') = n
  <2>1. ASSUME NEW i \in 1 .. n - 1 PROVE Same(i)
    <3>1. i \in 1 .. n /\ i < n /\ processed'[i] = processed[i]
      BY <1>1, <1>2
    <3>2. i \in 2 .. n - 1 => processed'[i - 1] = processed[i - 1]
      BY <1>1, <1>2
    <3>3. CASE i + 1 < n
      <4>1. processed'[i + 1] = processed[i + 1]
        BY <1>1, <1>2, <3>3
      <4> QED
        BY <1>6, <3>1, <3>2, <4>1 DEF IsTop, IsBottom
    <3>4. CASE i + 1 = n
      <4>1. /\ latest \in EffectiveBar /\ incoming \in EffectiveBar
            /\ processed[i] \in EffectiveBar /\ processed'[n] = merged
        <5>1. n \in 1 .. n /\ n > 0
          BY <1>2, <3>4
        <5>2. incoming \in EffectiveBar
          BY <1>2, IncomingType
        <5> QED
          BY <1>1, <1>2, <1>6, <3>1, <5>1, <5>2
      <4>2. /\ merged \in EffectiveBar
            /\ latest.direction = "up" => merged.direction = "up"
            /\ latest.direction = "down" => merged.direction = "down"
        <5> HIDE DEF latest, incoming
        <5> QED
          BY <4>1, MergeMoves
      <4>3. n \in 2 .. n /\ n - 1 = i
        BY <1>2, <3>4
      <4>4. \/ latest.direction = "up" /\ Above(latest, processed[i])
            \/ latest.direction = "down" /\ Above(processed[i], latest)
        BY <4>3 DEF EffectiveInv, StrictlyApart
      <4>5. \/ merged.direction = "up" /\ Above(merged, processed[i])
            \/ merged.direction = "down" /\ Above(processed[i], merged)
        BY <1>1, <1>6, <3>1, <4>1, <4>3 DEF EffectiveInv, StrictlyApart
      <4>6. \A a, b \in EffectiveBar : ~(Above(a, b) /\ Above(b, a))
        BY DEF Above, EffectiveBar
      <4> HIDE DEF latest, merged
      <4>7. /\ Above(processed[i], merged) <=> Above(processed[i], latest)
            /\ Above(merged, processed[i]) <=> Above(latest, processed[i])
        BY <4>1, <4>2, <4>4, <4>5, <4>6
      <4>8. /\ Above(processed'[i], processed'[i + 1]) <=> Above(processed[i], processed[i + 1])
            /\ Above(processed'[i + 1], processed'[i]) <=> Above(processed[i + 1], processed[i])
        BY <3>1, <3>4, <4>1, <4>7 DEF latest
      <4> QED
        BY <1>6, <3>1, <3>2, <4>8 DEF IsTop, IsBottom
    <3> QED
      BY <1>2, <3>3, <3>4
  <2>2. \A i \in 1 .. n : processed'[i].first = processed[i].first
    <3>1. ASSUME NEW i \in 1 .. n, i = n PROVE processed'[i].first = processed[i].first
      <4>1. latest \in EffectiveBar /\ incoming \in EffectiveBar /\ processed'[n] = merged
        <5>1. incoming \in EffectiveBar
          BY <1>2, IncomingType
        <5> QED
          BY <1>1, <1>2, <1>6, <3>1, <5>1
      <4>2. merged.first = latest.first
        <5> HIDE DEF latest, incoming
        <5> QED
          BY <4>1, MergeMoves
      <4> QED
        BY <3>1, <4>1, <4>2
    <3> QED
      BY <1>1, <1>2, <3>1
  <2> QED
    BY <1>1, <1>2, <1>3, <1>4, <1>6, <2>1, <2>2 DEF Lengthens
<1> QED
  BY <1>1, <1>5, <1>6

\* Dates grow from bar to bar.
LEMMA LastsGrow ==
  ASSUME NEW E, NEW T, Covers(E, T), NEW i \in 1 .. Len(E), NEW j \in 1 .. Len(E), i < j
  PROVE  E[i].last < E[j].first /\ E[i].last < E[j].last
<1> DEFINE n == Len(E)
           Bad == {k \in 1 .. n : i < k /\ ~(E[i].last < E[k].first)}
<1>1. n \in Nat /\ \A k \in 1 .. n : E[k].first \in Nat /\ E[k].last \in Nat
  <2>1. E \in Seq(EffectiveBar)
    BY DEF Covers
  <2>2. \A k \in 1 .. n : E[k] \in EffectiveBar
    BY <2>1
  <2>3. \A k \in 1 .. n : E[k].first \in Nat /\ E[k].last \in Nat
    BY <2>2 DEF EffectiveBar
  <2>4. n \in Nat
    BY <2>1
  <2> QED
    BY <2>3, <2>4
<1>2. Bad = {}
  <2> SUFFICES ASSUME Bad # {} PROVE FALSE
    OBVIOUS
  <2>1. PICK k \in Bad : \A l \in Bad : k <= l
    <3>1. Bad \in SUBSET Nat
      OBVIOUS
    <3> HIDE DEF Bad
    <3> QED
      BY <3>1, LeastNatural
  <2>2. k \in 2 .. n /\ k - 1 \in 1 .. n /\ k \in 1 .. n /\ i < k /\ ~(E[i].last < E[k].first)
    BY <1>1, <2>1
  <2>3. E[k].first = E[k - 1].last + 1 /\ E[k - 1].first <= E[k - 1].last
    BY <2>2 DEF Covers
  <2>4. CASE k - 1 = i
    BY <1>1, <2>2, <2>3, <2>4
  <2>5. CASE i < k - 1
    <3>1. k - 1 \notin Bad
      BY <2>1, <2>2
    <3>2. E[i].last < E[k - 1].first
      BY <2>2, <2>5, <3>1
    <3> QED
      BY <1>1, <2>2, <2>3, <3>2
  <2> QED
    BY <1>1, <2>2, <2>4, <2>5
<1>3. E[i].last < E[j].first
  BY <1>2
<1>4. E[j].first <= E[j].last
  BY DEF Covers
<1> QED
  BY <1>1, <1>3, <1>4

\* Where a fractal may be, and what it says of itself.
LEMMA FractalFacts ==
  ASSUME NEW E, NEW T, Covers(E, T), NEW i \in FractalIndices(E)
  PROVE  /\ i \in 2 .. Len(E) - 1 /\ i \in 1 .. Len(E) /\ i + 1 \in 1 .. Len(E) /\ i \in Nat
         /\ IsFractal(E, i)
         /\ FractalKind(E, i) \in {"top", "bottom"} /\ FractalPrice(E, i) \in Int
         /\ E[i].last \in Nat \ {0} /\ E[i + 1].first = E[i].last + 1
         /\ E[i + 1].last \in Nat /\ E[i + 1].first <= E[i + 1].last /\ E[i + 1].last <= T
<1>1. i \in 2 .. Len(E) - 1 /\ IsFractal(E, i) /\ Len(E) \in Nat
  BY DEF FractalIndices, IsFractal, IsTop, IsBottom, Covers
<1>2. /\ i \in 1 .. Len(E) /\ i + 1 \in 2 .. Len(E) /\ i + 1 \in 1 .. Len(E)
      /\ (i + 1) - 1 = i /\ i \in Nat
  BY <1>1
<1>3. E[i] \in EffectiveBar /\ E[i + 1] \in EffectiveBar
  BY <1>2 DEF Covers
<1>4. /\ E[i + 1].first = E[i].last + 1 /\ E[i + 1].first <= E[i + 1].last /\ E[i + 1].last <= T
      /\ 1 <= E[i].first /\ E[i].first <= E[i].last
  <2>1. E[i + 1].first = E[(i + 1) - 1].last + 1
    BY <1>2 DEF Covers
  <2> QED
    BY <1>2, <2>1 DEF Covers
<1>5. FractalKind(E, i) \in {"top", "bottom"} /\ FractalPrice(E, i) \in Int
  BY <1>3 DEF FractalKind, FractalPrice, EffectiveBar
<1>6. E[i].first \in Nat /\ E[i].last \in Nat /\ E[i + 1].last \in Nat
  BY <1>3 DEF EffectiveBar
<1> QED
  BY <1>1, <1>2, <1>4, <1>5, <1>6

\* The fractals of a prefix are those of the next one, of the same kind and price; a new
\* one has the new bar as its right one.
LEMMA FractalsStand ==
  ASSUME NEW E, NEW T, Covers(E, T), NEW E2, Covers(E2, T + 1), Lengthens(E, E2)
  PROVE  /\ \A i \in 1 .. Len(E) - 1 :
               /\ i \in FractalIndices(E2) <=> i \in FractalIndices(E)
               /\ IsFractal(E2, i) <=> IsFractal(E, i)
               /\ FractalKind(E2, i) = FractalKind(E, i)
               /\ FractalPrice(E2, i) = FractalPrice(E, i)
               /\ E2[i] = E[i] /\ E2[i + 1].first = E[i + 1].first
         /\ \A i \in FractalIndices(E2) : i \notin FractalIndices(E) =>
               i = Len(E) /\ Len(E2) = Len(E) + 1
<1> DEFINE n == Len(E)
<1>1. n \in Nat /\ Len(E2) \in {n, n + 1} /\ T \in Nat
  BY DEF Covers, Lengthens
<1>2. ASSUME NEW i \in 1 .. n - 1
      PROVE  /\ i \in FractalIndices(E2) <=> i \in FractalIndices(E)
             /\ IsFractal(E2, i) <=> IsFractal(E, i)
             /\ FractalKind(E2, i) = FractalKind(E, i)
             /\ FractalPrice(E2, i) = FractalPrice(E, i)
             /\ E2[i] = E[i] /\ E2[i + 1].first = E[i + 1].first
  <2>1. i \in 1 .. n /\ i \in 1 .. Len(E2) /\ i + 1 \in 1 .. n
    BY <1>1
  <2>2. /\ E2[i] = E[i] /\ E2[i + 1].first = E[i + 1].first
        /\ IsTop(E2, i) <=> IsTop(E, i)
        /\ IsBottom(E2, i) <=> IsBottom(E, i)
    BY <2>1 DEF Lengthens
  <2> QED
    BY <2>1, <2>2 DEF FractalIndices, IsFractal, FractalKind, FractalPrice
<1>3. ASSUME NEW i \in FractalIndices(E2), i \notin FractalIndices(E)
      PROVE  i = n /\ Len(E2) = n + 1
  <2>1. i \in 2 .. Len(E2) - 1
    BY FractalFacts, <1>1
  <2>2. i \notin 1 .. n - 1
    BY <1>2, <1>3
  <2> QED
    BY <1>1, <2>1, <2>2
<1> QED
  BY <1>2, <1>3

-----------------------------------------------------------------------------
(* The strokes of simplified-v1 *)

SimpleFractal ==
    [kind : {"top", "bottom"}, price : Int, formed : Nat, confirmed : Nat, tradable : Nat,
     status : {"confirmed", "candidate"}, index : Nat]

SimpleStroke ==
    [kind : {"up", "down"}, low : Int, high : Int, formed : Nat, confirmed : Nat,
     tradable : Nat, end : Nat]

SimpleFound == [active : SimpleFractal \cup {NoFractal}, strokes : Seq(SimpleStroke)]

\* Whether the effective bar i is a fractal that counts for strokes.
Counts(E, T, i) == IsFractal(E, i) /\ SimplifiedFractal(E, i, T).status = "confirmed"

\* A fractal of simplified-v1 and its dates.
LEMMA SimpleFractalType ==
  ASSUME NEW E, NEW T, Covers(E, T), NEW i \in FractalIndices(E)
  PROVE  /\ SimplifiedFractal(E, i, T) \in SimpleFractal
         /\ SimplifiedFractal(E, i, T).formed = E[i].last
         /\ SimplifiedFractal(E, i, T).kind = FractalKind(E, i)
         /\ SimplifiedFractal(E, i, T).formed \in Nat \ {0}
         /\ SimplifiedFractal(E, i, T).status = "confirmed" <=> E[i + 1].last < T
         /\ SimplifiedFractal(E, i, T).tradable
              = IF E[i + 1].last < T THEN E[i + 1].last + 1 ELSE None
         /\ SimplifiedFractal(E, i, T).confirmed
              = IF E[i + 1].last < T THEN E[i + 1].last ELSE None
<1> DEFINE right == E[i + 1]
<1>1. /\ FractalKind(E, i) \in {"top", "bottom"} /\ FractalPrice(E, i) \in Int
      /\ E[i].last \in Nat \ {0} /\ right.last \in Nat /\ i \in Nat
  BY FractalFacts
<1>2. TradeDateAfter(right.last, T) = IF right.last < T THEN right.last + 1 ELSE None
  BY DEF TradeDateAfter
<1>3. (right.last < T) <=> TradeDateAfter(right.last, T) # None
  BY <1>1, <1>2 DEF None
<1>4. TradeDateAfter(right.last, T) \in Nat
  BY <1>1, <1>2 DEF None
<1>5. SimplifiedFractal(E, i, T) =
        [kind |-> FractalKind(E, i), price |-> FractalPrice(E, i),
         formed |-> E[i].last,
         confirmed |-> IF right.last < T THEN right.last ELSE None,
         tradable |-> TradeDateAfter(right.last, T),
         status |-> IF right.last < T THEN "confirmed" ELSE "candidate", index |-> i]
  BY <1>3 DEF SimplifiedFractal
<1>6. (IF right.last < T THEN right.last ELSE None) \in Nat
  BY <1>1 DEF None
<1>7. (IF right.last < T THEN "confirmed" ELSE "candidate") \in {"confirmed", "candidate"}
  OBVIOUS
<1>8. SimplifiedFractal(E, i, T) \in SimpleFractal
  BY <1>1, <1>4, <1>5, <1>6, <1>7 DEF SimpleFractal
<1> QED
  BY <1>1, <1>2, <1>5, <1>8

\* A fractal counts once there is an effective bar behind its right one.
LEMMA CountsFacts ==
  ASSUME NEW E, NEW T, Covers(E, T), NEW i
  PROVE  /\ Counts(E, T, i) <=> i \in FractalIndices(E) /\ i + 1 < Len(E)
         /\ Counts(E, T, i) =>
              LET fractal == SimplifiedFractal(E, i, T)
              IN  /\ i \in Nat /\ fractal \in SimpleFractal
                  /\ fractal = [kind |-> FractalKind(E, i), price |-> FractalPrice(E, i),
                                formed |-> E[i].last, confirmed |-> E[i + 1].last,
                                tradable |-> E[i + 1].last + 1, status |-> "confirmed",
                                index |-> i]
                  /\ fractal.formed < fractal.confirmed
                  /\ fractal.tradable = fractal.confirmed + 1 /\ fractal.tradable <= T
<1>1. IsFractal(E, i) <=> i \in FractalIndices(E)
  BY DEF FractalIndices, IsFractal, IsTop, IsBottom, Covers
<1>2. ASSUME NEW j \in FractalIndices(E) PROVE j + 1 < Len(E) <=> E[j + 1].last < T
  <2>1. j + 1 \in 1 .. Len(E) /\ Len(E) \in Nat /\ Len(E) > 0 /\ Len(E) \in 1 .. Len(E)
    <3>1. j + 1 \in 1 .. Len(E)
      BY FractalFacts
    <3>2. Len(E) \in Nat
      BY DEF Covers
    <3> QED
      BY <3>1, <3>2
  <2>2. E[Len(E)].last = T
    BY <2>1 DEF Covers
  <2>3. CASE j + 1 < Len(E)
    BY <2>1, <2>2, <2>3, LastsGrow
  <2>4. CASE j + 1 = Len(E)
    <3>1. T \in Nat
      BY DEF Covers
    <3> QED
      BY <2>2, <2>4, <3>1
  <2> QED
    BY <2>1, <2>3, <2>4
<1>3. Counts(E, T, i) <=> i \in FractalIndices(E) /\ i + 1 < Len(E)
  BY <1>1, <1>2, SimpleFractalType DEF Counts
<1>4. ASSUME Counts(E, T, i)
      PROVE  LET fractal == SimplifiedFractal(E, i, T)
             IN  /\ i \in Nat /\ fractal \in SimpleFractal
                 /\ fractal = [kind |-> FractalKind(E, i), price |-> FractalPrice(E, i),
                               formed |-> E[i].last, confirmed |-> E[i + 1].last,
                               tradable |-> E[i + 1].last + 1, status |-> "confirmed",
                               index |-> i]
                 /\ fractal.formed < fractal.confirmed
                 /\ fractal.tradable = fractal.confirmed + 1 /\ fractal.tradable <= T
  <2>1. i \in FractalIndices(E) /\ E[i + 1].last < T
    BY <1>2, <1>3, <1>4
  <2>2. /\ i \in Nat /\ E[i].last \in Nat \ {0} /\ E[i + 1].first = E[i].last + 1
        /\ E[i + 1].last \in Nat /\ E[i + 1].first <= E[i + 1].last /\ T \in Nat
    BY <2>1, FractalFacts DEF Covers
  <2>3. SimplifiedFractal(E, i, T) \in SimpleFractal
    BY <2>1, SimpleFractalType
  <2>4. TradeDateAfter(E[i + 1].last, T) = E[i + 1].last + 1
    BY <2>1 DEF TradeDateAfter
  <2>5. E[i + 1].last + 1 # None
    BY <2>2 DEF None
  <2>6. SimplifiedFractal(E, i, T) =
          [kind |-> FractalKind(E, i), price |-> FractalPrice(E, i),
           formed |-> E[i].last, confirmed |-> E[i + 1].last,
           tradable |-> E[i + 1].last + 1, status |-> "confirmed", index |-> i]
    BY <2>4, <2>5 DEF SimplifiedFractal
  <2> QED
    BY <2>1, <2>2, <2>3, <2>6
<1> QED
  BY <1>3, <1>4

\* What counted counts in the next prefix, unchanged; what has come to count becomes
\* tradable with the new bar.
LEMMA CountsStand ==
  ASSUME NEW E, NEW T, Covers(E, T), NEW E2, Covers(E2, T + 1), Lengthens(E, E2), NEW i \in Nat
  PROVE  /\ i <= Len(E) - 2 => /\ Counts(E2, T + 1, i) <=> Counts(E, T, i)
                               /\ Counts(E, T, i) => SimplifiedFractal(E2, i, T + 1)
                                                       = SimplifiedFractal(E, i, T)
         /\ i > Len(E) - 2 /\ Counts(E2, T + 1, i) =>
               /\ i = Len(E) - 1 /\ Len(E2) = Len(E) + 1
               /\ SimplifiedFractal(E2, i, T + 1).confirmed = T
               /\ SimplifiedFractal(E2, i, T + 1).tradable = T + 1
<1> DEFINE n == Len(E)
<1>1. n \in Nat /\ Len(E2) \in {n, n + 1} /\ T \in Nat /\ T + 1 \in Nat
  BY DEF Covers, Lengthens
<1>2. /\ Counts(E, T, i) <=> i \in FractalIndices(E) /\ i + 1 < n
      /\ Counts(E2, T + 1, i) <=> i \in FractalIndices(E2) /\ i + 1 < Len(E2)
  BY CountsFacts
<1>3. ASSUME i <= n - 2
      PROVE  /\ Counts(E2, T + 1, i) <=> Counts(E, T, i)
             /\ Counts(E, T, i) => SimplifiedFractal(E2, i, T + 1) = SimplifiedFractal(E, i, T)
  <2>1. CASE i = 0
    <3>1. i \notin FractalIndices(E) /\ i \notin FractalIndices(E2)
      BY <2>1 DEF FractalIndices
    <3> QED
      BY <1>2, <3>1
  <2>2. CASE i # 0
    <3>1. i \in 1 .. n - 1 /\ i + 1 \in 1 .. n - 1
      BY <1>1, <1>3, <2>2
    <3>2. /\ i \in FractalIndices(E2) <=> i \in FractalIndices(E)
          /\ FractalKind(E2, i) = FractalKind(E, i) /\ FractalPrice(E2, i) = FractalPrice(E, i)
          /\ E2[i] = E[i] /\ E2[i + 1] = E[i + 1]
      BY <3>1, FractalsStand
    <3>3. Counts(E2, T + 1, i) <=> Counts(E, T, i)
      BY <1>1, <1>2, <3>1, <3>2
    <3>4. ASSUME Counts(E, T, i)
          PROVE  SimplifiedFractal(E2, i, T + 1) = SimplifiedFractal(E, i, T)
      <4>1. /\ SimplifiedFractal(E, i, T) =
                 [kind |-> FractalKind(E, i), price |-> FractalPrice(E, i),
                  formed |-> E[i].last, confirmed |-> E[i + 1].last,
                  tradable |-> E[i + 1].last + 1, status |-> "confirmed", index |-> i]
            /\ SimplifiedFractal(E2, i, T + 1) =
                 [kind |-> FractalKind(E2, i), price |-> FractalPrice(E2, i),
                  formed |-> E2[i].last, confirmed |-> E2[i + 1].last,
                  tradable |-> E2[i + 1].last + 1, status |-> "confirmed", index |-> i]
        BY <3>3, <3>4, CountsFacts
      <4> QED
        BY <3>2, <4>1
    <3> QED
      BY <3>3, <3>4
  <2> QED
    BY <2>1, <2>2
<1>4. ASSUME i > n - 2, Counts(E2, T + 1, i)
      PROVE  /\ i = n - 1 /\ Len(E2) = n + 1
             /\ SimplifiedFractal(E2, i, T + 1).confirmed = T
             /\ SimplifiedFractal(E2, i, T + 1).tradable = T + 1
  <2>1. i \in FractalIndices(E2) /\ i + 1 < Len(E2)
    BY <1>2, <1>4
  <2>2. i = n - 1 /\ Len(E2) = n + 1
    BY <1>1, <1>4, <2>1
  <2>3. n > 0 /\ n \in 1 .. n /\ E2[n] = E[n] /\ i + 1 = n
    <3>1. n > 0 /\ n \in 1 .. n /\ i + 1 = n
      BY <1>1, <2>2
    <3> QED
      BY <2>2, <3>1 DEF Lengthens
  <2>4. E2[i + 1].last = T
    BY <2>3 DEF Covers
  <2>5. SimplifiedFractal(E2, i, T + 1) =
          [kind |-> FractalKind(E2, i), price |-> FractalPrice(E2, i),
           formed |-> E2[i].last, confirmed |-> E2[i + 1].last,
           tradable |-> E2[i + 1].last + 1, status |-> "confirmed", index |-> i]
    BY <1>4, CountsFacts
  <2> QED
    BY <2>2, <2>4, <2>5
<1> QED
  BY <1>3, <1>4

SimpleTurn(E, T, i, found) ==
    IF Counts(E, T, i) THEN ExtendSimplified(found, SimplifiedFractal(E, i, T)) ELSE found

\* A turn over the fractals leaves strokes.
LEMMA ExtendSimpleType ==
  ASSUME NEW found \in SimpleFound, NEW fractal \in SimpleFractal
  PROVE  ExtendSimplified(found, fractal) \in SimpleFound
<1> DEFINE active == found.active
           stroke == SimplifiedStroke(active, fractal)
<1>1. /\ active \in SimpleFractal \cup {NoFractal} /\ found.strokes \in Seq(SimpleStroke)
      /\ found = [active |-> active, strokes |-> found.strokes]
  BY DEF SimpleFound
<1>2. [found EXCEPT !.active = fractal] \in SimpleFound
  BY DEF SimpleFound
<1>3. ASSUME active # NoFractal
      PROVE  [active |-> fractal, strokes |-> Append(found.strokes, stroke)] \in SimpleFound
  <2>1. active \in SimpleFractal
    BY <1>1, <1>3
  <2>2. Lower(active.price, fractal.price) \in Int /\ Higher(active.price, fractal.price) \in Int
    BY <2>1 DEF SimpleFractal, Lower, Higher
  <2>3. stroke \in SimpleStroke
    BY <2>1, <2>2 DEF SimplifiedStroke, SimpleStroke, SimpleFractal
  <2> HIDE DEF stroke, active
  <2>4. Append(found.strokes, stroke) \in Seq(SimpleStroke)
    BY <1>1, <2>3
  <2> QED
    BY <2>4 DEF SimpleFound
<1> HIDE DEF SimpleFound
<1> QED
  BY <1>2, <1>3 DEF ExtendSimplified

\* The function by which the strokes are defined exists.
LEMMA SimpleTurns ==
  ASSUME NEW E, NEW T, Covers(E, T)
  PROVE  LET found == SimplifiedFound(E, T)
         IN  /\ found \in [0 .. Len(E) -> SimpleFound]
             /\ found[0] = [active |-> NoFractal, strokes |-> <<>>]
             /\ \A i \in 1 .. Len(E) : found[i] = SimpleTurn(E, T, i, found[i - 1])
<1> DEFINE N == Len(E)
           base == [active |-> NoFractal, strokes |-> <<>>]
           step == [ip \in Nat \X SimpleFound |-> SimpleTurn(E, T, ip[1], ip[2])]
           Body(f) == [i \in 0 .. N |-> IF i = 0 THEN base ELSE SimpleTurn(E, T, i, f[i - 1])]
<1>1. N \in Nat /\ base \in SimpleFound
  BY EmptySeq DEF Covers, SimpleFound
<1>2. \A i \in Nat, p \in SimpleFound : SimpleTurn(E, T, i, p) \in SimpleFound
  BY CountsFacts, ExtendSimpleType DEF SimpleTurn
<1>3. step \in [Nat \X SimpleFound -> SimpleFound]
  BY <1>2
<1>4. PICK f \in [0 .. N -> SimpleFound] : Recursive(f, base, step, N)
  <2> HIDE DEF N, base, step
  <2> QED
    BY <1>1, <1>3, RecursiveFunction
<1>5. \A i \in 1 .. N : f[i] = SimpleTurn(E, T, i, f[i - 1])
  <2>1. ASSUME NEW i \in 1 .. N PROVE f[i] = SimpleTurn(E, T, i, f[i - 1])
    <3>1. i \in Nat /\ i - 1 \in 0 .. N /\ f[i - 1] \in SimpleFound
      BY <1>1
    <3>2. step[<<i, f[i - 1]>>] = SimpleTurn(E, T, i, f[i - 1])
      BY <3>1
    <3> QED
      BY <1>4, <3>2 DEF Recursive
  <2> QED
    BY <2>1
<1>6. f = Body(f)
  BY <1>1, <1>4, <1>5 DEF Recursive
<1>7. SimplifiedFound(E, T) = CHOOSE g : g = Body(g)
  BY DEF SimplifiedFound, SimpleTurn, Counts
<1> DEFINE found == SimplifiedFound(E, T)
<1>8. found = Body(found)
  <2> HIDE DEF Body
  <2> QED
    BY <1>6, <1>7
<1>9. /\ found[0] = base
      /\ \A i \in 1 .. N : found[i] = SimpleTurn(E, T, i, found[i - 1])
  <2> HIDE DEF found
  <2> HIDE DEF base, N
  <2>1. found = [i \in 0 .. N |-> IF i = 0 THEN base ELSE SimpleTurn(E, T, i, found[i - 1])]
    BY ONLY <1>8
  <2>2. 0 \in 0 .. N /\ \A i \in 1 .. N : i \in 0 .. N /\ i # 0
    BY <1>1
  <2>3. found[0] = base
    BY ONLY <2>1, <2>2
  <2>4. ASSUME NEW i \in 1 .. N PROVE found[i] = SimpleTurn(E, T, i, found[i - 1])
    BY ONLY <2>1, <2>2, i \in 1 .. N
  <2> QED
    BY <2>3, <2>4
<1>10. \A i \in 0 .. N : found[i] = f[i]
  <2> DEFINE P == {i \in 0 .. N : found[i] = f[i]}
  <2> HIDE DEF found
  <2>1. P \in SUBSET (0 .. N) /\ 0 \in P
    BY <1>1, <1>4, <1>9 DEF Recursive
  <2>2. ASSUME NEW i \in P, i < N PROVE i + 1 \in P
    <3>1. i + 1 \in 1 .. N /\ (i + 1) - 1 = i /\ i + 1 \in 0 .. N
      BY <1>1, <2>2
    <3>2. f[i + 1] = SimpleTurn(E, T, i + 1, f[i])
      BY <1>5, <3>1
    <3>3. found[i + 1] = SimpleTurn(E, T, i + 1, found[i])
      BY <1>9, <3>1
    <3> QED
      BY <3>1, <3>2, <3>3
  <2>3. P = 0 .. N
    <3> HIDE DEF P, N
    <3> QED
      BY <1>1, <2>1, <2>2, BoundedInduction
  <2> QED
    BY <2>3
<1>11. found \in [0 .. N -> SimpleFound]
  <2> HIDE DEF found, N, base
  <2>1. found = [i \in 0 .. N |-> IF i = 0 THEN base ELSE SimpleTurn(E, T, i, found[i - 1])]
    BY ONLY <1>8
  <2>2. \A i \in 0 .. N : found[i] \in SimpleFound
    BY <1>10
  <2> QED
    BY <2>1, <2>2
<1> QED
  BY <1>9, <1>11

\* A stroke is dated by its fractals: formed at the first, ended at the second.
SimpleStrokeOk(stroke, T) ==
    /\ 0 < stroke.formed /\ stroke.formed < stroke.end /\ stroke.end < stroke.confirmed
    /\ stroke.tradable = stroke.confirmed + 1 /\ stroke.tradable <= T

\* Strokes come one behind the other.
SimpleOk(strokes, T) ==
    /\ strokes \in Seq(SimpleStroke)
    /\ \A k \in DOMAIN strokes : SimpleStrokeOk(strokes[k], T)
    /\ \A k, l \in DOMAIN strokes : k < l => strokes[k].end <= strokes[l].formed

\* After the effective bar i.
SimpleInv(E, T, i, found) ==
    /\ found \in SimpleFound
    /\ SimpleOk(found.strokes, T)
    /\ found.active = NoFractal => found.strokes = <<>>
    /\ found.active # NoFractal =>
          /\ \E j \in 1 .. i : Counts(E, T, j) /\ found.active = SimplifiedFractal(E, j, T)
          /\ \A k \in DOMAIN found.strokes : found.strokes[k].end <= found.active.formed

\* One turn keeps the strokes in order, before the active fractal.
LEMMA SimpleTurnKeeps ==
  ASSUME NEW E, NEW T, Covers(E, T), NEW i \in 1 .. Len(E),
         NEW found, SimpleInv(E, T, i - 1, found)
  PROVE  SimpleInv(E, T, i, SimpleTurn(E, T, i, found))
<1>1. i \in Nat /\ Len(E) \in Nat
  BY DEF Covers
<1>2. CASE ~Counts(E, T, i)
  <2>1. SimpleTurn(E, T, i, found) = found
    BY <1>2 DEF SimpleTurn
  <2>2. \A j \in 1 .. i - 1 : j \in 1 .. i
    BY <1>1
  <2> QED
    BY <2>1, <2>2 DEF SimpleInv
<1>3. CASE Counts(E, T, i)
  <2> DEFINE fractal == SimplifiedFractal(E, i, T)
             active == found.active
             strokes == found.strokes
             stroke == SimplifiedStroke(active, fractal)
             replaced == [found EXCEPT !.active = fractal]
             added == [active |-> fractal, strokes |-> Append(strokes, stroke)]
             next == SimpleTurn(E, T, i, found)
  <2>1. /\ fractal \in SimpleFractal /\ fractal.formed = E[i].last
        /\ fractal.formed < fractal.confirmed
        /\ fractal.tradable = fractal.confirmed + 1 /\ fractal.tradable <= T
    BY <1>3, CountsFacts
  <2>2. fractal # NoFractal
    BY <2>1 DEF NoFractal, SimpleFractal
  <2>3. /\ found \in SimpleFound /\ SimpleOk(strokes, T)
        /\ strokes \in Seq(SimpleStroke) /\ active \in SimpleFractal \cup {NoFractal}
    BY DEF SimpleInv, SimpleFound
  <2>4. active # NoFractal => /\ active \in SimpleFractal
                              /\ 0 < active.formed /\ active.formed < fractal.formed
    <3> SUFFICES ASSUME active # NoFractal
                 PROVE  /\ active \in SimpleFractal
                        /\ 0 < active.formed /\ active.formed < fractal.formed
      OBVIOUS
    <3>1. PICK j \in 1 .. i - 1 : Counts(E, T, j) /\ active = SimplifiedFractal(E, j, T)
      BY DEF SimpleInv
    <3>2. j \in 1 .. Len(E) /\ j < i
      BY <1>1
    <3>3. E[j].last < E[i].last
      BY <3>2, LastsGrow
    <3>4. active.formed = E[j].last
      BY <3>1, CountsFacts
    <3>5. E[j].last > 0
      <4>1. j \in FractalIndices(E)
        BY <3>1, CountsFacts
      <4> QED
        BY <4>1, FractalFacts
    <3> QED
      BY <2>1, <2>3, <3>3, <3>4, <3>5
  <2>5. \A k \in DOMAIN strokes : strokes[k].end < fractal.formed
    <3> SUFFICES ASSUME NEW k \in DOMAIN strokes PROVE strokes[k].end < fractal.formed
      OBVIOUS
    <3>1. strokes[k] \in SimpleStroke
      BY <2>3
    <3>2. active # NoFractal
      <4>1. strokes # <<>>
        OBVIOUS
      <4> QED
        BY <4>1 DEF SimpleInv
    <3>3. strokes[k].end <= active.formed
      BY <3>2 DEF SimpleInv
    <3>4. strokes[k].end \in Nat /\ active.formed \in Nat /\ fractal.formed \in Nat
      BY <2>1, <2>4, <3>1, <3>2 DEF SimpleStroke, SimpleFractal
    <3> QED
      BY <2>4, <3>2, <3>3, <3>4
  <2>6. \E j \in 1 .. i : Counts(E, T, j) /\ fractal = SimplifiedFractal(E, j, T)
    BY <1>1, <1>3
  <2>7. /\ fractal.formed \in Nat
        /\ \A k \in DOMAIN strokes : strokes[k].end \in Nat
    <3>1. fractal.formed \in Nat
      BY <2>1 DEF SimpleFractal
    <3> HIDE DEF fractal, strokes
    <3>2. \A k \in DOMAIN strokes : strokes[k] \in SimpleStroke
      BY <2>3
    <3>3. \A k \in DOMAIN strokes : strokes[k].end \in Nat
      BY <3>2 DEF SimpleStroke
    <3> QED
      BY <3>1, <3>3
  <2>8. SimpleInv(E, T, i, replaced)
    <3>1. replaced.active = fractal /\ replaced.strokes = strokes /\ replaced \in SimpleFound
      BY <2>1, <2>3 DEF SimpleFound
    <3>2. \A k \in DOMAIN strokes : strokes[k].end <= fractal.formed
      BY <2>5, <2>7
    <3> HIDE DEF replaced, fractal, strokes, active
    <3> QED
      BY <2>2, <2>3, <2>6, <3>1, <3>2 DEF SimpleInv
  <2>9. ASSUME active # NoFractal PROVE SimpleInv(E, T, i, added)
    <3>1. active \in SimpleFractal /\ 0 < active.formed /\ active.formed < fractal.formed
      BY <2>4, <2>9
    <3>2. added \in SimpleFound /\ stroke \in SimpleStroke
      <4>1. /\ Lower(active.price, fractal.price) \in Int
            /\ Higher(active.price, fractal.price) \in Int
        BY <2>1, <3>1 DEF SimpleFractal, Lower, Higher
      <4>2. stroke \in SimpleStroke
        BY <2>1, <3>1, <4>1 DEF SimplifiedStroke, SimpleStroke, SimpleFractal
      <4> HIDE DEF stroke, fractal, strokes, active
      <4>3. Append(strokes, stroke) \in Seq(SimpleStroke)
        BY <2>3, <4>2
      <4> QED
        BY <2>1, <4>2, <4>3 DEF SimpleFound
    <3>3. /\ stroke.formed = active.formed /\ stroke.end = fractal.formed
          /\ stroke.confirmed = fractal.confirmed /\ stroke.tradable = fractal.tradable
      BY DEF SimplifiedStroke
    <3>4. SimpleStrokeOk(stroke, T)
      BY <2>1, <3>1, <3>3 DEF SimpleStrokeOk
    <3>5. \A k \in DOMAIN strokes : strokes[k].end <= stroke.formed
      <4>1. \A k \in DOMAIN strokes : strokes[k].end <= active.formed
        BY <2>9 DEF SimpleInv
      <4> QED
        BY <3>3, <4>1
    <3> DEFINE more == Append(strokes, stroke)
               N == Len(strokes)
    <3> HIDE DEF stroke, strokes, active, fractal
    <3>6. /\ N \in Nat /\ DOMAIN strokes = 1 .. N /\ DOMAIN more = 1 .. N + 1
          /\ more[N + 1] = stroke /\ \A k \in 1 .. N : more[k] = strokes[k]
          /\ more \in Seq(SimpleStroke)
      BY <2>3, <3>2
    <3> HIDE DEF more, N
    <3>7. \A k \in DOMAIN more : SimpleStrokeOk(more[k], T)
      <4> SUFFICES ASSUME NEW k \in 1 .. N + 1 PROVE SimpleStrokeOk(more[k], T)
        BY <3>6
      <4>1. CASE k = N + 1
        BY <3>4, <3>6, <4>1
      <4>2. CASE k \in 1 .. N
        BY <2>3, <3>6, <4>2 DEF SimpleOk
      <4> QED
        BY <3>6, <4>1, <4>2
    <3>8. \A k, l \in DOMAIN more : k < l => more[k].end <= more[l].formed
      <4> SUFFICES ASSUME NEW k \in 1 .. N + 1, NEW l \in 1 .. N + 1, k < l
                   PROVE  more[k].end <= more[l].formed
        BY <3>6
      <4>1. k \in 1 .. N
        BY <3>6
      <4>2. CASE l = N + 1
        BY <3>5, <3>6, <4>1, <4>2
      <4>3. CASE l \in 1 .. N
        BY <2>3, <3>6, <4>1, <4>3 DEF SimpleOk
      <4> QED
        BY <3>6, <4>2, <4>3
    <3>9. SimpleOk(more, T)
      BY <3>6, <3>7, <3>8 DEF SimpleOk
    <3>10. \A k \in DOMAIN more : more[k].end <= fractal.formed
      <4> SUFFICES ASSUME NEW k \in 1 .. N + 1 PROVE more[k].end <= fractal.formed
        BY <3>6
      <4>1. CASE k = N + 1
        BY <2>7, <3>3, <3>6, <4>1
      <4>2. CASE k \in 1 .. N
        BY <2>5, <2>7, <3>6, <4>2
      <4> QED
        BY <3>6, <4>1, <4>2
    <3>11. added.active = fractal /\ added.strokes = more
      BY DEF more
    <3> HIDE DEF added
    <3> QED
      BY <2>2, <2>6, <3>2, <3>9, <3>10, <3>11 DEF SimpleInv
  <2>10. SimpleInv(E, T, i, found)
    <3>1. \A j \in 1 .. i - 1 : j \in 1 .. i
      BY <1>1
    <3> QED
      BY <3>1 DEF SimpleInv
  <2>11. next = replaced \/ next = found \/ (active # NoFractal /\ next = added)
    BY <1>3 DEF SimpleTurn, ExtendSimplified
  <2> HIDE DEF next, replaced, added
  <2>12. SimpleInv(E, T, i, next)
    BY <2>8, <2>9, <2>10, <2>11
  <2> QED
    BY <2>12 DEF next
<1> QED
  BY <1>2, <1>3

\* All turns do, hence the strokes of any prefix come one behind the other.
LEMMA SimpleInvariant ==
  ASSUME NEW E, NEW T, Covers(E, T)
  PROVE  /\ \A i \in 0 .. Len(E) : SimpleInv(E, T, i, SimplifiedFound(E, T)[i])
         /\ SimpleOk(SimplifiedStrokes(E, T), T)
<1> DEFINE N == Len(E)
           found == SimplifiedFound(E, T)
           P == {i \in 0 .. N : SimpleInv(E, T, i, found[i])}
<1>1. /\ N \in Nat /\ found[0] = [active |-> NoFractal, strokes |-> <<>>]
      /\ found[0] \in SimpleFound
      /\ \A i \in 1 .. N : found[i] = SimpleTurn(E, T, i, found[i - 1])
  <2>1. N \in Nat
    BY DEF Covers
  <2>2. /\ found \in [0 .. N -> SimpleFound]
        /\ found[0] = [active |-> NoFractal, strokes |-> <<>>]
        /\ \A i \in 1 .. N : found[i] = SimpleTurn(E, T, i, found[i - 1])
    BY SimpleTurns
  <2> HIDE DEF found
  <2> QED
    BY <2>1, <2>2
<1> HIDE DEF found
<1>2. P \in SUBSET (0 .. N) /\ 0 \in P
  <2>1. found[0].active = NoFractal /\ found[0].strokes = <<>>
    BY <1>1
  <2>2. <<>> \in Seq(SimpleStroke) /\ DOMAIN <<>> = {}
    BY EmptySeq
  <2>3. SimpleOk(<<>>, T)
    BY <2>2 DEF SimpleOk
  <2>4. SimpleInv(E, T, 0, found[0])
    BY <1>1, <2>1, <2>3 DEF SimpleInv
  <2> QED
    BY <1>1, <2>4
<1>3. ASSUME NEW i \in P, i < N PROVE i + 1 \in P
  <2>1. i + 1 \in 1 .. N /\ (i + 1) - 1 = i /\ i + 1 \in 0 .. N
    BY <1>1, <1>3
  <2>2. found[i + 1] = SimpleTurn(E, T, i + 1, found[i])
    BY <1>1, <2>1
  <2>3. SimpleInv(E, T, (i + 1) - 1, found[i])
    BY <2>1
  <2>4. SimpleInv(E, T, i + 1, found[i + 1])
    BY <2>1, <2>2, <2>3, SimpleTurnKeeps
  <2> QED
    BY <2>1, <2>4
<1>4. P = 0 .. N
  <2> HIDE DEF P, N
  <2> QED
    BY <1>1, <1>2, <1>3, BoundedInduction
<1>5. \A i \in 0 .. N : SimpleInv(E, T, i, found[i])
  BY <1>4
<1>6. N \in 0 .. N
  BY <1>1
<1>7. SimpleOk(found[N].strokes, T)
  BY <1>5, <1>6 DEF SimpleInv
<1> QED
  BY <1>5, <1>7 DEF SimplifiedStrokes, found

\* The turns from a to b change nothing if no bar in between counts.
LEMMA SimpleQuiet ==
  ASSUME NEW E, NEW T, Covers(E, T), NEW a \in 0 .. Len(E), NEW b \in a .. Len(E),
         \A i \in a + 1 .. b : ~Counts(E, T, i)
  PROVE  SimplifiedFound(E, T)[b] = SimplifiedFound(E, T)[a]
<1> DEFINE N == Len(E)
           found == SimplifiedFound(E, T)
           P == {m \in 0 .. b - a : found[a + m] = found[a]}
<1>1. N \in Nat /\ a \in Nat /\ b \in Nat /\ b - a \in Nat
  BY DEF Covers
<1>2. \A i \in 1 .. N : found[i] = SimpleTurn(E, T, i, found[i - 1])
  BY SimpleTurns
<1> HIDE DEF found
<1>3. P \in SUBSET (0 .. b - a) /\ 0 \in P
  BY <1>1
<1>4. ASSUME NEW m \in P, m < b - a PROVE m + 1 \in P
  <2>1. /\ a + (m + 1) \in 1 .. N /\ (a + (m + 1)) - 1 = a + m /\ m + 1 \in 0 .. b - a
        /\ a + (m + 1) \in a + 1 .. b
    BY <1>1, <1>4
  <2>2. found[a + (m + 1)] = SimpleTurn(E, T, a + (m + 1), found[a + m])
    BY <1>2, <2>1
  <2>3. found[a + (m + 1)] = found[a + m]
    BY <2>1, <2>2 DEF SimpleTurn
  <2> QED
    BY <2>1, <2>3
<1>5. P = 0 .. b - a
  <2> DEFINE M == b - a
  <2>1. M \in Nat /\ P \in SUBSET (0 .. M) /\ 0 \in P /\ \A m \in P : m < M => m + 1 \in P
    BY <1>1, <1>3, <1>4
  <2> HIDE DEF P, M
  <2>2. P = 0 .. M
    BY <2>1, BoundedInduction
  <2> QED
    BY <2>2 DEF M
<1>6. b - a \in 0 .. b - a /\ a + (b - a) = b
  BY <1>1
<1>7. b - a \in P
  BY <1>5, <1>6
<1> QED
  BY <1>6, <1>7 DEF found

\* The strokes of a prefix are those of the next one, which has at most one more, tradable
\* with the new bar.
LEMMA SimpleStrokesStand ==
  ASSUME NEW E, NEW T, Covers(E, T), NEW E2, Covers(E2, T + 1), Lengthens(E, E2)
  PROVE  LET S == SimplifiedStrokes(E, T)
             S2 == SimplifiedStrokes(E2, T + 1)
         IN  \/ S2 = S
             \/ \E stroke \in SimpleStroke : /\ S2 = Append(S, stroke)
                                             /\ stroke.confirmed = T /\ stroke.tradable = T + 1
<1> DEFINE n == Len(E)
           n2 == Len(E2)
           found == SimplifiedFound(E, T)
           found2 == SimplifiedFound(E2, T + 1)
           a == IF n >= 2 THEN n - 2 ELSE 0
<1>1. /\ n \in Nat /\ n2 \in {n, n + 1} /\ T \in Nat /\ T + 1 \in Nat
      /\ a \in 0 .. n /\ a \in 0 .. n2 /\ a \in Nat /\ a >= n - 2 /\ (a > 0 => a = n - 2)
  BY DEF Covers, Lengthens
<1>2. /\ \A i \in 1 .. n : found[i] = SimpleTurn(E, T, i, found[i - 1])
      /\ \A i \in 1 .. n2 : found2[i] = SimpleTurn(E2, T + 1, i, found2[i - 1])
      /\ found2[0] = found[0]
  BY SimpleTurns
<1> HIDE DEF found, found2
<1>3. found2[a] = found[a]
  <2> DEFINE P == {i \in 0 .. a : found2[i] = found[i]}
  <2>1. P \in SUBSET (0 .. a) /\ 0 \in P
    BY <1>1, <1>2
  <2>2. ASSUME NEW i \in P, i < a PROVE i + 1 \in P
    <3>1. /\ i + 1 \in 1 .. n /\ i + 1 \in 1 .. n2 /\ (i + 1) - 1 = i /\ i + 1 \in 0 .. a
          /\ i + 1 \in Nat /\ i + 1 <= n - 2
      BY <1>1, <2>2
    <3>2. /\ Counts(E2, T + 1, i + 1) <=> Counts(E, T, i + 1)
          /\ Counts(E, T, i + 1) => SimplifiedFractal(E2, i + 1, T + 1)
                                      = SimplifiedFractal(E, i + 1, T)
      BY <3>1, CountsStand
    <3>3. SimpleTurn(E2, T + 1, i + 1, found2[i]) = SimpleTurn(E, T, i + 1, found[i])
      BY <2>2, <3>2 DEF SimpleTurn
    <3>4. /\ found[i + 1] = SimpleTurn(E, T, i + 1, found[i])
          /\ found2[i + 1] = SimpleTurn(E2, T + 1, i + 1, found2[i])
      BY <1>2, <3>1
    <3> QED
      BY <3>1, <3>3, <3>4
  <2>3. P = 0 .. a
    <3> HIDE DEF P, a
    <3> QED
      BY <1>1, <2>1, <2>2, BoundedInduction
  <2> QED
    BY <1>1, <2>3
<1> HIDE DEF a
<1>4. found[n] = found[a]
  <2>1. \A i \in a + 1 .. n : ~Counts(E, T, i)
    BY <1>1, CountsFacts
  <2>2. n \in a .. n
    BY <1>1
  <2> QED
    BY <1>1, <2>1, <2>2, SimpleQuiet DEF found
<1>5. \A i \in a + 1 .. n2 : Counts(E2, T + 1, i) =>
         /\ i = n - 1 /\ n2 = n + 1
         /\ SimplifiedFractal(E2, i, T + 1).confirmed = T
         /\ SimplifiedFractal(E2, i, T + 1).tradable = T + 1
  <2> SUFFICES ASSUME NEW i \in a + 1 .. n2, Counts(E2, T + 1, i)
               PROVE  /\ i = n - 1 /\ n2 = n + 1
                      /\ SimplifiedFractal(E2, i, T + 1).confirmed = T
                      /\ SimplifiedFractal(E2, i, T + 1).tradable = T + 1
    OBVIOUS
  <2>1. i \in Nat /\ i > n - 2
    BY <1>1
  <2> QED
    BY <2>1, CountsStand
<1>6. CASE ~Counts(E2, T + 1, n - 1) \/ n - 1 \notin a + 1 .. n2
  <2>1. \A i \in a + 1 .. n2 : ~Counts(E2, T + 1, i)
    BY <1>5, <1>6
  <2>2. n2 \in a .. n2
    BY <1>1
  <2>3. found2[n2] = found2[a]
    BY <1>1, <2>1, <2>2, SimpleQuiet DEF found2
  <2> QED
    BY <1>3, <1>4, <2>3 DEF SimplifiedStrokes, found, found2
<1>7. CASE Counts(E2, T + 1, n - 1) /\ n - 1 \in a + 1 .. n2
  <2> DEFINE i == n - 1
             fractal == SimplifiedFractal(E2, i, T + 1)
             active == found[a].active
             strokes == found[a].strokes
             stroke == SimplifiedStroke(active, fractal)
  <2>1. n2 = n + 1 /\ fractal.confirmed = T /\ fractal.tradable = T + 1
    BY <1>5, <1>7
  <2>2. fractal \in SimpleFractal
    BY <1>7, CountsFacts
  <2>3. a = n - 2 /\ i \in 1 .. n2 /\ i - 1 = a /\ i \in 0 .. n2 /\ n2 \in i .. n2
    BY <1>1, <1>7, <2>1
  <2>4. found2[i] = ExtendSimplified(found[a], fractal)
    <3>1. found2[i] = SimpleTurn(E2, T + 1, i, found2[i - 1])
      BY <1>2, <2>3
    <3> QED
      BY <1>3, <1>7, <2>3, <3>1 DEF SimpleTurn
  <2>5. found2[n2] = found2[i]
    <3>1. \A j \in i + 1 .. n2 : ~Counts(E2, T + 1, j)
      BY <1>1, <1>5, <2>3
    <3> QED
      BY <2>3, <3>1, SimpleQuiet DEF found2
  <2>6. found[a] \in SimpleFound
    <3>1. found \in [0 .. n -> SimpleFound]
      BY SimpleTurns DEF found
    <3> QED
      BY <1>1, <3>1
  <2>7. /\ active \in SimpleFractal \cup {NoFractal} /\ strokes \in Seq(SimpleStroke)
        /\ [found[a] EXCEPT !.active = fractal].strokes = strokes
    BY <2>6 DEF SimpleFound
  <2>8. active # NoFractal => stroke \in SimpleStroke
    <3> SUFFICES ASSUME active # NoFractal PROVE stroke \in SimpleStroke
      OBVIOUS
    <3>1. active \in SimpleFractal
      BY <2>7
    <3>2. Lower(active.price, fractal.price) \in Int /\ Higher(active.price, fractal.price) \in Int
      BY <2>2, <3>1 DEF SimpleFractal, Lower, Higher
    <3> QED
      BY <2>2, <3>1, <3>2 DEF SimplifiedStroke, SimpleStroke, SimpleFractal
  <2>9. stroke.confirmed = T /\ stroke.tradable = T + 1
    BY <2>1 DEF SimplifiedStroke
  <2>10. \/ found2[i].strokes = strokes
         \/ active # NoFractal /\ found2[i].strokes = Append(strokes, stroke)
    <3> HIDE DEF stroke
    <3>1. \/ found2[i] = [found[a] EXCEPT !.active = fractal]
          \/ found2[i] = found[a]
          \/ active # NoFractal
             /\ found2[i] = [active |-> fractal, strokes |-> Append(strokes, stroke)]
      BY <2>4 DEF ExtendSimplified, stroke
    <3>2. CASE found2[i] = [found[a] EXCEPT !.active = fractal]
      BY <2>7, <3>2
    <3>3. CASE found2[i] = found[a]
      BY <3>3
    <3>4. CASE /\ active # NoFractal
               /\ found2[i] = [active |-> fractal, strokes |-> Append(strokes, stroke)]
      <4> HIDE DEF fractal, strokes, active
      <4> QED
        BY <3>4
    <3> QED
      BY <3>1, <3>2, <3>3, <3>4
  <2>11. SimplifiedStrokes(E, T) = strokes /\ SimplifiedStrokes(E2, T + 1) = found2[i].strokes
    BY <1>4, <2>5 DEF SimplifiedStrokes, found, found2
  <2> HIDE DEF stroke, strokes, i
  <2> QED
    BY <2>8, <2>9, <2>10, <2>11
<1> QED
  BY <1>6, <1>7

-----------------------------------------------------------------------------
(* The central areas of simplified-v1 *)

\* Strokes with a range.
HasRanges(strokes) ==
    /\ Len(strokes) \in Nat
    /\ \A i \in 1 .. Len(strokes) : strokes[i].low \in Int /\ strokes[i].high \in Int

\* The shared range is that of two of the strokes.
LEMMA SharedRange ==
  ASSUME NEW strokes, HasRanges(strokes),
         NEW first \in 1 .. Len(strokes), NEW last \in first .. Len(strokes)
  PROVE  /\ SharedLow(strokes, first, last) \in Int /\ SharedHigh(strokes, first, last) \in Int
         /\ \A i \in first .. last : /\ strokes[i].low <= SharedLow(strokes, first, last)
                                     /\ SharedHigh(strokes, first, last) <= strokes[i].high
         /\ \E i \in first .. last : strokes[i].low = SharedLow(strokes, first, last)
         /\ \E i \in first .. last : strokes[i].high = SharedHigh(strokes, first, last)
<1> DEFINE I == first .. last
           low == [i \in I |-> strokes[i].low]
           high == [i \in I |-> strokes[i].high]
           Lows == {strokes[i].low : i \in I}
           Highs == {strokes[i].high : i \in I}
<1>1. IsFiniteSet(I) /\ first \in I /\ I \subseteq 1 .. Len(strokes)
  <2>1. first \in Int /\ last \in Int /\ Len(strokes) \in Nat
    BY DEF HasRanges
  <2>2. IsFiniteSet(I)
    BY <2>1, FS_Interval
  <2> QED
    BY <2>1, <2>2
<1>2. IsFiniteSet(Lows) /\ IsFiniteSet(Highs)
  <2>1. IsFiniteSet({low[i] : i \in I}) /\ IsFiniteSet({high[i] : i \in I})
    <3> HIDE DEF low, high
    <3> QED
      BY <1>1, FiniteImage
  <2>2. Lows = {low[i] : i \in I} /\ Highs = {high[i] : i \in I}
    OBVIOUS
  <2> QED
    BY <2>1, <2>2
<1>3. Lows \in SUBSET Int /\ Highs \in SUBSET Int /\ Lows # {} /\ Highs # {}
  BY <1>1 DEF HasRanges
<1>4. /\ Max(Lows) \in Lows /\ \A y \in Lows : y <= Max(Lows)
      /\ Min(Highs) \in Highs /\ \A y \in Highs : Min(Highs) <= y
  <2> HIDE DEF Lows, Highs
  <2> QED
    BY <1>2, <1>3, ExtremesOfSet
<1>5. SharedLow(strokes, first, last) = Max(Lows) /\ SharedHigh(strokes, first, last) = Min(Highs)
  BY DEF SharedLow, SharedHigh
<1>6. Max(Lows) \in Int /\ Min(Highs) \in Int
  BY <1>3, <1>4
<1> DEFINE top == Max(Lows)
           bottom == Min(Highs)
<1>7. /\ \A i \in I : strokes[i].low <= top /\ bottom <= strokes[i].high
      /\ \E i \in I : strokes[i].low = top
      /\ \E i \in I : strokes[i].high = bottom
  <2>1. /\ top \in Lows /\ \A y \in Lows : y <= top
        /\ bottom \in Highs /\ \A y \in Highs : bottom <= y
    BY <1>4
  <2> HIDE DEF top, bottom
  <2> QED
    BY <2>1
<1> QED
  BY <1>5, <1>6, <1>7

\* What more strokes share is no wider.
LEMMA RangeNarrows ==
  ASSUME NEW strokes, HasRanges(strokes), NEW first \in 1 .. Len(strokes),
         NEW middle \in first .. Len(strokes), NEW last \in middle .. Len(strokes)
  PROVE  /\ SharedLow(strokes, first, middle) <= SharedLow(strokes, first, last)
         /\ SharedHigh(strokes, first, last) <= SharedHigh(strokes, first, middle)
         /\ Overlap(strokes, first, last) => Overlap(strokes, first, middle)
<1>1. /\ Len(strokes) \in Nat /\ last \in first .. Len(strokes)
      /\ first .. middle \subseteq first .. last
  BY DEF HasRanges
<1> DEFINE l1 == SharedLow(strokes, first, middle)
           l2 == SharedLow(strokes, first, last)
           h1 == SharedHigh(strokes, first, middle)
           h2 == SharedHigh(strokes, first, last)
<1>2. /\ l1 \in Int /\ h1 \in Int
      /\ \E i \in first .. middle : strokes[i].low = l1
      /\ \E i \in first .. middle : strokes[i].high = h1
  BY SharedRange
<1>3. /\ l2 \in Int /\ h2 \in Int
      /\ \A i \in first .. last : strokes[i].low <= l2 /\ h2 <= strokes[i].high
  BY <1>1, SharedRange
<1>4. Overlap(strokes, first, last) = (l2 <= h2) /\ Overlap(strokes, first, middle) = (l1 <= h1)
  BY DEF Overlap
<1> HIDE DEF l1, l2, h1, h2
<1>5. l1 <= l2 /\ h2 <= h1
  BY <1>1, <1>2, <1>3
<1>6. l2 <= h2 => l1 <= h1
  BY <1>2, <1>3, <1>5
<1> QED
  BY <1>4, <1>5, <1>6 DEF l1, l2, h1, h2

\* The same strokes share the same range.
LEMMA SameRange ==
  ASSUME NEW strokes, NEW strokes2, NEW first, NEW last,
         \A i \in first .. last : strokes2[i] = strokes[i]
  PROVE  /\ SharedLow(strokes2, first, last) = SharedLow(strokes, first, last)
         /\ SharedHigh(strokes2, first, last) = SharedHigh(strokes, first, last)
         /\ Overlap(strokes2, first, last) <=> Overlap(strokes, first, last)
<1>1. /\ {strokes2[i].low : i \in first .. last} = {strokes[i].low : i \in first .. last}
      /\ {strokes2[i].high : i \in first .. last} = {strokes[i].high : i \in first .. last}
  OBVIOUS
<1> QED
  BY <1>1 DEF SharedLow, SharedHigh, Overlap

\* The last stroke that shares a range with all from the start on.
LEMMA AreaEndFacts ==
  ASSUME NEW strokes, HasRanges(strokes), NEW start \in 1 .. Len(strokes) - 2,
         Overlap(strokes, start, start + 2)
  PROVE  /\ AreaEnd(strokes, start) \in start + 2 .. Len(strokes)
         /\ AreaEnd(strokes, start) \in Nat
         /\ Overlap(strokes, start, AreaEnd(strokes, start))
         /\ \A e \in start + 2 .. Len(strokes) :
               Overlap(strokes, start, e) => e <= AreaEnd(strokes, start)
<1> DEFINE X == {e \in start + 2 .. Len(strokes) : Overlap(strokes, start, e)}
<1>1. Len(strokes) \in Nat /\ start \in Nat /\ start + 2 \in start + 2 .. Len(strokes)
  BY DEF HasRanges
<1>2. X \in SUBSET Int /\ X # {} /\ IsFiniteSet(X)
  <2>1. IsFiniteSet(start + 2 .. Len(strokes))
    BY <1>1, FS_Interval
  <2>2. IsFiniteSet(X)
    BY <2>1, FS_Subset
  <2> QED
    BY <1>1, <2>2
<1>3. Max(X) \in X /\ \A y \in X : y <= Max(X)
  <2> HIDE DEF X
  <2> QED
    BY <1>2, ExtremesOfSet
<1>4. AreaEnd(strokes, start) = Max(X)
  BY DEF AreaEnd
<1> DEFINE m == Max(X)
<1>5. m \in X /\ \A y \in X : y <= m
  BY <1>3
<1> HIDE DEF m
<1>6. m \in start + 2 .. Len(strokes) /\ m \in Nat
  BY <1>1, <1>5
<1> QED
  BY <1>4, <1>5, <1>6 DEF m

\* Where the search for areas goes on.
SimpleNext(strokes) ==
    [s \in 1 .. Len(strokes) - 2 |->
       IF Overlap(strokes, s, s + 2) THEN AreaEnd(strokes, s) + 1 ELSE s + 1]

\* The search for areas goes on with each turn.
LEMMA SimpleNextMoves ==
  ASSUME NEW strokes, HasRanges(strokes)
  PROVE  /\ Len(strokes) - 2 \in Int
         /\ SimpleNext(strokes) \in [1 .. Len(strokes) - 2 -> Nat]
         /\ \A s \in 1 .. Len(strokes) - 2 : SimpleNext(strokes)[s] > s
         /\ SimplifiedStarts(strokes) \subseteq 1 .. Len(strokes) - 2
         /\ \A s \in SimplifiedStarts(strokes) :
               /\ s \in Visited(Len(strokes) - 2, SimpleNext(strokes))
               /\ Overlap(strokes, s, s + 2)
         /\ \A s \in Visited(Len(strokes) - 2, SimpleNext(strokes)) :
               Overlap(strokes, s, s + 2) => s \in SimplifiedStarts(strokes)
<1> DEFINE next == SimpleNext(strokes)
           L == Len(strokes) - 2
<1>1. L \in Int
  BY DEF HasRanges
<1>2. \A s \in 1 .. L : next[s] \in Nat /\ next[s] > s
  <2> SUFFICES ASSUME NEW s \in 1 .. L PROVE next[s] \in Nat /\ next[s] > s
    OBVIOUS
  <2>1. next[s] = IF Overlap(strokes, s, s + 2) THEN AreaEnd(strokes, s) + 1 ELSE s + 1
    BY DEF SimpleNext
  <2>2. CASE Overlap(strokes, s, s + 2)
    <3>1. AreaEnd(strokes, s) \in s + 2 .. Len(strokes) /\ AreaEnd(strokes, s) \in Nat
      BY <2>2, AreaEndFacts
    <3> QED
      BY <1>1, <2>1, <2>2, <3>1
  <2>3. CASE ~Overlap(strokes, s, s + 2)
    BY <1>1, <2>1, <2>3
  <2> QED
    BY <2>2, <2>3
<1>3. next \in [1 .. L -> Nat]
  BY <1>2 DEF SimpleNext
<1>4. Visited(L, next) \subseteq 1 .. L
  <2> HIDE DEF next, L
  <2> QED
    BY <1>1, <1>2, <1>3, VisitedStarts
<1>5. SimplifiedStarts(strokes) = {s \in Visited(L, next) : Overlap(strokes, s, s + 2)}
  BY DEF SimplifiedStarts, SimpleNext
<1> QED
  BY <1>1, <1>2, <1>3, <1>4, <1>5

\* Strokes have ranges and dates.
LEMMA SimpleHasRanges ==
  ASSUME NEW strokes, NEW T, SimpleOk(strokes, T)
  PROVE  /\ HasRanges(strokes) /\ DOMAIN strokes = 1 .. Len(strokes)
         /\ \A k \in 1 .. Len(strokes) :
               /\ strokes[k] \in SimpleStroke
               /\ strokes[k].formed \in Nat /\ strokes[k].end \in Nat
               /\ strokes[k].confirmed \in Nat /\ strokes[k].tradable \in Nat
<1>1. strokes \in Seq(SimpleStroke)
  BY DEF SimpleOk
<1>2. Len(strokes) \in Nat /\ DOMAIN strokes = 1 .. Len(strokes)
  BY <1>1
<1>3. \A k \in 1 .. Len(strokes) : strokes[k] \in SimpleStroke
  BY <1>1
<1>4. \A k \in 1 .. Len(strokes) :
         /\ strokes[k].low \in Int /\ strokes[k].high \in Int
         /\ strokes[k].formed \in Nat /\ strokes[k].end \in Nat
         /\ strokes[k].confirmed \in Nat /\ strokes[k].tradable \in Nat
  BY <1>3 DEF SimpleStroke
<1> QED
  BY <1>2, <1>3, <1>4 DEF HasRanges

\* The later of two strokes ends later.
LEMMA SimpleEndsGrow ==
  ASSUME NEW strokes, NEW T, SimpleOk(strokes, T),
         NEW k \in 1 .. Len(strokes), NEW l \in 1 .. Len(strokes), k < l
  PROVE  strokes[k].end < strokes[l].end /\ strokes[k].formed < strokes[l].formed
<1>1. /\ DOMAIN strokes = 1 .. Len(strokes)
      /\ \A i \in 1 .. Len(strokes) : strokes[i].formed \in Nat /\ strokes[i].end \in Nat
  BY SimpleHasRanges
<1>2. strokes[k].end <= strokes[l].formed
  BY <1>1 DEF SimpleOk
<1>3. strokes[l].formed < strokes[l].end /\ strokes[k].formed < strokes[k].end
  BY <1>1 DEF SimpleOk, SimpleStrokeOk
<1> QED
  BY <1>1, <1>2, <1>3

\* An area is dated by its strokes.
LEMMA SimpleAreaFacts ==
  ASSUME NEW strokes, NEW T \in Nat, SimpleOk(strokes, T), NEW s \in SimplifiedStarts(strokes)
  PROVE  LET area == CentralArea(strokes, s)
         IN  /\ s \in 1 .. Len(strokes) - 2 /\ Overlap(strokes, s, s + 2)
             /\ AreaEnd(strokes, s) \in s + 2 .. Len(strokes)
             /\ area.low \in Int /\ area.high \in Int /\ area.status = "confirmed"
             /\ area.formed \in Nat /\ area.confirmed \in Nat /\ area.tradable \in Nat
             /\ area.formed = strokes[s + 2].end
             /\ 0 < area.formed /\ area.formed < area.confirmed
             /\ area.tradable = area.confirmed + 1 /\ area.tradable <= T
<1> DEFINE e == AreaEnd(strokes, s)
           n == Len(strokes)
<1>1. /\ HasRanges(strokes) /\ DOMAIN strokes = 1 .. n
      /\ \A i \in 1 .. n :
            /\ strokes[i].formed \in Nat /\ strokes[i].end \in Nat
            /\ strokes[i].confirmed \in Nat /\ strokes[i].tradable \in Nat
  BY SimpleHasRanges
<1>2. s \in 1 .. n - 2 /\ Overlap(strokes, s, s + 2) /\ n \in Nat
  BY <1>1, SimpleNextMoves DEF HasRanges
<1>3. e \in s + 2 .. n /\ e \in Nat
  BY <1>1, <1>2, AreaEndFacts
<1>4. /\ CentralArea(strokes, s).low = SharedLow(strokes, s, e)
      /\ CentralArea(strokes, s).high = SharedHigh(strokes, s, e)
      /\ CentralArea(strokes, s).formed = strokes[s + 2].end
      /\ CentralArea(strokes, s).confirmed = strokes[e].confirmed
      /\ CentralArea(strokes, s).tradable = strokes[e].tradable
      /\ CentralArea(strokes, s).status = "confirmed"
  BY DEF CentralArea
<1> HIDE DEF e
<1>5. s \in 1 .. n /\ e \in s .. n /\ s + 2 \in 1 .. n /\ e \in 1 .. n
  BY <1>2, <1>3
<1>6. SharedLow(strokes, s, e) \in Int /\ SharedHigh(strokes, s, e) \in Int
  BY <1>1, <1>5, SharedRange
<1>7. strokes[s + 2].end <= strokes[e].end
  <2>1. CASE s + 2 = e
    BY <1>1, <1>5, <2>1
  <2>2. CASE s + 2 < e
    <3> DEFINE k == s + 2
    <3>1. k \in 1 .. n /\ e \in 1 .. n /\ k < e
      BY <1>5, <2>2
    <3> HIDE DEF k
    <3>2. strokes[k].end < strokes[e].end
      BY <3>1, SimpleEndsGrow
    <3>3. strokes[k].end \in Nat /\ strokes[e].end \in Nat
      BY <1>1, <3>1
    <3>4. strokes[k].end <= strokes[e].end
      BY <3>2, <3>3
    <3> QED
      BY <3>4 DEF k
  <2> QED
    BY <1>2, <1>3, <2>1, <2>2
<1>8. /\ strokes[e].end < strokes[e].confirmed
      /\ strokes[e].tradable = strokes[e].confirmed + 1 /\ strokes[e].tradable <= T
      /\ 0 < strokes[s + 2].formed /\ strokes[s + 2].formed < strokes[s + 2].end
  BY <1>1, <1>5 DEF SimpleOk, SimpleStrokeOk
<1>9. strokes[s + 2].end < strokes[e].confirmed /\ 0 < strokes[s + 2].end
  BY <1>1, <1>5, <1>7, <1>8
<1> QED
  BY <1>1, <1>2, <1>3, <1>4, <1>5, <1>6, <1>8, <1>9 DEF e

\* Areas are told apart by the date on which they formed.
LEMMA SimpleAreasApart ==
  ASSUME NEW strokes, NEW T \in Nat, SimpleOk(strokes, T),
         NEW s \in SimplifiedStarts(strokes), NEW t \in SimplifiedStarts(strokes),
         CentralArea(strokes, s).formed = CentralArea(strokes, t).formed
  PROVE  s = t
<1>1. /\ s \in 1 .. Len(strokes) - 2 /\ CentralArea(strokes, s).formed = strokes[s + 2].end
      /\ t \in 1 .. Len(strokes) - 2 /\ CentralArea(strokes, t).formed = strokes[t + 2].end
  BY SimpleAreaFacts
<1>2. /\ Len(strokes) \in Nat /\ s + 2 \in 1 .. Len(strokes) /\ t + 2 \in 1 .. Len(strokes)
      /\ strokes[s + 2].end \in Nat /\ strokes[t + 2].end \in Nat
  <2>1. Len(strokes) \in Nat
    BY SimpleHasRanges DEF HasRanges
  <2>2. s + 2 \in 1 .. Len(strokes) /\ t + 2 \in 1 .. Len(strokes)
    BY <1>1, <2>1
  <2> QED
    BY <2>1, <2>2, SimpleHasRanges
<1> DEFINE k == s + 2
           l == t + 2
<1>3. k \in 1 .. Len(strokes) /\ l \in 1 .. Len(strokes)
  BY <1>2
<1>4. /\ strokes[k].end = strokes[l].end
      /\ strokes[k].end \in Nat /\ strokes[l].end \in Nat
  BY <1>1, <1>2
<1>5. CASE s < t
  <2>1. k < l
    BY <1>1, <1>5
  <2>2. strokes[k].end < strokes[l].end
    <3> HIDE DEF k, l
    <3> QED
      BY <1>3, <2>1, SimpleEndsGrow
  <2> HIDE DEF k, l
  <2> QED
    BY <1>4, <2>2
<1>6. CASE t < s
  <2>1. l < k
    BY <1>1, <1>6
  <2>2. strokes[l].end < strokes[k].end
    <3> HIDE DEF k, l
    <3> QED
      BY <1>3, <2>1, SimpleEndsGrow
  <2> HIDE DEF k, l
  <2> QED
    BY <1>4, <2>2
<1> QED
  BY <1>1, <1>5, <1>6

\* One stroke more: an area stays as it is or takes the new stroke in.
SimpleGrows(S, S2, T) ==
    \/ S2 = S
    \/ \E stroke \in SimpleStroke : /\ S2 = Append(S, stroke)
                                    /\ stroke.confirmed = T /\ stroke.tradable = T + 1

TakesIn(area, area2, T) ==
    /\ area2.low >= area.low /\ area2.high <= area.high
    /\ area2.formed = area.formed /\ area2.status = area.status
    /\ area2.confirmed = T /\ area2.tradable = T + 1

\* An area takes in the new stroke, if all strokes up to it belong to it, or stays.
LEMMA AreaEndStands ==
  ASSUME NEW S, NEW T \in Nat, SimpleOk(S, T), NEW S2, SimpleOk(S2, T + 1),
         Len(S2) = Len(S) + 1, \A i \in 1 .. Len(S) : S2[i] = S[i],
         S2[Len(S2)].confirmed = T, S2[Len(S2)].tradable = T + 1,
         NEW s \in 1 .. Len(S) - 2, Overlap(S, s, s + 2)
  PROVE  /\ Overlap(S2, s, s + 2)
         /\ \/ AreaEnd(S2, s) = AreaEnd(S, s) /\ CentralArea(S2, s) = CentralArea(S, s)
            \/ /\ AreaEnd(S, s) = Len(S) /\ AreaEnd(S2, s) = Len(S2)
               /\ TakesIn(CentralArea(S, s), CentralArea(S2, s), T)
<1> DEFINE n == Len(S)
           e == AreaEnd(S, s)
           e2 == AreaEnd(S2, s)
<1>1. /\ n \in Nat /\ Len(S2) = n + 1 /\ s \in Nat /\ s \in 1 .. n /\ s + 2 \in 1 .. n
      /\ s \in 1 .. Len(S2) - 2 /\ HasRanges(S) /\ HasRanges(S2)
  <2>1. HasRanges(S) /\ HasRanges(S2)
    BY SimpleHasRanges
  <2> QED
    BY <2>1 DEF HasRanges
<1>2. \A d \in s .. n : /\ SharedLow(S2, s, d) = SharedLow(S, s, d)
                        /\ SharedHigh(S2, s, d) = SharedHigh(S, s, d)
                        /\ Overlap(S2, s, d) <=> Overlap(S, s, d)
  <2> SUFFICES ASSUME NEW d \in s .. n
               PROVE  /\ SharedLow(S2, s, d) = SharedLow(S, s, d)
                      /\ SharedHigh(S2, s, d) = SharedHigh(S, s, d)
                      /\ Overlap(S2, s, d) <=> Overlap(S, s, d)
    OBVIOUS
  <2>1. \A i \in s .. d : S2[i] = S[i]
    BY <1>1
  <2> QED
    BY <2>1, SameRange
<1>3. Overlap(S2, s, s + 2)
  <2>1. s + 2 \in s .. n
    BY <1>1
  <2> QED
    BY <1>2, <2>1
<1>4. /\ e \in s + 2 .. n /\ e \in Nat /\ Overlap(S, s, e)
      /\ \A d \in s + 2 .. n : Overlap(S, s, d) => d <= e
  BY <1>1, AreaEndFacts
<1>5. /\ e2 \in s + 2 .. n + 1 /\ e2 \in Nat /\ Overlap(S2, s, e2)
      /\ \A d \in s + 2 .. n + 1 : Overlap(S2, s, d) => d <= e2
  BY <1>1, <1>3, AreaEndFacts
<1>6. /\ CentralArea(S, s) = [low |-> SharedLow(S, s, e), high |-> SharedHigh(S, s, e),
           formed |-> S[s + 2].end, confirmed |-> S[e].confirmed,
           tradable |-> S[e].tradable, status |-> "confirmed"]
      /\ CentralArea(S2, s) = [low |-> SharedLow(S2, s, e2), high |-> SharedHigh(S2, s, e2),
           formed |-> S2[s + 2].end, confirmed |-> S2[e2].confirmed,
           tradable |-> S2[e2].tradable, status |-> "confirmed"]
      /\ S2[s + 2] = S[s + 2]
  BY <1>1 DEF CentralArea
<1> HIDE DEF e, e2, n
<1>7. CASE e2 <= n
  <2>1. e2 \in s + 2 .. n /\ e2 \in s .. n /\ e \in s .. n /\ e \in s + 2 .. n + 1
    BY <1>1, <1>4, <1>5, <1>7
  <2>2. e2 <= e
    BY <1>2, <1>4, <1>5, <2>1
  <2>3. e <= e2
    BY <1>2, <1>4, <1>5, <2>1
  <2>4. e2 = e /\ e \in 1 .. n
    BY <1>1, <1>4, <1>5, <2>2, <2>3
  <2>5. S2[e] = S[e]
    BY <2>4 DEF n
  <2> QED
    BY <1>2, <1>3, <1>6, <2>1, <2>4, <2>5 DEF e, e2
<1>8. CASE e2 = n + 1
  <2>1. n \in s + 2 .. n /\ n \in s .. Len(S2) /\ n + 1 \in n .. Len(S2) /\ s \in 1 .. Len(S2)
    BY <1>1
  <2>2. /\ SharedLow(S2, s, n) <= SharedLow(S2, s, n + 1)
        /\ SharedHigh(S2, s, n + 1) <= SharedHigh(S2, s, n)
        /\ Overlap(S2, s, n + 1) => Overlap(S2, s, n)
    BY <1>1, <2>1, RangeNarrows
  <2>3. Overlap(S, s, n)
    <3>1. n \in s .. n
      BY <1>1
    <3> QED
      BY <1>2, <1>5, <1>8, <2>2, <3>1
  <2>4. e = n
    BY <1>1, <1>4, <2>1, <2>3
  <2>5. /\ SharedLow(S2, s, n) = SharedLow(S, s, n)
        /\ SharedHigh(S2, s, n) = SharedHigh(S, s, n)
        /\ SharedLow(S, s, n) \in Int /\ SharedLow(S2, s, n + 1) \in Int
        /\ SharedHigh(S, s, n) \in Int /\ SharedHigh(S2, s, n + 1) \in Int
    <3>1. n \in s .. n /\ n \in s .. Len(S) /\ n + 1 \in s .. Len(S2) /\ s \in 1 .. Len(S)
      BY <1>1 DEF n
    <3>2. SharedLow(S, s, n) \in Int /\ SharedHigh(S, s, n) \in Int
      BY <1>1, <3>1, SharedRange
    <3>3. SharedLow(S2, s, n + 1) \in Int /\ SharedHigh(S2, s, n + 1) \in Int
      BY <1>1, <2>1, <3>1, SharedRange
    <3> QED
      BY <1>2, <3>1, <3>2, <3>3
  <2>6. TakesIn(CentralArea(S, s), CentralArea(S2, s), T)
    <3>1. /\ CentralArea(S2, s).low >= CentralArea(S, s).low
          /\ CentralArea(S2, s).high <= CentralArea(S, s).high
      BY <1>6, <1>8, <2>2, <2>4, <2>5
    <3>2. /\ CentralArea(S2, s).formed = CentralArea(S, s).formed
          /\ CentralArea(S2, s).status = CentralArea(S, s).status
      BY <1>6
    <3>3. S2[e2].confirmed = T /\ S2[e2].tradable = T + 1
      BY <1>1, <1>8 DEF n
    <3>4. CentralArea(S2, s).confirmed = T /\ CentralArea(S2, s).tradable = T + 1
      BY <1>6, <3>3
    <3> QED
      BY <3>1, <3>2, <3>4 DEF TakesIn
  <2> QED
    BY <1>1, <1>3, <1>8, <2>4, <2>6 DEF e, e2, n
<1> QED
  BY <1>1, <1>5, <1>7, <1>8

\* Every area is found again, and a new one is confirmed by the new stroke.
LEMMA SimpleAreasStand ==
  ASSUME NEW S, NEW T \in Nat, SimpleOk(S, T), NEW S2, SimpleOk(S2, T + 1),
         SimpleGrows(S, S2, T)
  PROVE  /\ \A s \in SimplifiedStarts(S) :
               /\ s \in SimplifiedStarts(S2)
               /\ \/ CentralArea(S2, s) = CentralArea(S, s)
                  \/ TakesIn(CentralArea(S, s), CentralArea(S2, s), T)
         /\ \A s \in SimplifiedStarts(S2) :
               \/ s \in SimplifiedStarts(S)
               \/ CentralArea(S2, s).confirmed = T /\ CentralArea(S2, s).tradable = T + 1
<1>1. CASE S2 = S
  BY <1>1
<1>2. CASE \E stroke \in SimpleStroke : /\ S2 = Append(S, stroke)
                                        /\ stroke.confirmed = T /\ stroke.tradable = T + 1
  <2> DEFINE n == Len(S)
             L == n - 2
             L2 == Len(S2) - 2
             next == SimpleNext(S)
             next2 == SimpleNext(S2)
  <2>1. /\ S \in Seq(SimpleStroke) /\ n \in Nat /\ Len(S2) = n + 1
        /\ \A i \in 1 .. n : S2[i] = S[i]
        /\ S2[Len(S2)].confirmed = T /\ S2[Len(S2)].tradable = T + 1
    <3>1. PICK stroke \in SimpleStroke : /\ S2 = Append(S, stroke)
                                         /\ stroke.confirmed = T /\ stroke.tradable = T + 1
      BY <1>2
    <3>2. S \in Seq(SimpleStroke)
      BY DEF SimpleOk
    <3>3. n \in Nat /\ Len(S2) = n + 1 /\ S2[n + 1] = stroke /\ \A i \in 1 .. n : S2[i] = S[i]
      BY <3>1, <3>2
    <3> QED
      BY <3>1, <3>2, <3>3
  <2>2. HasRanges(S) /\ HasRanges(S2)
    BY SimpleHasRanges
  <2>3. /\ L \in Int /\ next \in [1 .. L -> Nat] /\ \A s \in 1 .. L : next[s] > s
        /\ L2 \in Int /\ next2 \in [1 .. L2 -> Nat] /\ \A s \in 1 .. L2 : next2[s] > s
    BY <2>2, SimpleNextMoves
  <2>4. L2 = L + 1 /\ L <= L2 /\ \A s \in 1 .. L : s \in 1 .. L2
    BY <2>1
  <2>5. \A s \in 1 .. L : Overlap(S, s, s + 2) <=> Overlap(S2, s, s + 2)
    <3> SUFFICES ASSUME NEW s \in 1 .. L PROVE Overlap(S, s, s + 2) <=> Overlap(S2, s, s + 2)
      OBVIOUS
    <3>1. \A i \in s .. s + 2 : S2[i] = S[i]
      BY <2>1
    <3> QED
      BY <3>1, SameRange
  <2>6. \A s \in 1 .. L : Overlap(S, s, s + 2) =>
           \/ AreaEnd(S2, s) = AreaEnd(S, s) /\ CentralArea(S2, s) = CentralArea(S, s)
           \/ /\ AreaEnd(S, s) = n /\ AreaEnd(S2, s) = n + 1
              /\ TakesIn(CentralArea(S, s), CentralArea(S2, s), T)
    BY <2>1, AreaEndStands
  <2>7. \A s \in 1 .. L : next2[s] = next[s] \/ (next[s] > L /\ next2[s] > L)
    <3> SUFFICES ASSUME NEW s \in 1 .. L
                 PROVE  next2[s] = next[s] \/ (next[s] > L /\ next2[s] > L)
      OBVIOUS
    <3>1. /\ next[s] = IF Overlap(S, s, s + 2) THEN AreaEnd(S, s) + 1 ELSE s + 1
          /\ next2[s] = IF Overlap(S2, s, s + 2) THEN AreaEnd(S2, s) + 1 ELSE s + 1
      BY <2>4 DEF SimpleNext
    <3> QED
      BY <2>1, <2>5, <2>6, <3>1
  <2>8. \A s \in 1 .. L : s \in Visited(L, next) <=> s \in Visited(L2, next2)
    <3> HIDE DEF L, L2, next, next2
    <3> QED
      BY <2>3, <2>4, <2>7, SearchesAgree
  <2>9. ASSUME NEW s \in SimplifiedStarts(S)
        PROVE  /\ s \in SimplifiedStarts(S2)
               /\ \/ CentralArea(S2, s) = CentralArea(S, s)
                  \/ TakesIn(CentralArea(S, s), CentralArea(S2, s), T)
    <3>1. s \in 1 .. L /\ s \in Visited(L, next) /\ Overlap(S, s, s + 2)
      BY <2>2, SimpleNextMoves
    <3>2. s \in Visited(L2, next2) /\ Overlap(S2, s, s + 2)
      BY <2>5, <2>8, <3>1
    <3>3. s \in SimplifiedStarts(S2)
      BY <2>2, <3>2, SimpleNextMoves
    <3> QED
      BY <2>6, <3>1, <3>3
  <2>10. ASSUME NEW s \in SimplifiedStarts(S2), s \notin SimplifiedStarts(S)
         PROVE  CentralArea(S2, s).confirmed = T /\ CentralArea(S2, s).tradable = T + 1
    <3>1. s \in 1 .. L2 /\ s \in Visited(L2, next2) /\ Overlap(S2, s, s + 2)
      BY <2>2, SimpleNextMoves
    <3>2. s \notin 1 .. L
      <4> SUFFICES ASSUME s \in 1 .. L PROVE FALSE
        OBVIOUS
      <4>1. s \in Visited(L, next) /\ Overlap(S, s, s + 2)
        BY <2>5, <2>8, <3>1
      <4> QED
        BY <2>2, <2>10, <4>1, SimpleNextMoves
    <3>3. s + 2 = Len(S2)
      BY <2>1, <2>4, <3>1, <3>2
    <3>4. AreaEnd(S2, s) \in s + 2 .. Len(S2)
      BY <2>2, <3>1, AreaEndFacts
    <3>5. AreaEnd(S2, s) = Len(S2)
      BY <2>1, <3>3, <3>4
    <3>6. /\ CentralArea(S2, s).confirmed = S2[AreaEnd(S2, s)].confirmed
          /\ CentralArea(S2, s).tradable = S2[AreaEnd(S2, s)].tradable
      BY DEF CentralArea
    <3> QED
      BY <2>1, <3>5, <3>6
  <2> QED
    BY <2>9, <2>10
<1> QED
  BY <1>1, <1>2 DEF SimpleGrows

-----------------------------------------------------------------------------
(* The observation of simplified-v1 *)

\* The dates since which every close is above an area.
AboveSince(supplied, area) ==
    {d \in area.confirmed + 1 .. Len(supplied) :
        \A e \in d .. Len(supplied) : supplied[e].close > area.high}

LatestArea(strokes) == CentralArea(strokes, Max(SimplifiedStarts(strokes)))

\* The start of the latest area is one of the starts, none is behind it.
LEMMA LatestStart ==
  ASSUME NEW strokes, NEW T, SimpleOk(strokes, T), SimplifiedStarts(strokes) # {}
  PROVE  /\ Max(SimplifiedStarts(strokes)) \in SimplifiedStarts(strokes)
         /\ \A s \in SimplifiedStarts(strokes) : s <= Max(SimplifiedStarts(strokes))
         /\ SimplifiedStarts(strokes) \subseteq Nat
<1> DEFINE X == SimplifiedStarts(strokes)
           L == Len(strokes) - 2
<1>1. L \in Int /\ X \subseteq 1 .. L
  BY SimpleHasRanges, SimpleNextMoves
<1>2. X \in SUBSET Int /\ IsFiniteSet(X)
  <2>1. IsFiniteSet(1 .. L)
    BY <1>1, FS_Interval
  <2>2. IsFiniteSet(X)
    <3> HIDE DEF X, L
    <3> QED
      BY <1>1, <2>1, FS_Subset
  <2> QED
    BY <1>1, <2>2
<1>3. X # {}
  OBVIOUS
<1> HIDE DEF X
<1>4. Max(X) \in X /\ \A y \in X : y <= Max(X)
  BY <1>2, <1>3, ExtremesOfSet
<1>5. X \subseteq Nat
  BY <1>1
<1> QED
  BY <1>4, <1>5 DEF X

\* An observation starts with the first of these dates.
LEMMA ObservationFacts ==
  ASSUME NEW supplied, Len(supplied) \in Nat, NEW strokes, SimpleOk(strokes, Len(supplied)),
         NEW o \in SimplifiedObservations(supplied, strokes)
  PROVE  LET T == Len(supplied)
             since == AboveSince(supplied, LatestArea(strokes))
         IN  /\ SimplifiedStarts(strokes) # {}
             /\ o.formed \in since /\ \A d \in since : o.formed <= d
             /\ o.formed \in Nat /\ o.formed <= T
             /\ o = [formed |-> o.formed,
                     confirmed |-> IF o.formed < T THEN o.formed + 1 ELSE None,
                     tradable |-> IF o.formed < T THEN TradeDateAfter(o.formed + 1, T) ELSE None,
                     status |-> IF o.formed < T THEN "confirmed" ELSE "candidate"]
<1> DEFINE T == Len(supplied)
           X == SimplifiedStarts(strokes)
           latest == LatestArea(strokes)
           since == AboveSince(supplied, latest)
           start == Min(since)
<1>1. SimplifiedObservations(supplied, strokes) =
        IF X = {} \/ since = {} THEN {}
        ELSE {[formed |-> start,
               confirmed |-> IF start < T THEN start + 1 ELSE None,
               tradable |-> IF start < T THEN TradeDateAfter(start + 1, T) ELSE None,
               status |-> IF start < T THEN "confirmed" ELSE "candidate"]}
  BY DEF SimplifiedObservations, AboveSince, LatestArea
<1>2. X # {} /\ since # {}
  BY <1>1
<1>3. latest.confirmed \in Nat
  <2>1. Max(X) \in X
    BY <1>2, LatestStart
  <2> QED
    BY <2>1, SimpleAreaFacts DEF LatestArea
<1>4. since \in SUBSET Int /\ IsFiniteSet(since) /\ since \subseteq latest.confirmed + 1 .. T
  <2>1. since \subseteq latest.confirmed + 1 .. T
    BY DEF AboveSince
  <2>2. IsFiniteSet(latest.confirmed + 1 .. T)
    <3>1. latest.confirmed + 1 \in Int /\ T \in Int
      BY <1>3
    <3> HIDE DEF latest
    <3> QED
      BY <3>1, FS_Interval
  <2>3. IsFiniteSet(since)
    BY <2>1, <2>2, FS_Subset
  <2> QED
    BY <1>3, <2>1, <2>3
<1>5. start \in since /\ \A y \in since : start <= y
  <2> HIDE DEF since
  <2> QED
    BY <1>2, <1>4, ExtremesOfSet
<1> DEFINE w == start
<1>6. w \in Nat /\ w <= T
  BY <1>3, <1>4, <1>5
<1>7. o = [formed |-> w,
           confirmed |-> IF w < T THEN w + 1 ELSE None,
           tradable |-> IF w < T THEN TradeDateAfter(w + 1, T) ELSE None,
           status |-> IF w < T THEN "confirmed" ELSE "candidate"]
  BY <1>1, <1>2
<1>8. o.formed = w
  <2> HIDE DEF w
  <2> QED
    BY <1>7
<1> QED
  BY <1>2, <1>5, <1>6, <1>7, <1>8

\* An observation that was tradable before the new bar was there before it.
LEMMA ObservationsStand ==
  ASSUME NEW supplied \in Seq(Bar), NEW bar \in Bar, NEW S, SimpleOk(S, Len(supplied)),
         NEW S2, SimpleOk(S2, Len(supplied) + 1), SimpleGrows(S, S2, Len(supplied)),
         NEW o2 \in SimplifiedObservations(Append(supplied, bar), S2),
         o2.tradable \notin {None, Len(supplied) + 1}
  PROVE  \E o \in SimplifiedObservations(supplied, S) :
            o.formed = o2.formed /\ o.status = "confirmed" /\ o.tradable = o2.tradable
<1> DEFINE T == Len(supplied)
           supplied2 == Append(supplied, bar)
           latest == LatestArea(S)
           latest2 == LatestArea(S2)
           X == SimplifiedStarts(S)
           X2 == SimplifiedStarts(S2)
           since == AboveSince(supplied, latest)
           since2 == AboveSince(supplied2, latest2)
           w == o2.formed
<1>1. /\ T \in Nat /\ Len(supplied2) = T + 1 /\ \A d \in 1 .. T : supplied2[d] = supplied[d]
  OBVIOUS
<1>2. /\ X2 # {} /\ w \in since2 /\ (\A d \in since2 : w <= d) /\ w \in Nat /\ w <= T + 1
      /\ o2 = [formed |-> w,
               confirmed |-> IF w < T + 1 THEN w + 1 ELSE None,
               tradable |-> IF w < T + 1 THEN TradeDateAfter(w + 1, T + 1) ELSE None,
               status |-> IF w < T + 1 THEN "confirmed" ELSE "candidate"]
  <2> DEFINE U == Len(supplied2)
  <2>1. U \in Nat /\ U = T + 1 /\ SimpleOk(S2, U) /\ o2 \in SimplifiedObservations(supplied2, S2)
    BY <1>1
  <2>2. /\ X2 # {} /\ w \in since2 /\ (\A d \in since2 : w <= d) /\ w \in Nat /\ w <= U
        /\ o2 = [formed |-> w,
                 confirmed |-> IF w < U THEN w + 1 ELSE None,
                 tradable |-> IF w < U THEN TradeDateAfter(w + 1, U) ELSE None,
                 status |-> IF w < U THEN "confirmed" ELSE "candidate"]
    <3> HIDE DEF supplied2
    <3> QED
      BY <2>1, ObservationFacts
  <2> HIDE DEF U, since2, X2, w, supplied2
  <2> QED
    BY <2>1, <2>2
<1>3. w + 1 < T /\ o2.tradable = w + 2
  <2> DEFINE v == w
  <2>1. o2.tradable = IF v < T + 1 THEN TradeDateAfter(v + 1, T + 1) ELSE None
    <3> HIDE DEF v
    <3> QED
      BY <1>2 DEF v
  <2>2. v < T + 1 /\ TradeDateAfter(v + 1, T + 1) # None
    BY <2>1
  <2>3. v + 1 < T + 1 /\ TradeDateAfter(v + 1, T + 1) = v + 1 + 1
    BY <2>2 DEF TradeDateAfter
  <2>4. v \in Nat /\ o2.tradable = v + 2 /\ v + 2 # T + 1
    BY <1>2, <2>1, <2>2, <2>3
  <2> QED
    BY <1>1, <2>3, <2>4
<1>4. /\ w \in latest2.confirmed + 1 .. T + 1
      /\ \A e \in w .. T + 1 : supplied2[e].close > latest2.high
  BY <1>1, <1>2 DEF AboveSince
<1> HIDE DEF w
<1> DEFINE s == Max(X2)
<1>5. s \in X2 /\ (\A t \in X2 : t <= s) /\ X2 \subseteq Nat
  BY <1>2, LatestStart
<1>6. latest2 = CentralArea(S2, s) /\ latest2.confirmed \in Nat
  <2>1. latest2 = CentralArea(S2, s)
    BY DEF LatestArea
  <2>2. CentralArea(S2, s).confirmed \in Nat
    <3> HIDE DEF s
    <3> QED
      BY <1>1, <1>5, SimpleAreaFacts
  <2> QED
    BY <2>1, <2>2
<1>7. latest2.confirmed # T
  BY <1>1, <1>2, <1>3, <1>4, <1>6
<1>8. /\ \A t \in X : /\ t \in X2
                      /\ \/ CentralArea(S2, t) = CentralArea(S, t)
                         \/ TakesIn(CentralArea(S, t), CentralArea(S2, t), T)
      /\ \A t \in X2 : \/ t \in X
                       \/ CentralArea(S2, t).confirmed = T /\ CentralArea(S2, t).tradable = T + 1
  BY <1>1, SimpleAreasStand
<1> HIDE DEF s, X, X2
<1>9. s \in X /\ CentralArea(S2, s) = CentralArea(S, s)
  BY <1>5, <1>6, <1>7, <1>8 DEF TakesIn
<1>10. Max(X) = s
  <2>1. X # {}
    BY <1>9
  <2>2. Max(X) \in X /\ (\A t \in X : t <= Max(X)) /\ X \subseteq Nat
    BY <2>1, LatestStart DEF X
  <2> DEFINE m == Max(X)
  <2>3. m \in X /\ (\A t \in X : t <= m)
    BY <2>2
  <2> HIDE DEF m
  <2>4. m \in Nat /\ s \in Nat /\ m <= s /\ s <= m
    BY <1>5, <1>8, <1>9, <2>2, <2>3
  <2> QED
    BY <2>4 DEF m
<1>11. latest = latest2
  BY <1>6, <1>9, <1>10 DEF LatestArea, X
<1> HIDE DEF latest, latest2
<1>12. w \in since
  BY <1>1, <1>2, <1>3, <1>4, <1>6, <1>11 DEF AboveSince
<1>13. \A d \in since : w <= d
  <2> SUFFICES ASSUME NEW d \in since PROVE w <= d
    OBVIOUS
  <2>1. d \in latest.confirmed + 1 .. T /\ \A e \in d .. T : supplied[e].close > latest.high
    BY DEF AboveSince
  <2>2. d \in Nat /\ d >= 1
    BY <1>6, <1>11, <2>1
  <2>3. d \in since2
    <3>1. d \in latest2.confirmed + 1 .. T + 1
      BY <1>1, <1>11, <2>1, <2>2
    <3>2. \A e \in d .. T + 1 : supplied2[e].close > latest2.high
      <4> SUFFICES ASSUME NEW e \in d .. T + 1 PROVE supplied2[e].close > latest2.high
        OBVIOUS
      <4>1. CASE e = T + 1
        <5>1. e \in w .. T + 1
          BY <1>1, <1>2, <4>1
        <5> QED
          BY <1>4, <5>1
      <4>2. CASE e \in d .. T
        <5>1. e \in 1 .. T
          BY <1>1, <2>2, <4>2
        <5>2. supplied2[e] = supplied[e]
          BY <1>1, <5>1
        <5>3. supplied[e].close > latest.high
          BY <2>1, <4>2
        <5> QED
          BY <1>11, <5>2, <5>3
      <4> QED
        BY <1>1, <2>2, <4>1, <4>2
    <3> QED
      BY <1>1, <3>1, <3>2 DEF AboveSince
  <2> QED
    BY <1>2, <2>3
<1> DEFINE start == Min(since)
<1>14. start = w
  <2>1. since \in SUBSET Int /\ since # {} /\ IsFiniteSet(since)
    <3>1. since \subseteq latest.confirmed + 1 .. T
      BY DEF AboveSince
    <3>2. IsFiniteSet(latest.confirmed + 1 .. T)
      <4>1. latest.confirmed + 1 \in Int /\ T \in Int
        BY <1>1, <1>6, <1>11
      <4> QED
        BY <4>1, FS_Interval
    <3>3. IsFiniteSet(since)
      BY <3>1, <3>2, FS_Subset
    <3> QED
      BY <1>6, <1>11, <1>12, <3>1, <3>3
  <2>2. start \in since /\ \A y \in since : start <= y
    <3> HIDE DEF since
    <3> QED
      BY <2>1, ExtremesOfSet
  <2> HIDE DEF start
  <2>3. start \in Int /\ start <= w /\ w <= start
    BY <1>12, <1>13, <2>1, <2>2
  <2> QED
    BY <1>2, <2>3
<1> DEFINE o == [formed |-> start,
                 confirmed |-> IF start < T THEN start + 1 ELSE None,
                 tradable |-> IF start < T THEN TradeDateAfter(start + 1, T) ELSE None,
                 status |-> IF start < T THEN "confirmed" ELSE "candidate"]
<1>15. SimplifiedObservations(supplied, S) = IF X = {} \/ since = {} THEN {} ELSE {o}
  BY DEF SimplifiedObservations, AboveSince, LatestArea, X, latest
<1> HIDE DEF since, start
<1>16. X # {} /\ since # {}
  BY <1>9, <1>12
<1>17. o.formed = w /\ o.status = "confirmed" /\ o.tradable = w + 2
  BY <1>1, <1>2, <1>3, <1>14 DEF TradeDateAfter
<1> QED
  BY <1>3, <1>15, <1>16, <1>17 DEF w

-----------------------------------------------------------------------------
(* What is asked of the events X of a prefix, and of those, X2, of the next one, whose    *)
(* last date is T2                                                                        *)

\* Identity and status tell events apart, and what can be traded on was formed, confirmed
\* and then tradable, each on a later date.
Sound(X) ==
    /\ IsFiniteSet(X)
    /\ \A e, f \in X : EventId(e) = EventId(f) /\ e.status = f.status => e = f
    /\ \A e \in X : e.tradable # None =>
          e.status = "confirmed" /\ e.formed < e.confirmed /\ e.confirmed = e.tradable - 1

Remains(which, e, X2, T2) ==
    \E e2 \in X2 : /\ EventId(e2) = EventId(e) /\ e2.status = "confirmed"
                   /\ \/ OnlyBecomesTradable(e, e2, T2)
                      \/ which = "simplified-v1" /\ e.kind = "central_area" /\ OnlyNarrows(e, e2)

WasTradable(e2, X) ==
    \E e \in X : EventId(e) = EventId(e2) /\ e.status = "confirmed" /\ e.tradable = e2.tradable

\* What was confirmed remains, and what is tradable, but not since T2, was tradable before.
ComesAfter(which, X, X2, T2) ==
    /\ \A e \in X : e.status = "confirmed" /\ e.kind # "observation" => Remains(which, e, X2, T2)
    /\ \A e2 \in X2 : e2.tradable \notin {None, T2} => WasTradable(e2, X)

\* Families of events that differ in kind, reason or status.
LEMMA SoundTogether ==
  ASSUME NEW X, NEW Y, Sound(X), Sound(Y),
         \A x \in X, y \in Y : x.kind # y.kind \/ x.reason # y.reason \/ x.status # y.status
  PROVE  Sound(X \cup Y)
<1>1. IsFiniteSet(X \cup Y)
  BY FS_Union DEF Sound
<1>2. \A x \in X, y \in Y : ~(EventId(x) = EventId(y) /\ x.status = y.status)
  BY DEF EventId
<1>3. ASSUME NEW e \in X \cup Y, NEW f \in X \cup Y, EventId(e) = EventId(f), e.status = f.status
      PROVE  e = f
  BY <1>2, <1>3 DEF Sound
<1>4. ASSUME NEW e \in X \cup Y, e.tradable # None
      PROVE  e.status = "confirmed" /\ e.formed < e.confirmed /\ e.confirmed = e.tradable - 1
  BY <1>4 DEF Sound
<1> QED
  BY <1>1, <1>3, <1>4 DEF Sound

\* A longer prefix follows a shorter one if every family of its events does.
LEMMA FollowsTogether ==
  ASSUME NEW which, NEW T2, NEW X, NEW X2, NEW Y, NEW Y2,
         ComesAfter(which, X, X2, T2), ComesAfter(which, Y, Y2, T2)
  PROVE  ComesAfter(which, X \cup Y, X2 \cup Y2, T2)
<1>1. \A e : Remains(which, e, X2, T2) \/ Remains(which, e, Y2, T2)
             => Remains(which, e, X2 \cup Y2, T2)
  BY DEF Remains
<1>2. \A e2 : WasTradable(e2, X) \/ WasTradable(e2, Y) => WasTradable(e2, X \cup Y)
  BY DEF WasTradable
<1>3. ASSUME NEW e \in X \cup Y, e.status = "confirmed", e.kind # "observation"
      PROVE  Remains(which, e, X2 \cup Y2, T2)
  <2>1. CASE e \in X
    BY <1>1, <1>3, <2>1 DEF ComesAfter
  <2>2. CASE e \in Y
    BY <1>1, <1>3, <2>2 DEF ComesAfter
  <2> QED
    BY <2>1, <2>2
<1>4. ASSUME NEW e2 \in X2 \cup Y2, e2.tradable \notin {None, T2}
      PROVE  WasTradable(e2, X \cup Y)
  <2>1. CASE e2 \in X2
    BY <1>2, <1>4, <2>1 DEF ComesAfter
  <2>2. CASE e2 \in Y2
    BY <1>2, <1>4, <2>2 DEF ComesAfter
  <2> QED
    BY <2>1, <2>2
<1> QED
  BY <1>3, <1>4 DEF ComesAfter

\* An event that is the same in both prefixes remains.
LEMMA SameRemains ==
  ASSUME NEW which, NEW e, NEW X2, NEW T2, e \in X2, e.status = "confirmed",
         [e EXCEPT !.tradable = e.tradable] = e
  PROVE  Remains(which, e, X2, T2)
BY DEF Remains, OnlyBecomesTradable

-----------------------------------------------------------------------------
(* The events of simplified-v1: fractals and strokes *)

SimpleFractalEvent(E, T, i) ==
    LET f == SimplifiedFractal(E, i, T)
    IN  Event("fractal", "fractal", f.kind, f, f.price, None, None, f.status)

SimpleFractalEvents(E, T) == {SimpleFractalEvent(E, T, i) : i \in FractalIndices(E)}

SimpleStrokeEvent(s) == Settled("stroke", "stroke", s.kind, s, None, s.low, s.high)

SimpleStrokeEvents(S) == {SimpleStrokeEvent(S[k]) : k \in DOMAIN S}

\* The fractals of simplified-v1 have dates of their own.
LEMMA SimpleFractalsSound ==
  ASSUME NEW E, NEW T, Covers(E, T)
  PROVE  /\ Sound(SimpleFractalEvents(E, T))
         /\ \A e \in SimpleFractalEvents(E, T) : e.kind = "fractal"
<1> DEFINE X == SimpleFractalEvents(E, T)
           I == FractalIndices(E)
           event == [i \in I |-> SimpleFractalEvent(E, T, i)]
<1>1. IsFiniteSet(X)
  <2>1. Len(E) \in Nat /\ I \subseteq 1 .. Len(E)
    BY DEF FractalIndices, Covers
  <2>2. IsFiniteSet(I)
    <3>1. IsFiniteSet(1 .. Len(E))
      BY <2>1, FS_Interval
    <3> QED
      BY <2>1, <3>1, FS_Subset
  <2>3. IsFiniteSet({event[i] : i \in I})
    <3> HIDE DEF event, I
    <3> QED
      BY <2>2, FiniteImage
  <2>4. X = {event[i] : i \in I}
    BY DEF SimpleFractalEvents
  <2> QED
    BY <2>3, <2>4
<1>2. \A i \in I :
         LET e == SimpleFractalEvent(E, T, i)
             f == SimplifiedFractal(E, i, T)
         IN  /\ e.kind = "fractal" /\ e.formed = E[i].last
             /\ e.tradable # None =>
                   e.status = "confirmed" /\ e.formed < e.confirmed /\ e.confirmed = e.tradable - 1
  <2> SUFFICES ASSUME NEW i \in I
               PROVE  LET e == SimpleFractalEvent(E, T, i)
                          f == SimplifiedFractal(E, i, T)
                      IN  /\ e.kind = "fractal" /\ e.formed = E[i].last
                          /\ e.tradable # None =>
                                /\ e.status = "confirmed" /\ e.formed < e.confirmed
                                /\ e.confirmed = e.tradable - 1
    OBVIOUS
  <2> DEFINE e == SimpleFractalEvent(E, T, i)
             f == SimplifiedFractal(E, i, T)
  <2>1. /\ e.kind = "fractal" /\ e.formed = f.formed /\ e.confirmed = f.confirmed
        /\ e.tradable = f.tradable /\ e.status = f.status
    BY DEF SimpleFractalEvent, Event
  <2>2. /\ f.formed = E[i].last
        /\ f.status = "confirmed" <=> E[i + 1].last < T
        /\ f.tradable = IF E[i + 1].last < T THEN E[i + 1].last + 1 ELSE None
        /\ f.confirmed = IF E[i + 1].last < T THEN E[i + 1].last ELSE None
    BY SimpleFractalType
  <2>3. /\ E[i].last \in Nat \ {0} /\ E[i + 1].first = E[i].last + 1
        /\ E[i + 1].last \in Nat /\ E[i + 1].first <= E[i + 1].last
    BY FractalFacts
  <2> HIDE DEF e, f
  <2>4. E[i].last < E[i + 1].last
    BY <2>3
  <2> QED
    BY <2>1, <2>2, <2>3, <2>4 DEF e, f
<1>3. \A i, j \in I : E[i].last = E[j].last => i = j
  <2> SUFFICES ASSUME NEW i \in I, NEW j \in I, E[i].last = E[j].last PROVE i = j
    OBVIOUS
  <2>1. i \in 1 .. Len(E) /\ j \in 1 .. Len(E) /\ i \in Nat /\ j \in Nat /\ E[i].last \in Nat
    BY FractalFacts
  <2>2. ~(i < j) /\ ~(j < i)
    BY <2>1, LastsGrow
  <2> QED
    BY <2>1, <2>2
<1>4. ASSUME NEW e \in X, NEW f \in X, EventId(e) = EventId(f) PROVE e = f
  <2>1. PICK i \in I : e = SimpleFractalEvent(E, T, i)
    BY DEF SimpleFractalEvents
  <2>2. PICK j \in I : f = SimpleFractalEvent(E, T, j)
    BY DEF SimpleFractalEvents
  <2>3. e.formed = f.formed
    BY <1>4 DEF EventId
  <2>4. E[i].last = E[j].last
    BY <1>2, <2>1, <2>2, <2>3
  <2> QED
    BY <1>3, <2>1, <2>2, <2>4
<1>5. \A e \in X : /\ e.kind = "fractal"
                   /\ e.tradable # None => /\ e.status = "confirmed" /\ e.formed < e.confirmed
                                           /\ e.confirmed = e.tradable - 1
  BY <1>2 DEF SimpleFractalEvents
<1> QED
  BY <1>1, <1>4, <1>5 DEF Sound

\* A confirmed fractal does not change any more.
LEMMA SimpleFractalsFollow ==
  ASSUME NEW E, NEW T, Covers(E, T), NEW E2, Covers(E2, T + 1), Lengthens(E, E2)
  PROVE  ComesAfter("simplified-v1", SimpleFractalEvents(E, T),
                    SimpleFractalEvents(E2, T + 1), T + 1)
<1> DEFINE X == SimpleFractalEvents(E, T)
           X2 == SimpleFractalEvents(E2, T + 1)
<1>1. ASSUME NEW e \in X, e.status = "confirmed" PROVE Remains("simplified-v1", e, X2, T + 1)
  <2>1. PICK i \in FractalIndices(E) : e = SimpleFractalEvent(E, T, i)
    BY DEF SimpleFractalEvents
  <2>2. Counts(E, T, i) /\ i \in Nat
    <3>1. IsFractal(E, i) /\ i \in Nat
      BY FractalFacts
    <3>2. SimplifiedFractal(E, i, T).status = "confirmed"
      BY <1>1, <2>1 DEF SimpleFractalEvent, Event
    <3> QED
      BY <3>1, <3>2 DEF Counts
  <2>3. i <= Len(E) - 2
    <3>1. i + 1 < Len(E)
      BY <2>2, CountsFacts
    <3>2. Len(E) \in Nat
      BY DEF Covers
    <3> QED
      BY <2>2, <3>1, <3>2
  <2>4. Counts(E2, T + 1, i) /\ SimplifiedFractal(E2, i, T + 1) = SimplifiedFractal(E, i, T)
    BY <2>2, <2>3, CountsStand
  <2>5. i \in FractalIndices(E2)
    BY <2>4, CountsFacts
  <2>6. e = SimpleFractalEvent(E2, T + 1, i)
    BY <2>1, <2>4 DEF SimpleFractalEvent
  <2>7. e \in X2
    BY <2>5, <2>6 DEF SimpleFractalEvents
  <2>8. [e EXCEPT !.tradable = e.tradable] = e
    BY <2>1 DEF SimpleFractalEvent, Event
  <2> QED
    BY <1>1, <2>7, <2>8, SameRemains
<1>2. ASSUME NEW e2 \in X2, e2.tradable \notin {None, T + 1} PROVE WasTradable(e2, X)
  <2>1. PICK i \in FractalIndices(E2) : e2 = SimpleFractalEvent(E2, T + 1, i)
    BY DEF SimpleFractalEvents
  <2>2. e2.tradable = SimplifiedFractal(E2, i, T + 1).tradable /\ i \in Nat /\ IsFractal(E2, i)
    <3>1. i \in Nat /\ IsFractal(E2, i)
      BY FractalFacts
    <3> QED
      BY <2>1, <3>1 DEF SimpleFractalEvent, Event
  <2>3. SimplifiedFractal(E2, i, T + 1).status = "confirmed"
    BY <1>2, <2>2, SimpleFractalType
  <2>4. Counts(E2, T + 1, i)
    BY <2>2, <2>3 DEF Counts
  <2>5. i <= Len(E) - 2
    <3>1. Len(E) \in Nat /\ i \in Nat
      BY <2>2 DEF Covers
    <3>2. ~(i > Len(E) - 2)
      BY <1>2, <2>2, <2>4, CountsStand
    <3> QED
      BY <3>1, <3>2
  <2>6. Counts(E, T, i) /\ SimplifiedFractal(E2, i, T + 1) = SimplifiedFractal(E, i, T)
    BY <2>2, <2>4, <2>5, CountsStand
  <2>7. i \in FractalIndices(E) /\ e2 = SimpleFractalEvent(E, T, i)
    BY <2>1, <2>6, CountsFacts DEF SimpleFractalEvent
  <2>8. e2 \in X
    BY <2>7 DEF SimpleFractalEvents
  <2>9. e2.status = "confirmed"
    BY <2>1, <2>3 DEF SimpleFractalEvent, Event
  <2> QED
    BY <2>8, <2>9 DEF WasTradable
<1> QED
  BY <1>1, <1>2 DEF ComesAfter

\* The strokes of simplified-v1 begin on dates of their own.
LEMMA SimpleStrokesSound ==
  ASSUME NEW S, NEW T \in Nat, SimpleOk(S, T)
  PROVE  /\ Sound(SimpleStrokeEvents(S))
         /\ \A e \in SimpleStrokeEvents(S) : e.kind = "stroke"
<1> DEFINE X == SimpleStrokeEvents(S)
           I == 1 .. Len(S)
           event == [k \in I |-> SimpleStrokeEvent(S[k])]
<1>1. /\ Len(S) \in Nat /\ DOMAIN S = I
      /\ \A k \in I : /\ S[k].formed \in Nat /\ S[k].end \in Nat
                      /\ S[k].confirmed \in Nat /\ S[k].tradable \in Nat
  BY SimpleHasRanges DEF HasRanges
<1>2. IsFiniteSet(X)
  <2>1. IsFiniteSet(I)
    BY <1>1, FS_Interval
  <2>2. IsFiniteSet({event[k] : k \in I})
    <3> HIDE DEF event, I
    <3> QED
      BY <2>1, FiniteImage
  <2>3. X = {event[k] : k \in I}
    BY <1>1 DEF SimpleStrokeEvents
  <2> QED
    BY <2>2, <2>3
<1>3. \A k \in I :
         LET e == SimpleStrokeEvent(S[k])
         IN  /\ e.kind = "stroke" /\ e.formed = S[k].formed /\ e.status = "confirmed"
             /\ e.formed < e.confirmed /\ e.confirmed = e.tradable - 1
  <2> SUFFICES ASSUME NEW k \in I
               PROVE  LET e == SimpleStrokeEvent(S[k])
                      IN  /\ e.kind = "stroke" /\ e.formed = S[k].formed /\ e.status = "confirmed"
                          /\ e.formed < e.confirmed /\ e.confirmed = e.tradable - 1
    OBVIOUS
  <2>1. /\ SimpleStrokeEvent(S[k]).kind = "stroke"
        /\ SimpleStrokeEvent(S[k]).formed = S[k].formed
        /\ SimpleStrokeEvent(S[k]).status = "confirmed"
        /\ SimpleStrokeEvent(S[k]).confirmed = S[k].confirmed
        /\ SimpleStrokeEvent(S[k]).tradable = S[k].tradable
    BY DEF SimpleStrokeEvent, Settled, Event
  <2>2. /\ S[k].formed < S[k].end /\ S[k].end < S[k].confirmed
        /\ S[k].tradable = S[k].confirmed + 1
    BY <1>1 DEF SimpleOk, SimpleStrokeOk
  <2>3. /\ S[k].formed \in Nat /\ S[k].end \in Nat
        /\ S[k].confirmed \in Nat /\ S[k].tradable \in Nat
    BY <1>1
  <2>4. S[k].formed < S[k].confirmed /\ S[k].confirmed = S[k].tradable - 1
    BY <2>2, <2>3
  <2> QED
    BY <2>1, <2>4
<1>4. \A k, l \in I : S[k].formed = S[l].formed => k = l
  <2> SUFFICES ASSUME NEW k \in I, NEW l \in I, S[k].formed = S[l].formed PROVE k = l
    OBVIOUS
  <2>1. ~(k < l) /\ ~(l < k)
    BY <1>1, SimpleEndsGrow
  <2> QED
    BY <1>1, <2>1
<1>5. ASSUME NEW e \in X, NEW f \in X, EventId(e) = EventId(f) PROVE e = f
  <2>1. PICK k \in I : e = SimpleStrokeEvent(S[k])
    BY <1>1 DEF SimpleStrokeEvents
  <2>2. PICK l \in I : f = SimpleStrokeEvent(S[l])
    BY <1>1 DEF SimpleStrokeEvents
  <2>3. e.formed = f.formed
    BY <1>5 DEF EventId
  <2>4. S[k].formed = S[l].formed
    BY <1>3, <2>1, <2>2, <2>3
  <2> QED
    BY <1>4, <2>1, <2>2, <2>4
<1>6. \A e \in X : /\ e.kind = "stroke"
                   /\ e.tradable # None => /\ e.status = "confirmed" /\ e.formed < e.confirmed
                                           /\ e.confirmed = e.tradable - 1
  BY <1>1, <1>3 DEF SimpleStrokeEvents
<1> QED
  BY <1>2, <1>5, <1>6 DEF Sound

\* A stroke does not change any more.
LEMMA SimpleStrokesFollow ==
  ASSUME NEW S, NEW T \in Nat, SimpleOk(S, T), NEW S2, SimpleOk(S2, T + 1),
         SimpleGrows(S, S2, T)
  PROVE  ComesAfter("simplified-v1", SimpleStrokeEvents(S), SimpleStrokeEvents(S2), T + 1)
<1> DEFINE X == SimpleStrokeEvents(S)
           X2 == SimpleStrokeEvents(S2)
           n == Len(S)
<1>1. n \in Nat /\ DOMAIN S = 1 .. n /\ DOMAIN S2 = 1 .. Len(S2) /\ Len(S2) \in Nat
  BY SimpleHasRanges DEF HasRanges
<1>2. /\ n <= Len(S2)
      /\ \A k \in 1 .. n : S2[k] = S[k]
      /\ \A k \in 1 .. Len(S2) : k \notin 1 .. n => S2[k].tradable = T + 1
  <2>1. CASE S2 = S
    BY <1>1, <2>1
  <2>2. CASE \E stroke \in SimpleStroke : /\ S2 = Append(S, stroke)
                                          /\ stroke.confirmed = T /\ stroke.tradable = T + 1
    <3>1. PICK stroke \in SimpleStroke : S2 = Append(S, stroke) /\ stroke.tradable = T + 1
      BY <2>2
    <3>2. S \in Seq(SimpleStroke)
      BY DEF SimpleOk
    <3>3. Len(S2) = n + 1 /\ S2[n + 1] = stroke /\ \A i \in 1 .. n : S2[i] = S[i]
      BY <3>1, <3>2
    <3>4. \A k \in 1 .. Len(S2) : k \notin 1 .. n => k = n + 1
      BY <1>1, <3>3
    <3> QED
      BY <1>1, <3>1, <3>3, <3>4
  <2> QED
    BY <2>1, <2>2 DEF SimpleGrows
<1>3. ASSUME NEW e \in X, e.status = "confirmed" PROVE Remains("simplified-v1", e, X2, T + 1)
  <2>1. PICK k \in 1 .. n : e = SimpleStrokeEvent(S[k])
    BY <1>1 DEF SimpleStrokeEvents
  <2>2. k \in DOMAIN S2 /\ e = SimpleStrokeEvent(S2[k])
    BY <1>1, <1>2, <2>1
  <2>3. e \in X2
    BY <2>2 DEF SimpleStrokeEvents
  <2>4. [e EXCEPT !.tradable = e.tradable] = e
    BY <2>1 DEF SimpleStrokeEvent, Settled, Event
  <2> QED
    BY <1>3, <2>3, <2>4, SameRemains
<1>4. ASSUME NEW e2 \in X2, e2.tradable \notin {None, T + 1} PROVE WasTradable(e2, X)
  <2>1. PICK k \in 1 .. Len(S2) : e2 = SimpleStrokeEvent(S2[k])
    BY <1>1 DEF SimpleStrokeEvents
  <2>2. e2.tradable = S2[k].tradable /\ e2.status = "confirmed"
    BY <2>1 DEF SimpleStrokeEvent, Settled, Event
  <2>3. k \in 1 .. n
    BY <1>2, <1>4, <2>2
  <2>4. e2 = SimpleStrokeEvent(S[k])
    BY <1>2, <2>1, <2>3
  <2>5. e2 \in X
    BY <1>1, <2>3, <2>4 DEF SimpleStrokeEvents
  <2> QED
    BY <2>2, <2>5 DEF WasTradable
<1> QED
  BY <1>3, <1>4 DEF ComesAfter

-----------------------------------------------------------------------------
(* The events of simplified-v1: central areas and their candidate *)

SimpleAreaEvent(a) == Event("central_area", "central_area", "", a, None, a.low, a.high, a.status)

SimpleAreaEvents(S) == {SimpleAreaEvent(CentralArea(S, s)) : s \in SimplifiedStarts(S)}

SimpleCandidateEvents(S) == {SimpleAreaEvent(a) : a \in SimplifiedCandidates(S)}

\* The areas of simplified-v1 are formed by different strokes.
LEMMA SimpleAreasSound ==
  ASSUME NEW S, NEW T \in Nat, SimpleOk(S, T)
  PROVE  /\ Sound(SimpleAreaEvents(S))
         /\ \A e \in SimpleAreaEvents(S) : e.kind = "central_area" /\ e.status = "confirmed"
<1> DEFINE X == SimpleAreaEvents(S)
           I == SimplifiedStarts(S)
           event == [s \in I |-> SimpleAreaEvent(CentralArea(S, s))]
           L == Len(S) - 2
<1>1. L \in Int /\ I \subseteq 1 .. L
  BY SimpleHasRanges, SimpleNextMoves
<1>2. IsFiniteSet(X)
  <2>1. IsFiniteSet(1 .. L)
    BY <1>1, FS_Interval
  <2>2. IsFiniteSet(I)
    <3> HIDE DEF I, L
    <3> QED
      BY <1>1, <2>1, FS_Subset
  <2>3. IsFiniteSet({event[s] : s \in I})
    <3> HIDE DEF event, I
    <3> QED
      BY <2>2, FiniteImage
  <2>4. X = {event[s] : s \in I}
    BY DEF SimpleAreaEvents
  <2> QED
    BY <2>3, <2>4
<1>3. \A s \in I :
         LET e == SimpleAreaEvent(CentralArea(S, s))
         IN  /\ e.kind = "central_area" /\ e.formed = CentralArea(S, s).formed
             /\ e.status = "confirmed"
             /\ e.formed < e.confirmed /\ e.confirmed = e.tradable - 1
  <2> SUFFICES ASSUME NEW s \in I
               PROVE  LET e == SimpleAreaEvent(CentralArea(S, s))
                      IN  /\ e.kind = "central_area" /\ e.formed = CentralArea(S, s).formed
                          /\ e.status = "confirmed"
                          /\ e.formed < e.confirmed /\ e.confirmed = e.tradable - 1
    OBVIOUS
  <2> DEFINE a == CentralArea(S, s)
  <2>1. /\ a.status = "confirmed" /\ a.formed \in Nat /\ a.confirmed \in Nat /\ a.tradable \in Nat
        /\ a.formed < a.confirmed /\ a.tradable = a.confirmed + 1
    BY SimpleAreaFacts
  <2> HIDE DEF a
  <2>2. a.formed < a.confirmed /\ a.confirmed = a.tradable - 1
    BY <2>1
  <2>3. /\ SimpleAreaEvent(a).kind = "central_area" /\ SimpleAreaEvent(a).formed = a.formed
        /\ SimpleAreaEvent(a).status = a.status /\ SimpleAreaEvent(a).confirmed = a.confirmed
        /\ SimpleAreaEvent(a).tradable = a.tradable
    BY DEF SimpleAreaEvent, Event
  <2> QED
    BY <2>1, <2>2, <2>3 DEF a
<1>4. ASSUME NEW e \in X, NEW f \in X, EventId(e) = EventId(f) PROVE e = f
  <2>1. PICK s \in I : e = SimpleAreaEvent(CentralArea(S, s))
    BY DEF SimpleAreaEvents
  <2>2. PICK t \in I : f = SimpleAreaEvent(CentralArea(S, t))
    BY DEF SimpleAreaEvents
  <2>3. e.formed = f.formed
    BY <1>4 DEF EventId
  <2>4. CentralArea(S, s).formed = CentralArea(S, t).formed
    BY <1>3, <2>1, <2>2, <2>3
  <2>5. s = t
    BY <2>4, SimpleAreasApart
  <2> QED
    BY <2>1, <2>2, <2>5
<1>5. \A e \in X : /\ e.kind = "central_area" /\ e.status = "confirmed"
                   /\ e.formed < e.confirmed /\ e.confirmed = e.tradable - 1
  BY <1>3 DEF SimpleAreaEvents
<1> QED
  BY <1>2, <1>4, <1>5 DEF Sound

\* An area stays, or is narrowed and confirmed by the latest stroke.
LEMMA SimpleAreasFollow ==
  ASSUME NEW S, NEW T \in Nat, SimpleOk(S, T), NEW S2, SimpleOk(S2, T + 1),
         SimpleGrows(S, S2, T)
  PROVE  ComesAfter("simplified-v1", SimpleAreaEvents(S), SimpleAreaEvents(S2), T + 1)
<1> DEFINE X == SimpleAreaEvents(S)
           X2 == SimpleAreaEvents(S2)
<1>1. /\ \A s \in SimplifiedStarts(S) :
            /\ s \in SimplifiedStarts(S2)
            /\ \/ CentralArea(S2, s) = CentralArea(S, s)
               \/ TakesIn(CentralArea(S, s), CentralArea(S2, s), T)
      /\ \A s \in SimplifiedStarts(S2) :
            \/ s \in SimplifiedStarts(S)
            \/ CentralArea(S2, s).confirmed = T /\ CentralArea(S2, s).tradable = T + 1
  BY SimpleAreasStand
<1>2. ASSUME NEW e \in X, e.status = "confirmed" PROVE Remains("simplified-v1", e, X2, T + 1)
  <2>1. PICK s \in SimplifiedStarts(S) : e = SimpleAreaEvent(CentralArea(S, s))
    BY DEF SimpleAreaEvents
  <2> DEFINE a == CentralArea(S, s)
             a2 == CentralArea(S2, s)
             e2 == SimpleAreaEvent(a2)
  <2>2. e2 \in X2
    BY <1>1, <2>1 DEF SimpleAreaEvents
  <2>3. /\ a.confirmed \in Nat /\ a.tradable \in Nat /\ a.status = "confirmed"
        /\ a.tradable = a.confirmed + 1 /\ a.tradable <= T
    BY SimpleAreaFacts
  <2>4. /\ e.kind = "central_area" /\ e.reason = "central_area" /\ e.subtype = ""
        /\ e.formed = a.formed /\ e.low = a.low /\ e.high = a.high
        /\ e.confirmed = a.confirmed /\ e.tradable = a.tradable
        /\ e2.kind = "central_area" /\ e2.reason = "central_area" /\ e2.subtype = ""
        /\ e2.formed = a2.formed /\ e2.low = a2.low /\ e2.high = a2.high
        /\ e2.confirmed = a2.confirmed /\ e2.tradable = a2.tradable /\ e2.status = a2.status
        /\ [e EXCEPT !.tradable = e.tradable] = e
    BY <2>1 DEF SimpleAreaEvent, Event
  <2>5. CASE a2 = a
    <3>1. e2 = e
      BY <2>1, <2>5
    <3> HIDE DEF e2
    <3> QED
      BY <1>2, <2>2, <2>4, <3>1, SameRemains
  <2>6. CASE TakesIn(a, a2, T)
    <3> HIDE DEF a, a2, e2
    <3>1. EventId(e2) = EventId(e) /\ e2.status = "confirmed"
      BY <2>3, <2>4, <2>6 DEF TakesIn, EventId
    <3>2. OnlyNarrows(e, e2)
      <4>1. T >= a.confirmed /\ T + 1 >= a.tradable
        BY <2>3
      <4>2. a2.low >= a.low /\ a2.high <= a.high /\ a2.confirmed = T /\ a2.tradable = T + 1
        BY <2>6 DEF TakesIn
      <4>3. /\ e2.low >= e.low /\ e2.high <= e.high
            /\ e2.confirmed >= e.confirmed /\ e2.tradable >= e.tradable
        BY <2>4, <4>1, <4>2
      <4> QED
        BY <4>3 DEF OnlyNarrows
    <3> QED
      BY <2>2, <2>4, <3>1, <3>2 DEF Remains
  <2> QED
    BY <1>1, <2>5, <2>6
<1>3. ASSUME NEW e2 \in X2, e2.tradable \notin {None, T + 1} PROVE WasTradable(e2, X)
  <2>1. PICK s \in SimplifiedStarts(S2) : e2 = SimpleAreaEvent(CentralArea(S2, s))
    BY DEF SimpleAreaEvents
  <2>2. /\ e2.tradable = CentralArea(S2, s).tradable
        /\ e2.status = CentralArea(S2, s).status
    BY <2>1 DEF SimpleAreaEvent, Event
  <2>3. s \in SimplifiedStarts(S) /\ CentralArea(S2, s) = CentralArea(S, s)
    BY <1>1, <1>3, <2>2 DEF TakesIn
  <2>4. e2 \in X
    BY <2>1, <2>3 DEF SimpleAreaEvents
  <2>5. CentralArea(S, s).status = "confirmed"
    BY <2>3, SimpleAreaFacts
  <2> QED
    BY <2>2, <2>3, <2>4, <2>5 DEF WasTradable
<1> QED
  BY <1>2, <1>3 DEF ComesAfter

\* One event at most.
LEMMA LoneSound ==
  ASSUME NEW X, \A e, f \in X : e = f,
         \A e \in X : e.tradable # None =>
            e.status = "confirmed" /\ e.formed < e.confirmed /\ e.confirmed = e.tradable - 1
  PROVE  Sound(X)
<1>1. IsFiniteSet(X)
  <2>1. CASE X = {}
    BY <2>1, FS_EmptySet
  <2>2. CASE X # {}
    <3>1. PICK x \in X : TRUE
      BY <2>2
    <3>2. X = {x}
      BY <3>1
    <3> QED
      BY <3>2, FS_Singleton
  <2> QED
    BY <2>1, <2>2
<1> QED
  BY <1>1 DEF Sound

\* A candidate is never tradable.
LEMMA SimpleCandidatesSound ==
  ASSUME NEW S, NEW S2, NEW T2
  PROVE  /\ Sound(SimpleCandidateEvents(S))
         /\ \A e \in SimpleCandidateEvents(S) : e.kind = "central_area" /\ e.status = "candidate"
         /\ ComesAfter("simplified-v1", SimpleCandidateEvents(S), SimpleCandidateEvents(S2), T2)
<1>1. ASSUME NEW U
      PROVE  /\ \A e, f \in SimpleCandidateEvents(U) : e = f
             /\ \A e \in SimpleCandidateEvents(U) :
                   e.kind = "central_area" /\ e.status = "candidate" /\ e.tradable = None
  <2> DEFINE n == Len(U)
             c == [low |-> SharedLow(U, n - 1, n), high |-> SharedHigh(U, n - 1, n),
                   formed |-> U[n].end, confirmed |-> None, tradable |-> None,
                   status |-> "candidate"]
  <2>1. \A a \in SimplifiedCandidates(U) : a = c
    BY DEF SimplifiedCandidates
  <2>2. \A e \in SimpleCandidateEvents(U) : e = SimpleAreaEvent(c)
    BY <2>1 DEF SimpleCandidateEvents
  <2>3. /\ SimpleAreaEvent(c).kind = "central_area" /\ SimpleAreaEvent(c).status = c.status
        /\ SimpleAreaEvent(c).tradable = c.tradable
    BY DEF SimpleAreaEvent, Event
  <2>4. c.status = "candidate" /\ c.tradable = None
    OBVIOUS
  <2> HIDE DEF c
  <2> QED
    BY <2>2, <2>3, <2>4
<1>2. Sound(SimpleCandidateEvents(S))
  BY <1>1, LoneSound
<1>3. ComesAfter("simplified-v1", SimpleCandidateEvents(S), SimpleCandidateEvents(S2), T2)
  BY <1>1 DEF ComesAfter
<1> QED
  BY <1>1, <1>2, <1>3

ObservationEvent(o) == Event("observation", "breakout", "", o, None, None, None, o.status)

ObservationEvents(supplied, S) == {ObservationEvent(o) : o \in SimplifiedObservations(supplied, S)}

\* There is one observation at most.
LEMMA ObservationsSound ==
  ASSUME NEW supplied, Len(supplied) \in Nat, NEW S, SimpleOk(S, Len(supplied))
  PROVE  /\ Sound(ObservationEvents(supplied, S))
         /\ \A e \in ObservationEvents(supplied, S) : e.kind = "observation"
<1> DEFINE T == Len(supplied)
           X == ObservationEvents(supplied, S)
           since == AboveSince(supplied, LatestArea(S))
<1>1. \A o, p \in SimplifiedObservations(supplied, S) : o = p
  <2> SUFFICES ASSUME NEW o \in SimplifiedObservations(supplied, S),
                      NEW p \in SimplifiedObservations(supplied, S)
               PROVE  o = p
    OBVIOUS
  <2>1. /\ o.formed \in since /\ (\A d \in since : o.formed <= d) /\ o.formed \in Nat
        /\ o = [formed |-> o.formed,
                confirmed |-> IF o.formed < T THEN o.formed + 1 ELSE None,
                tradable |-> IF o.formed < T THEN TradeDateAfter(o.formed + 1, T) ELSE None,
                status |-> IF o.formed < T THEN "confirmed" ELSE "candidate"]
    BY ObservationFacts
  <2>2. /\ p.formed \in since /\ (\A d \in since : p.formed <= d) /\ p.formed \in Nat
        /\ p = [formed |-> p.formed,
                confirmed |-> IF p.formed < T THEN p.formed + 1 ELSE None,
                tradable |-> IF p.formed < T THEN TradeDateAfter(p.formed + 1, T) ELSE None,
                status |-> IF p.formed < T THEN "confirmed" ELSE "candidate"]
    BY ObservationFacts
  <2> HIDE DEF since
  <2>3. o.formed = p.formed
    <3> DEFINE x == o.formed
               y == p.formed
    <3>1. x <= y /\ y <= x /\ x \in Nat /\ y \in Nat
      BY <2>1, <2>2
    <3> HIDE DEF x, y
    <3>2. x = y
      BY <3>1
    <3> QED
      BY <3>2 DEF x, y
  <2> DEFINE w == o.formed
  <2> QED
    BY ONLY <2>1, <2>2, <2>3
<1>2. \A o \in SimplifiedObservations(supplied, S) :
         o.tradable # None =>
            o.status = "confirmed" /\ o.formed < o.confirmed /\ o.confirmed = o.tradable - 1
  <2> SUFFICES ASSUME NEW o \in SimplifiedObservations(supplied, S), o.tradable # None
               PROVE  /\ o.status = "confirmed" /\ o.formed < o.confirmed
                      /\ o.confirmed = o.tradable - 1
    OBVIOUS
  <2> DEFINE w == o.formed
  <2>1. /\ w \in Nat
        /\ o = [formed |-> w,
                confirmed |-> IF w < T THEN w + 1 ELSE None,
                tradable |-> IF w < T THEN TradeDateAfter(w + 1, T) ELSE None,
                status |-> IF w < T THEN "confirmed" ELSE "candidate"]
    BY ObservationFacts
  <2> HIDE DEF w
  <2>2. /\ o.formed = w /\ o.confirmed = IF w < T THEN w + 1 ELSE None
        /\ o.tradable = IF w < T THEN TradeDateAfter(w + 1, T) ELSE None
        /\ o.status = IF w < T THEN "confirmed" ELSE "candidate"
    BY ONLY <2>1
  <2>3. w < T /\ TradeDateAfter(w + 1, T) # None
    BY <2>2
  <2>4. TradeDateAfter(w + 1, T) = w + 1 + 1
    BY <2>3 DEF TradeDateAfter
  <2> QED
    BY <2>1, <2>2, <2>3, <2>4
<1>3. \A o \in SimplifiedObservations(supplied, S) :
         /\ ObservationEvent(o).kind = "observation" /\ ObservationEvent(o).formed = o.formed
         /\ ObservationEvent(o).confirmed = o.confirmed
         /\ ObservationEvent(o).tradable = o.tradable /\ ObservationEvent(o).status = o.status
  BY DEF ObservationEvent, Event
<1>4. \A e, f \in X : e = f
  BY <1>1 DEF ObservationEvents
<1>5. \A e \in X : /\ e.kind = "observation"
                   /\ e.tradable # None => /\ e.status = "confirmed" /\ e.formed < e.confirmed
                                           /\ e.confirmed = e.tradable - 1
  BY <1>2, <1>3 DEF ObservationEvents
<1>6. Sound(X)
  <2> HIDE DEF X
  <2> QED
    BY <1>4, <1>5, LoneSound
<1> QED
  BY <1>5, <1>6

\* An observation that was tradable before is that of the same area and start.
LEMMA ObservationsFollow ==
  ASSUME NEW supplied \in Seq(Bar), NEW bar \in Bar, NEW S, SimpleOk(S, Len(supplied)),
         NEW S2, SimpleOk(S2, Len(supplied) + 1), SimpleGrows(S, S2, Len(supplied))
  PROVE  ComesAfter("simplified-v1", ObservationEvents(supplied, S),
                 ObservationEvents(Append(supplied, bar), S2), Len(supplied) + 1)
<1> DEFINE X == ObservationEvents(supplied, S)
           X2 == ObservationEvents(Append(supplied, bar), S2)
           T2 == Len(supplied) + 1
<1>1. \A e \in X : e.kind = "observation"
  <2>1. \A o : ObservationEvent(o).kind = "observation"
    BY DEF ObservationEvent, Event
  <2> QED
    BY <2>1 DEF ObservationEvents
<1>2. ASSUME NEW e2 \in X2, e2.tradable \notin {None, T2} PROVE WasTradable(e2, X)
  <2>1. PICK o2 \in SimplifiedObservations(Append(supplied, bar), S2) : e2 = ObservationEvent(o2)
    BY DEF ObservationEvents
  <2>2. /\ e2.kind = "observation" /\ e2.reason = "breakout" /\ e2.subtype = ""
        /\ e2.formed = o2.formed /\ e2.tradable = o2.tradable
    BY <2>1 DEF ObservationEvent, Event
  <2>3. PICK o \in SimplifiedObservations(supplied, S) :
           o.formed = o2.formed /\ o.status = "confirmed" /\ o.tradable = o2.tradable
    <3>1. o2.tradable \notin {None, Len(supplied) + 1}
      BY <1>2, <2>2
    <3> QED
      BY <3>1, ObservationsStand
  <2> DEFINE e == ObservationEvent(o)
  <2>4. /\ e.kind = "observation" /\ e.reason = "breakout" /\ e.subtype = ""
        /\ e.formed = o.formed /\ e.tradable = o.tradable /\ e.status = o.status
    BY DEF ObservationEvent, Event
  <2>5. e \in X
    BY DEF ObservationEvents
  <2> HIDE DEF e
  <2> QED
    BY <2>2, <2>3, <2>4, <2>5 DEF WasTradable, EventId
<1> QED
  BY <1>1, <1>2 DEF ComesAfter

\* What simplified-v1 finds, by families.
LEMMA SimplifiedFamilies ==
  ASSUME NEW supplied, NEW E
  PROVE  LET T == Len(supplied)
             S == SimplifiedStrokes(E, T)
         IN  SimplifiedEvents(supplied, E) =
               (((SimpleFractalEvents(E, T) \cup SimpleStrokeEvents(S)) \cup SimpleAreaEvents(S))
                \cup SimpleCandidateEvents(S)) \cup ObservationEvents(supplied, S)
<1> DEFINE T == Len(supplied)
           S == SimplifiedStrokes(E, T)
<1>1. SimpleFractalEvents(E, T) =
        {Event("fractal", "fractal", f.kind, f, f.price, None, None, f.status) :
         f \in SimplifiedFractals(E, T)}
  BY DEF SimpleFractalEvents, SimplifiedFractals, SimpleFractalEvent
<1>2. SimpleStrokeEvents(S) =
        {Settled("stroke", "stroke", s.kind, s, None, s.low, s.high) : s \in Elements(S)}
  BY DEF SimpleStrokeEvents, SimpleStrokeEvent, Elements
<1>3. SimpleAreaEvents(S) \cup SimpleCandidateEvents(S) =
        {Event("central_area", "central_area", "", a, None, a.low, a.high, a.status) :
         a \in SimplifiedAreas(S) \cup SimplifiedCandidates(S)}
  BY DEF SimpleAreaEvents, SimpleCandidateEvents, SimpleAreaEvent, SimplifiedAreas
<1>4. ObservationEvents(supplied, S) =
        {Event("observation", "breakout", "", o, None, None, None, o.status) :
         o \in SimplifiedObservations(supplied, S)}
  BY DEF ObservationEvents, ObservationEvent
<1> DEFINE A == {Event("fractal", "fractal", f.kind, f, f.price, None, None, f.status) :
                 f \in SimplifiedFractals(E, T)}
           B == {Settled("stroke", "stroke", s.kind, s, None, s.low, s.high) : s \in Elements(S)}
           C == {Event("central_area", "central_area", "", a, None, a.low, a.high, a.status) :
                 a \in SimplifiedAreas(S) \cup SimplifiedCandidates(S)}
           D == {Event("observation", "breakout", "", o, None, None, None, o.status) :
                 o \in SimplifiedObservations(supplied, S)}
<1>5. SimplifiedEvents(supplied, E) = A \cup B \cup C \cup D
  BY DEF SimplifiedEvents
<1> HIDE DEF A, B, C, D, S, T
<1>6. /\ A = SimpleFractalEvents(E, T) /\ B = SimpleStrokeEvents(S)
      /\ C = SimpleAreaEvents(S) \cup SimpleCandidateEvents(S)
      /\ D = ObservationEvents(supplied, S)
  BY <1>1, <1>2, <1>3, <1>4 DEF A, B, C, D
<1>7. SimplifiedEvents(supplied, E) =
        (((SimpleFractalEvents(E, T) \cup SimpleStrokeEvents(S)) \cup SimpleAreaEvents(S))
         \cup SimpleCandidateEvents(S)) \cup ObservationEvents(supplied, S)
  BY <1>5, <1>6
<1> QED
  BY <1>7 DEF S, T

\* What simplified-v1 finds in one prefix, and in the next.
LEMMA SimplifiedSound ==
  ASSUME NEW supplied, Len(supplied) \in Nat, NEW E, Covers(E, Len(supplied))
  PROVE  Sound(SimplifiedEvents(supplied, E))
<1> DEFINE T == Len(supplied)
           S == SimplifiedStrokes(E, T)
           F == SimpleFractalEvents(E, T)
           G == SimpleStrokeEvents(S)
           A == SimpleAreaEvents(S)
           C == SimpleCandidateEvents(S)
           O == ObservationEvents(supplied, S)
<1>1. SimpleOk(S, T)
  BY SimpleInvariant
<1>2. /\ Sound(F) /\ Sound(G) /\ Sound(A) /\ Sound(C) /\ Sound(O)
      /\ \A e \in F : e.kind = "fractal"
      /\ \A e \in G : e.kind = "stroke"
      /\ \A e \in A : e.kind = "central_area" /\ e.status = "confirmed"
      /\ \A e \in C : e.kind = "central_area" /\ e.status = "candidate"
      /\ \A e \in O : e.kind = "observation"
  <2> HIDE DEF S
  <2>1. Sound(F) /\ \A e \in F : e.kind = "fractal"
    BY SimpleFractalsSound
  <2>2. Sound(G) /\ \A e \in G : e.kind = "stroke"
    BY <1>1, SimpleStrokesSound
  <2>3. Sound(A) /\ \A e \in A : e.kind = "central_area" /\ e.status = "confirmed"
    BY <1>1, SimpleAreasSound
  <2>4. Sound(C) /\ \A e \in C : e.kind = "central_area" /\ e.status = "candidate"
    BY SimpleCandidatesSound
  <2>5. Sound(O) /\ \A e \in O : e.kind = "observation"
    BY <1>1, ObservationsSound
  <2> QED
    BY <2>1, <2>2, <2>3, <2>4, <2>5
<1> HIDE DEF F, G, A, C, O
<1>3. Sound(F \cup G)
  BY <1>2, SoundTogether
<1>4. Sound((F \cup G) \cup A)
  BY <1>2, <1>3, SoundTogether
<1>5. Sound(((F \cup G) \cup A) \cup C)
  BY <1>2, <1>4, SoundTogether
<1>6. Sound((((F \cup G) \cup A) \cup C) \cup O)
  BY <1>2, <1>5, SoundTogether
<1> QED
  BY <1>6, SimplifiedFamilies DEF F, G, A, C, O

\* What simplified-v1 has confirmed remains, and nothing is tradable too late.
LEMMA SimplifiedFollows ==
  ASSUME NEW supplied \in Seq(Bar), NEW bar \in Bar, NEW E, Covers(E, Len(supplied)),
         NEW E2, Covers(E2, Len(supplied) + 1), Lengthens(E, E2)
  PROVE  ComesAfter("simplified-v1", SimplifiedEvents(supplied, E),
                 SimplifiedEvents(Append(supplied, bar), E2), Len(supplied) + 1)
<1> DEFINE T == Len(supplied)
           supplied2 == Append(supplied, bar)
           S == SimplifiedStrokes(E, T)
           S2 == SimplifiedStrokes(E2, T + 1)
           which == "simplified-v1"
<1>1. T \in Nat /\ Len(supplied2) = T + 1 /\ T + 1 \in Nat
  OBVIOUS
<1>2. SimpleOk(S, T) /\ SimpleOk(S2, T + 1) /\ SimpleGrows(S, S2, T)
  <2>1. SimpleOk(S, T) /\ SimpleOk(S2, T + 1)
    BY SimpleInvariant
  <2>2. SimpleGrows(S, S2, T)
    BY SimpleStrokesStand DEF SimpleGrows
  <2> QED
    BY <2>1, <2>2
<1> DEFINE F == SimpleFractalEvents(E, T)
           G == SimpleStrokeEvents(S)
           A == SimpleAreaEvents(S)
           C == SimpleCandidateEvents(S)
           O == ObservationEvents(supplied, S)
           F2 == SimpleFractalEvents(E2, T + 1)
           G2 == SimpleStrokeEvents(S2)
           A2 == SimpleAreaEvents(S2)
           C2 == SimpleCandidateEvents(S2)
           O2 == ObservationEvents(supplied2, S2)
<1>3. ComesAfter(which, F, F2, T + 1)
  BY SimpleFractalsFollow
<1> HIDE DEF S, S2
<1>4. ComesAfter(which, G, G2, T + 1) /\ ComesAfter(which, A, A2, T + 1)
  BY <1>1, <1>2, SimpleStrokesFollow, SimpleAreasFollow
<1>5. ComesAfter(which, C, C2, T + 1) /\ ComesAfter(which, O, O2, T + 1)
  BY <1>1, <1>2, SimpleCandidatesSound, ObservationsFollow
<1>6. /\ SimplifiedEvents(supplied, E) = (((F \cup G) \cup A) \cup C) \cup O
      /\ SimplifiedEvents(supplied2, E2) = (((F2 \cup G2) \cup A2) \cup C2) \cup O2
  BY <1>1, SimplifiedFamilies DEF S, S2
<1> HIDE DEF F, G, A, C, O, F2, G2, A2, C2, O2, which
<1>7. ComesAfter(which, F \cup G, F2 \cup G2, T + 1)
  BY <1>3, <1>4, FollowsTogether
<1>8. ComesAfter(which, (F \cup G) \cup A, (F2 \cup G2) \cup A2, T + 1)
  BY <1>4, <1>7, FollowsTogether
<1>9. ComesAfter(which, ((F \cup G) \cup A) \cup C, ((F2 \cup G2) \cup A2) \cup C2, T + 1)
  BY <1>5, <1>8, FollowsTogether
<1>10. ComesAfter(which, (((F \cup G) \cup A) \cup C) \cup O,
               (((F2 \cup G2) \cup A2) \cup C2) \cup O2, T + 1)
  BY <1>5, <1>9, FollowsTogether
<1> QED
  BY <1>6, <1>10 DEF which

-----------------------------------------------------------------------------
(* The strokes of strict-v1 *)

StrictFractalType ==
    [kind : {"top", "bottom"}, price : Int, formed : Nat, confirmed : Nat, tradable : Nat,
     index : Nat]

StrictStrokeType ==
    [start : Int, end : Int, formed : Nat, low : Int, high : Int, confirmed : Nat,
     tradable : Nat, direction : {"up", "down"}]

StrictFoundType ==
    [active : StrictFractalType \cup {NoActive}, strokes : Seq(StrictStrokeType)]

\* A fractal is confirmed on the date after it formed, and tradable on the next.
LEMMA StrictFractalFacts ==
  ASSUME NEW E, NEW T, Covers(E, T), NEW i \in FractalIndices(E)
  PROVE  LET f == StrictFractal(E, i, T)
         IN  /\ f \in StrictFractalType /\ i \in Nat /\ i \in 1 .. Len(E) - 1
             /\ f.formed = E[i].last /\ 0 < f.formed
             /\ f.confirmed = f.formed + 1 /\ f.confirmed = E[i + 1].first /\ f.confirmed <= T
             /\ f.tradable = TradeDateAfter(f.confirmed, T)
<1>1. /\ i \in 2 .. Len(E) - 1 /\ i \in Nat
      /\ FractalKind(E, i) \in {"top", "bottom"} /\ FractalPrice(E, i) \in Int
      /\ E[i].last \in Nat \ {0} /\ E[i + 1].first = E[i].last + 1
      /\ E[i + 1].last \in Nat /\ E[i + 1].first <= E[i + 1].last /\ E[i + 1].last <= T
  BY FractalFacts
<1> DEFINE d == E[i].last
           c == E[i + 1].first
<1>2. T \in Nat
  BY DEF Covers
<1>3. /\ d \in Nat \ {0} /\ c = d + 1 /\ c \in Nat /\ c <= T /\ i \in 1 .. Len(E) - 1
  BY <1>1, <1>2
<1>4. StrictFractal(E, i, T) =
        [kind |-> FractalKind(E, i), price |-> FractalPrice(E, i), formed |-> d,
         confirmed |-> c, tradable |-> TradeDateAfter(c, T), index |-> i]
  BY DEF StrictFractal
<1> HIDE DEF d, c
<1>5. TradeDateAfter(c, T) \in Nat
  BY <1>3 DEF TradeDateAfter, None
<1> QED
  BY <1>1, <1>3, <1>4, <1>5 DEF StrictFractalType, d, c

\* The fractals of a prefix are those of the next one, but for their tradable date; a
\* new one is confirmed by the new bar.
LEMMA StrictFractalsStand ==
  ASSUME NEW E, NEW T, Covers(E, T), NEW E2, Covers(E2, T + 1), Lengthens(E, E2)
  PROVE  /\ \A i \in 1 .. Len(E) - 1 :
               /\ i \in FractalIndices(E2) <=> i \in FractalIndices(E)
               /\ i \in FractalIndices(E) =>
                    LET f == StrictFractal(E, i, T)
                        f2 == StrictFractal(E2, i, T + 1)
                    IN  /\ f2.kind = f.kind /\ f2.price = f.price /\ f2.formed = f.formed
                        /\ f2.confirmed = f.confirmed /\ f2.index = f.index
                        /\ i < Len(E) - 1 => f2 = f
         /\ \A i \in FractalIndices(E2) : i \notin FractalIndices(E) =>
               /\ i = Len(E) /\ Len(E2) = Len(E) + 1
               /\ StrictFractal(E2, i, T + 1).confirmed = T + 1
<1> DEFINE n == Len(E)
<1>1. n \in Nat /\ T \in Nat /\ Len(E2) \in {n, n + 1}
  BY DEF Covers, Lengthens
<1>2. ASSUME NEW i \in 1 .. n - 1
      PROVE  i \in FractalIndices(E2) <=> i \in FractalIndices(E)
  BY FractalsStand
<1>3. ASSUME NEW i \in 1 .. n - 1, i \in FractalIndices(E)
      PROVE  LET f == StrictFractal(E, i, T)
                 f2 == StrictFractal(E2, i, T + 1)
             IN  /\ f2.kind = f.kind /\ f2.price = f.price /\ f2.formed = f.formed
                 /\ f2.confirmed = f.confirmed /\ f2.index = f.index
                 /\ i < n - 1 => f2 = f
  <2> DEFINE c == E[i + 1].first
  <2>1. /\ FractalKind(E2, i) = FractalKind(E, i) /\ FractalPrice(E2, i) = FractalPrice(E, i)
        /\ E2[i] = E[i] /\ E2[i + 1].first = c
    BY FractalsStand
  <2>2. /\ StrictFractal(E, i, T) =
             [kind |-> FractalKind(E, i), price |-> FractalPrice(E, i), formed |-> E[i].last,
              confirmed |-> c, tradable |-> TradeDateAfter(c, T), index |-> i]
        /\ StrictFractal(E2, i, T + 1) =
             [kind |-> FractalKind(E, i), price |-> FractalPrice(E, i), formed |-> E[i].last,
              confirmed |-> c, tradable |-> TradeDateAfter(c, T + 1), index |-> i]
    BY <2>1 DEF StrictFractal
  <2>3. i < n - 1 => TradeDateAfter(c, T + 1) = TradeDateAfter(c, T)
    <3> SUFFICES ASSUME i < n - 1 PROVE TradeDateAfter(c, T + 1) = TradeDateAfter(c, T)
      OBVIOUS
    <3>1. i + 1 \in 1 .. n /\ n \in 1 .. n /\ i + 1 < n /\ n > 0
      BY <1>1
    <3>2. E[i + 1].last < E[n].last /\ E[n].last = T /\ E[i + 1].first <= E[i + 1].last
      <4>1. E[i + 1].last < E[n].last
        BY <3>1, LastsGrow
      <4> QED
        BY <3>1, <4>1 DEF Covers
    <3>3. E[i + 1].first \in Nat /\ E[i + 1].last \in Nat
      <4>1. E[i + 1] \in EffectiveBar
        BY <3>1 DEF Covers
      <4> QED
        BY <4>1 DEF EffectiveBar
    <3>4. c < T /\ c < T + 1
      BY <1>1, <3>2, <3>3
    <3> QED
      BY <3>4 DEF TradeDateAfter
  <2> HIDE DEF c
  <2> QED
    BY <2>2, <2>3
<1>4. ASSUME NEW i \in FractalIndices(E2), i \notin FractalIndices(E)
      PROVE  /\ i = n /\ Len(E2) = n + 1
             /\ StrictFractal(E2, i, T + 1).confirmed = T + 1
  <2>1. i = n /\ Len(E2) = n + 1
    BY <1>4, FractalsStand
  <2>2. n > 0 /\ n + 1 \in 2 .. Len(E2) /\ n \in 1 .. n /\ (n + 1) - 1 = n
    <3>1. i \in 1 .. Len(E2) - 1
      BY <1>1, StrictFractalFacts
    <3> QED
      BY <1>1, <2>1, <3>1
  <2>3. E2[n + 1].first = E2[n].last + 1 /\ E2[n] = E[n] /\ E[n].last = T
    <3>1. E2[n + 1].first = E2[(n + 1) - 1].last + 1
      BY <2>2 DEF Covers
    <3>2. E2[n] = E[n]
      BY <2>1, <2>2 DEF Lengthens
    <3>3. E[n].last = T
      BY <2>2 DEF Covers
    <3> QED
      BY <2>2, <3>1, <3>2, <3>3
  <2>4. StrictFractal(E2, i, T + 1).confirmed = E2[n + 1].first
    BY <2>1 DEF StrictFractal
  <2> QED
    BY <2>1, <2>3, <2>4
<1> QED
  BY <1>2, <1>3, <1>4

\* A stroke between a price and a fractal.
LEMMA StrictStrokeTyped ==
  ASSUME NEW start \in Int, NEW formed \in Nat, NEW fractal \in StrictFractalType
  PROVE  StrictStroke(start, formed, fractal) \in StrictStrokeType
<1>1. /\ fractal.price \in Int /\ fractal.confirmed \in Nat /\ fractal.tradable \in Nat
  BY DEF StrictFractalType
<1>2. Lower(start, fractal.price) \in Int /\ Higher(start, fractal.price) \in Int
  BY <1>1 DEF Lower, Higher
<1> QED
  BY <1>1, <1>2 DEF StrictStroke, StrictStrokeType

\* A turn over the fractals leaves strokes.
LEMMA ExtendStrictTyped ==
  ASSUME NEW found \in StrictFoundType, NEW fractal \in StrictFractalType
  PROVE  ExtendStrict(found, fractal) \in StrictFoundType
<1> DEFINE active == found.active
           strokes == found.strokes
           n == Len(strokes)
<1>1. /\ active \in StrictFractalType \cup {NoActive} /\ strokes \in Seq(StrictStrokeType)
      /\ found = [active |-> active, strokes |-> strokes] /\ n \in Nat
  BY DEF StrictFoundType
<1>2. [found EXCEPT !.active = fractal] \in StrictFoundType
  BY DEF StrictFoundType
<1>3. ASSUME strokes # <<>>
      PROVE  [active |-> fractal, strokes |-> MoveStrokeEnd(strokes, fractal)] \in StrictFoundType
  <2>1. n \in 1 .. n /\ strokes[n] \in StrictStrokeType
    <3> HIDE DEF strokes
    <3>1. n # 0
      BY <1>1, <1>3, EmptySeq
    <3> QED
      BY <1>1, <3>1
  <2>2. strokes[n].start \in Int /\ strokes[n].formed \in Nat
    BY <2>1 DEF StrictStrokeType
  <2> DEFINE moved == StrictStroke(strokes[n].start, strokes[n].formed, fractal)
  <2>3. moved \in StrictStrokeType
    BY <2>2, StrictStrokeTyped
  <2> HIDE DEF moved, strokes
  <2>4. [strokes EXCEPT ![n] = moved] \in Seq(StrictStrokeType)
    BY <1>1, <2>1, <2>3
  <2>5. MoveStrokeEnd(strokes, fractal) \in Seq(StrictStrokeType)
    BY <2>4 DEF MoveStrokeEnd, moved
  <2> QED
    BY <2>5 DEF StrictFoundType
<1>4. ASSUME active # NoActive
      PROVE  [active |-> fractal,
              strokes |-> Append(strokes, StrictStroke(active.price, active.formed, fractal))]
               \in StrictFoundType
  <2>1. active.price \in Int /\ active.formed \in Nat
    BY <1>1, <1>4 DEF StrictFractalType
  <2> DEFINE stroke == StrictStroke(active.price, active.formed, fractal)
  <2>2. stroke \in StrictStrokeType
    BY <2>1, StrictStrokeTyped
  <2> HIDE DEF stroke, strokes
  <2>3. Append(strokes, stroke) \in Seq(StrictStrokeType)
    BY <1>1, <2>2
  <2> QED
    BY <2>3 DEF StrictFoundType, stroke
<1>5. SameKindStrict(found, fractal) \in StrictFoundType
  <2> HIDE DEF StrictFoundType
  <2> QED
    BY <1>2, <1>3 DEF SameKindStrict
<1> HIDE DEF StrictFoundType
<1> QED
  BY <1>2, <1>4, <1>5 DEF ExtendStrict

StrictTurn(E, T, i, found) ==
    IF IsFractal(E, i) THEN ExtendStrict(found, StrictFractal(E, i, T)) ELSE found

\* The function by which the strokes are defined exists.
LEMMA StrictTurns ==
  ASSUME NEW E, NEW T, Covers(E, T)
  PROVE  LET found == StrictFound(E, T)
         IN  /\ found \in [0 .. Len(E) -> StrictFoundType]
             /\ found[0] = [active |-> NoActive, strokes |-> <<>>]
             /\ \A i \in 1 .. Len(E) : found[i] = StrictTurn(E, T, i, found[i - 1])
<1> DEFINE N == Len(E)
           base == [active |-> NoActive, strokes |-> <<>>]
           step == [ip \in Nat \X StrictFoundType |-> StrictTurn(E, T, ip[1], ip[2])]
           Body(f) == [i \in 0 .. N |-> IF i = 0 THEN base ELSE StrictTurn(E, T, i, f[i - 1])]
<1>1. N \in Nat /\ base \in StrictFoundType
  BY EmptySeq DEF Covers, StrictFoundType
<1>2. \A i \in Nat, p \in StrictFoundType : StrictTurn(E, T, i, p) \in StrictFoundType
  <2> SUFFICES ASSUME NEW i \in Nat, NEW p \in StrictFoundType, IsFractal(E, i)
               PROVE  ExtendStrict(p, StrictFractal(E, i, T)) \in StrictFoundType
    BY DEF StrictTurn
  <2>1. i \in FractalIndices(E)
    BY DEF FractalIndices, IsFractal, IsTop, IsBottom, Covers
  <2>2. StrictFractal(E, i, T) \in StrictFractalType
    BY <2>1, StrictFractalFacts
  <2> QED
    BY <2>2, ExtendStrictTyped
<1>3. step \in [Nat \X StrictFoundType -> StrictFoundType]
  BY <1>2
<1>4. PICK f \in [0 .. N -> StrictFoundType] : Recursive(f, base, step, N)
  <2> HIDE DEF N, base, step
  <2> QED
    BY <1>1, <1>3, RecursiveFunction
<1>5. \A i \in 1 .. N : f[i] = StrictTurn(E, T, i, f[i - 1])
  <2>1. ASSUME NEW i \in 1 .. N PROVE f[i] = StrictTurn(E, T, i, f[i - 1])
    <3>1. i \in Nat /\ i - 1 \in 0 .. N /\ f[i - 1] \in StrictFoundType
      BY <1>1
    <3>2. step[<<i, f[i - 1]>>] = StrictTurn(E, T, i, f[i - 1])
      BY <3>1
    <3> QED
      BY <1>4, <3>2 DEF Recursive
  <2> QED
    BY <2>1
<1>6. f = Body(f)
  BY <1>1, <1>4, <1>5 DEF Recursive
<1>7. StrictFound(E, T) = CHOOSE g : g = Body(g)
  BY DEF StrictFound, StrictTurn
<1> DEFINE found == StrictFound(E, T)
<1>8. found = Body(found)
  <2> HIDE DEF Body
  <2> QED
    BY <1>6, <1>7
<1>9. /\ found[0] = base
      /\ \A i \in 1 .. N : found[i] = StrictTurn(E, T, i, found[i - 1])
  <2> HIDE DEF found
  <2> HIDE DEF base, N
  <2>1. found = [i \in 0 .. N |-> IF i = 0 THEN base ELSE StrictTurn(E, T, i, found[i - 1])]
    BY ONLY <1>8
  <2>2. 0 \in 0 .. N /\ \A i \in 1 .. N : i \in 0 .. N /\ i # 0
    BY <1>1
  <2>3. found[0] = base
    BY ONLY <2>1, <2>2
  <2>4. ASSUME NEW i \in 1 .. N PROVE found[i] = StrictTurn(E, T, i, found[i - 1])
    BY ONLY <2>1, <2>2, i \in 1 .. N
  <2> QED
    BY <2>3, <2>4
<1>10. \A i \in 0 .. N : found[i] = f[i]
  <2> DEFINE P == {i \in 0 .. N : found[i] = f[i]}
  <2> HIDE DEF found
  <2>1. P \in SUBSET (0 .. N) /\ 0 \in P
    BY <1>1, <1>4, <1>9 DEF Recursive
  <2>2. ASSUME NEW i \in P, i < N PROVE i + 1 \in P
    <3>1. i + 1 \in 1 .. N /\ (i + 1) - 1 = i /\ i + 1 \in 0 .. N
      BY <1>1, <2>2
    <3>2. f[i + 1] = StrictTurn(E, T, i + 1, f[i])
      BY <1>5, <3>1
    <3>3. found[i + 1] = StrictTurn(E, T, i + 1, found[i])
      BY <1>9, <3>1
    <3> QED
      BY <3>1, <3>2, <3>3
  <2>3. P = 0 .. N
    <3> HIDE DEF P, N
    <3> QED
      BY <1>1, <2>1, <2>2, BoundedInduction
  <2> QED
    BY <2>3
<1>11. found \in [0 .. N -> StrictFoundType]
  <2> HIDE DEF found, N, base
  <2>1. found = [i \in 0 .. N |-> IF i = 0 THEN base ELSE StrictTurn(E, T, i, found[i - 1])]
    BY ONLY <1>8
  <2>2. \A i \in 0 .. N : found[i] \in StrictFoundType
    BY <1>10
  <2> QED
    BY <2>1, <2>2
<1> QED
  BY <1>9, <1>11

\* A stroke is confirmed after its start formed, and tradable on the next date.
StrictStrokeOk(stroke, T) ==
    /\ 0 < stroke.formed /\ stroke.formed < stroke.confirmed /\ stroke.confirmed <= T
    /\ stroke.tradable = TradeDateAfter(stroke.confirmed, T)

\* Strokes come one behind the other.
StrictOk(strokes, T) ==
    /\ strokes \in Seq(StrictStrokeType)
    /\ \A k \in DOMAIN strokes : StrictStrokeOk(strokes[k], T)
    /\ \A k, l \in DOMAIN strokes : k < l =>
          strokes[k].formed < strokes[l].formed /\ strokes[k].confirmed < strokes[l].confirmed

\* After the effective bar i.
StrictInv(E, T, i, found) ==
    /\ found \in StrictFoundType
    /\ StrictOk(found.strokes, T)
    /\ found.active = NoActive => found.strokes = <<>>
    /\ found.active # NoActive =>
          /\ \E j \in 1 .. i : j \in FractalIndices(E) /\ found.active = StrictFractal(E, j, T)
          /\ \A k \in DOMAIN found.strokes :
                /\ found.strokes[k].formed < found.active.formed
                /\ found.strokes[k].confirmed <= found.active.confirmed

\* A fractal of the kind of the active one, as long as all strokes are tradable.
LEMMA SameKindCases ==
  ASSUME NEW found, NEW fractal
  PROVE  /\ found.strokes = <<>> =>
               SameKindStrict(found, fractal) \in {found, [found EXCEPT !.active = fractal]}
         /\ found.strokes # <<>> /\ found.strokes[Len(found.strokes)].tradable # None =>
               SameKindStrict(found, fractal) = found
<1>1. ASSUME found.strokes = <<>>
      PROVE  SameKindStrict(found, fractal) \in {found, [found EXCEPT !.active = fractal]}
  BY <1>1 DEF SameKindStrict
<1>2. ASSUME found.strokes # <<>>, found.strokes[Len(found.strokes)].tradable # None
      PROVE  SameKindStrict(found, fractal) = found
  <2>1. CASE ~MoreExtreme(fractal.kind, fractal.price, found.active.price)
    BY <2>1 DEF SameKindStrict
  <2>2. CASE MoreExtreme(fractal.kind, fractal.price, found.active.price)
    BY <1>2, <2>2 DEF SameKindStrict
  <2> QED
    BY <2>1, <2>2
<1> QED
  BY <1>1, <1>2

\* A fractal is never met while the latest stroke cannot be traded on: that stroke is never
\* moved.
LEMMA StrictTurnCases ==
  ASSUME NEW E, NEW T, Covers(E, T), NEW i \in FractalIndices(E),
         NEW found, StrictInv(E, T, i - 1, found)
  PROVE  LET fractal == StrictFractal(E, i, T)
             active == found.active
         IN  /\ active # NoActive => /\ active \in StrictFractalType
                                     /\ 0 < active.formed /\ active.formed < fractal.formed
                                     /\ active.confirmed < fractal.confirmed
             /\ \/ ExtendStrict(found, fractal) = found
                \/ /\ found.strokes = <<>>
                   /\ ExtendStrict(found, fractal) = [found EXCEPT !.active = fractal]
                \/ /\ active # NoActive
                   /\ ExtendStrict(found, fractal)
                        = [active |-> fractal,
                           strokes |-> Append(found.strokes,
                                              StrictStroke(active.price, active.formed, fractal))]
             /\ found.strokes # <<>> => found.strokes[Len(found.strokes)].tradable # None
<1> DEFINE fractal == StrictFractal(E, i, T)
           active == found.active
           strokes == found.strokes
           n == Len(strokes)
<1>1. /\ fractal \in StrictFractalType /\ i \in Nat /\ i \in 1 .. Len(E) - 1
      /\ fractal.formed = E[i].last /\ fractal.confirmed = fractal.formed + 1
      /\ fractal.confirmed <= T /\ fractal.formed \in Nat /\ T \in Nat /\ Len(E) \in Nat
  <2>1. /\ fractal \in StrictFractalType /\ i \in Nat /\ i \in 1 .. Len(E) - 1
        /\ fractal.formed = E[i].last /\ fractal.confirmed = fractal.formed + 1
        /\ fractal.confirmed <= T
    BY StrictFractalFacts
  <2>2. T \in Nat /\ Len(E) \in Nat
    BY DEF Covers
  <2> QED
    BY <2>1, <2>2 DEF StrictFractalType
<1>2. /\ found \in StrictFoundType /\ StrictOk(strokes, T)
      /\ active \in StrictFractalType \cup {NoActive}
      /\ strokes \in Seq(StrictStrokeType) /\ n \in Nat /\ DOMAIN strokes = 1 .. n
  BY DEF StrictInv, StrictFoundType
<1>3. ASSUME active # NoActive
      PROVE  /\ active \in StrictFractalType
             /\ 0 < active.formed /\ active.formed < fractal.formed
             /\ active.confirmed < fractal.confirmed /\ active.confirmed < T
  <2>1. PICK j \in 1 .. i - 1 : j \in FractalIndices(E) /\ active = StrictFractal(E, j, T)
    BY <1>3 DEF StrictInv
  <2>2. j \in 1 .. Len(E) /\ i \in 1 .. Len(E) /\ j < i
    BY <1>1
  <2>3. E[j].last < E[i].last
    BY <2>2, LastsGrow
  <2>4. active.formed = E[j].last /\ 0 < active.formed /\ active.confirmed = active.formed + 1
    BY <2>1, StrictFractalFacts
  <2>5. active \in StrictFractalType
    BY <1>2, <1>3
  <2>6. active.formed \in Nat
    BY <2>5 DEF StrictFractalType
  <2> HIDE DEF active, fractal
  <2> QED
    BY <1>1, <2>3, <2>4, <2>5, <2>6
<1>4. ASSUME strokes # <<>> PROVE strokes[n].tradable # None
  <2>1. n \in 1 .. n
    <3> HIDE DEF strokes
    <3>1. n # 0
      BY <1>2, <1>4, EmptySeq
    <3> QED
      BY <1>2, <3>1
  <2>2. active # NoActive
    BY <1>4 DEF StrictInv
  <2>3. strokes[n].confirmed <= active.confirmed
    BY <1>2, <2>1, <2>2 DEF StrictInv
  <2>4. strokes[n].tradable = TradeDateAfter(strokes[n].confirmed, T)
    BY <1>2, <2>1 DEF StrictOk, StrictStrokeOk
  <2> DEFINE c == strokes[n].confirmed
             a == active.confirmed
  <2>5. c \in Nat
    <3>1. strokes[n] \in StrictStrokeType
      BY <1>2, <2>1
    <3> QED
      BY <3>1 DEF StrictStrokeType
  <2>6. a \in Nat /\ a < T
    BY <1>3, <2>2 DEF StrictFractalType
  <2>7. TradeDateAfter(c, T) # None
    <3>1. c <= a
      BY <2>3
    <3> HIDE DEF c, a
    <3>2. c < T /\ c + 1 # 0
      BY <1>1, <2>5, <2>6, <3>1
    <3> QED
      BY <3>2 DEF TradeDateAfter, None
  <2> QED
    BY <2>4, <2>7
<1>5. \/ SameKindStrict(found, fractal) = found
      \/ strokes = <<>> /\ SameKindStrict(found, fractal) = [found EXCEPT !.active = fractal]
  BY <1>4, SameKindCases
<1>6. active = NoActive => strokes = <<>>
  BY DEF StrictInv
<1>7. \/ ExtendStrict(found, fractal) = found
      \/ /\ strokes = <<>>
         /\ ExtendStrict(found, fractal) = [found EXCEPT !.active = fractal]
      \/ /\ active # NoActive
         /\ ExtendStrict(found, fractal)
              = [active |-> fractal,
                 strokes |-> Append(strokes, StrictStroke(active.price, active.formed, fractal))]
  <2> HIDE DEF fractal
  <2> QED
    BY <1>5, <1>6 DEF ExtendStrict
<1> QED
  BY <1>3, <1>4, <1>7

\* One turn keeps the strokes in order, before the active fractal.
LEMMA StrictTurnKeeps ==
  ASSUME NEW E, NEW T, Covers(E, T), NEW i \in 1 .. Len(E),
         NEW found, StrictInv(E, T, i - 1, found)
  PROVE  StrictInv(E, T, i, StrictTurn(E, T, i, found))
<1>1. i \in Nat /\ Len(E) \in Nat /\ \A j \in 1 .. i - 1 : j \in 1 .. i
  BY DEF Covers
<1>2. StrictInv(E, T, i, found)
  BY <1>1 DEF StrictInv
<1>3. CASE ~IsFractal(E, i)
  BY <1>2, <1>3 DEF StrictTurn
<1>4. CASE IsFractal(E, i)
  <2> DEFINE fractal == StrictFractal(E, i, T)
             active == found.active
             strokes == found.strokes
             stroke == StrictStroke(active.price, active.formed, fractal)
             replaced == [found EXCEPT !.active = fractal]
             added == [active |-> fractal, strokes |-> Append(strokes, stroke)]
             next == StrictTurn(E, T, i, found)
  <2>1. i \in FractalIndices(E)
    BY <1>4 DEF FractalIndices
  <2>2. /\ fractal \in StrictFractalType /\ 0 < fractal.formed
        /\ fractal.confirmed = fractal.formed + 1 /\ fractal.confirmed <= T
        /\ fractal.tradable = TradeDateAfter(fractal.confirmed, T)
    BY <2>1, StrictFractalFacts
  <2>3. /\ active # NoActive => /\ active \in StrictFractalType
                                /\ 0 < active.formed /\ active.formed < fractal.formed
                                /\ active.confirmed < fractal.confirmed
        /\ \/ next = found
           \/ strokes = <<>> /\ next = replaced
           \/ active # NoActive /\ next = added
    <3>1. next = ExtendStrict(found, fractal)
      BY <1>4 DEF StrictTurn
    <3> QED
      BY <2>1, <3>1, StrictTurnCases
  <2>4. fractal # NoActive
    BY <2>2 DEF NoActive, StrictFractalType
  <2>5. /\ found \in StrictFoundType /\ StrictOk(strokes, T)
        /\ strokes \in Seq(StrictStrokeType)
    BY DEF StrictInv, StrictFoundType
  <2>6. \E j \in 1 .. i : j \in FractalIndices(E) /\ fractal = StrictFractal(E, j, T)
    BY <1>1, <2>1
  <2>7. ASSUME strokes = <<>> PROVE StrictInv(E, T, i, replaced)
    <3>1. replaced.active = fractal /\ replaced.strokes = <<>> /\ replaced \in StrictFoundType
      BY <2>2, <2>5, <2>7 DEF StrictFoundType
    <3>2. StrictOk(replaced.strokes, T) /\ DOMAIN replaced.strokes = {}
      BY <2>5, <2>7, <3>1, EmptySeq
    <3> HIDE DEF replaced, fractal, strokes, active
    <3> QED
      BY <2>4, <2>6, <3>1, <3>2 DEF StrictInv
  <2>8. ASSUME active # NoActive PROVE StrictInv(E, T, i, added)
    <3>1. /\ active \in StrictFractalType /\ 0 < active.formed /\ active.formed < fractal.formed
          /\ active.confirmed < fractal.confirmed
          /\ active.formed \in Nat /\ active.price \in Int /\ active.confirmed \in Nat
          /\ fractal.formed \in Nat /\ fractal.confirmed \in Nat
      BY <2>2, <2>3, <2>8 DEF StrictFractalType
    <3>2. stroke \in StrictStrokeType
      BY <2>2, <3>1, StrictStrokeTyped
    <3>3. /\ stroke.formed = active.formed /\ stroke.confirmed = fractal.confirmed
          /\ stroke.tradable = fractal.tradable
      BY DEF StrictStroke
    <3> DEFINE more == Append(strokes, stroke)
               N == Len(strokes)
    <3>4. \A k \in DOMAIN strokes : /\ strokes[k].formed < active.formed
                                    /\ strokes[k].confirmed <= active.confirmed
                                    /\ strokes[k] \in StrictStrokeType
                                    /\ strokes[k].formed \in Nat /\ strokes[k].confirmed \in Nat
      <4>1. \A k \in DOMAIN strokes : /\ strokes[k].formed < active.formed
                                      /\ strokes[k].confirmed <= active.confirmed
        BY <2>8 DEF StrictInv
      <4> HIDE DEF strokes
      <4>2. \A k \in DOMAIN strokes : strokes[k] \in StrictStrokeType
        BY <2>5
      <4>3. \A k \in DOMAIN strokes : strokes[k].formed \in Nat /\ strokes[k].confirmed \in Nat
        BY <4>2 DEF StrictStrokeType
      <4> QED
        BY <4>1, <4>2, <4>3
    <3>5. StrictStrokeOk(stroke, T)
      <4> HIDE DEF stroke, fractal, active
      <4>1. 0 < stroke.formed /\ stroke.formed < stroke.confirmed /\ stroke.confirmed <= T
        BY <2>2, <3>1, <3>3
      <4> QED
        BY <2>2, <3>3, <4>1 DEF StrictStrokeOk
    <3> HIDE DEF stroke, strokes, active, fractal
    <3>6. /\ N \in Nat /\ DOMAIN strokes = 1 .. N /\ DOMAIN more = 1 .. N + 1
          /\ more[N + 1] = stroke /\ \A k \in 1 .. N : more[k] = strokes[k]
          /\ more \in Seq(StrictStrokeType)
      BY <2>5, <3>2
    <3> HIDE DEF more, N
    <3>7. \A k \in DOMAIN more : StrictStrokeOk(more[k], T)
      <4> SUFFICES ASSUME NEW k \in 1 .. N + 1 PROVE StrictStrokeOk(more[k], T)
        BY <3>6
      <4>1. CASE k = N + 1
        BY <3>5, <3>6, <4>1
      <4>2. CASE k \in 1 .. N
        BY <2>5, <3>6, <4>2 DEF StrictOk
      <4> QED
        BY <3>6, <4>1, <4>2
    <3>8. \A k, l \in DOMAIN more : k < l =>
             more[k].formed < more[l].formed /\ more[k].confirmed < more[l].confirmed
      <4> SUFFICES ASSUME NEW k \in 1 .. N + 1, NEW l \in 1 .. N + 1, k < l
                   PROVE  more[k].formed < more[l].formed /\ more[k].confirmed < more[l].confirmed
        BY <3>6
      <4>1. k \in 1 .. N
        BY <3>6
      <4>2. CASE l = N + 1
        <5>1. /\ strokes[k].formed < active.formed /\ strokes[k].confirmed <= active.confirmed
              /\ strokes[k].formed \in Nat /\ strokes[k].confirmed \in Nat
          BY <3>4, <3>6, <4>1
        <5>2. more[k] = strokes[k] /\ more[l] = stroke
          BY <3>6, <4>1, <4>2
        <5>3. strokes[k].confirmed < fractal.confirmed
          BY <3>1, <5>1
        <5> QED
          BY <3>3, <5>1, <5>2, <5>3
      <4>3. CASE l \in 1 .. N
        BY <2>5, <3>6, <4>1, <4>3 DEF StrictOk
      <4> QED
        BY <3>6, <4>2, <4>3
    <3>9. StrictOk(more, T)
      BY <3>6, <3>7, <3>8 DEF StrictOk
    <3>10. \A k \in DOMAIN more : /\ more[k].formed < fractal.formed
                                  /\ more[k].confirmed <= fractal.confirmed
      <4> SUFFICES ASSUME NEW k \in 1 .. N + 1
                   PROVE  /\ more[k].formed < fractal.formed
                          /\ more[k].confirmed <= fractal.confirmed
        BY <3>6
      <4>1. CASE k = N + 1
        BY <3>1, <3>3, <3>6, <4>1
      <4>2. CASE k \in 1 .. N
        <5>1. /\ strokes[k].formed < active.formed /\ strokes[k].confirmed <= active.confirmed
              /\ strokes[k].formed \in Nat /\ strokes[k].confirmed \in Nat
          BY <3>4, <3>6, <4>2
        <5>2. strokes[k].formed < fractal.formed /\ strokes[k].confirmed <= fractal.confirmed
          <6>1. /\ active.formed \in Nat /\ active.confirmed \in Nat
                /\ fractal.formed \in Nat /\ fractal.confirmed \in Nat
                /\ active.formed < fractal.formed /\ active.confirmed < fractal.confirmed
            BY <3>1
          <6> HIDE DEF fractal, active
          <6> QED
            BY <5>1, <6>1
        <5> QED
          BY <3>6, <4>2, <5>2
      <4> QED
        BY <3>6, <4>1, <4>2
    <3>11. added.active = fractal /\ added.strokes = more /\ added \in StrictFoundType
      BY <2>2, <3>6 DEF more, StrictFoundType
    <3> HIDE DEF added
    <3> QED
      BY <2>4, <2>6, <3>9, <3>10, <3>11 DEF StrictInv
  <2> HIDE DEF next, replaced, added
  <2>9. StrictInv(E, T, i, next)
    BY <1>2, <2>3, <2>7, <2>8
  <2> QED
    BY <2>9 DEF next
<1> QED
  BY <1>3, <1>4

\* All turns do, hence the strokes of any prefix come one behind the other.
LEMMA StrictInvariant ==
  ASSUME NEW E, NEW T, Covers(E, T)
  PROVE  /\ \A i \in 0 .. Len(E) : StrictInv(E, T, i, StrictFound(E, T)[i])
         /\ StrictOk(StrictStrokes(E, T), T)
<1> DEFINE N == Len(E)
           found == StrictFound(E, T)
           P == {i \in 0 .. N : StrictInv(E, T, i, found[i])}
<1>1. /\ N \in Nat /\ found[0] = [active |-> NoActive, strokes |-> <<>>]
      /\ found[0] \in StrictFoundType
      /\ \A i \in 1 .. N : found[i] = StrictTurn(E, T, i, found[i - 1])
  <2>1. N \in Nat
    BY DEF Covers
  <2>2. /\ found \in [0 .. N -> StrictFoundType]
        /\ found[0] = [active |-> NoActive, strokes |-> <<>>]
        /\ \A i \in 1 .. N : found[i] = StrictTurn(E, T, i, found[i - 1])
    BY StrictTurns
  <2> HIDE DEF found
  <2> QED
    BY <2>1, <2>2
<1> HIDE DEF found
<1>2. P \in SUBSET (0 .. N) /\ 0 \in P
  <2>1. found[0].active = NoActive /\ found[0].strokes = <<>>
    BY <1>1
  <2>2. <<>> \in Seq(StrictStrokeType) /\ DOMAIN <<>> = {}
    BY EmptySeq
  <2>3. StrictOk(<<>>, T)
    BY <2>2 DEF StrictOk
  <2>4. StrictInv(E, T, 0, found[0])
    BY <1>1, <2>1, <2>3 DEF StrictInv
  <2> QED
    BY <1>1, <2>4
<1>3. ASSUME NEW i \in P, i < N PROVE i + 1 \in P
  <2>1. i + 1 \in 1 .. N /\ (i + 1) - 1 = i /\ i + 1 \in 0 .. N
    BY <1>1, <1>3
  <2>2. found[i + 1] = StrictTurn(E, T, i + 1, found[i])
    BY <1>1, <2>1
  <2>3. StrictInv(E, T, (i + 1) - 1, found[i])
    BY <2>1
  <2>4. StrictInv(E, T, i + 1, found[i + 1])
    BY <2>1, <2>2, <2>3, StrictTurnKeeps
  <2> QED
    BY <2>1, <2>4
<1>4. P = 0 .. N
  <2> HIDE DEF P, N
  <2> QED
    BY <1>1, <1>2, <1>3, BoundedInduction
<1>5. \A i \in 0 .. N : StrictInv(E, T, i, found[i])
  BY <1>4
<1>6. N \in 0 .. N
  BY <1>1
<1>7. StrictOk(found[N].strokes, T)
  BY <1>5, <1>6 DEF StrictInv
<1> QED
  BY <1>5, <1>7 DEF StrictStrokes, found

\* The same stroke, but for the date on which it may be traded on.
SameStroke(stroke, stroke2) ==
    /\ stroke2.start = stroke.start /\ stroke2.end = stroke.end
    /\ stroke2.formed = stroke.formed /\ stroke2.confirmed = stroke.confirmed
    /\ stroke2.low = stroke.low /\ stroke2.high = stroke.high
    /\ stroke2.direction = stroke.direction

\* The strokes S2 are S, or S and one that is confirmed on T2.
StrictGrows(S, S2, T2) ==
    /\ Len(S2) \in {Len(S), Len(S) + 1}
    /\ \A k \in 1 .. Len(S) : SameStroke(S[k], S2[k])
    /\ Len(S2) = Len(S) + 1 => S2[Len(S2)].confirmed = T2

\* A turn with the same fractal, but for its tradable date, gives the same strokes.
LEMMA StrictTurnsAgree ==
  ASSUME NEW E, NEW T, Covers(E, T), NEW E2, Covers(E2, T + 1), Lengthens(E, E2),
         NEW i \in 1 .. Len(E) - 1, NEW found,
         StrictInv(E, T, i - 1, found), StrictInv(E2, T + 1, i - 1, found)
  PROVE  LET turn == StrictTurn(E, T, i, found)
             turn2 == StrictTurn(E2, T + 1, i, found)
         IN  /\ i < Len(E) - 1 => turn2 = turn
             /\ Len(turn2.strokes) = Len(turn.strokes)
             /\ \A k \in 1 .. Len(turn.strokes) : SameStroke(turn.strokes[k], turn2.strokes[k])
<1> DEFINE f == StrictFractal(E, i, T)
           f2 == StrictFractal(E2, i, T + 1)
           active == found.active
           strokes == found.strokes
           turn == StrictTurn(E, T, i, found)
           turn2 == StrictTurn(E2, T + 1, i, found)
           n == Len(strokes)
<1>1. IsFractal(E2, i) <=> IsFractal(E, i)
  BY FractalsStand
<1>2. /\ found \in StrictFoundType /\ strokes \in Seq(StrictStrokeType) /\ n \in Nat
      /\ active \in StrictFractalType \cup {NoActive}
  BY DEF StrictInv, StrictFoundType
<1>3. \A x : SameStroke(x, x)
  BY DEF SameStroke
<1>4. CASE ~IsFractal(E, i)
  BY <1>1, <1>3, <1>4 DEF StrictTurn
<1>5. CASE IsFractal(E, i)
  <2>1. i \in FractalIndices(E) /\ i \in FractalIndices(E2)
    BY <1>1, <1>5 DEF FractalIndices, IsFractal, IsTop, IsBottom, Covers
  <2>2. /\ f2.kind = f.kind /\ f2.price = f.price /\ f2.formed = f.formed
        /\ f2.confirmed = f.confirmed /\ f2.index = f.index
        /\ i < Len(E) - 1 => f2 = f
    BY <2>1, StrictFractalsStand
  <2>3. turn = ExtendStrict(found, f) /\ turn2 = ExtendStrict(found, f2)
    BY <1>1, <1>5 DEF StrictTurn
  <2> DEFINE s == StrictStroke(active.price, active.formed, f)
             s2 == StrictStroke(active.price, active.formed, f2)
             added == [active |-> f, strokes |-> Append(strokes, s)]
             added2 == [active |-> f2, strokes |-> Append(strokes, s2)]
  <2>4. /\ \/ turn = found
           \/ strokes = <<>> /\ turn = [found EXCEPT !.active = f]
           \/ active # NoActive /\ turn = added
        /\ strokes # <<>> => strokes[n].tradable # None
    BY <2>1, <2>3, StrictTurnCases
  <2>5. f \in StrictFractalType /\ f2 \in StrictFractalType
    BY <2>1, StrictFractalFacts
  <2>6. active # NoActive => s \in StrictStrokeType /\ s2 \in StrictStrokeType
    <3> SUFFICES ASSUME active # NoActive PROVE s \in StrictStrokeType /\ s2 \in StrictStrokeType
      OBVIOUS
    <3>1. active.price \in Int /\ active.formed \in Nat
      BY <1>2 DEF StrictFractalType
    <3> QED
      BY <2>5, <3>1, StrictStrokeTyped
  <2>7. SameStroke(s, s2)
    <3> HIDE DEF f, f2
    <3> QED
      BY <2>2 DEF SameStroke, StrictStroke
  <2> HIDE DEF f, f2, s, s2
  <2>8. CASE active = NoActive
    <3>1. turn = [found EXCEPT !.active = f] /\ turn2 = [found EXCEPT !.active = f2]
      BY <2>3, <2>8 DEF ExtendStrict
    <3>2. turn.strokes = strokes /\ turn2.strokes = strokes
      BY <1>2, <3>1 DEF StrictFoundType
    <3> QED
      BY <1>3, <2>2, <3>1, <3>2
  <2>9. CASE active # NoActive /\ f.kind = active.kind
    <3>1. turn = SameKindStrict(found, f) /\ turn2 = SameKindStrict(found, f2)
      BY <2>2, <2>3, <2>9 DEF ExtendStrict
    <3>2. turn.strokes = strokes /\ turn2.strokes = strokes
      <4>1. CASE strokes = <<>>
        <5>1. /\ turn \in {found, [found EXCEPT !.active = f]}
              /\ turn2 \in {found, [found EXCEPT !.active = f2]}
          BY <3>1, <4>1, SameKindCases
        <5> QED
          BY <1>2, <5>1 DEF StrictFoundType
      <4>2. CASE strokes # <<>>
        <5>1. turn = found /\ turn2 = found
          BY <2>4, <3>1, <4>2, SameKindCases
        <5> QED
          BY <5>1
      <4> QED
        BY <4>1, <4>2
    <3>3. i < Len(E) - 1 => turn2 = turn
      BY <2>2, <3>1
    <3> QED
      BY <1>3, <3>2, <3>3
  <2>10. CASE active # NoActive /\ f.kind # active.kind
    <3> DEFINE passed == \/ ~MoreExtreme(f.kind, f.price, active.price)
                         \/ f.index - active.index < StrictSeparation
    <3>1. /\ turn = IF passed THEN found ELSE added
          /\ turn2 = IF passed THEN found ELSE added2
      <4>1. /\ ExtendStrict(found, f) = IF passed THEN found ELSE added
        BY <2>10 DEF ExtendStrict, s
      <4>2. f2.kind # active.kind
        BY <2>2, <2>10
      <4>3. ExtendStrict(found, f2) =
              IF \/ ~MoreExtreme(f2.kind, f2.price, active.price)
                 \/ f2.index - active.index < StrictSeparation
              THEN found ELSE added2
        BY <2>10, <4>2 DEF ExtendStrict, s2
      <4>4. (\/ ~MoreExtreme(f2.kind, f2.price, active.price)
             \/ f2.index - active.index < StrictSeparation) <=> passed
        BY <2>2
      <4> QED
        BY <2>3, <4>1, <4>3, <4>4
    <3>2. CASE passed
      BY <1>3, <3>1, <3>2
    <3>3. CASE ~passed
      <4>1. turn.strokes = Append(strokes, s) /\ turn2.strokes = Append(strokes, s2)
        BY <3>1, <3>3
      <4>2. i < Len(E) - 1 => turn2 = turn
        BY <2>2, <3>1, <3>3 DEF s, s2
      <4> DEFINE A == Append(strokes, s)
                 B == Append(strokes, s2)
      <4> HIDE DEF strokes
      <4>3. /\ Len(A) = n + 1 /\ Len(B) = n + 1 /\ A[n + 1] = s /\ B[n + 1] = s2
            /\ \A k \in 1 .. n : A[k] = strokes[k] /\ B[k] = strokes[k]
        BY <1>2, <2>6, <2>10
      <4> HIDE DEF A, B
      <4>4. \A k \in 1 .. n + 1 : k = n + 1 \/ k \in 1 .. n
        BY <1>2
      <4>5. \A k \in 1 .. n + 1 : SameStroke(A[k], B[k])
        BY <1>3, <2>7, <4>3, <4>4
      <4> QED
        BY <4>1, <4>2, <4>3, <4>5 DEF A, B
    <3> QED
      BY <3>2, <3>3
  <2> QED
    BY <2>8, <2>9, <2>10
<1> QED
  BY <1>4, <1>5

\* The strokes of a prefix are those of the next one, which has at most one more.
LEMMA StrictStrokesStand ==
  ASSUME NEW E, NEW T, Covers(E, T), NEW E2, Covers(E2, T + 1), Lengthens(E, E2)
  PROVE  StrictGrows(StrictStrokes(E, T), StrictStrokes(E2, T + 1), T + 1)
<1> DEFINE n == Len(E)
           n2 == Len(E2)
           found == StrictFound(E, T)
           found2 == StrictFound(E2, T + 1)
           a == IF n >= 2 THEN n - 2 ELSE 0
           b == IF n >= 2 THEN n - 1 ELSE 0
           S == found[b].strokes
           S2 == found2[b].strokes
<1>1. /\ n \in Nat /\ n2 \in {n, n + 1} /\ T \in Nat /\ T + 1 \in Nat
      /\ a \in 0 .. n /\ a \in 0 .. n2 /\ a \in Nat
      /\ b \in 0 .. n /\ b \in 0 .. n2 /\ b \in Nat
      /\ n >= 2 => a = n - 2 /\ b = n - 1
      /\ n < 2 => a = 0 /\ b = 0
  BY DEF Covers, Lengthens
<1>2. /\ \A i \in 1 .. n : found[i] = StrictTurn(E, T, i, found[i - 1])
      /\ \A i \in 1 .. n2 : found2[i] = StrictTurn(E2, T + 1, i, found2[i - 1])
      /\ found2[0] = found[0]
  BY StrictTurns
<1>3. /\ \A i \in 0 .. n : StrictInv(E, T, i, found[i])
      /\ \A i \in 0 .. n2 : StrictInv(E2, T + 1, i, found2[i])
  BY StrictInvariant
<1>4. \A x : SameStroke(x, x)
  BY DEF SameStroke
<1> HIDE DEF found, found2, a, b
<1>5. found2[a] = found[a]
  <2> DEFINE P == {i \in 0 .. a : found2[i] = found[i]}
  <2>1. P \in SUBSET (0 .. a) /\ 0 \in P
    BY <1>1, <1>2
  <2>2. ASSUME NEW i \in P, i < a PROVE i + 1 \in P
    <3>1. /\ i + 1 \in 1 .. n - 1 /\ i + 1 \in 1 .. n /\ i + 1 \in 1 .. n2 /\ (i + 1) - 1 = i
          /\ i + 1 \in 0 .. a /\ i + 1 < n - 1 /\ i \in 0 .. n /\ i \in 0 .. n2
      BY <1>1, <2>2
    <3>2. /\ found[i + 1] = StrictTurn(E, T, i + 1, found[i])
          /\ found2[i + 1] = StrictTurn(E2, T + 1, i + 1, found[i])
      BY <1>2, <3>1
    <3>3. StrictInv(E, T, (i + 1) - 1, found[i]) /\ StrictInv(E2, T + 1, (i + 1) - 1, found[i])
      BY <1>3, <3>1
    <3>4. found2[i + 1] = found[i + 1]
      BY <3>1, <3>2, <3>3, StrictTurnsAgree
    <3> QED
      BY <3>1, <3>4
  <2>3. P = 0 .. a
    <3> HIDE DEF P
    <3> QED
      BY <1>1, <2>1, <2>2, BoundedInduction
  <2> QED
    BY <1>1, <2>3
<1>6. Len(S2) = Len(S) /\ \A k \in 1 .. Len(S) : SameStroke(S[k], S2[k])
  <2>1. CASE n < 2
    BY <1>1, <1>4, <1>5, <2>1
  <2>2. CASE n >= 2
    <3>1. /\ b \in 1 .. n - 1 /\ b \in 1 .. n /\ b \in 1 .. n2 /\ b - 1 = a
          /\ a \in 0 .. n /\ a \in 0 .. n2
      BY <1>1, <2>2
    <3>2. /\ found[b] = StrictTurn(E, T, b, found[a])
          /\ found2[b] = StrictTurn(E2, T + 1, b, found[a])
      BY <1>2, <1>5, <3>1
    <3>3. StrictInv(E, T, b - 1, found[a]) /\ StrictInv(E2, T + 1, b - 1, found[a])
      BY <1>3, <1>5, <3>1
    <3> DEFINE g == found[a]
               turn == StrictTurn(E, T, b, g)
               turn2 == StrictTurn(E2, T + 1, b, g)
    <3> HIDE DEF g
    <3>4. /\ Len(turn2.strokes) = Len(turn.strokes)
          /\ \A k \in 1 .. Len(turn.strokes) : SameStroke(turn.strokes[k], turn2.strokes[k])
      <4>1. StrictInv(E, T, b - 1, g) /\ StrictInv(E2, T + 1, b - 1, g)
        BY <3>3 DEF g
      <4> QED
        BY <3>1, <4>1, StrictTurnsAgree
    <3>5. S = turn.strokes /\ S2 = turn2.strokes
      BY <3>2 DEF g
    <3> HIDE DEF S, S2, turn, turn2
    <3> QED
      BY <3>4, <3>5
  <2> QED
    BY <1>1, <2>1, <2>2
<1>7. \A i \in FractalIndices(E) : i \in 2 .. n - 1
  BY FractalFacts
<1>8. \A i \in FractalIndices(E2) : i \in 2 .. n2 - 1
  BY <1>1, FractalFacts
<1>9. \A i : /\ IsFractal(E, i) <=> i \in FractalIndices(E)
             /\ IsFractal(E2, i) <=> i \in FractalIndices(E2)
  BY DEF FractalIndices, IsFractal, IsTop, IsBottom, Covers
<1>10. found[n] = found[b]
  <2>1. CASE n = 0
    BY <1>1, <2>1
  <2>2. CASE n > 0
    <3>1. n \in 1 .. n /\ ~IsFractal(E, n) /\ n - 1 = b
      BY <1>1, <1>7, <1>9, <2>2
    <3> QED
      BY <1>2, <3>1 DEF StrictTurn
  <2> QED
    BY <1>1, <2>1, <2>2
<1>11. StrictStrokes(E, T) = S
  BY <1>10 DEF StrictStrokes, found
<1>12. StrictInv(E2, T + 1, b, found2[b])
  BY <1>1, <1>3
<1> DEFINE S3 == found2[n].strokes
<1>13. /\ Len(S3) \in {Len(S2), Len(S2) + 1}
       /\ \A k \in 1 .. Len(S2) : S3[k] = S2[k]
       /\ Len(S3) = Len(S2) + 1 => S3[Len(S3)].confirmed = T + 1
  <2>1. Len(S2) \in Nat /\ S2 \in Seq(StrictStrokeType)
    <3>1. S2 \in Seq(StrictStrokeType)
      BY <1>12 DEF StrictInv, StrictFoundType
    <3> HIDE DEF S2
    <3> QED
      BY <3>1
  <2>2. CASE ~IsFractal(E2, n) \/ n = 0
    <3>1. found2[n] = found2[b]
      <4>1. CASE n = 0
        BY <1>1, <4>1
      <4>2. CASE n > 0
        <5>1. n \in 1 .. n2 /\ ~IsFractal(E2, n) /\ n - 1 = b
          BY <1>1, <2>2, <4>2
        <5> QED
          BY <1>2, <5>1 DEF StrictTurn
      <4> QED
        BY <1>1, <4>1, <4>2
    <3>2. S3 = S2
      BY <3>1
    <3> HIDE DEF S2, S3
    <3>3. Len(S3) # Len(S2) + 1
      BY <2>1, <3>2
    <3> QED
      BY <3>2, <3>3
  <2>3. CASE IsFractal(E2, n) /\ n # 0
    <3>1. n \in 1 .. n2 /\ n - 1 = b /\ n \in FractalIndices(E2) /\ n \notin FractalIndices(E)
      BY <1>1, <1>7, <1>8, <1>9, <2>3
    <3> DEFINE f == StrictFractal(E2, n, T + 1)
               g == found2[b]
               stroke == StrictStroke(g.active.price, g.active.formed, f)
    <3>2. f.confirmed = T + 1
      BY <3>1, StrictFractalsStand
    <3>3. found2[n] = ExtendStrict(g, f)
      BY <1>2, <2>3, <3>1 DEF StrictTurn
    <3>4. /\ g.active # NoActive => g.active \in StrictFractalType
          /\ \/ found2[n] = g
             \/ g.strokes = <<>> /\ found2[n] = [g EXCEPT !.active = f]
             \/ /\ g.active # NoActive
                /\ found2[n] = [active |-> f, strokes |-> Append(g.strokes, stroke)]
      <4>1. StrictInv(E2, T + 1, n - 1, g)
        BY <1>12, <3>1
      <4> HIDE DEF g
      <4>2. /\ g.active # NoActive => g.active \in StrictFractalType
            /\ \/ ExtendStrict(g, f) = g
               \/ g.strokes = <<>> /\ ExtendStrict(g, f) = [g EXCEPT !.active = f]
               \/ /\ g.active # NoActive
                  /\ ExtendStrict(g, f) = [active |-> f, strokes |-> Append(g.strokes, stroke)]
        BY <3>1, <4>1, StrictTurnCases
      <4> QED
        BY <3>3, <4>2
    <3>5. f \in StrictFractalType
      BY <3>1, StrictFractalFacts
    <3>6. g \in StrictFoundType
      BY <1>12 DEF StrictInv
    <3>7. CASE found2[n] = g \/ found2[n] = [g EXCEPT !.active = f]
      <4>1. S3 = S2
        BY <3>6, <3>7 DEF StrictFoundType
      <4> HIDE DEF S2, S3
      <4>2. Len(S3) # Len(S2) + 1
        BY <2>1, <4>1
      <4> QED
        BY <4>1, <4>2
    <3>8. CASE /\ g.active # NoActive
               /\ found2[n] = [active |-> f, strokes |-> Append(g.strokes, stroke)]
      <4>1. g.active.price \in Int /\ g.active.formed \in Nat
        BY <3>4, <3>8 DEF StrictFractalType
      <4>2. stroke \in StrictStrokeType /\ stroke.confirmed = T + 1
        <5>1. stroke.confirmed = f.confirmed
          BY DEF StrictStroke
        <5> QED
          BY <3>2, <3>5, <4>1, <5>1, StrictStrokeTyped
      <4>3. S3 = Append(S2, stroke)
        <5> HIDE DEF f, stroke
        <5> QED
          BY <3>8
      <4> HIDE DEF stroke, S2, S3
      <4>4. /\ Len(S3) = Len(S2) + 1 /\ S3[Len(S2) + 1] = stroke
            /\ \A k \in 1 .. Len(S2) : S3[k] = S2[k]
        BY <2>1, <4>2, <4>3
      <4> QED
        BY <4>2, <4>4
    <3> QED
      BY <3>4, <3>7, <3>8
  <2> QED
    BY <2>2, <2>3
<1>14. found2[n2] = found2[n]
  <2>1. CASE n2 = n
    BY <2>1
  <2>2. CASE n2 = n + 1
    <3>1. n2 \in 1 .. n2 /\ ~IsFractal(E2, n2) /\ n2 - 1 = n
      BY <1>1, <1>8, <1>9, <2>2
    <3> QED
      BY <1>2, <3>1 DEF StrictTurn
  <2> QED
    BY <1>1, <2>1, <2>2
<1>15. StrictStrokes(E2, T + 1) = S3
  BY <1>14 DEF StrictStrokes, found2
<1>16. Len(S) \in Nat
  <2>1. StrictInv(E, T, b, found[b])
    BY <1>1, <1>3
  <2>2. S \in Seq(StrictStrokeType)
    BY <2>1 DEF StrictInv, StrictFoundType
  <2> HIDE DEF S
  <2> QED
    BY <2>2
<1> HIDE DEF S, S2, S3
<1>17. StrictGrows(S, S3, T + 1)
  <2>1. \A k \in 1 .. Len(S) : SameStroke(S[k], S3[k])
    BY <1>6, <1>13
  <2> QED
    BY <1>6, <1>13, <2>1 DEF StrictGrows
<1> QED
  BY <1>11, <1>15, <1>17

-----------------------------------------------------------------------------
(* The central areas of strict-v1 *)

\* Strokes have ranges and dates.
LEMMA StrictHasRanges ==
  ASSUME NEW strokes, NEW T, StrictOk(strokes, T)
  PROVE  /\ HasRanges(strokes) /\ DOMAIN strokes = 1 .. Len(strokes) /\ Len(strokes) \in Nat
         /\ \A k \in 1 .. Len(strokes) :
               /\ strokes[k] \in StrictStrokeType
               /\ strokes[k].formed \in Nat /\ strokes[k].confirmed \in Nat
               /\ strokes[k].low \in Int /\ strokes[k].high \in Int
               /\ 0 < strokes[k].formed /\ strokes[k].formed < strokes[k].confirmed
               /\ strokes[k].confirmed <= T
               /\ strokes[k].tradable = TradeDateAfter(strokes[k].confirmed, T)
<1>1. strokes \in Seq(StrictStrokeType)
  BY DEF StrictOk
<1>2. Len(strokes) \in Nat /\ DOMAIN strokes = 1 .. Len(strokes)
  BY <1>1
<1>3. \A k \in 1 .. Len(strokes) : strokes[k] \in StrictStrokeType
  BY <1>1
<1>4. \A k \in 1 .. Len(strokes) :
         /\ strokes[k].low \in Int /\ strokes[k].high \in Int
         /\ strokes[k].formed \in Nat /\ strokes[k].confirmed \in Nat
  BY <1>3 DEF StrictStrokeType
<1>5. \A k \in 1 .. Len(strokes) : StrictStrokeOk(strokes[k], T)
  BY <1>2 DEF StrictOk
<1> QED
  BY <1>2, <1>3, <1>4, <1>5 DEF HasRanges, StrictStrokeOk

\* A later stroke is formed and confirmed later.
LEMMA StrictStrokesGrow ==
  ASSUME NEW strokes, NEW T, StrictOk(strokes, T),
         NEW k \in 1 .. Len(strokes), NEW l \in 1 .. Len(strokes), k <= l
  PROVE  /\ strokes[k].formed <= strokes[l].formed
         /\ strokes[k].confirmed <= strokes[l].confirmed
         /\ k < l => strokes[k].formed < strokes[l].formed
<1>1. /\ DOMAIN strokes = 1 .. Len(strokes) /\ Len(strokes) \in Nat
      /\ strokes[k].formed \in Nat /\ strokes[k].confirmed \in Nat
      /\ strokes[l].formed \in Nat /\ strokes[l].confirmed \in Nat
  BY StrictHasRanges
<1>2. k < l => /\ strokes[k].formed < strokes[l].formed
               /\ strokes[k].confirmed < strokes[l].confirmed
  BY <1>1 DEF StrictOk
<1>3. k < l \/ k = l
  BY <1>1
<1> QED
  BY <1>1, <1>2, <1>3

SameArea(area, area2) ==
    /\ area2.low = area.low /\ area2.high = area.high
    /\ area2.formed = area.formed /\ area2.confirmed = area.confirmed

\* An area is dated by its strokes.
LEMMA StrictAreaFacts ==
  ASSUME NEW strokes, NEW T \in Nat, StrictOk(strokes, T),
         NEW s \in 1 .. Len(strokes) - CentralStrokes + 1
  PROVE  LET area == StrictAreaFrom(strokes, s)
         IN  /\ area.low \in Int /\ area.high \in Int
             /\ area.formed \in Nat /\ area.confirmed \in Nat
             /\ area.formed = strokes[s + 2].formed /\ area.formed < area.confirmed
             /\ area.confirmed = strokes[s + CentralStrokes - 1].confirmed
             /\ area.confirmed <= T /\ area.tradable = TradeDateAfter(area.confirmed, T)
<1> DEFINE n == Len(strokes)
           C == CentralStrokes
           e == s + C - 1
           m == s + 2
<1>1. /\ HasRanges(strokes) /\ n \in Nat
      /\ \A k \in 1 .. n : /\ strokes[k].formed \in Nat /\ strokes[k].confirmed \in Nat
                           /\ strokes[k].formed < strokes[k].confirmed
                           /\ strokes[k].confirmed <= T
                           /\ strokes[k].tradable = TradeDateAfter(strokes[k].confirmed, T)
  BY StrictHasRanges
<1>2. /\ s \in 1 .. n /\ e \in s .. n /\ e \in 1 .. n /\ m \in 1 .. n /\ m <= e
  BY <1>1, StrictProfileType
<1>3. StrictAreaFrom(strokes, s) =
        [low |-> SharedLow(strokes, s, e), high |-> SharedHigh(strokes, s, e),
         formed |-> strokes[m].formed, confirmed |-> strokes[e].confirmed,
         tradable |-> strokes[e].tradable]
  BY DEF StrictAreaFrom, CommonLow, CommonHigh, SharedLow, SharedHigh
<1> HIDE DEF e, m
<1>4. SharedLow(strokes, s, e) \in Int /\ SharedHigh(strokes, s, e) \in Int
  BY <1>1, <1>2, SharedRange
<1>5. strokes[m].formed <= strokes[e].formed
  BY <1>2, StrictStrokesGrow
<1>6. /\ strokes[m].formed \in Nat /\ strokes[e].formed \in Nat /\ strokes[e].confirmed \in Nat
      /\ strokes[e].formed < strokes[e].confirmed /\ strokes[e].confirmed <= T
      /\ strokes[e].tradable = TradeDateAfter(strokes[e].confirmed, T)
  BY <1>1, <1>2
<1>7. strokes[m].formed < strokes[e].confirmed
  BY <1>5, <1>6
<1>8. /\ StrictAreaFrom(strokes, s).low = SharedLow(strokes, s, e)
      /\ StrictAreaFrom(strokes, s).high = SharedHigh(strokes, s, e)
      /\ StrictAreaFrom(strokes, s).formed = strokes[m].formed
      /\ StrictAreaFrom(strokes, s).confirmed = strokes[e].confirmed
      /\ StrictAreaFrom(strokes, s).tradable = strokes[e].tradable
  BY <1>3
<1> QED
  BY <1>4, <1>6, <1>7, <1>8 DEF e, m

\* The same strokes, but for their tradable dates, have the same area.
LEMMA SameAreaFrom ==
  ASSUME NEW S, NEW S2, NEW s \in Nat,
         \A k \in s .. s + CentralStrokes - 1 : SameStroke(S[k], S2[k])
  PROVE  SameArea(StrictAreaFrom(S, s), StrictAreaFrom(S2, s))
<1> DEFINE e == s + CentralStrokes - 1
           m == s + 2
<1>1. m \in s .. e /\ e \in s .. e
  BY StrictProfileType
<1>2. \A k \in s .. e : /\ S2[k].low = S[k].low /\ S2[k].high = S[k].high
                        /\ S2[k].formed = S[k].formed /\ S2[k].confirmed = S[k].confirmed
  BY DEF SameStroke
<1>3. /\ {S2[i].low : i \in s .. e} = {S[i].low : i \in s .. e}
      /\ {S2[i].high : i \in s .. e} = {S[i].high : i \in s .. e}
  BY <1>2
<1>4. CommonLow(S2, s, e) = CommonLow(S, s, e) /\ CommonHigh(S2, s, e) = CommonHigh(S, s, e)
  BY <1>3 DEF CommonLow, CommonHigh
<1>5. /\ StrictAreaFrom(S, s) =
           [low |-> CommonLow(S, s, e), high |-> CommonHigh(S, s, e),
            formed |-> S[m].formed, confirmed |-> S[e].confirmed, tradable |-> S[e].tradable]
      /\ StrictAreaFrom(S2, s) =
           [low |-> CommonLow(S2, s, e), high |-> CommonHigh(S2, s, e),
            formed |-> S2[m].formed, confirmed |-> S2[e].confirmed, tradable |-> S2[e].tradable]
  BY DEF StrictAreaFrom
<1> HIDE DEF e, m
<1> QED
  BY <1>1, <1>2, <1>4, <1>5 DEF SameArea

\* The first stroke behind an area, or where one may come.
LEMMA StrictEndFacts ==
  ASSUME NEW strokes, NEW T \in Nat, StrictOk(strokes, T),
         NEW s \in 1 .. Len(strokes) - CentralStrokes + 1
  PROVE  LET end == StrictEnd(strokes, s)
             area == StrictAreaFrom(strokes, s)
         IN  /\ end \in s + CentralStrokes .. Len(strokes) + 1 /\ end \in Nat
             /\ end <= Len(strokes) => Leaves(strokes[end], area)
             /\ \A e \in s + CentralStrokes .. Len(strokes) : Leaves(strokes[e], area) => end <= e
<1> DEFINE n == Len(strokes)
           area == StrictAreaFrom(strokes, s)
           C == CentralStrokes
           behind == {e \in s + C .. n : Leaves(strokes[e], area)}
           end == StrictEnd(strokes, s)
<1>1. n \in Nat /\ C \in Nat /\ s \in Nat /\ s + C <= n + 1 /\ s + C \in Nat
  BY StrictHasRanges, StrictProfileType
<1>2. end = IF behind = {} THEN n + 1 ELSE Min(behind)
  BY DEF StrictEnd
<1>3. CASE behind = {}
  <2>1. end = n + 1
    BY <1>2, <1>3
  <2>2. \A e \in s + C .. n : ~Leaves(strokes[e], area)
    BY <1>3
  <2> HIDE DEF end, area, behind
  <2>3. /\ end \in s + C .. n + 1 /\ end \in Nat
        /\ end <= n => Leaves(strokes[end], area)
        /\ \A e \in s + C .. n : Leaves(strokes[e], area) => end <= e
    BY <1>1, <2>1, <2>2
  <2> QED
    BY <2>3 DEF end, area
<1>4. CASE behind # {}
  <2>1. behind \in SUBSET Int /\ IsFiniteSet(behind)
    <3>1. behind \subseteq s + C .. n
      OBVIOUS
    <3>2. IsFiniteSet(s + C .. n)
      BY <1>1, FS_Interval
    <3>3. IsFiniteSet(behind)
      BY <3>1, <3>2, FS_Subset
    <3> QED
      BY <1>1, <3>1, <3>3
  <2>2. end \in behind /\ \A y \in behind : end <= y
    <3>1. Min(behind) \in behind /\ \A y \in behind : Min(behind) <= y
      <4> HIDE DEF behind
      <4> QED
        BY <1>4, <2>1, ExtremesOfSet
    <3> QED
      BY <1>2, <1>4, <3>1
  <2> HIDE DEF end, area
  <2>3. /\ end \in s + C .. n + 1 /\ end \in Nat
        /\ Leaves(strokes[end], area)
        /\ \A e \in s + C .. n : Leaves(strokes[e], area) => end <= e
    BY <1>1, <2>2
  <2> QED
    BY <2>3 DEF end, area
<1> QED
  BY <1>3, <1>4

OverlapsFrom(strokes, s) == StrictAreaFrom(strokes, s).low <= StrictAreaFrom(strokes, s).high

\* Where the search for areas goes on.
StrictNext(strokes) ==
    [s \in 1 .. Len(strokes) - CentralStrokes + 1 |->
       IF OverlapsFrom(strokes, s) THEN StrictEnd(strokes, s) ELSE s + 1]

\* The search for areas goes on with each turn.
LEMMA StrictNextMoves ==
  ASSUME NEW strokes, NEW T \in Nat, StrictOk(strokes, T)
  PROVE  LET L == Len(strokes) - CentralStrokes + 1
         IN  /\ L \in Int
             /\ StrictNext(strokes) \in [1 .. L -> Nat]
             /\ \A s \in 1 .. L : StrictNext(strokes)[s] > s
             /\ StrictStarts(strokes) \subseteq 1 .. L
             /\ \A s \in StrictStarts(strokes) :
                   s \in Visited(L, StrictNext(strokes)) /\ OverlapsFrom(strokes, s)
             /\ \A s \in Visited(L, StrictNext(strokes)) :
                   OverlapsFrom(strokes, s) => s \in StrictStarts(strokes)
<1> DEFINE next == StrictNext(strokes)
           L == Len(strokes) - CentralStrokes + 1
<1>1. L \in Int /\ CentralStrokes \in Nat /\ CentralStrokes >= 3
  BY StrictHasRanges, StrictProfileType
<1>2. \A s \in 1 .. L : next[s] \in Nat /\ next[s] > s
  <2> SUFFICES ASSUME NEW s \in 1 .. L PROVE next[s] \in Nat /\ next[s] > s
    OBVIOUS
  <2>1. next[s] = IF OverlapsFrom(strokes, s) THEN StrictEnd(strokes, s) ELSE s + 1
    BY DEF StrictNext
  <2>2. StrictEnd(strokes, s) \in s + CentralStrokes .. Len(strokes) + 1
        /\ StrictEnd(strokes, s) \in Nat
    BY StrictEndFacts
  <2> QED
    BY <1>1, <2>1, <2>2
<1>3. next \in [1 .. L -> Nat]
  BY <1>2 DEF StrictNext
<1>4. Visited(L, next) \subseteq 1 .. L
  <2> HIDE DEF next, L
  <2> QED
    BY <1>1, <1>2, <1>3, VisitedStarts
<1>5. StrictStarts(strokes) = {s \in Visited(L, next) : OverlapsFrom(strokes, s)}
  BY DEF StrictStarts, StrictNext, OverlapsFrom
<1> QED
  BY <1>1, <1>2, <1>3, <1>4, <1>5

\* Areas are told apart by the date on which they formed.
LEMMA StrictAreasApart ==
  ASSUME NEW strokes, NEW T \in Nat, StrictOk(strokes, T),
         NEW s \in StrictStarts(strokes), NEW t \in StrictStarts(strokes),
         StrictAreaFrom(strokes, s).formed = StrictAreaFrom(strokes, t).formed
  PROVE  s = t
<1> DEFINE k == s + 2
           l == t + 2
           L == Len(strokes) - CentralStrokes + 1
<1>1. s \in 1 .. L /\ t \in 1 .. L
  BY StrictNextMoves
<1>2. strokes[k].formed = strokes[l].formed
  BY <1>1, StrictAreaFacts
<1>3. k \in 1 .. Len(strokes) /\ l \in 1 .. Len(strokes) /\ k \in Nat /\ l \in Nat
  BY <1>1, StrictHasRanges, StrictProfileType
<1>4. k = l
  <2> HIDE DEF k, l
  <2>1. strokes[k].formed \in Nat /\ strokes[l].formed \in Nat
    BY <1>3, StrictHasRanges
  <2>2. k <= l => ~(k < l)
    BY <1>2, <1>3, <2>1, StrictStrokesGrow
  <2>3. l <= k => ~(l < k)
    BY <1>2, <1>3, <2>1, StrictStrokesGrow
  <2> QED
    BY <1>3, <2>2, <2>3
<1> QED
  BY <1>1, <1>4

\* An area stays; a new one is confirmed with the new bar.
LEMMA StrictAreasStand ==
  ASSUME NEW S, NEW T \in Nat, StrictOk(S, T), NEW S2, StrictOk(S2, T + 1),
         StrictGrows(S, S2, T + 1)
  PROVE  /\ \A s \in StrictStarts(S) :
               s \in StrictStarts(S2) /\ SameArea(StrictAreaFrom(S, s), StrictAreaFrom(S2, s))
         /\ \A s \in StrictStarts(S2) :
               \/ s \in StrictStarts(S)
               \/ StrictAreaFrom(S2, s).confirmed = T + 1
<1> DEFINE n == Len(S)
           n2 == Len(S2)
           C == CentralStrokes
           L == n - C + 1
           L2 == n2 - C + 1
           next == StrictNext(S)
           next2 == StrictNext(S2)
           end(s) == StrictEnd(S, s)
           end2(s) == StrictEnd(S2, s)
<1>1. /\ n \in Nat /\ n2 \in {n, n + 1} /\ C \in Nat /\ C >= 3 /\ T + 1 \in Nat
      /\ \A k \in 1 .. n : SameStroke(S[k], S2[k])
      /\ n2 = n + 1 => S2[n2].confirmed = T + 1
  BY StrictHasRanges, StrictProfileType DEF StrictGrows
<1>2. /\ L \in Int /\ next \in [1 .. L -> Nat] /\ \A s \in 1 .. L : next[s] > s
      /\ StrictStarts(S) \subseteq 1 .. L
      /\ \A s \in StrictStarts(S) : s \in Visited(L, next) /\ OverlapsFrom(S, s)
      /\ \A s \in Visited(L, next) : OverlapsFrom(S, s) => s \in StrictStarts(S)
  BY StrictNextMoves
<1>3. /\ L2 \in Int /\ next2 \in [1 .. L2 -> Nat] /\ \A s \in 1 .. L2 : next2[s] > s
      /\ StrictStarts(S2) \subseteq 1 .. L2
      /\ \A s \in StrictStarts(S2) : s \in Visited(L2, next2) /\ OverlapsFrom(S2, s)
      /\ \A s \in Visited(L2, next2) : OverlapsFrom(S2, s) => s \in StrictStarts(S2)
  BY <1>1, StrictNextMoves
<1>4. L <= L2 /\ \A s \in 1 .. L : s \in 1 .. L2
  BY <1>1
<1>5. \A s \in 1 .. L : SameArea(StrictAreaFrom(S, s), StrictAreaFrom(S2, s))
  <2> SUFFICES ASSUME NEW s \in 1 .. L
               PROVE  SameArea(StrictAreaFrom(S, s), StrictAreaFrom(S2, s))
    OBVIOUS
  <2>1. s \in Nat /\ \A k \in s .. s + C - 1 : SameStroke(S[k], S2[k])
    BY <1>1
  <2> QED
    BY <2>1, SameAreaFrom
<1>6. \A s \in 1 .. L : OverlapsFrom(S2, s) <=> OverlapsFrom(S, s)
  BY <1>5 DEF SameArea, OverlapsFrom
<1>7. \A s \in 1 .. L : end2(s) = end(s) \/ (end(s) > L /\ end2(s) > L)
  <2> SUFFICES ASSUME NEW s \in 1 .. L
               PROVE  end2(s) = end(s) \/ (end(s) > L /\ end2(s) > L)
    OBVIOUS
  <2> DEFINE a == StrictAreaFrom(S, s)
             a2 == StrictAreaFrom(S2, s)
             x == end(s)
             x2 == end2(s)
  <2>1. /\ x \in s + C .. n + 1 /\ x \in Nat
        /\ x <= n => Leaves(S[x], a)
        /\ \A e \in s + C .. n : Leaves(S[e], a) => x <= e
    BY StrictEndFacts
  <2>2. /\ x2 \in s + C .. n2 + 1 /\ x2 \in Nat
        /\ x2 <= n2 => Leaves(S2[x2], a2)
        /\ \A e \in s + C .. n2 : Leaves(S2[e], a2) => x2 <= e
    BY <1>1, <1>4, StrictEndFacts
  <2>3. \A e \in 1 .. n : Leaves(S2[e], a2) <=> Leaves(S[e], a)
    BY <1>1, <1>5 DEF SameStroke, SameArea, Leaves
  <2> HIDE DEF x, x2, a, a2
  <2>4. CASE x <= n
    <3>1. x \in 1 .. n /\ x \in s + C .. n2
      BY <1>1, <2>1, <2>4
    <3>2. x2 <= x
      BY <2>1, <2>2, <2>3, <2>4, <3>1
    <3>3. x2 \in 1 .. n /\ x2 \in s + C .. n /\ x2 <= n2
      BY <1>1, <2>1, <2>2, <2>4, <3>2
    <3>4. x <= x2
      BY <2>1, <2>2, <2>3, <3>3
    <3>5. x = x2
      BY <2>1, <2>2, <3>2, <3>4
    <3> QED
      BY <3>5 DEF x, x2
  <2>5. CASE x = n + 1
    <3>1. ~(x2 <= n)
      <4> SUFFICES ASSUME x2 <= n PROVE FALSE
        OBVIOUS
      <4>1. x2 \in 1 .. n /\ x2 \in s + C .. n /\ x2 <= n2
        BY <1>1, <2>2
      <4>2. x <= x2
        BY <2>1, <2>2, <2>3, <4>1
      <4> QED
        BY <1>1, <2>2, <2>5, <4>2
    <3>2. x > L /\ x2 > L
      BY <1>1, <2>2, <2>5, <3>1
    <3> QED
      BY <3>2 DEF x, x2
  <2>6. x <= n \/ x = n + 1
    BY <1>1, <2>1
  <2> QED
    BY <2>4, <2>5, <2>6
<1>8. \A s \in 1 .. L : next2[s] = next[s] \/ (next[s] > L /\ next2[s] > L)
  <2> SUFFICES ASSUME NEW s \in 1 .. L
               PROVE  next2[s] = next[s] \/ (next[s] > L /\ next2[s] > L)
    OBVIOUS
  <2>1. /\ next[s] = IF OverlapsFrom(S, s) THEN end(s) ELSE s + 1
        /\ next2[s] = IF OverlapsFrom(S2, s) THEN end2(s) ELSE s + 1
    BY <1>4 DEF StrictNext
  <2> QED
    BY <1>6, <1>7, <2>1
<1>9. \A s \in 1 .. L : s \in Visited(L, next) <=> s \in Visited(L2, next2)
  <2> HIDE DEF L, L2, next, next2
  <2> QED
    BY <1>2, <1>3, <1>4, <1>8, SearchesAgree
<1>10. ASSUME NEW s \in StrictStarts(S)
       PROVE  s \in StrictStarts(S2) /\ SameArea(StrictAreaFrom(S, s), StrictAreaFrom(S2, s))
  <2>1. s \in 1 .. L /\ s \in Visited(L, next) /\ OverlapsFrom(S, s)
    BY <1>2
  <2>2. s \in Visited(L2, next2) /\ OverlapsFrom(S2, s)
    BY <1>6, <1>9, <2>1
  <2> QED
    BY <1>3, <1>5, <2>1, <2>2
<1>11. ASSUME NEW s \in StrictStarts(S2), s \notin StrictStarts(S)
       PROVE  StrictAreaFrom(S2, s).confirmed = T + 1
  <2>1. s \in 1 .. L2 /\ s \in Visited(L2, next2) /\ OverlapsFrom(S2, s)
    BY <1>3
  <2>2. s \notin 1 .. L
    BY <1>2, <1>6, <1>9, <1>11, <2>1
  <2>3. n2 = n + 1 /\ s + C - 1 = n2
    BY <1>1, <2>1, <2>2
  <2>4. StrictAreaFrom(S2, s).confirmed = S2[s + C - 1].confirmed
    BY DEF StrictAreaFrom
  <2> QED
    BY <1>1, <2>3, <2>4
<1> QED
  BY <1>10, <1>11

-----------------------------------------------------------------------------
(* The events of strict-v1 *)

\* What is confirmed was formed earlier and is tradable on the next date.
Dated(e, T) ==
    IF e.status = "confirmed"
    THEN /\ e.formed < e.confirmed /\ e.confirmed \in Nat /\ e.confirmed <= T
         /\ e.tradable = TradeDateAfter(e.confirmed, T)
    ELSE e.tradable = None

\* The same event, but for the date on which it may be traded on.
SameEvent(e, e2) ==
    /\ EventId(e2) = EventId(e) /\ e2.status = e.status /\ e2.confirmed = e.confirmed
    /\ [e2 EXCEPT !.tradable = e.tradable] = e

\* Dated events of one family that are formed on different dates.
LEMMA DatedSound ==
  ASSUME NEW I, IsFiniteSet(I), NEW event, NEW X, X = {event[k] : k \in I},
         NEW T \in Nat, \A e \in X : Dated(e, T),
         \A k, l \in I : event[k].formed = event[l].formed => k = l
  PROVE  Sound(X)
<1>1. IsFiniteSet(X)
  BY FiniteImage
<1>2. ASSUME NEW e \in X, NEW f \in X, EventId(e) = EventId(f) PROVE e = f
  <2>1. PICK k \in I : e = event[k]
    OBVIOUS
  <2>2. PICK l \in I : f = event[l]
    OBVIOUS
  <2>3. e.formed = f.formed
    BY <1>2 DEF EventId
  <2> QED
    BY <2>1, <2>2, <2>3
<1>3. ASSUME NEW e \in X, e.tradable # None
      PROVE  e.status = "confirmed" /\ e.formed < e.confirmed /\ e.confirmed = e.tradable - 1
  BY <1>3 DEF Dated, TradeDateAfter
<1> QED
  BY <1>1, <1>2, <1>3 DEF Sound

\* Dated events that are found again, but for their tradable dates.
LEMMA DatedFollows ==
  ASSUME NEW T \in Nat, NEW X, NEW X2,
         \A e \in X : Dated(e, T), \A e2 \in X2 : Dated(e2, T + 1),
         \A e \in X : e.status = "confirmed" => \E e2 \in X2 : SameEvent(e, e2),
         \A e2 \in X2 : e2.status = "confirmed" /\ e2.confirmed # T + 1 =>
            \E e \in X : SameEvent(e, e2)
  PROVE  ComesAfter("strict-v1", X, X2, T + 1)
<1>1. ASSUME NEW e \in X, e.status = "confirmed" PROVE Remains("strict-v1", e, X2, T + 1)
  <2>1. PICK e2 \in X2 : SameEvent(e, e2)
    BY <1>1
  <2>2. e.confirmed \in Nat /\ e.confirmed <= T /\ e2.status = "confirmed"
        /\ e2.confirmed = e.confirmed
        /\ e.tradable = TradeDateAfter(e.confirmed, T)
        /\ e2.tradable = TradeDateAfter(e.confirmed, T + 1)
    BY <1>1, <2>1 DEF SameEvent, Dated
  <2>3. e2.tradable # e.tradable => e.tradable = None /\ e2.tradable = T + 1
    BY <2>2 DEF TradeDateAfter
  <2> QED
    BY <2>1, <2>2, <2>3 DEF Remains, OnlyBecomesTradable, SameEvent
<1>2. ASSUME NEW e2 \in X2, e2.tradable \notin {None, T + 1} PROVE WasTradable(e2, X)
  <2>1. /\ e2.status = "confirmed" /\ e2.confirmed \in Nat
        /\ e2.tradable = TradeDateAfter(e2.confirmed, T + 1)
    BY <1>2 DEF Dated
  <2>2. e2.confirmed < T /\ e2.tradable = e2.confirmed + 1
    BY <1>2, <2>1 DEF TradeDateAfter
  <2>3. PICK e \in X : SameEvent(e, e2)
    BY <2>1, <2>2
  <2>4. /\ EventId(e) = EventId(e2) /\ e.status = "confirmed" /\ e.confirmed = e2.confirmed
    BY <2>1, <2>3 DEF SameEvent
  <2>5. e.tradable = TradeDateAfter(e2.confirmed, T)
    BY <2>4 DEF Dated
  <2>6. e.tradable = e2.tradable
    BY <2>2, <2>5 DEF TradeDateAfter
  <2> QED
    BY <2>4, <2>6 DEF WasTradable
<1> QED
  BY <1>1, <1>2 DEF ComesAfter

StrictFractalEvent(E, T, i) ==
    LET f == StrictFractal(E, i, T)
    IN  Settled("fractal", "fractal", f.kind, f, f.price, None, None)

StrictFractalEvents(E, T) == {StrictFractalEvent(E, T, i) : i \in FractalIndices(E)}

\* The fractals of strict-v1 are dated.
LEMMA StrictFractalsDated ==
  ASSUME NEW E, NEW T, Covers(E, T)
  PROVE  \A i \in FractalIndices(E) :
            LET e == StrictFractalEvent(E, T, i)
                f == StrictFractal(E, i, T)
            IN  /\ e.kind = "fractal" /\ e.status = "confirmed" /\ e.formed = E[i].last
                /\ e.confirmed = f.confirmed /\ Dated(e, T)
<1> SUFFICES ASSUME NEW i \in FractalIndices(E)
             PROVE  LET e == StrictFractalEvent(E, T, i)
                        f == StrictFractal(E, i, T)
                    IN  /\ e.kind = "fractal" /\ e.status = "confirmed" /\ e.formed = E[i].last
                        /\ e.confirmed = f.confirmed /\ Dated(e, T)
  OBVIOUS
<1> DEFINE e == StrictFractalEvent(E, T, i)
           f == StrictFractal(E, i, T)
<1>1. /\ e.kind = "fractal" /\ e.status = "confirmed" /\ e.formed = f.formed
      /\ e.confirmed = f.confirmed /\ e.tradable = f.tradable
  BY DEF StrictFractalEvent, Settled, Event
<1>2. /\ f \in StrictFractalType /\ f.formed = E[i].last /\ f.confirmed = f.formed + 1
      /\ f.confirmed <= T /\ f.tradable = TradeDateAfter(f.confirmed, T)
  BY StrictFractalFacts
<1>3. f.formed \in Nat /\ f.confirmed \in Nat
  BY <1>2 DEF StrictFractalType
<1> HIDE DEF e, f
<1>4. Dated(e, T)
  BY <1>1, <1>2, <1>3 DEF Dated
<1> QED
  BY <1>1, <1>2, <1>4 DEF e, f

\* They have dates of their own.
LEMMA StrictFractalsSound ==
  ASSUME NEW E, NEW T, Covers(E, T)
  PROVE  /\ Sound(StrictFractalEvents(E, T))
         /\ \A e \in StrictFractalEvents(E, T) : e.kind = "fractal"
<1> DEFINE X == StrictFractalEvents(E, T)
           I == FractalIndices(E)
           event == [i \in I |-> StrictFractalEvent(E, T, i)]
<1>1. IsFiniteSet(I)
  <2>1. Len(E) \in Nat /\ I \subseteq 1 .. Len(E)
    BY DEF FractalIndices, Covers
  <2>2. IsFiniteSet(1 .. Len(E))
    BY <2>1, FS_Interval
  <2> QED
    BY <2>1, <2>2, FS_Subset
<1>2. X = {event[i] : i \in I}
  BY DEF StrictFractalEvents
<1>3. \A e \in X : e.kind = "fractal" /\ Dated(e, T)
  BY StrictFractalsDated DEF StrictFractalEvents
<1>4. \A i, j \in I : event[i].formed = event[j].formed => i = j
  <2> SUFFICES ASSUME NEW i \in I, NEW j \in I, event[i].formed = event[j].formed PROVE i = j
    OBVIOUS
  <2>1. E[i].last = E[j].last
    BY StrictFractalsDated
  <2>2. i \in 1 .. Len(E) /\ j \in 1 .. Len(E) /\ i \in Nat /\ j \in Nat /\ E[i].last \in Nat
    BY FractalFacts
  <2>3. ~(i < j) /\ ~(j < i)
    BY <2>1, <2>2, LastsGrow
  <2> QED
    BY <2>2, <2>3
<1>5. T \in Nat
  BY DEF Covers
<1>6. Sound(X)
  <2> HIDE DEF X, I, event
  <2> QED
    BY <1>1, <1>2, <1>3, <1>4, <1>5, DatedSound
<1> QED
  BY <1>3, <1>6

\* A fractal seen is found again.
LEMMA StrictFractalsFollow ==
  ASSUME NEW E, NEW T, Covers(E, T), NEW E2, Covers(E2, T + 1), Lengthens(E, E2)
  PROVE  ComesAfter("strict-v1", StrictFractalEvents(E, T), StrictFractalEvents(E2, T + 1), T + 1)
<1> DEFINE X == StrictFractalEvents(E, T)
           X2 == StrictFractalEvents(E2, T + 1)
<1>1. T \in Nat /\ T + 1 \in Nat
  BY DEF Covers
<1>2. (\A e \in X : Dated(e, T)) /\ \A e2 \in X2 : Dated(e2, T + 1)
  <2>1. \A e \in X : Dated(e, T)
    BY StrictFractalsDated DEF StrictFractalEvents
  <2>2. \A e2 \in X2 : Dated(e2, T + 1)
    BY StrictFractalsDated DEF StrictFractalEvents
  <2> QED
    BY <2>1, <2>2
<1>3. ASSUME NEW i \in FractalIndices(E)
      PROVE  /\ i \in FractalIndices(E2)
             /\ SameEvent(StrictFractalEvent(E, T, i), StrictFractalEvent(E2, T + 1, i))
  <2> DEFINE f == StrictFractal(E, i, T)
             f2 == StrictFractal(E2, i, T + 1)
  <2>1. i \in 1 .. Len(E) - 1
    BY StrictFractalFacts
  <2>2. /\ i \in FractalIndices(E2)
        /\ f2.kind = f.kind /\ f2.price = f.price /\ f2.formed = f.formed
        /\ f2.confirmed = f.confirmed
    BY <2>1, StrictFractalsStand
  <2> QED
    BY <2>2 DEF SameEvent, StrictFractalEvent, Settled, Event, EventId
<1>4. \A e \in X : \E e2 \in X2 : SameEvent(e, e2)
  BY <1>3 DEF StrictFractalEvents
<1>5. ASSUME NEW e2 \in X2, e2.confirmed # T + 1 PROVE \E e \in X : SameEvent(e, e2)
  <2>1. PICK i \in FractalIndices(E2) : e2 = StrictFractalEvent(E2, T + 1, i)
    BY DEF StrictFractalEvents
  <2>2. StrictFractal(E2, i, T + 1).confirmed # T + 1
    BY <1>5, <2>1, StrictFractalsDated
  <2>3. i \in FractalIndices(E)
    BY <2>2, StrictFractalsStand
  <2> QED
    BY <1>3, <2>1, <2>3 DEF StrictFractalEvents
<1> HIDE DEF X, X2
<1> QED
  BY <1>1, <1>2, <1>4, <1>5, DatedFollows DEF X, X2

StrictStrokeEvent(s) == Settled("stroke", "alternating", s.direction, s, None, s.low, s.high)

StrictStrokeEvents(S) == {StrictStrokeEvent(S[k]) : k \in DOMAIN S}

\* The strokes of strict-v1 are dated.
LEMMA StrictStrokesDated ==
  ASSUME NEW S, NEW T \in Nat, StrictOk(S, T)
  PROVE  \A k \in DOMAIN S :
            LET e == StrictStrokeEvent(S[k])
            IN  /\ e.kind = "stroke" /\ e.status = "confirmed" /\ e.formed = S[k].formed
                /\ e.confirmed = S[k].confirmed /\ Dated(e, T)
<1> SUFFICES ASSUME NEW k \in DOMAIN S
             PROVE  LET e == StrictStrokeEvent(S[k])
                    IN  /\ e.kind = "stroke" /\ e.status = "confirmed" /\ e.formed = S[k].formed
                        /\ e.confirmed = S[k].confirmed /\ Dated(e, T)
  OBVIOUS
<1> DEFINE e == StrictStrokeEvent(S[k])
<1>1. /\ e.kind = "stroke" /\ e.status = "confirmed" /\ e.formed = S[k].formed
      /\ e.confirmed = S[k].confirmed /\ e.tradable = S[k].tradable
  BY DEF StrictStrokeEvent, Settled, Event
<1>2. /\ S[k].confirmed \in Nat /\ S[k].formed < S[k].confirmed /\ S[k].confirmed <= T
      /\ S[k].tradable = TradeDateAfter(S[k].confirmed, T)
  BY StrictHasRanges
<1> HIDE DEF e
<1>3. Dated(e, T)
  BY <1>1, <1>2 DEF Dated
<1> QED
  BY <1>1, <1>3 DEF e

\* They begin on dates of their own.
LEMMA StrictStrokesSound ==
  ASSUME NEW S, NEW T \in Nat, StrictOk(S, T)
  PROVE  /\ Sound(StrictStrokeEvents(S))
         /\ \A e \in StrictStrokeEvents(S) : e.kind = "stroke"
<1> DEFINE X == StrictStrokeEvents(S)
           I == DOMAIN S
           event == [k \in I |-> StrictStrokeEvent(S[k])]
<1>1. I = 1 .. Len(S) /\ Len(S) \in Nat
  BY StrictHasRanges
<1>2. IsFiniteSet(I)
  BY <1>1, FS_Interval
<1>3. X = {event[k] : k \in I}
  BY DEF StrictStrokeEvents
<1>4. \A e \in X : e.kind = "stroke" /\ Dated(e, T)
  BY StrictStrokesDated DEF StrictStrokeEvents
<1>5. \A k, l \in I : event[k].formed = event[l].formed => k = l
  <2> SUFFICES ASSUME NEW k \in I, NEW l \in I, event[k].formed = event[l].formed PROVE k = l
    OBVIOUS
  <2>1. S[k].formed = S[l].formed
    BY StrictStrokesDated
  <2>2. k \in 1 .. Len(S) /\ l \in 1 .. Len(S) /\ k \in Nat /\ l \in Nat
        /\ S[k].formed \in Nat /\ S[l].formed \in Nat
    BY <1>1, StrictHasRanges
  <2>3. ~(k < l) /\ ~(l < k)
    BY <2>1, <2>2, StrictStrokesGrow
  <2> QED
    BY <2>2, <2>3
<1>6. Sound(X)
  <2> HIDE DEF X, I, event
  <2> QED
    BY <1>2, <1>3, <1>4, <1>5, DatedSound
<1> QED
  BY <1>4, <1>6

\* A stroke seen is found again.
LEMMA StrictStrokesFollow ==
  ASSUME NEW S, NEW T \in Nat, StrictOk(S, T), NEW S2, StrictOk(S2, T + 1),
         StrictGrows(S, S2, T + 1)
  PROVE  ComesAfter("strict-v1", StrictStrokeEvents(S), StrictStrokeEvents(S2), T + 1)
<1> DEFINE X == StrictStrokeEvents(S)
           X2 == StrictStrokeEvents(S2)
           n == Len(S)
           n2 == Len(S2)
<1>1. /\ T + 1 \in Nat /\ DOMAIN S = 1 .. n /\ DOMAIN S2 = 1 .. n2
      /\ n \in Nat /\ n2 \in {n, n + 1}
      /\ \A k \in 1 .. n : SameStroke(S[k], S2[k])
      /\ n2 = n + 1 => S2[n2].confirmed = T + 1
  BY StrictHasRanges DEF StrictGrows
<1>6. \A k \in DOMAIN S : k \in DOMAIN S2
  <2> HIDE DEF n, n2
  <2> QED
    BY <1>1
<1>7. \A k \in DOMAIN S2 : k \notin DOMAIN S => k = n2 /\ n2 = n + 1
  <2> HIDE DEF n, n2
  <2> QED
    BY <1>1
<1>2. (\A e \in X : Dated(e, T)) /\ \A e2 \in X2 : Dated(e2, T + 1)
  <2>1. \A e \in X : Dated(e, T)
    BY StrictStrokesDated DEF StrictStrokeEvents
  <2>2. \A e2 \in X2 : Dated(e2, T + 1)
    BY <1>1, StrictStrokesDated DEF StrictStrokeEvents
  <2> QED
    BY <2>1, <2>2
<1>3. ASSUME NEW k \in DOMAIN S
      PROVE  k \in DOMAIN S2 /\ SameEvent(StrictStrokeEvent(S[k]), StrictStrokeEvent(S2[k]))
  <2>1. k \in DOMAIN S2
    BY <1>6
  <2>2. SameStroke(S[k], S2[k])
    BY <1>1
  <2> QED
    BY <2>1, <2>2 DEF SameStroke, SameEvent, StrictStrokeEvent, Settled, Event, EventId
<1>4. \A e \in X : \E e2 \in X2 : SameEvent(e, e2)
  BY <1>3 DEF StrictStrokeEvents
<1>5. ASSUME NEW e2 \in X2, e2.confirmed # T + 1 PROVE \E e \in X : SameEvent(e, e2)
  <2>1. PICK k \in DOMAIN S2 : e2 = StrictStrokeEvent(S2[k])
    BY DEF StrictStrokeEvents
  <2>2. S2[k].confirmed # T + 1
    BY <1>1, <1>5, <2>1, StrictStrokesDated
  <2>3. k \in DOMAIN S
    BY <1>1, <1>7, <2>2
  <2> QED
    BY <1>3, <2>1, <2>3 DEF StrictStrokeEvents
<1> HIDE DEF X, X2
<1> QED
  BY <1>1, <1>2, <1>4, <1>5, DatedFollows DEF X, X2

StrictAreaEvent(a) == Settled("central_area", "three_strokes", "", a, None, a.low, a.high)

StrictAreaEvents(S) == {StrictAreaEvent(StrictAreaFrom(S, s)) : s \in StrictStarts(S)}

\* Two events of one identity, confirmed on one date.
LEMMA SameSettled ==
  ASSUME NEW kind, NEW reason, NEW subtype, NEW item, NEW item2, NEW price, NEW low, NEW high,
         item2.formed = item.formed, item2.confirmed = item.confirmed
  PROVE  SameEvent(Settled(kind, reason, subtype, item, price, low, high),
                   Settled(kind, reason, subtype, item2, price, low, high))
BY DEF SameEvent, Settled, Event, EventId

\* Two areas that differ only in the tradable date give the same event, but for it.
LEMMA SameAreaEvent ==
  ASSUME NEW a, NEW a2, SameArea(a, a2)
  PROVE  SameEvent(StrictAreaEvent(a), StrictAreaEvent(a2))
<1>1. /\ a2.low = a.low /\ a2.high = a.high
      /\ a2.formed = a.formed /\ a2.confirmed = a.confirmed
  BY DEF SameArea
<1> QED
  BY <1>1, SameSettled DEF StrictAreaEvent

\* The areas of strict-v1 are dated.
LEMMA StrictAreasDated ==
  ASSUME NEW S, NEW T \in Nat, StrictOk(S, T)
  PROVE  \A s \in StrictStarts(S) :
            LET a == StrictAreaFrom(S, s)
                e == StrictAreaEvent(a)
            IN  /\ e.kind = "central_area" /\ e.reason = "three_strokes"
                /\ e.status = "confirmed" /\ e.formed = a.formed /\ e.confirmed = a.confirmed
                /\ Dated(e, T)
<1> SUFFICES ASSUME NEW s \in StrictStarts(S)
             PROVE  LET a == StrictAreaFrom(S, s)
                        e == StrictAreaEvent(a)
                    IN  /\ e.kind = "central_area" /\ e.reason = "three_strokes"
                        /\ e.status = "confirmed" /\ e.formed = a.formed
                        /\ e.confirmed = a.confirmed /\ Dated(e, T)
  OBVIOUS
<1> DEFINE a == StrictAreaFrom(S, s)
           e == StrictAreaEvent(a)
<1>1. s \in 1 .. Len(S) - CentralStrokes + 1
  BY StrictNextMoves
<1>2. /\ a.confirmed \in Nat /\ a.formed < a.confirmed /\ a.confirmed <= T
      /\ a.tradable = TradeDateAfter(a.confirmed, T)
  BY <1>1, StrictAreaFacts
<1> HIDE DEF a
<1>3. /\ e.kind = "central_area" /\ e.reason = "three_strokes" /\ e.status = "confirmed"
      /\ e.formed = a.formed /\ e.confirmed = a.confirmed /\ e.tradable = a.tradable
  BY DEF StrictAreaEvent, Settled, Event
<1> HIDE DEF e
<1>4. Dated(e, T)
  BY <1>2, <1>3 DEF Dated
<1> QED
  BY <1>3, <1>4 DEF e, a

\* There are finitely many of them.
LEMMA StrictStartsFinite ==
  ASSUME NEW S, NEW T \in Nat, StrictOk(S, T)
  PROVE  /\ IsFiniteSet(StrictStarts(S)) /\ StrictStarts(S) \subseteq Int
         /\ StrictStarts(S) \subseteq 1 .. Len(S) - CentralStrokes + 1
<1> DEFINE L == Len(S) - CentralStrokes + 1
<1>1. L \in Int /\ StrictStarts(S) \subseteq 1 .. L
  BY StrictNextMoves
<1>2. IsFiniteSet(1 .. L)
  BY <1>1, FS_Interval
<1>3. IsFiniteSet(StrictStarts(S))
  BY <1>1, <1>2, FS_Subset
<1> QED
  BY <1>1, <1>3

\* They are formed by different strokes.
LEMMA StrictAreasSound ==
  ASSUME NEW S, NEW T \in Nat, StrictOk(S, T)
  PROVE  /\ Sound(StrictAreaEvents(S))
         /\ \A e \in StrictAreaEvents(S) : e.kind = "central_area" /\ e.reason = "three_strokes"
<1> DEFINE X == StrictAreaEvents(S)
           I == StrictStarts(S)
           event == [s \in I |-> StrictAreaEvent(StrictAreaFrom(S, s))]
<1>1. IsFiniteSet(I)
  BY StrictStartsFinite
<1>2. X = {event[s] : s \in I}
  BY DEF StrictAreaEvents
<1>3. \A e \in X : e.kind = "central_area" /\ e.reason = "three_strokes" /\ Dated(e, T)
  BY StrictAreasDated DEF StrictAreaEvents
<1>4. \A s, t \in I : event[s].formed = event[t].formed => s = t
  <2> SUFFICES ASSUME NEW s \in I, NEW t \in I, event[s].formed = event[t].formed PROVE s = t
    OBVIOUS
  <2>1. StrictAreaFrom(S, s).formed = StrictAreaFrom(S, t).formed
    BY StrictAreasDated
  <2> QED
    BY <2>1, StrictAreasApart
<1>5. Sound(X)
  <2> HIDE DEF X, I, event
  <2> QED
    BY <1>1, <1>2, <1>3, <1>4, DatedSound
<1> QED
  BY <1>3, <1>5

\* An area seen is found again.
LEMMA StrictAreasFollow ==
  ASSUME NEW S, NEW T \in Nat, StrictOk(S, T), NEW S2, StrictOk(S2, T + 1),
         StrictGrows(S, S2, T + 1)
  PROVE  ComesAfter("strict-v1", StrictAreaEvents(S), StrictAreaEvents(S2), T + 1)
<1> DEFINE X == StrictAreaEvents(S)
           X2 == StrictAreaEvents(S2)
<1>1. T + 1 \in Nat
  OBVIOUS
<1>2. (\A e \in X : Dated(e, T)) /\ \A e2 \in X2 : Dated(e2, T + 1)
  <2>1. \A e \in X : Dated(e, T)
    BY StrictAreasDated DEF StrictAreaEvents
  <2>2. \A e2 \in X2 : Dated(e2, T + 1)
    BY <1>1, StrictAreasDated DEF StrictAreaEvents
  <2> QED
    BY <2>1, <2>2
<1>3. ASSUME NEW s \in StrictStarts(S)
      PROVE  /\ s \in StrictStarts(S2)
             /\ SameEvent(StrictAreaEvent(StrictAreaFrom(S, s)),
                          StrictAreaEvent(StrictAreaFrom(S2, s)))
  <2> DEFINE a == StrictAreaFrom(S, s)
             a2 == StrictAreaFrom(S2, s)
  <2>1. s \in StrictStarts(S2) /\ SameArea(a, a2)
    BY StrictAreasStand
  <2> HIDE DEF a, a2
  <2>2. SameEvent(StrictAreaEvent(a), StrictAreaEvent(a2))
    BY <2>1, SameAreaEvent
  <2> QED
    BY <2>1, <2>2 DEF a, a2
<1>4. \A e \in X : \E e2 \in X2 : SameEvent(e, e2)
  BY <1>3 DEF StrictAreaEvents
<1>5. ASSUME NEW e2 \in X2, e2.confirmed # T + 1 PROVE \E e \in X : SameEvent(e, e2)
  <2>1. PICK s \in StrictStarts(S2) : e2 = StrictAreaEvent(StrictAreaFrom(S2, s))
    BY DEF StrictAreaEvents
  <2>2. StrictAreaFrom(S2, s).confirmed # T + 1
    BY <1>1, <1>5, <2>1, StrictAreasDated
  <2>3. s \in StrictStarts(S)
    BY <2>2, StrictAreasStand
  <2> QED
    BY <1>3, <2>1, <2>3 DEF StrictAreaEvents
<1> HIDE DEF X, X2
<1> QED
  BY <1>1, <1>2, <1>4, <1>5, DatedFollows DEF X, X2

Waiting(c) == [formed |-> c.formed, confirmed |-> None, tradable |-> None]

StrictCandidateEvent(c) ==
    Event("central_area", "two_strokes", "", Waiting(c), None, c.low, c.high, "candidate")

StrictCandidateEvents(S) == {StrictCandidateEvent(c) : c \in StrictCandidates(S)}

\* There is one candidate at most, and it is not tradable.
LEMMA StrictCandidatesSound ==
  ASSUME NEW S, NEW S2, NEW T2
  PROVE  /\ Sound(StrictCandidateEvents(S))
         /\ \A e \in StrictCandidateEvents(S) :
               e.kind = "central_area" /\ e.reason = "two_strokes"
         /\ ComesAfter("strict-v1", StrictCandidateEvents(S), StrictCandidateEvents(S2), T2)
<1>1. \A X : \A e \in StrictCandidateEvents(X) :
         /\ e.kind = "central_area" /\ e.reason = "two_strokes" /\ e.status = "candidate"
         /\ e.tradable = None
  <2>1. \A c : /\ StrictCandidateEvent(c).kind = "central_area"
               /\ StrictCandidateEvent(c).reason = "two_strokes"
               /\ StrictCandidateEvent(c).status = "candidate"
               /\ StrictCandidateEvent(c).tradable = None
    BY DEF StrictCandidateEvent, Waiting, Event
  <2> QED
    BY <2>1 DEF StrictCandidateEvents
<1>2. \A c, d \in StrictCandidates(S) : c = d
  BY DEF StrictCandidates
<1>3. \A e, f \in StrictCandidateEvents(S) : e = f
  BY <1>2 DEF StrictCandidateEvents
<1>4. Sound(StrictCandidateEvents(S))
  BY <1>1, <1>3, LoneSound
<1>5. ComesAfter("strict-v1", StrictCandidateEvents(S), StrictCandidateEvents(S2), T2)
  BY <1>1 DEF ComesAfter
<1> QED
  BY <1>1, <1>4, <1>5

GoesBeyond(S, s) == Beyond(S[s], S[s + 2])

\* Where the search for segments goes on, and the strokes with which segments begin.
SegmentNext(S) == [s \in 1 .. Len(S) - 2 |-> IF GoesBeyond(S, s) THEN s + 3 ELSE s + 1]

SegmentStarts(S) == {s \in Visited(Len(S) - 2, SegmentNext(S)) : GoesBeyond(S, s)}

StrictSegmentEvent(g) == Settled("segment", "three_strokes", "", g, None, g.low, g.high)

StrictSegmentEvents(S) == {StrictSegmentEvent(StrictSegment(S, s)) : s \in SegmentStarts(S)}

\* The segments, by the strokes they begin with.
LEMMA SegmentEvents ==
  ASSUME NEW S
  PROVE  {StrictSegmentEvent(g) : g \in StrictSegments(S)} = StrictSegmentEvents(S)
<1>1. StrictSegments(S) = {StrictSegment(S, s) : s \in SegmentStarts(S)}
  BY DEF StrictSegments, SegmentStarts, SegmentNext, GoesBeyond
<1> QED
  BY <1>1 DEF StrictSegmentEvents

\* The search for segments goes on with each turn.
LEMMA SegmentNextMoves ==
  ASSUME NEW S, NEW T \in Nat, StrictOk(S, T)
  PROVE  LET L == Len(S) - 2
             next == SegmentNext(S)
         IN  /\ L \in Int /\ next \in [1 .. L -> Nat] /\ \A s \in 1 .. L : next[s] > s
             /\ Visited(L, next) \subseteq 1 .. L
             /\ SegmentStarts(S) \subseteq 1 .. L /\ IsFiniteSet(SegmentStarts(S))
<1> DEFINE L == Len(S) - 2
           next == SegmentNext(S)
<1>1. L \in Int
  BY StrictHasRanges
<1>2. next \in [1 .. L -> Nat] /\ \A s \in 1 .. L : next[s] > s
  BY <1>1 DEF SegmentNext
<1>3. Visited(L, next) \subseteq 1 .. L
  <2> HIDE DEF next, L
  <2> QED
    BY <1>1, <1>2, VisitedStarts
<1>4. SegmentStarts(S) \subseteq 1 .. L
  BY <1>3 DEF SegmentStarts
<1>5. IsFiniteSet(1 .. L)
  BY <1>1, FS_Interval
<1>6. IsFiniteSet(SegmentStarts(S))
  <2> HIDE DEF L
  <2> QED
    BY <1>4, <1>5, FS_Subset
<1> QED
  BY <1>1, <1>2, <1>3, <1>4, <1>6

\* The segments of strict-v1 are dated.
LEMMA StrictSegmentsDated ==
  ASSUME NEW S, NEW T \in Nat, StrictOk(S, T)
  PROVE  \A s \in SegmentStarts(S) :
            LET e == StrictSegmentEvent(StrictSegment(S, s))
            IN  /\ e.kind = "segment" /\ e.status = "confirmed" /\ e.formed = S[s].formed
                /\ e.confirmed = S[s + 2].confirmed /\ Dated(e, T)
<1> SUFFICES ASSUME NEW s \in SegmentStarts(S)
             PROVE  LET e == StrictSegmentEvent(StrictSegment(S, s))
                    IN  /\ e.kind = "segment" /\ e.status = "confirmed"
                        /\ e.formed = S[s].formed /\ e.confirmed = S[s + 2].confirmed
                        /\ Dated(e, T)
  OBVIOUS
<1> DEFINE e == StrictSegmentEvent(StrictSegment(S, s))
           t == s + 2
<1>1. s \in 1 .. Len(S) - 2 /\ Len(S) \in Nat
  BY SegmentNextMoves, StrictHasRanges
<1>2. s \in 1 .. Len(S) /\ t \in 1 .. Len(S) /\ s <= t
  BY <1>1
<1>3. /\ e.kind = "segment" /\ e.status = "confirmed" /\ e.formed = S[s].formed
      /\ e.confirmed = S[t].confirmed /\ e.tradable = S[t].tradable
  BY DEF StrictSegmentEvent, StrictSegment, Settled, Event
<1> HIDE DEF e, t
<1>4. /\ S[t].confirmed \in Nat /\ S[t].confirmed <= T
      /\ S[t].tradable = TradeDateAfter(S[t].confirmed, T)
      /\ S[s].formed < S[s].confirmed /\ S[s].formed \in Nat /\ S[s].confirmed \in Nat
  BY <1>2, StrictHasRanges
<1>5. S[s].confirmed <= S[t].confirmed
  BY <1>2, StrictStrokesGrow
<1>6. S[s].formed < S[t].confirmed
  BY <1>4, <1>5
<1>7. Dated(e, T)
  BY <1>3, <1>4, <1>6 DEF Dated
<1> QED
  BY <1>3, <1>7 DEF e, t

\* They begin with different strokes.
LEMMA StrictSegmentsSound ==
  ASSUME NEW S, NEW T \in Nat, StrictOk(S, T)
  PROVE  /\ Sound(StrictSegmentEvents(S))
         /\ \A e \in StrictSegmentEvents(S) : e.kind = "segment"
<1> DEFINE X == StrictSegmentEvents(S)
           I == SegmentStarts(S)
           event == [s \in I |-> StrictSegmentEvent(StrictSegment(S, s))]
<1>1. IsFiniteSet(I) /\ I \subseteq 1 .. Len(S) - 2 /\ Len(S) \in Nat
  BY SegmentNextMoves, StrictHasRanges
<1>2. X = {event[s] : s \in I}
  BY DEF StrictSegmentEvents
<1>3. \A e \in X : e.kind = "segment" /\ Dated(e, T)
  BY StrictSegmentsDated DEF StrictSegmentEvents
<1>4. \A s, t \in I : event[s].formed = event[t].formed => s = t
  <2> SUFFICES ASSUME NEW s \in I, NEW t \in I, event[s].formed = event[t].formed PROVE s = t
    OBVIOUS
  <2>1. S[s].formed = S[t].formed
    BY StrictSegmentsDated
  <2> HIDE DEF event
  <2>2. s \in 1 .. Len(S) /\ t \in 1 .. Len(S) /\ s \in Nat /\ t \in Nat
    BY <1>1
  <2>3. S[s].formed \in Nat /\ S[t].formed \in Nat
    BY <2>2, StrictHasRanges
  <2>4. ~(s < t) /\ ~(t < s)
    BY <2>1, <2>2, <2>3, StrictStrokesGrow
  <2> QED
    BY <2>2, <2>4
<1>5. Sound(X)
  <2> HIDE DEF X, I, event
  <2> QED
    BY <1>1, <1>2, <1>3, <1>4, DatedSound
<1> QED
  BY <1>3, <1>5

\* The same strokes, but for their tradable dates, are the same segment.
LEMMA SameSegment ==
  ASSUME NEW S, NEW S2, NEW s \in Nat, \A k \in s .. s + 2 : SameStroke(S[k], S2[k])
  PROVE  /\ SameEvent(StrictSegmentEvent(StrictSegment(S, s)),
                      StrictSegmentEvent(StrictSegment(S2, s)))
         /\ GoesBeyond(S2, s) <=> GoesBeyond(S, s)
<1> DEFINE g == StrictSegment(S, s)
           g2 == StrictSegment(S2, s)
           t == s + 2
<1>1. s \in s .. t /\ t \in s .. t
  OBVIOUS
<1>2. \A k \in s .. t : S2[k].low = S[k].low /\ S2[k].high = S[k].high
  BY DEF SameStroke
<1>3. {S2[k].low : k \in s .. t} = {S[k].low : k \in s .. t}
      /\ {S2[k].high : k \in s .. t} = {S[k].high : k \in s .. t}
  BY <1>2
<1>4. SameStroke(S[s], S2[s]) /\ SameStroke(S[t], S2[t])
  BY <1>1
<1>5. /\ S2[s].formed = S[s].formed /\ S2[s].direction = S[s].direction /\ S2[s].end = S[s].end
      /\ S2[t].confirmed = S[t].confirmed /\ S2[t].direction = S[t].direction
      /\ S2[t].end = S[t].end
  BY <1>4 DEF SameStroke
<1>6. g2.low = g.low /\ g2.high = g.high /\ g2.formed = g.formed /\ g2.confirmed = g.confirmed
  BY <1>3, <1>5 DEF StrictSegment
<1>7. GoesBeyond(S2, s) <=> GoesBeyond(S, s)
  BY <1>5 DEF GoesBeyond, Beyond
<1> HIDE DEF g, g2
<1>8. SameEvent(StrictSegmentEvent(g), StrictSegmentEvent(g2))
  BY <1>6, SameSettled DEF StrictSegmentEvent
<1> QED
  BY <1>7, <1>8 DEF g, g2

\* A segment seen is found again.
LEMMA StrictSegmentsFollow ==
  ASSUME NEW S, NEW T \in Nat, StrictOk(S, T), NEW S2, StrictOk(S2, T + 1),
         StrictGrows(S, S2, T + 1)
  PROVE  ComesAfter("strict-v1", StrictSegmentEvents(S), StrictSegmentEvents(S2), T + 1)
<1> DEFINE X == StrictSegmentEvents(S)
           X2 == StrictSegmentEvents(S2)
           n == Len(S)
           n2 == Len(S2)
           L == n - 2
           L2 == n2 - 2
           next == SegmentNext(S)
           next2 == SegmentNext(S2)
<1>1. /\ T + 1 \in Nat /\ n \in Nat /\ n2 \in {n, n + 1}
      /\ \A k \in 1 .. n : SameStroke(S[k], S2[k])
      /\ n2 = n + 1 => S2[n2].confirmed = T + 1
  BY StrictHasRanges DEF StrictGrows
<1>2. (\A e \in X : Dated(e, T)) /\ \A e2 \in X2 : Dated(e2, T + 1)
  <2>1. \A e \in X : Dated(e, T)
    BY StrictSegmentsDated DEF StrictSegmentEvents
  <2>2. \A e2 \in X2 : Dated(e2, T + 1)
    BY <1>1, StrictSegmentsDated DEF StrictSegmentEvents
  <2> QED
    BY <2>1, <2>2
<1>3. ASSUME NEW s \in 1 .. L
      PROVE  /\ SameEvent(StrictSegmentEvent(StrictSegment(S, s)),
                          StrictSegmentEvent(StrictSegment(S2, s)))
             /\ GoesBeyond(S2, s) <=> GoesBeyond(S, s)
  <2>1. s \in Nat /\ \A k \in s .. s + 2 : SameStroke(S[k], S2[k])
    <3>1. s \in Nat /\ \A k \in s .. s + 2 : k \in 1 .. n
      BY <1>1
    <3> QED
      BY <1>1, <3>1
  <2> QED
    BY <2>1, SameSegment
<1>4. /\ L \in Int /\ next \in [1 .. L -> Nat] /\ \A s \in 1 .. L : next[s] > s
      /\ SegmentStarts(S) \subseteq 1 .. L
  BY SegmentNextMoves
<1>5. /\ L2 \in Int /\ next2 \in [1 .. L2 -> Nat] /\ \A s \in 1 .. L2 : next2[s] > s
      /\ SegmentStarts(S2) \subseteq 1 .. L2
  BY <1>1, SegmentNextMoves
<1>6. L <= L2 /\ (\A s \in 1 .. L : s \in 1 .. L2)
      /\ \A s \in 1 .. L2 : s \notin 1 .. L => s + 2 = n2 /\ n2 = n + 1
  <2> HIDE DEF n, n2
  <2> QED
    BY <1>1
<1>7. \A s \in 1 .. L : next2[s] = next[s]
  <2> SUFFICES ASSUME NEW s \in 1 .. L PROVE next2[s] = next[s]
    OBVIOUS
  <2>1. /\ next[s] = IF GoesBeyond(S, s) THEN s + 3 ELSE s + 1
        /\ next2[s] = IF GoesBeyond(S2, s) THEN s + 3 ELSE s + 1
    BY <1>6 DEF SegmentNext
  <2> QED
    BY <1>3, <2>1
<1>8. \A s \in 1 .. L : s \in Visited(L, next) <=> s \in Visited(L2, next2)
  <2> HIDE DEF L, L2, next, next2
  <2> QED
    BY <1>4, <1>5, <1>6, <1>7, SearchesAgree
<1>9. \A s \in 1 .. L : s \in SegmentStarts(S) <=> s \in SegmentStarts(S2)
  BY <1>3, <1>8 DEF SegmentStarts
<1>10. ASSUME NEW s \in SegmentStarts(S)
       PROVE  /\ s \in SegmentStarts(S2)
              /\ SameEvent(StrictSegmentEvent(StrictSegment(S, s)),
                           StrictSegmentEvent(StrictSegment(S2, s)))
  BY <1>3, <1>4, <1>9
<1>11. \A e \in X : \E e2 \in X2 : SameEvent(e, e2)
  BY <1>10 DEF StrictSegmentEvents
<1>12. ASSUME NEW e2 \in X2, e2.confirmed # T + 1 PROVE \E e \in X : SameEvent(e, e2)
  <2>1. PICK s \in SegmentStarts(S2) : e2 = StrictSegmentEvent(StrictSegment(S2, s))
    BY DEF StrictSegmentEvents
  <2>2. S2[s + 2].confirmed # T + 1
    BY <1>1, <1>12, <2>1, StrictSegmentsDated
  <2>3. s \in 1 .. L
    BY <1>1, <1>5, <1>6, <2>2
  <2>4. s \in SegmentStarts(S)
    BY <1>9, <2>3
  <2> QED
    BY <1>10, <2>1, <2>4 DEF StrictSegmentEvents
<1> HIDE DEF X, X2
<1> QED
  BY <1>1, <1>2, <1>11, <1>12, DatedFollows DEF X, X2

\* The dates on which two closes in a row begin to be on one side of an area.
Pairs(supplied, area) ==
    {d \in area.confirmed + 1 .. Len(supplied) - 1 :
       /\ Side(supplied[d].close, area) = Side(supplied[d + 1].close, area)
       /\ Side(supplied[d].close, area) # "inside"}

FoundSignal(d, direction, T) ==
    [formed |-> d, confirmed |-> d + 1, tradable |-> TradeDateAfter(d + 1, T),
     status |-> "confirmed", direction |-> direction]

HopedSignal(direction, T) ==
    [formed |-> T, confirmed |-> None, tradable |-> None, status |-> "candidate",
     direction |-> direction]

\* The first pair of closes that confirms a signal.
LEMMA PairsFacts ==
  ASSUME NEW supplied, Len(supplied) \in Nat, NEW area, area.confirmed \in Nat
  PROVE  LET P == Pairs(supplied, area)
         IN  /\ \A d \in P : d \in Nat /\ area.confirmed < d /\ d < Len(supplied)
             /\ P # {} => Min(P) \in P /\ \A d \in P : Min(P) <= d
<1> DEFINE P == Pairs(supplied, area)
           low == area.confirmed + 1
           high == Len(supplied) - 1
<1>1. P \subseteq low .. high /\ low \in Int /\ high \in Int
  BY DEF Pairs
<1>2. IsFiniteSet(P)
  <2>1. IsFiniteSet(low .. high)
    BY <1>1, FS_Interval
  <2> HIDE DEF P, low, high
  <2> QED
    BY <1>1, <2>1, FS_Subset
<1>3. P \in SUBSET Int
  <2> HIDE DEF P, low, high
  <2> QED
    BY <1>1
<1>4. P # {} => Min(P) \in P /\ \A d \in P : Min(P) <= d
  <2> HIDE DEF P
  <2> QED
    BY <1>2, <1>3, ExtremesOfSet
<1>5. \A d \in P : d \in Nat /\ area.confirmed < d /\ d < Len(supplied)
  BY DEF Pairs
<1> QED
  BY <1>4, <1>5

\* A signal rests on the first such pair, a candidate on today's close.
LEMMA SignalsForFacts ==
  ASSUME NEW supplied, NEW area
  PROVE  LET P == Pairs(supplied, area)
             T == Len(supplied)
             first == Min(P)
         IN  /\ P # {} => StrictSignalsFor(supplied, area)
                            = {FoundSignal(first, Side(supplied[first].close, area), T)}
             /\ P = {} => StrictSignalsFor(supplied, area)
                            \subseteq {HopedSignal(Side(supplied[T].close, area), T)}
<1> DEFINE P == Pairs(supplied, area)
           T == Len(supplied)
           first == Min(P)
<1>1. StrictSignalsFor(supplied, area) =
         IF P # {}
         THEN {[formed |-> first, confirmed |-> first + 1,
                tradable |-> TradeDateAfter(first + 1, T), status |-> "confirmed",
                direction |-> Side(supplied[first].close, area)]}
         ELSE IF area.confirmed < T /\ Side(supplied[T].close, area) # "inside"
         THEN {[formed |-> T, confirmed |-> None, tradable |-> None,
                status |-> "candidate", direction |-> Side(supplied[T].close, area)]}
         ELSE {}
  BY DEF StrictSignalsFor, Pairs
<1> HIDE DEF P, first
<1> QED
  BY <1>1 DEF FoundSignal, HopedSignal, P, first

\* A later bar adds at most a pair that begins on the last date.
LEMMA PairsStand ==
  ASSUME NEW supplied \in Seq(Bar), NEW bar \in Bar, NEW a, NEW a2, SameArea(a, a2),
         a.confirmed \in Nat
  PROVE  LET P == Pairs(supplied, a)
             P2 == Pairs(Append(supplied, bar), a2)
         IN  /\ \A d \in P : d \in P2
             /\ \A d \in P2 : d \in P \/ d = Len(supplied)
             /\ \A d \in 1 .. Len(supplied) :
                   Side(Append(supplied, bar)[d].close, a2) = Side(supplied[d].close, a)
<1> DEFINE T == Len(supplied)
           longer == Append(supplied, bar)
<1>1. /\ T \in Nat /\ Len(longer) = T + 1
      /\ \A d \in 1 .. T : longer[d] = supplied[d]
  OBVIOUS
<1>2. \A x : Side(x, a2) = Side(x, a)
  BY DEF SameArea, Side
<1>3. a2.confirmed = a.confirmed
  BY DEF SameArea
<1> HIDE DEF longer, T
<1>4. \A d \in 1 .. T : Side(longer[d].close, a2) = Side(supplied[d].close, a)
  BY <1>1, <1>2
<1>5. ASSUME NEW d \in Pairs(supplied, a) PROVE d \in Pairs(longer, a2)
  <2>1. /\ d \in a.confirmed + 1 .. T - 1
        /\ Side(supplied[d].close, a) = Side(supplied[d + 1].close, a)
        /\ Side(supplied[d].close, a) # "inside"
    BY DEF Pairs, T
  <2>2. d \in 1 .. T /\ d + 1 \in 1 .. T /\ d \in a2.confirmed + 1 .. Len(longer) - 1
    BY <1>1, <1>3, <2>1
  <2> QED
    BY <1>4, <2>1, <2>2 DEF Pairs
<1>6. ASSUME NEW d \in Pairs(longer, a2), d # T PROVE d \in Pairs(supplied, a)
  <2>1. /\ d \in a2.confirmed + 1 .. Len(longer) - 1
        /\ Side(longer[d].close, a2) = Side(longer[d + 1].close, a2)
        /\ Side(longer[d].close, a2) # "inside"
    BY DEF Pairs
  <2>2. d \in 1 .. T /\ d + 1 \in 1 .. T /\ d \in a.confirmed + 1 .. T - 1
    BY <1>1, <1>3, <1>6, <2>1
  <2> QED
    BY <1>4, <2>1, <2>2 DEF Pairs, T
<1> QED
  BY <1>4, <1>5, <1>6 DEF longer, T

\* There is a pair already, or the first one does not begin on the last date.
PairBefore(supplied, longer, a, a2) ==
    /\ supplied \in Seq(Bar) /\ \E bar \in Bar : longer = Append(supplied, bar)
    /\ SameArea(a, a2) /\ a.confirmed \in Nat
    /\ \/ Pairs(supplied, a) # {}
       \/ Pairs(longer, a2) # {} /\ Min(Pairs(longer, a2)) # Len(supplied)

SamePair(supplied, longer, a, a2) ==
    LET P == Pairs(supplied, a)
        P2 == Pairs(longer, a2)
    IN  /\ P # {} /\ P2 # {} /\ Min(P2) = Min(P)
        /\ Side(longer[Min(P2)].close, a2) = Side(supplied[Min(P)].close, a)

\* The first pair stays the first.
LEMMA FirstPairStands ==
  ASSUME NEW supplied, NEW longer, NEW a, NEW a2, PairBefore(supplied, longer, a, a2)
  PROVE  SamePair(supplied, longer, a, a2)
<1>a. PICK bar \in Bar : supplied \in Seq(Bar) /\ longer = Append(supplied, bar)
  BY DEF PairBefore
<1>b. SameArea(a, a2) /\ a.confirmed \in Nat
  BY DEF PairBefore
<1> DEFINE T == Len(supplied)
           P == Pairs(supplied, a)
           P2 == Pairs(longer, a2)
<1>1. T \in Nat /\ Len(longer) = T + 1 /\ Len(longer) \in Nat /\ a2.confirmed \in Nat
  BY <1>a, <1>b DEF SameArea
<1>2. /\ \A d \in P : d \in Nat /\ a.confirmed < d /\ d < T
      /\ P # {} => Min(P) \in P /\ \A d \in P : Min(P) <= d
  BY <1>1, <1>b, PairsFacts
<1>3. /\ \A d \in P2 : d \in Nat /\ a2.confirmed < d /\ d < Len(longer)
      /\ P2 # {} => Min(P2) \in P2 /\ \A d \in P2 : Min(P2) <= d
  BY <1>1, <1>b, PairsFacts
<1>4. /\ \A d \in P : d \in P2
      /\ \A d \in P2 : d \in P \/ d = T
      /\ \A d \in 1 .. T : Side(longer[d].close, a2) = Side(supplied[d].close, a)
  BY <1>a, <1>b, PairsStand
<1>5. P # {} \/ (P2 # {} /\ Min(P2) # T)
  BY DEF PairBefore
<1> HIDE DEF P, P2, T
<1>6. P # {}
  BY <1>3, <1>4, <1>5
<1>7. P2 # {} /\ Min(P2) <= Min(P)
  BY <1>2, <1>3, <1>4, <1>6
<1>8. Min(P2) \in P
  <2>1. Min(P) < T /\ Min(P) \in Nat /\ Min(P2) \in Nat
    BY <1>2, <1>3, <1>6, <1>7
  <2> QED
    BY <1>1, <1>3, <1>4, <1>7, <2>1
<1>9. Min(P2) = Min(P) /\ Min(P) \in 1 .. T
  <2>1. Min(P) <= Min(P2) /\ Min(P) \in Nat /\ Min(P2) \in Nat /\ Min(P) < T
        /\ a.confirmed < Min(P)
    BY <1>2, <1>6, <1>8
  <2> QED
    BY <1>1, <1>7, <1>b, <2>1
<1> QED
  BY <1>4, <1>6, <1>7, <1>9 DEF P, P2, T, SamePair

StrictSignalEvent(g) == Event("signal", "breakout", g.direction, g, None, None, None, g.status)

StrictSignalEvents(supplied, S) == {StrictSignalEvent(g) : g \in StrictSignals(supplied, S)}

\* Which signals there are: one of an area at most.
LEMMA SignalsHave ==
  ASSUME NEW supplied, NEW S
  PROVE  /\ \A g \in StrictSignals(supplied, S) :
               \E s \in StrictStarts(S) : g \in StrictSignalsFor(supplied, StrictAreaFrom(S, s))
         /\ \A s \in StrictStarts(S) :
               Pairs(supplied, StrictAreaFrom(S, s)) # {} =>
                  \A g \in StrictSignalsFor(supplied, StrictAreaFrom(S, s)) :
                     g \in StrictSignals(supplied, S)
<1> DEFINE starts == StrictStarts(S)
           of(s) == StrictSignalsFor(supplied, StrictAreaFrom(S, s))
           signals == [s \in starts |-> of(s)]
           waits(s) == \E signal \in signals[s] : signal.status = "candidate"
           waiting == {s \in starts : waits(s)}
<1>1. StrictSignals(supplied, S)
        = UNION {signals[s] : s \in {u \in starts : ~waits(u) \/ u = Max(waiting)}}
  BY DEF StrictSignals
<1>2. ASSUME NEW g \in StrictSignals(supplied, S) PROVE \E s \in starts : g \in of(s)
  BY <1>1
<1>3. ASSUME NEW s \in starts, Pairs(supplied, StrictAreaFrom(S, s)) # {}, NEW g \in of(s)
      PROVE  g \in StrictSignals(supplied, S)
  <2>1. ~waits(s)
    <3>1. \A h \in of(s) : h.status = "confirmed"
      BY <1>3, SignalsForFacts DEF FoundSignal
    <3> QED
      BY <3>1
  <2> QED
    BY <1>1, <1>3, <2>1
<1> QED
  BY <1>2, <1>3

\* A signal of an area is its first pair, or what today's close alone may become.
LEMMA SignalCases ==
  ASSUME NEW supplied, Len(supplied) \in Nat, NEW S, StrictOk(S, Len(supplied)),
         NEW s \in StrictStarts(S), NEW g \in StrictSignalsFor(supplied, StrictAreaFrom(S, s))
  PROVE  LET T == Len(supplied)
             a == StrictAreaFrom(S, s)
             first == Min(Pairs(supplied, a))
         IN  \/ /\ Pairs(supplied, a) # {} /\ first \in Nat /\ first < T /\ a.confirmed < first
                /\ g = FoundSignal(first, Side(supplied[first].close, a), T)
             \/ \E direction : g = HopedSignal(direction, T)
<1> DEFINE T == Len(supplied)
           a == StrictAreaFrom(S, s)
           P == Pairs(supplied, a)
<1>1. a.confirmed \in Nat
  BY StrictStartsFinite, StrictAreaFacts
<1> HIDE DEF a
<1>2. CASE P # {}
  <2>1. g = FoundSignal(Min(P), Side(supplied[Min(P)].close, a), T)
    BY <1>2, SignalsForFacts DEF a
  <2>2. Min(P) \in Nat /\ a.confirmed < Min(P) /\ Min(P) < T
    BY <1>1, <1>2, PairsFacts
  <2> QED
    BY <1>2, <2>1, <2>2 DEF a
<1>3. CASE P = {}
  <2>1. g = HopedSignal(Side(supplied[T].close, a), T)
    BY <1>3, SignalsForFacts DEF a
  <2> QED
    BY <2>1
<1> QED
  BY <1>2, <1>3

\* The signals of strict-v1 are dated.
LEMMA StrictSignalsDated ==
  ASSUME NEW supplied, Len(supplied) \in Nat, NEW S, StrictOk(S, Len(supplied))
  PROVE  \A e \in StrictSignalEvents(supplied, S) :
            /\ e.kind = "signal" /\ Dated(e, Len(supplied))
            /\ \/ /\ e.status = "confirmed"
                  /\ \E d, direction :
                        e = StrictSignalEvent(FoundSignal(d, direction, Len(supplied)))
               \/ /\ e.status = "candidate"
                  /\ \E direction : e = StrictSignalEvent(HopedSignal(direction, Len(supplied)))
<1> DEFINE T == Len(supplied)
<1> SUFFICES ASSUME NEW e \in StrictSignalEvents(supplied, S)
             PROVE  /\ e.kind = "signal" /\ Dated(e, T)
                    /\ \/ /\ e.status = "confirmed"
                          /\ \E d, direction : e = StrictSignalEvent(FoundSignal(d, direction, T))
                       \/ /\ e.status = "candidate"
                          /\ \E direction : e = StrictSignalEvent(HopedSignal(direction, T))
  OBVIOUS
<1>1. PICK g \in StrictSignals(supplied, S) : e = StrictSignalEvent(g)
  BY DEF StrictSignalEvents
<1>2. PICK s \in StrictStarts(S) : g \in StrictSignalsFor(supplied, StrictAreaFrom(S, s))
  BY SignalsHave
<1> DEFINE a == StrictAreaFrom(S, s)
           first == Min(Pairs(supplied, a))
<1>3. /\ e.kind = "signal" /\ e.status = g.status /\ e.formed = g.formed
      /\ e.confirmed = g.confirmed /\ e.tradable = g.tradable
  BY <1>1 DEF StrictSignalEvent, Event
<1>4. \/ /\ first \in Nat /\ first < T
         /\ g = FoundSignal(first, Side(supplied[first].close, a), T)
      \/ \E direction : g = HopedSignal(direction, T)
  BY <1>2, SignalCases
<1> HIDE DEF a, first
<1>5. CASE /\ first \in Nat /\ first < T
           /\ g = FoundSignal(first, Side(supplied[first].close, a), T)
  <2>1. /\ e.status = "confirmed" /\ e.formed = first /\ e.confirmed = first + 1
        /\ e.tradable = TradeDateAfter(first + 1, T)
    BY <1>3, <1>5 DEF FoundSignal
  <2>2. first < first + 1 /\ first + 1 \in Nat /\ first + 1 <= T
    BY <1>5
  <2>3. Dated(e, T)
    BY <2>1, <2>2 DEF Dated
  <2> QED
    BY <1>1, <1>3, <1>5, <2>1, <2>3
<1>6. CASE \E direction : g = HopedSignal(direction, T)
  <2>1. e.status = "candidate" /\ e.tradable = None
    BY <1>3, <1>6 DEF HopedSignal
  <2>2. Dated(e, T)
    BY <2>1 DEF Dated
  <2> QED
    BY <1>1, <1>3, <1>6, <2>1, <2>2
<1> QED
  BY <1>4, <1>5, <1>6

\* Signals of one date and direction do not differ.
LEMMA StrictSignalsSound ==
  ASSUME NEW supplied, Len(supplied) \in Nat, NEW S, StrictOk(S, Len(supplied))
  PROVE  /\ Sound(StrictSignalEvents(supplied, S))
         /\ \A e \in StrictSignalEvents(supplied, S) : e.kind = "signal"
<1> DEFINE X == StrictSignalEvents(supplied, S)
           T == Len(supplied)
           I == StrictStarts(S)
           of(s) == StrictSignalsFor(supplied, StrictAreaFrom(S, s))
           event == [s \in I |-> StrictSignalEvent(CHOOSE g \in of(s) : TRUE)]
<1>1. \A s \in I : \A g, h \in of(s) : g = h
  BY SignalsForFacts
<1>2. X \subseteq {event[s] : s \in I}
  <2> SUFFICES ASSUME NEW e \in X PROVE \E s \in I : e = event[s]
    OBVIOUS
  <2>1. PICK g \in StrictSignals(supplied, S) : e = StrictSignalEvent(g)
    BY DEF StrictSignalEvents
  <2>2. PICK s \in I : g \in of(s)
    BY SignalsHave
  <2>3. (CHOOSE h \in of(s) : TRUE) = g
    <3>1. (CHOOSE h \in of(s) : TRUE) \in of(s)
      BY <2>2
    <3> HIDE DEF of
    <3> QED
      BY <1>1, <2>2, <3>1
  <2> QED
    BY <2>1, <2>2, <2>3
<1>3. IsFiniteSet(X)
  <2>1. IsFiniteSet(I)
    BY StrictStartsFinite
  <2>2. IsFiniteSet({event[s] : s \in I})
    <3> HIDE DEF event, I
    <3> QED
      BY <2>1, FiniteImage
  <2> HIDE DEF event, I, X
  <2> QED
    BY <1>2, <2>2, FS_Subset
<1>4. \A e \in X :
         /\ e.kind = "signal" /\ Dated(e, T)
         /\ \/ /\ e.status = "confirmed"
               /\ \E d, direction : e = StrictSignalEvent(FoundSignal(d, direction, T))
            \/ /\ e.status = "candidate"
               /\ \E direction : e = StrictSignalEvent(HopedSignal(direction, T))
  BY StrictSignalsDated
<1>5. ASSUME NEW e \in X, NEW f \in X, EventId(e) = EventId(f), e.status = f.status PROVE e = f
  <2>1. e.formed = f.formed /\ e.subtype = f.subtype
    BY <1>5 DEF EventId
  <2>2. CASE e.status = "confirmed"
    <3>1. PICK d, direction : e = StrictSignalEvent(FoundSignal(d, direction, T))
      BY <1>4, <2>2
    <3>2. PICK d2, direction2 : f = StrictSignalEvent(FoundSignal(d2, direction2, T))
      BY <1>4, <1>5, <2>2
    <3>3. e.formed = d /\ e.subtype = direction /\ f.formed = d2 /\ f.subtype = direction2
      BY <3>1, <3>2 DEF StrictSignalEvent, FoundSignal, Event
    <3> QED
      BY <2>1, <3>1, <3>2, <3>3
  <2>3. CASE e.status # "confirmed"
    <3>1. PICK direction : e = StrictSignalEvent(HopedSignal(direction, T))
      BY <1>4, <2>3
    <3>2. PICK direction2 : f = StrictSignalEvent(HopedSignal(direction2, T))
      BY <1>4, <1>5, <2>3
    <3>3. e.subtype = direction /\ f.subtype = direction2
      BY <3>1, <3>2 DEF StrictSignalEvent, HopedSignal, Event
    <3> QED
      BY <2>1, <3>1, <3>2, <3>3
  <2> QED
    BY <2>2, <2>3
<1>6. ASSUME NEW e \in X, e.tradable # None
      PROVE  e.status = "confirmed" /\ e.formed < e.confirmed /\ e.confirmed = e.tradable - 1
  BY <1>4, <1>6 DEF Dated, TradeDateAfter
<1> HIDE DEF X
<1> QED
  BY <1>3, <1>4, <1>5, <1>6 DEF Sound, X

\* The same pair, but for the tradable date, is the same event.
LEMMA SameFound ==
  ASSUME NEW d, NEW direction, NEW T, NEW T2
  PROVE  SameEvent(StrictSignalEvent(FoundSignal(d, direction, T)),
                   StrictSignalEvent(FoundSignal(d, direction, T2)))
BY DEF SameEvent, StrictSignalEvent, FoundSignal, Event, EventId

\* A signal confirmed is found again.
LEMMA StrictSignalsFollow ==
  ASSUME NEW supplied \in Seq(Bar), NEW bar \in Bar, NEW S, StrictOk(S, Len(supplied)),
         NEW S2, StrictOk(S2, Len(supplied) + 1), StrictGrows(S, S2, Len(supplied) + 1)
  PROVE  ComesAfter("strict-v1", StrictSignalEvents(supplied, S),
                 StrictSignalEvents(Append(supplied, bar), S2), Len(supplied) + 1)
<1> DEFINE T == Len(supplied)
           longer == Append(supplied, bar)
           X == StrictSignalEvents(supplied, S)
           X2 == StrictSignalEvents(longer, S2)
           a(s) == StrictAreaFrom(S, s)
           a2(s) == StrictAreaFrom(S2, s)
           P(s) == Pairs(supplied, a(s))
           P2(s) == Pairs(longer, a2(s))
           found(s) == FoundSignal(Min(P(s)), Side(supplied[Min(P(s))].close, a(s)), T)
           found2(s) == FoundSignal(Min(P2(s)), Side(longer[Min(P2(s))].close, a2(s)), T + 1)
<1>1. T \in Nat /\ Len(longer) = T + 1 /\ T + 1 \in Nat
  OBVIOUS
<1>2. (\A e \in X : Dated(e, T)) /\ \A e2 \in X2 : Dated(e2, T + 1)
  <2>1. \A e \in X : Dated(e, T)
    BY <1>1, StrictSignalsDated
  <2>2. \A e2 \in X2 : Dated(e2, T + 1)
    BY <1>1, StrictSignalsDated
  <2> QED
    BY <2>1, <2>2
<1>3. ASSUME NEW s \in StrictStarts(S)
      PROVE  s \in StrictStarts(S2) /\ SameArea(a(s), a2(s)) /\ a(s).confirmed \in Nat
  <2>1. s \in StrictStarts(S2) /\ SameArea(a(s), a2(s))
    BY <1>1, StrictAreasStand
  <2>2. a(s).confirmed \in Nat
    BY <1>1, StrictStartsFinite, StrictAreaFacts
  <2> QED
    BY <2>1, <2>2
<1>4. ASSUME NEW s \in StrictStarts(S),
             \/ P(s) # {}
             \/ P2(s) # {} /\ Min(P2(s)) # T
      PROVE  /\ P(s) # {} /\ P2(s) # {}
             /\ StrictSignalEvent(found(s)) \in X /\ StrictSignalEvent(found2(s)) \in X2
             /\ SameEvent(StrictSignalEvent(found(s)), StrictSignalEvent(found2(s)))
  <2>1. /\ P(s) # {} /\ P2(s) # {} /\ Min(P2(s)) = Min(P(s))
        /\ Side(longer[Min(P2(s))].close, a2(s)) = Side(supplied[Min(P(s))].close, a(s))
    <3>1. SameArea(a(s), a2(s)) /\ a(s).confirmed \in Nat
      BY <1>3
    <3>2. PairBefore(supplied, longer, a(s), a2(s))
      BY <1>4, <3>1 DEF PairBefore
    <3>3. SamePair(supplied, longer, a(s), a2(s))
      BY <3>2, FirstPairStands
    <3> QED
      BY <3>3 DEF SamePair
  <2>2. found(s) \in StrictSignals(supplied, S)
    <3>1. found(s) \in StrictSignalsFor(supplied, a(s))
      BY <2>1, SignalsForFacts
    <3> QED
      BY <2>1, <3>1, SignalsHave
  <2>3. found2(s) \in StrictSignals(longer, S2)
    <3>1. found2(s) \in StrictSignalsFor(longer, a2(s))
      <4>1. StrictSignalsFor(longer, a2(s))
              = {FoundSignal(Min(P2(s)), Side(longer[Min(P2(s))].close, a2(s)), Len(longer))}
        BY <2>1, SignalsForFacts
      <4> QED
        BY <1>1, <4>1
    <3> QED
      BY <1>3, <2>1, <3>1, SignalsHave
  <2>4. SameEvent(StrictSignalEvent(found(s)), StrictSignalEvent(found2(s)))
    BY <2>1, SameFound
  <2> QED
    BY <2>1, <2>2, <2>3, <2>4 DEF StrictSignalEvents
<1>5. ASSUME NEW e \in X, e.status = "confirmed" PROVE \E e2 \in X2 : SameEvent(e, e2)
  <2>1. PICK g \in StrictSignals(supplied, S) : e = StrictSignalEvent(g)
    BY DEF StrictSignalEvents
  <2>2. PICK s \in StrictStarts(S) : g \in StrictSignalsFor(supplied, a(s))
    BY SignalsHave
  <2>3. g.status = "confirmed"
    BY <1>5, <2>1 DEF StrictSignalEvent, Event
  <2>4. P(s) # {} /\ g = found(s)
    <3>1. ~\E direction : g = HopedSignal(direction, T)
      BY <2>3 DEF HopedSignal
    <3> QED
      BY <1>1, <2>2, <3>1, SignalCases
  <2> QED
    BY <1>4, <2>1, <2>4
<1>6. ASSUME NEW e2 \in X2, e2.status = "confirmed", e2.confirmed # T + 1
      PROVE  \E e \in X : SameEvent(e, e2)
  <2>1. PICK g \in StrictSignals(longer, S2) : e2 = StrictSignalEvent(g)
    BY DEF StrictSignalEvents
  <2>2. PICK s \in StrictStarts(S2) : g \in StrictSignalsFor(longer, a2(s))
    BY SignalsHave
  <2>3. g.status = "confirmed" /\ g.confirmed # T + 1
    BY <1>6, <2>1 DEF StrictSignalEvent, Event
  <2>4. P2(s) # {} /\ Min(P2(s)) \in Nat /\ Min(P2(s)) < T + 1 /\ a2(s).confirmed < Min(P2(s))
        /\ g = found2(s)
    <3>1. ~\E direction : g = HopedSignal(direction, T + 1)
      BY <2>3 DEF HopedSignal
    <3>2. StrictOk(S2, Len(longer)) /\ Len(longer) \in Nat
      BY <1>1
    <3>3. \/ /\ P2(s) # {} /\ Min(P2(s)) \in Nat /\ Min(P2(s)) < Len(longer)
             /\ a2(s).confirmed < Min(P2(s))
             /\ g = FoundSignal(Min(P2(s)), Side(longer[Min(P2(s))].close, a2(s)), Len(longer))
          \/ \E direction : g = HopedSignal(direction, Len(longer))
      BY <2>2, <3>2, SignalCases
    <3> QED
      BY <1>1, <3>1, <3>3
  <2>5. Min(P2(s)) # T
    BY <2>3, <2>4 DEF FoundSignal
  <2>6. s \in StrictStarts(S)
    <3>1. a2(s).confirmed # T + 1
      <4>1. \A x, y \in Nat : x = T + 1 => ~(y < T + 1 /\ x < y)
        BY <1>1
      <4>2. a2(s).confirmed \in Nat
        BY <1>1, StrictStartsFinite, StrictAreaFacts
      <4> QED
        BY <2>4, <4>1, <4>2
    <3> QED
      BY <1>1, <3>1, StrictAreasStand
  <2> QED
    BY <1>4, <2>1, <2>4, <2>5, <2>6
<1> HIDE DEF X, X2, T
<1> QED
  BY <1>1, <1>2, <1>5, <1>6, DatedFollows DEF X, X2, T

\* What strict-v1 finds, by families.
LEMMA StrictFamilies ==
  ASSUME NEW supplied, NEW E
  PROVE  LET T == Len(supplied)
             S == StrictStrokes(E, T)
         IN  StrictEvents(supplied, E) =
               ((((StrictFractalEvents(E, T) \cup StrictStrokeEvents(S)) \cup StrictAreaEvents(S))
                 \cup StrictCandidateEvents(S)) \cup StrictSegmentEvents(S))
               \cup StrictSignalEvents(supplied, S)
<1> DEFINE T == Len(supplied)
           S == StrictStrokes(E, T)
           A == {Settled("fractal", "fractal", f.kind, f, f.price, None, None) :
                 f \in StrictFractals(E, T)}
           B == {Settled("stroke", "alternating", s.direction, s, None, s.low, s.high) :
                 s \in Elements(S)}
           C == {Settled("central_area", "three_strokes", "", a, None, a.low, a.high) :
                 a \in StrictAreas(S)}
           D == {Event("central_area", "two_strokes", "", Waiting(c), None, c.low, c.high,
                       "candidate") : c \in StrictCandidates(S)}
           G == {Settled("segment", "three_strokes", "", g, None, g.low, g.high) :
                 g \in StrictSegments(S)}
           H == {Event("signal", "breakout", g.direction, g, None, None, None, g.status) :
                 g \in StrictSignals(supplied, S)}
<1>1. StrictFractalEvents(E, T) = A
  BY DEF StrictFractalEvents, StrictFractals, StrictFractalEvent
<1>2. StrictStrokeEvents(S) = B
  BY DEF StrictStrokeEvents, StrictStrokeEvent, Elements
<1>3. StrictAreaEvents(S) = C
  BY DEF StrictAreaEvents, StrictAreaEvent, StrictAreas
<1>4. StrictCandidateEvents(S) = D
  BY DEF StrictCandidateEvents, StrictCandidateEvent
<1>5. StrictSegmentEvents(S) = G
  <2>1. StrictSegmentEvents(S) = {StrictSegmentEvent(g) : g \in StrictSegments(S)}
    BY SegmentEvents
  <2> QED
    BY <2>1 DEF StrictSegmentEvent
<1>6. StrictSignalEvents(supplied, S) = H
  BY DEF StrictSignalEvents, StrictSignalEvent
<1>7. StrictEvents(supplied, E) = A \cup B \cup C \cup D \cup G \cup H
  BY DEF StrictEvents, Waiting
<1> HIDE DEF A, B, C, D, G, H, S, T
<1>8. StrictEvents(supplied, E) =
        ((((StrictFractalEvents(E, T) \cup StrictStrokeEvents(S)) \cup StrictAreaEvents(S))
          \cup StrictCandidateEvents(S)) \cup StrictSegmentEvents(S))
        \cup StrictSignalEvents(supplied, S)
  BY <1>1, <1>2, <1>3, <1>4, <1>5, <1>6, <1>7
<1> QED
  BY <1>8 DEF S, T

\* What strict-v1 finds in one prefix, and in the next.
LEMMA StrictSound ==
  ASSUME NEW supplied, Len(supplied) \in Nat, NEW E, Covers(E, Len(supplied))
  PROVE  Sound(StrictEvents(supplied, E))
<1> DEFINE T == Len(supplied)
           S == StrictStrokes(E, T)
           F == StrictFractalEvents(E, T)
           G == StrictStrokeEvents(S)
           A == StrictAreaEvents(S)
           C == StrictCandidateEvents(S)
           H == StrictSegmentEvents(S)
           O == StrictSignalEvents(supplied, S)
<1>1. StrictOk(S, T)
  BY StrictInvariant
<1>2. /\ Sound(F) /\ Sound(G) /\ Sound(A) /\ Sound(C) /\ Sound(H) /\ Sound(O)
      /\ \A e \in F : e.kind = "fractal"
      /\ \A e \in G : e.kind = "stroke"
      /\ \A e \in A : e.kind = "central_area" /\ e.reason = "three_strokes"
      /\ \A e \in C : e.kind = "central_area" /\ e.reason = "two_strokes"
      /\ \A e \in H : e.kind = "segment"
      /\ \A e \in O : e.kind = "signal"
  <2> HIDE DEF S
  <2>1. Sound(F) /\ \A e \in F : e.kind = "fractal"
    BY StrictFractalsSound
  <2>2. Sound(G) /\ \A e \in G : e.kind = "stroke"
    BY <1>1, StrictStrokesSound
  <2>3. Sound(A) /\ \A e \in A : e.kind = "central_area" /\ e.reason = "three_strokes"
    BY <1>1, StrictAreasSound
  <2>4. Sound(C) /\ \A e \in C : e.kind = "central_area" /\ e.reason = "two_strokes"
    BY StrictCandidatesSound
  <2>5. Sound(H) /\ \A e \in H : e.kind = "segment"
    BY <1>1, StrictSegmentsSound
  <2>6. Sound(O) /\ \A e \in O : e.kind = "signal"
    BY <1>1, StrictSignalsSound
  <2> QED
    BY <2>1, <2>2, <2>3, <2>4, <2>5, <2>6
<1> HIDE DEF F, G, A, C, H, O
<1>3. Sound(F \cup G)
  BY <1>2, SoundTogether
<1>4. Sound((F \cup G) \cup A)
  BY <1>2, <1>3, SoundTogether
<1>5. Sound(((F \cup G) \cup A) \cup C)
  BY <1>2, <1>4, SoundTogether
<1>6. Sound((((F \cup G) \cup A) \cup C) \cup H)
  BY <1>2, <1>5, SoundTogether
<1>7. Sound(((((F \cup G) \cup A) \cup C) \cup H) \cup O)
  BY <1>2, <1>6, SoundTogether
<1> QED
  BY <1>7, StrictFamilies DEF F, G, A, C, H, O

\* What strict-v1 has confirmed remains, and nothing is tradable too late.
LEMMA StrictFollows ==
  ASSUME NEW supplied \in Seq(Bar), NEW bar \in Bar, NEW E, Covers(E, Len(supplied)),
         NEW E2, Covers(E2, Len(supplied) + 1), Lengthens(E, E2)
  PROVE  ComesAfter("strict-v1", StrictEvents(supplied, E),
                 StrictEvents(Append(supplied, bar), E2), Len(supplied) + 1)
<1> DEFINE T == Len(supplied)
           supplied2 == Append(supplied, bar)
           S == StrictStrokes(E, T)
           S2 == StrictStrokes(E2, T + 1)
           which == "strict-v1"
<1>1. T \in Nat /\ Len(supplied2) = T + 1 /\ T + 1 \in Nat
  OBVIOUS
<1>2. StrictOk(S, T) /\ StrictOk(S2, T + 1) /\ StrictGrows(S, S2, T + 1)
  <2>1. StrictOk(S, T) /\ StrictOk(S2, T + 1)
    BY StrictInvariant
  <2>2. StrictGrows(S, S2, T + 1)
    BY StrictStrokesStand
  <2> QED
    BY <2>1, <2>2
<1> DEFINE F == StrictFractalEvents(E, T)
           G == StrictStrokeEvents(S)
           A == StrictAreaEvents(S)
           C == StrictCandidateEvents(S)
           H == StrictSegmentEvents(S)
           O == StrictSignalEvents(supplied, S)
           F2 == StrictFractalEvents(E2, T + 1)
           G2 == StrictStrokeEvents(S2)
           A2 == StrictAreaEvents(S2)
           C2 == StrictCandidateEvents(S2)
           H2 == StrictSegmentEvents(S2)
           O2 == StrictSignalEvents(supplied2, S2)
<1>3. ComesAfter(which, F, F2, T + 1)
  BY StrictFractalsFollow
<1> HIDE DEF S, S2
<1>4. ComesAfter(which, G, G2, T + 1) /\ ComesAfter(which, A, A2, T + 1)
  BY <1>1, <1>2, StrictStrokesFollow, StrictAreasFollow
<1>5. ComesAfter(which, C, C2, T + 1) /\ ComesAfter(which, H, H2, T + 1)
  BY <1>1, <1>2, StrictCandidatesSound, StrictSegmentsFollow
<1>6. ComesAfter(which, O, O2, T + 1)
  BY <1>1, <1>2, StrictSignalsFollow
<1>7. /\ StrictEvents(supplied, E) = ((((F \cup G) \cup A) \cup C) \cup H) \cup O
      /\ StrictEvents(supplied2, E2) = ((((F2 \cup G2) \cup A2) \cup C2) \cup H2) \cup O2
  BY <1>1, StrictFamilies DEF S, S2
<1> HIDE DEF F, G, A, C, H, O, F2, G2, A2, C2, H2, O2, which
<1>8. ComesAfter(which, F \cup G, F2 \cup G2, T + 1)
  BY <1>3, <1>4, FollowsTogether
<1>9. ComesAfter(which, (F \cup G) \cup A, (F2 \cup G2) \cup A2, T + 1)
  BY <1>4, <1>8, FollowsTogether
<1>10. ComesAfter(which, ((F \cup G) \cup A) \cup C, ((F2 \cup G2) \cup A2) \cup C2, T + 1)
  BY <1>5, <1>9, FollowsTogether
<1>11. ComesAfter(which, (((F \cup G) \cup A) \cup C) \cup H,
                  (((F2 \cup G2) \cup A2) \cup C2) \cup H2, T + 1)
  BY <1>5, <1>10, FollowsTogether
<1>12. ComesAfter(which, ((((F \cup G) \cup A) \cup C) \cup H) \cup O,
               ((((F2 \cup G2) \cup A2) \cup C2) \cup H2) \cup O2, T + 1)
  BY <1>6, <1>11, FollowsTogether
<1> QED
  BY <1>7, <1>12 DEF which

-----------------------------------------------------------------------------
(* What a replay shows *)

\* The shown events are among X, each under its identity; no confirmed one is missing.
Shows(shownEvents, X) ==
    /\ \A e \in X : e.status = "confirmed" =>
          EventId(e) \in DOMAIN shownEvents /\ shownEvents[EventId(e)] = e
    /\ \A id \in DOMAIN shownEvents : shownEvents[id] \in X /\ EventId(shownEvents[id]) = id

\* What is shown is what the analyzer finds in the prefix, and the history has it.
ReplayInv ==
    /\ EffectiveInv
    /\ profile \in Profile
    /\ ~refused
    /\ Shows(visible, StructuralItems(profile, bars, processed))
    /\ \A id \in DOMAIN visible : id \in DOMAIN history /\ history[id].event = visible[id]
    /\ \A id \in DOMAIN history : "event" \in DOMAIN history[id]

\* Sound events are never ambiguous.
LEMMA SoundIsUnambiguous ==
  ASSUME NEW X, Sound(X)
  PROVE  ~Ambiguous(X)
<1> DEFINE key == [e \in X |-> <<EventId(e), e.status>>]
           Y == {<<EventId(e), e.status>> : e \in X}
<1>1. key \in [X -> Y] /\ \A y \in Y : \E e \in X : key[e] = y
  OBVIOUS
<1>2. \A e, f \in X : key[e] = key[f] => e = f
  <2> SUFFICES ASSUME NEW e \in X, NEW f \in X, key[e] = key[f] PROVE e = f
    OBVIOUS
  <2>1. <<EventId(e), e.status>> = <<EventId(f), f.status>>
    OBVIOUS
  <2>2. EventId(e) = EventId(f) /\ e.status = f.status
    BY <2>1
  <2> QED
    BY <2>2 DEF Sound
<1>3. DOMAIN key = X
  OBVIOUS
<1>4. IsFiniteSet(X)
  BY DEF Sound
<1> HIDE DEF key, Y
<1>5. key \in Surjection(X, Y) /\ key \in Injection(X, Y)
  BY <1>1, <1>2, <1>3 DEF Surjection, Injection, IsInjective
<1>6. Cardinality(Y) = Cardinality(X)
  BY <1>4, <1>5, FS_Surjection
<1> QED
  BY <1>6 DEF Ambiguous, Y

\* Of sound events every confirmed one is shown.
LEMMA CoalescedShows ==
  ASSUME NEW X, Sound(X)
  PROVE  Shows(CoalesceVisible(X), X)
<1> DEFINE counting == {e \in X : e.status = "confirmed"}
                       \cup {e \in X : ~\E f \in X : f.status = "confirmed"
                                                      /\ EventId(f) = EventId(e)}
           ids == {EventId(e) : e \in counting}
           chosen(id) == CHOOSE e \in counting : EventId(e) = id
           V == CoalesceVisible(X)
<1>1. V = [id \in ids |-> chosen(id)]
  BY DEF CoalesceVisible
<1>2. DOMAIN V = ids /\ \A id \in ids : V[id] = chosen(id)
  BY <1>1
<1> HIDE DEF V
<1>3. counting \subseteq X
  OBVIOUS
<1>4. \A id \in ids : chosen(id) \in counting /\ EventId(chosen(id)) = id
  OBVIOUS
<1>5. ASSUME NEW e \in X, e.status = "confirmed"
      PROVE  EventId(e) \in ids /\ chosen(EventId(e)) = e
  <2> DEFINE f == chosen(EventId(e))
  <2>1. EventId(e) \in ids
    BY <1>5
  <2>2. f \in counting /\ EventId(f) = EventId(e)
    BY <1>4, <2>1
  <2> HIDE DEF f
  <2>3. f \in X /\ f.status = "confirmed"
    BY <1>5, <2>2
  <2>4. f = e
    BY <1>5, <2>2, <2>3 DEF Sound
  <2> QED
    BY <2>1, <2>4 DEF f
<1> HIDE DEF counting, ids, chosen
<1> QED
  BY <1>2, <1>3, <1>4, <1>5 DEF Shows, V

\* Without a bar there is nothing to be found.
LEMMA NothingFirst ==
  ASSUME NEW which
  PROVE  StructuralItems(which, <<>>, <<>>) = {}
<1> DEFINE E == <<>>
           S == SimplifiedStrokes(E, 0)
           U == StrictStrokes(E, 0)
<1>1. Covers(E, 0) /\ Len(E) = 0 /\ DOMAIN E = {}
  BY EmptySeq DEF Covers
<1>2. FractalIndices(E) = {}
  BY <1>1 DEF FractalIndices
<1>3. S = <<>> /\ U = <<>>
  <2>1. SimplifiedFound(E, 0)[0] = [active |-> NoFractal, strokes |-> <<>>]
    BY <1>1, SimpleTurns
  <2>2. StrictFound(E, 0)[0] = [active |-> NoActive, strokes |-> <<>>]
    BY <1>1, StrictTurns
  <2> QED
    BY <1>1, <2>1, <2>2 DEF SimplifiedStrokes, StrictStrokes
<1>4. SimpleOk(S, 0) /\ StrictOk(U, 0)
  BY <1>1, SimpleInvariant, StrictInvariant
<1> HIDE DEF S, U, E
<1>5. Len(S) = 0 /\ DOMAIN S = {} /\ Len(U) = 0 /\ DOMAIN U = {}
  BY <1>3
<1>6. SimplifiedStarts(S) = {} /\ StrictStarts(U) = {} /\ SegmentStarts(U) = {}
  <2>1. SimplifiedStarts(S) \subseteq 1 .. Len(S) - 2
    BY <1>4, SimpleHasRanges, SimpleNextMoves
  <2>2. StrictStarts(U) \subseteq 1 .. Len(U) - CentralStrokes + 1
    BY <1>4, StrictStartsFinite
  <2>3. SegmentStarts(U) \subseteq 1 .. Len(U) - 2
    BY <1>4, SegmentNextMoves
  <2> QED
    BY <1>5, <2>1, <2>2, <2>3, StrictProfileType
<1>7. SimplifiedCandidates(S) = {} /\ StrictCandidates(U) = {}
  BY <1>5, <1>6 DEF SimplifiedCandidates, StrictCandidates
<1>8. SimplifiedObservations(E, S) = {} /\ StrictSignals(E, U) = {}
  BY <1>6 DEF SimplifiedObservations, StrictSignals
<1>9. SimplifiedEvents(E, E) = {}
  <2>1. /\ SimpleFractalEvents(E, 0) = {} /\ SimpleStrokeEvents(S) = {}
        /\ SimpleAreaEvents(S) = {} /\ SimpleCandidateEvents(S) = {}
        /\ ObservationEvents(E, S) = {}
    BY <1>2, <1>5, <1>6, <1>7, <1>8
       DEF SimpleFractalEvents, SimpleStrokeEvents, SimpleAreaEvents, SimpleCandidateEvents,
           ObservationEvents
  <2> QED
    BY <1>1, <2>1, SimplifiedFamilies DEF S
<1>10. StrictEvents(E, E) = {}
  <2>1. /\ StrictFractalEvents(E, 0) = {} /\ StrictStrokeEvents(U) = {}
        /\ StrictAreaEvents(U) = {} /\ StrictCandidateEvents(U) = {}
        /\ StrictSegmentEvents(U) = {} /\ StrictSignalEvents(E, U) = {}
    BY <1>2, <1>5, <1>6, <1>7, <1>8
       DEF StrictFractalEvents, StrictStrokeEvents, StrictAreaEvents, StrictCandidateEvents,
           StrictSegmentEvents, StrictSignalEvents
  <2> QED
    BY <1>1, <2>1, StrictFamilies DEF U
<1> QED
  BY <1>9, <1>10 DEF StructuralItems, E

\* What an analyzer finds in one prefix, and in the next.
LEMMA ItemsFollow ==
  ASSUME EffectiveInv, profile \in Profile, NEW bar \in Bar, Supply(bar)
  PROVE  LET X == StructuralItems(profile, bars, processed)
             X2 == StructuralItems(profile, bars', processed')
         IN  /\ Sound(X2) /\ Sound(X)
             /\ ComesAfter(profile, X, X2, Len(bars'))
<1>1. /\ Covers(processed, Len(bars)) /\ Covers(processed', Len(bars'))
      /\ Len(bars') = Len(bars) + 1
      /\ Lengthens(processed, processed')
  BY SupplyLengthens
<1>2. bars \in Seq(Bar) /\ bars' = Append(bars, bar) /\ Len(bars) \in Nat /\ Len(bars') \in Nat
  BY <1>1 DEF EffectiveInv, ChanTypeOK, Supply, Covers
<1>3. CASE profile = "strict-v1"
  <2>1. Sound(StrictEvents(bars, processed)) /\ Sound(StrictEvents(bars', processed'))
    BY <1>1, <1>2, StrictSound
  <2>2. ComesAfter("strict-v1", StrictEvents(bars, processed),
                StrictEvents(bars', processed'), Len(bars'))
    BY <1>1, <1>2, StrictFollows
  <2> QED
    BY <1>3, <2>1, <2>2 DEF StructuralItems
<1>4. CASE profile = "simplified-v1"
  <2>1. Sound(SimplifiedEvents(bars, processed)) /\ Sound(SimplifiedEvents(bars', processed'))
    BY <1>1, <1>2, SimplifiedSound
  <2>2. ComesAfter("simplified-v1", SimplifiedEvents(bars, processed),
                SimplifiedEvents(bars', processed'), Len(bars'))
    BY <1>1, <1>2, SimplifiedFollows
  <2> QED
    BY <1>4, <2>1, <2>2 DEF StructuralItems
<1> QED
  BY <1>3, <1>4, ProfileType

\* A prefix is never given up, and shows what the analyzer finds in it.
LEMMA PrefixShows ==
  ASSUME ReplayInv, NEW bar \in Bar, ReplayPrefix(bar)
  PROVE  LET X2 == StructuralItems(profile, bars', processed')
         IN  /\ Supply(bar) /\ profile' = profile /\ ~refused'
             /\ visible' = CoalesceVisible(X2)
             /\ Record(visible', Len(bars'))
             /\ Shows(visible', X2)
<1> DEFINE X2 == StructuralItems(profile, bars', processed')
<1>1. Supply(bar) /\ profile' = profile /\ ~refused
  BY DEF ReplayPrefix
<1>2. Sound(X2)
  BY <1>1, ItemsFollow DEF ReplayInv
<1>3. ~Ambiguous(X2)
  BY <1>2, SoundIsUnambiguous
<1>4. visible' = CoalesceVisible(X2) /\ Record(visible', Len(bars')) /\ refused' = refused
  BY <1>3 DEF ReplayPrefix
<1>5. Shows(visible', X2)
  BY <1>2, <1>4, CoalescedShows
<1> QED
  BY <1>1, <1>4, <1>5

\* The history of an event ends with the event that is recorded.
LEMMA RecordedIs ==
  ASSUME ReplayInv, NEW id, NEW event, NEW today
  PROVE  LET r == Recorded(id, event, today)
         IN  r.event = event /\ "event" \in DOMAIN r
<1>1. CASE id \notin DOMAIN history
  BY <1>1 DEF Recorded
<1>2. CASE id \in DOMAIN history
  <2>1. "event" \in DOMAIN history[id]
    BY <1>2 DEF ReplayInv
  <2>2. \A x : LET r == [history[id] EXCEPT !.event = event, !.revision = x]
               IN  r.event = event /\ "event" \in DOMAIN r
    BY <2>1
  <2>3. PICK x : Recorded(id, event, today) = [history[id] EXCEPT !.event = event, !.revision = x]
    <3>1. Recorded(id, event, today)
            = [history[id] EXCEPT !.event = event,
                 !.revision = history[id].revision + IF history[id].event = event THEN 0 ELSE 1]
      BY <1>2, Zenon DEF Recorded
    <3> QED
      BY <3>1
  <2> QED
    BY <2>2, <2>3
<1> QED
  BY <1>1, <1>2

\* Before the first bar nothing is shown.
LEMMA ReplayStarts == Init => ReplayInv
<1> SUFFICES ASSUME Init PROVE ReplayInv
  OBVIOUS
<1>1. EffectiveInv
  BY DEF Init, BarsInit, EffectiveInv, ChanTypeOK, StrictlyApart, DatesInOrder
<1>2. profile \in Profile /\ ~refused /\ visible = <<>> /\ history = <<>>
  BY DEF Init
<1>3. StructuralItems(profile, bars, processed) = {}
  BY NothingFirst DEF Init, BarsInit
<1>4. DOMAIN visible = {} /\ DOMAIN history = {}
  BY <1>2
<1> QED
  BY <1>1, <1>2, <1>3, <1>4 DEF ReplayInv, Shows

\* A further prefix shows what the analyzer finds in it, and the history has it.
LEMMA ReplayKeeps == ReplayInv /\ [Next]_vars => ReplayInv'
<1> SUFFICES ASSUME ReplayInv, [Next]_vars PROVE ReplayInv'
  OBVIOUS
<1>1. CASE UNCHANGED vars
  BY <1>1 DEF vars, ReplayInv, EffectiveInv, ChanTypeOK, StrictlyApart, DatesInOrder, Shows
<1>2. ASSUME NEW bar \in Bar, ReplayPrefix(bar) PROVE ReplayInv'
  <2> DEFINE X2 == StructuralItems(profile, bars', processed')
  <2>1. /\ Supply(bar) /\ profile' = profile /\ ~refused'
        /\ Record(visible', Len(bars')) /\ Shows(visible', X2)
    BY <1>2, PrefixShows
  <2>2. EffectiveInv' /\ profile' \in Profile
    BY <2>1, SupplyKeeps DEF ReplayInv
  <2>3. Shows(visible', StructuralItems(profile', bars', processed'))
    BY <2>1
  <2>4. history' = [id \in DOMAIN history \cup DOMAIN visible' |->
                      IF id \in DOMAIN visible' THEN Recorded(id, visible'[id], Len(bars'))
                      ELSE history[id]]
    BY <2>1 DEF Record
  <2>5. \A id \in DOMAIN visible' : id \in DOMAIN history' /\ history'[id].event = visible'[id]
    BY <2>4, RecordedIs
  <2>6. ASSUME NEW id \in DOMAIN history'
        PROVE  "event" \in DOMAIN history'[id]
    <3>1. CASE id \in DOMAIN visible'
      <4>1. history'[id] = Recorded(id, visible'[id], Len(bars'))
        BY <2>4, <3>1
      <4> QED
        BY <4>1, RecordedIs
    <3>2. CASE id \notin DOMAIN visible'
      <4>1. id \in DOMAIN history /\ history'[id] = history[id]
        BY <2>4, <3>2
      <4> QED
        BY <4>1 DEF ReplayInv
    <3> QED
      BY <3>1, <3>2
  <2> QED
    BY <2>1, <2>2, <2>3, <2>5, <2>6 DEF ReplayInv, Shows
<1> QED
  BY <1>1, <1>2 DEF Next

\* What every replay keeps: what is shown is what the analyzer finds, and is on record.
THEOREM ReplayInvariance == Spec => []ReplayInv
<1> QED
  BY ReplayStarts, ReplayKeeps, PTL DEF Spec

\* Whatever bars are supplied, no two events of a prefix share identity and status.
THEOREM IdentityNeverAmbiguous == Spec => []IdentityIsUnambiguous
<1>1. ReplayInv => IdentityIsUnambiguous
  BY DEF ReplayInv, IdentityIsUnambiguous
<1> QED
  BY <1>1, ReplayInvariance, PTL

\* Whatever bars follow, what was confirmed stays.
THEOREM ConfirmedNeverRevoked == Spec => ConfirmedStays
<1> DEFINE Stays ==
      \A id \in DOMAIN visible :
         LET event == visible[id] IN
         event.status = "confirmed" /\ event.kind # "observation" =>
            /\ id \in DOMAIN visible' /\ visible'[id].status = "confirmed"
            /\ \/ OnlyBecomesTradable(event, visible'[id], Len(bars'))
               \/ profile = "simplified-v1" /\ event.kind = "central_area"
                  /\ OnlyNarrows(event, visible'[id])
<1>1. ASSUME ReplayInv, NEW bar \in Bar, ReplayPrefix(bar) PROVE Stays
  <2> SUFFICES ASSUME NEW id \in DOMAIN visible, visible[id].status = "confirmed",
                      visible[id].kind # "observation"
               PROVE  /\ id \in DOMAIN visible' /\ visible'[id].status = "confirmed"
                      /\ \/ OnlyBecomesTradable(visible[id], visible'[id], Len(bars'))
                         \/ profile = "simplified-v1" /\ visible[id].kind = "central_area"
                            /\ OnlyNarrows(visible[id], visible'[id])
    OBVIOUS
  <2> DEFINE X == StructuralItems(profile, bars, processed)
             X2 == StructuralItems(profile, bars', processed')
             e == visible[id]
             T2 == Len(bars')
  <2>1. ComesAfter(profile, X, X2, T2) /\ Shows(visible', X2)
    BY <1>1, PrefixShows, ItemsFollow DEF ReplayInv
  <2>2. e \in X /\ EventId(e) = id
    BY <1>1 DEF ReplayInv, Shows
  <2> HIDE DEF X, X2, T2
  <2>3. Remains(profile, e, X2, T2)
    BY <2>1, <2>2 DEF ComesAfter
  <2>4. PICK e2 \in X2 :
           /\ EventId(e2) = id /\ e2.status = "confirmed"
           /\ \/ OnlyBecomesTradable(e, e2, T2)
              \/ profile = "simplified-v1" /\ e.kind = "central_area" /\ OnlyNarrows(e, e2)
    BY <2>2, <2>3 DEF Remains
  <2>5. id \in DOMAIN visible' /\ visible'[id] = e2
    BY <2>1, <2>4 DEF Shows
  <2> QED
    BY <2>4, <2>5 DEF T2
<1>2. ReplayInv /\ [Next]_vars => [Stays]_vars
  BY <1>1 DEF Next
<1> QED
  BY <1>2, ReplayInvariance, PTL DEF Spec, ConfirmedStays

\* Whatever bars are supplied, an event is seen no later than it becomes tradable.
THEOREM TradableIsSeen == Spec => TradableWhenSeen
<1> DEFINE Seen ==
      \A id \in DOMAIN visible' :
         LET event == visible'[id]
             before == IF id \in DOMAIN history THEN history[id].event.tradable ELSE None
         IN  event.tradable \notin {None, before} =>
                /\ event.tradable = Len(bars')
                /\ event.formed < event.confirmed /\ event.confirmed = event.tradable - 1
<1>1. ASSUME ReplayInv, NEW bar \in Bar, ReplayPrefix(bar) PROVE Seen
  <2> SUFFICES ASSUME NEW id \in DOMAIN visible', visible'[id].tradable # None,
                      visible'[id].tradable
                        # IF id \in DOMAIN history THEN history[id].event.tradable ELSE None
               PROVE  /\ visible'[id].tradable = Len(bars')
                      /\ visible'[id].formed < visible'[id].confirmed
                      /\ visible'[id].confirmed = visible'[id].tradable - 1
    OBVIOUS
  <2> DEFINE X == StructuralItems(profile, bars, processed)
             X2 == StructuralItems(profile, bars', processed')
             e2 == visible'[id]
             T2 == Len(bars')
  <2>1. ComesAfter(profile, X, X2, T2) /\ Shows(visible', X2) /\ Sound(X2)
    BY <1>1, PrefixShows, ItemsFollow DEF ReplayInv
  <2>2. Shows(visible, X)
        /\ \A d \in DOMAIN visible : d \in DOMAIN history /\ history[d].event = visible[d]
    BY <1>1 DEF ReplayInv
  <2>3. e2 \in X2 /\ EventId(e2) = id
    BY <2>1 DEF Shows
  <2> HIDE DEF X, X2, T2
  <2>4. e2.formed < e2.confirmed /\ e2.confirmed = e2.tradable - 1
    BY <2>1, <2>3 DEF Sound
  <2>5. e2.tradable = T2
    <3> SUFFICES ASSUME e2.tradable # T2 PROVE FALSE
      OBVIOUS
    <3>1. WasTradable(e2, X)
      BY <2>1, <2>3 DEF ComesAfter
    <3>2. PICK e \in X : EventId(e) = id /\ e.status = "confirmed" /\ e.tradable = e2.tradable
      BY <2>3, <3>1 DEF WasTradable
    <3>3. id \in DOMAIN history /\ history[id].event = e
      BY <2>2, <3>2 DEF Shows
    <3> QED
      BY <3>2, <3>3
  <2> QED
    BY <2>4, <2>5 DEF T2
<1>2. ReplayInv /\ [Next]_vars => [Seen]_vars
  BY <1>1 DEF Next
<1> QED
  BY <1>2, ReplayInvariance, PTL DEF Spec, TradableWhenSeen
=============================================================================
