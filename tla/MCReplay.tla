------------------------------ MODULE MCReplay ------------------------------
(***************************************************************************)
(* Replays of price walks.  A bar is the latest effective bar moved by a   *)
(* point, or, at most MaxOdd times, by three points, not at all (a tie) or *)
(* widened on both sides.  A walk starts with one of a few openings, so    *)
(* that the bars left to choose reach strokes, areas and signals.          *)
(***************************************************************************)
EXTENDS Replay

CONSTANTS Free, MaxOdd     \* moves to choose, and of these the unusual ones

ASSUME MCBounds == Free \in Nat /\ MaxOdd \in Nat

VARIABLES
    opening,    \* the moves that still have to be made first
    free,       \* the moves to choose that are left
    odd         \* those of the unusual ones

Ranges == {r \in [low : 1 .. 60, high : 1 .. 60] : r.low < r.high}

Closed(range) ==
    [low |-> range.low, high |-> range.high, close |-> (range.low + range.high) \div 2]

MCBar == {Closed(range) : range \in Ranges}

Up == [low |-> 1, high |-> 1]
Down == [low |-> -1, high |-> -1]
Odd == {[low |-> 3, high |-> 3], [low |-> -3, high |-> -3],
        [low |-> 0, high |-> 0], [low |-> -1, high |-> 1]}

Leg(move) == <<move, move, move>>

\* Nothing; two legs and a third; an area that has been left for another one above.
Zigzag == Leg(Down) \o Leg(Up) \o Leg(Down)

Openings == {<<>>, Leg(Up) \o Leg(Down) \o Leg(Up), Zigzag,
             Zigzag \o Leg(Up) \o Leg(Up) \o Leg(Up) \o Leg(Down) \o Leg(Up)}

Moved(bar, move) == Closed([low |-> bar.low + move.low, high |-> bar.high + move.high])

FirstBar == [low |-> 30, high |-> 32, close |-> 31]

MCInit ==
    /\ bars = <<FirstBar>> /\ processed = <<Incoming(FirstBar, 1)>>
    /\ profile \in Profile /\ visible = <<>> /\ history = <<>> /\ refused = FALSE
    /\ opening \in Openings /\ free = Free /\ odd = MaxOdd

Move(move) ==
    \E bar \in {Moved(processed[Len(processed)], move)} \cap Bar : ReplayPrefix(bar)

MCNext ==
    \/ /\ opening # <<>>
       /\ Move(Head(opening)) /\ opening' = Tail(opening) /\ UNCHANGED <<free, odd>>
    \/ /\ opening = <<>> /\ free > 0 /\ free' = free - 1 /\ UNCHANGED opening
       /\ \/ \E move \in {Up, Down} : Move(move) /\ UNCHANGED odd
          \/ odd > 0 /\ odd' = odd - 1 /\ \E move \in Odd : Move(move)

MCSpec == MCInit /\ [][MCNext]_<<vars, opening, free, odd>>
=============================================================================
