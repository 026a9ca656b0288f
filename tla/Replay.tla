------------------------------- MODULE Replay -------------------------------
(***************************************************************************)
(* backtest/replay.py: an analyzer is run anew on every prefix of the bars *)
(* and what it finds becomes events, which keep their identity from one    *)
(* prefix to the next.  A step of this specification is one more prefix.   *)
(***************************************************************************)
EXTENDS SimplifiedChan, StrictChan

CONSTANT Profile    \* the analyzers to replay

ASSUME ProfileType == Profile \subseteq {"simplified-v1", "strict-v1"}

VARIABLES
    profile,    \* the analyzer of this replay
    visible,    \* the events of the latest prefix, by identity
    history,    \* per identity, the latest event, its revision, when it was first seen
    refused     \* two events of one identity and status have been met

vars == <<bars, processed, profile, visible, history, refused>>

Event(kind, reason, subtype, item, price, low, high, status) ==
    [kind |-> kind, reason |-> reason, subtype |-> subtype, formed |-> item.formed,
     confirmed |-> item.confirmed, tradable |-> item.tradable, status |-> status,
     price |-> price, low |-> low, high |-> high]

Settled(kind, reason, subtype, item, price, low, high) ==
    Event(kind, reason, subtype, item, price, low, high, "confirmed")

Elements(sequence) == {sequence[k] : k \in DOMAIN sequence}

\* What simplified-v1 finds in a prefix; a central area and the candidate of one have
\* the same reason.
SimplifiedEvents(supplied, effective) ==
    LET today == Len(supplied)
        strokes == SimplifiedStrokes(effective, today)
    IN  {Event("fractal", "fractal", f.kind, f, f.price, None, None, f.status) :
         f \in SimplifiedFractals(effective, today)}
        \cup {Settled("stroke", "stroke", s.kind, s, None, s.low, s.high) :
              s \in Elements(strokes)}
        \cup {Event("central_area", "central_area", "", a, None, a.low, a.high, a.status) :
              a \in SimplifiedAreas(strokes) \cup SimplifiedCandidates(strokes)}
        \cup {Event("observation", "breakout", "", o, None, None, None, o.status) :
              o \in SimplifiedObservations(supplied, strokes)}

StrictEvents(supplied, effective) ==
    LET today == Len(supplied)
        strokes == StrictStrokes(effective, today)
        Waiting(c) == [formed |-> c.formed, confirmed |-> None, tradable |-> None]
    IN  {Settled("fractal", "fractal", f.kind, f, f.price, None, None) :
         f \in StrictFractals(effective, today)}
        \cup {Settled("stroke", "alternating", s.direction, s, None, s.low, s.high) :
              s \in Elements(strokes)}
        \cup {Settled("central_area", "three_strokes", "", a, None, a.low, a.high) :
              a \in StrictAreas(strokes)}
        \cup {Event("central_area", "two_strokes", "", Waiting(c), None, c.low, c.high,
                    "candidate") :
              c \in StrictCandidates(strokes)}
        \cup {Settled("segment", "three_strokes", "", g, None, g.low, g.high) :
              g \in StrictSegments(strokes)}
        \cup {Event("signal", "breakout", g.direction, g, None, None, None, g.status) :
              g \in StrictSignals(supplied, strokes)}

StructuralItems(which, supplied, effective) ==
    IF which = "strict-v1" THEN StrictEvents(supplied, effective)
    ELSE SimplifiedEvents(supplied, effective)

EventId(event) == <<event.kind, event.formed, event.reason, event.subtype>>

\* Two events that differ must not share identity and status.
Ambiguous(items) ==
    Cardinality({<<EventId(e), e.status>> : e \in items}) # Cardinality(items)

\* Of a candidate and a confirmed event of one identity the confirmed one counts.
CoalesceVisible(items) ==
    LET counting == {e \in items : e.status = "confirmed"}
                    \cup {e \in items : ~\E f \in items : f.status = "confirmed"
                                                         /\ EventId(f) = EventId(e)}
    IN  [id \in {EventId(e) : e \in counting} |-> CHOOSE e \in counting : EventId(e) = id]

\* An event is a revision of the one it replaces if anything of it has changed.
Recorded(id, event, today) ==
    IF id \notin DOMAIN history THEN [event |-> event, revision |-> 0, first |-> today]
    ELSE [history[id] EXCEPT !.event = event,
                             !.revision = @ + IF history[id].event = event THEN 0 ELSE 1]

Record(events, today) ==
    history' = [id \in DOMAIN history \cup DOMAIN events |->
                  IF id \in DOMAIN events THEN Recorded(id, events[id], today)
                  ELSE history[id]]

\* One turn of the loop in replay(): the next prefix.
ReplayPrefix(bar) ==
    /\ ~refused
    /\ Supply(bar)
    /\ \E items \in {StructuralItems(profile, bars', processed')} :
          IF Ambiguous(items)
           THEN refused' = TRUE /\ UNCHANGED <<visible, history>>
           ELSE /\ visible' = CoalesceVisible(items)
                /\ Record(visible', Len(bars'))
                /\ UNCHANGED refused
    /\ UNCHANGED profile

Init ==
    /\ BarsInit
    /\ profile \in Profile
    /\ visible = <<>> /\ history = <<>> /\ refused = FALSE

Next == \E bar \in Bar : ReplayPrefix(bar)

Spec == Init /\ [][Next]_vars
----------------------------------------------------------------------------
\* replay() never has to give up on an identity that stands for two events
\* (the ValueError of _coalesce_visible): what the analyzers find on any one prefix is
\* told apart by kind, date, reason and direction.
IdentityIsUnambiguous == ~refused

\* What of an event later bars may change is only its tradable date, which is set once,
\* to the date of the bar that has just come.
OnlyBecomesTradable(event, later, today) ==
    /\ [later EXCEPT !.tradable = event.tradable] = event
    /\ later.tradable # event.tradable => event.tradable = None /\ later.tradable = today

\* Central areas of simplified-v1 take in later strokes: they get narrower and are
\* confirmed later.
OnlyNarrows(event, later) ==
    /\ later.low >= event.low /\ later.high <= event.high
    /\ later.confirmed >= event.confirmed /\ later.tradable >= event.tradable

\* What is confirmed stays: no later bar removes or rewrites a confirmed fractal or
\* stroke, nor anything that strict-v1 has confirmed; an area of simplified-v1 is
\* narrowed at most.  (Its observation may vanish with a close inside the range.)
ConfirmedStays ==
    [][\A id \in DOMAIN visible :
          LET event == visible[id] IN
          event.status = "confirmed" /\ event.kind # "observation" =>
             /\ id \in DOMAIN visible' /\ visible'[id].status = "confirmed"
             /\ \/ OnlyBecomesTradable(event, visible'[id], Len(bars'))
                \/ profile = "simplified-v1" /\ event.kind = "central_area"
                   /\ OnlyNarrows(event, visible'[id])]_vars

\* No look-ahead: an event that a prefix first shows as tradable, or shows with another
\* tradable date, is tradable on the last date of this prefix.  Hence nobody who acts on
\* tradable events could have had to act before the event was known.
TradableWhenSeen ==
    [][\A id \in DOMAIN visible' :
          LET event == visible'[id]
              before == IF id \in DOMAIN history THEN history[id].event.tradable ELSE None
          IN  event.tradable \notin {None, before} =>
                 /\ event.tradable = Len(bars')
                 /\ event.formed < event.confirmed /\ event.confirmed = event.tradable - 1]_vars
=============================================================================
