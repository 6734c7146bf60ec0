------------------------------- MODULE L2Book -------------------------------
(***************************************************************************)
(* What a market depth promises its users, in terms of the feed it is      *)
(* given: the levels of a side are those last reported and not cleared     *)
(* since, where a clear up to a price takes the levels from the best price *)
(* to there; best prices that are apart stay apart, unless a clear up to a *)
(* price finds levels that the feed has crossed; and as long as it has not *)
(* crossed them, as it does when events were dropped, the best price of a  *)
(* side is the best of its levels.                                         *)
(***************************************************************************)
EXTENDS Orders, FiniteSetsExt

CONSTANT FeedEvents      \* the events of the feed, see After

VARIABLES
    event,       \* the last event of the feed
    levels,      \* [Sides -> [Ticks -> Nat]], 0 where there is no level
    best,        \* [Sides -> INVALID_MIN..INVALID_MAX]
    clean        \* the feed has not crossed its levels since the book was empty

bookVars == <<event, levels, best, clean>>

NoEvent == [kind |-> "none"]
NoLevels == [s \in Sides |-> [t \in Ticks |-> 0]]

Touch(s, side) ==
    LET offered == {t \in Ticks : side[t] > 0}
    IN  IF offered = {} THEN NoBest(s)
        ELSE IF s = "Buy" THEN Max(offered) ELSE Min(offered)

\* The levels after an event: a quantity below half a lot is no level, and levels
\* in front of the best price, which were crossed, outlast a clear up to a price.
After(e) ==
    IF e.kind = "depth"
    THEN [levels EXCEPT ![e.side][e.tick] = IF Lots(e.qty) = 0 THEN 0 ELSE e.qty]
    ELSE IF e.kind = "cut"
    THEN [levels EXCEPT ![e.side] =
             [t \in Ticks |-> IF Better(e.side, e.tick, t) \/ Better(e.side, t, best[e.side])
                              THEN @[t] ELSE 0]]
    ELSE IF e.kind = "clear"
    THEN [s \in Sides |-> IF s \in e.sides THEN NoLevels[s] ELSE levels[s]]
    ELSE e.levels

\* A level is reported that meets a level of the other side.
Crossing(e) ==
    /\ e.kind = "depth"
    /\ Lots(e.qty) > 0
    /\ \E t \in Ticks :
          levels[Opposite(e.side)][t] > 0 /\ Crosses(e.side, e.tick, t)

Restarts(e) == e.kind = "snapshot" \/ (e.kind = "clear" /\ e.sides = Sides)

\* A clear up to a price of a book whose levels the feed has crossed.
CutsCrossed == event'.kind = "cut" /\ ~clean

Init ==
    /\ event = NoEvent
    /\ levels = NoLevels
    /\ best = [s \in Sides |-> NoBest(s)]
    /\ clean = TRUE

Next ==
    /\ event' \in FeedEvents
    /\ levels' = After(event')
    /\ clean' = (Restarts(event') \/ (clean /\ ~Crossing(event')))
    /\ best' \in [Sides -> INVALID_MIN..INVALID_MAX]
    /\ (clean' \/ best["Buy"] < best["Sell"]) /\ ~CutsCrossed
           => best'["Buy"] < best'["Sell"]
    /\ event'.kind = "cut" => Better(event'.side, event'.tick, best'[event'.side])
    /\ clean' => best' = [s \in Sides |-> Touch(s, levels'[s])]

Spec == Init /\ [][Next]_bookVars

=============================================================================
