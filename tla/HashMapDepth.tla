---------------------------- MODULE HashMapDepth ----------------------------
(***************************************************************************)
(* HashMapMarketDepth (include/hbt/depth/hashmap_depth.hpp): the L2 book   *)
(* that a processor keeps.  A value of the class is a record with, per     *)
(* side,                                                                   *)
(*                                                                         *)
(*   qty[s]   bid_depth_ / ask_depth_, 0 where the map has no entry        *)
(*   best[s]  best_bid_tick_ / best_ask_tick_                              *)
(*   far[s]   low_bid_tick_ / high_ask_tick_, the far end of the scans     *)
(*                                                                         *)
(* The operators below are the member functions, from one value of the     *)
(* book to the next; Exchange applies them to the exchange's book.         *)
(***************************************************************************)
EXTENDS Orders, FiniteSetsExt

Depth == [qty : [Sides -> [Ticks -> Nat]],
          best : [Sides -> INVALID_MIN..INVALID_MAX],
          far : [Sides -> INVALID_MIN..INVALID_MAX]]

\* A freshly constructed book, also what clearing both sides leaves.
EmptyDepth ==
    [qty |-> [s \in Sides |-> [t \in Ticks |-> 0]],
     best |-> [s \in Sides |-> NoBest(s)],
     far |-> [s \in Sides |-> NoBest(Opposite(s))]]

BestOf(s, S) == IF s = "Buy" THEN Max(S) ELSE Min(S)

\* depth_below / depth_above: the best level strictly behind `start` and not
\* beyond `end` that has quantity.
NextLevel(s, levels, start, end) ==
    LET found == {t \in Ticks : /\ Better(s, start, t)
                                /\ ~Better(s, end, t)
                                /\ levels[t] > 0}
    IN  IF found = {} THEN NoBest(s) ELSE BestOf(s, found)

\* A quantity that rounds to zero lots deletes the level.  Only deleting the
\* best level moves the best price, by a scan towards the far end.
RemoveLevel(d, s, tick) ==
    LET levels == [d.qty[s] EXCEPT ![tick] = 0]
        best == IF tick = d.best[s]
                THEN NextLevel(s, levels, d.best[s], d.far[s])
                ELSE d.best[s]
        exhausted == tick = d.best[s] /\ best = NoBest(s)
    IN  [qty |-> [d.qty EXCEPT ![s] = levels],
         best |-> [d.best EXCEPT ![s] = best],
         far |-> [d.far EXCEPT ![s] = IF exhausted THEN NoBest(Opposite(s)) ELSE @]]

\* Mutants of SetLevel: the far end does not move out to a new level; an opposite
\* best price that is met, not passed, is left where it is.
SetLevel_KeepsFar(d, s, tick, quantity) ==
    LET o == Opposite(s)
        improves == Better(s, tick, d.best[s])
        opposite == IF improves /\ Crosses(s, tick, d.best[o])
                    THEN NextLevel(o, d.qty[o], tick, d.far[o])
                    ELSE d.best[o]
    IN  [qty |-> [d.qty EXCEPT ![s][tick] = quantity],
         best |-> [d.best EXCEPT ![s] = IF improves THEN tick ELSE @,
                                 ![o] = opposite],
         far |-> [d.far EXCEPT ![s] = IF improves /\ @ = NoBest(o) THEN tick ELSE @]]

SetLevel_LeavesTouch(d, s, tick, quantity) ==
    LET o == Opposite(s)
        improves == Better(s, tick, d.best[s])
        opposite == IF improves /\ Better(s, tick, d.best[o])
                    THEN NextLevel(o, d.qty[o], tick, d.far[o])
                    ELSE d.best[o]
    IN  [qty |-> [d.qty EXCEPT ![s][tick] = quantity],
         best |-> [d.best EXCEPT ![s] = IF improves THEN tick ELSE @,
                                 ![o] = opposite],
         far |-> [d.far EXCEPT ![s] = IF Better(s, @, tick) THEN tick ELSE @]]

\* Any other quantity is stored.  A new best price that meets the opposite best
\* pushes the opposite best behind it; the crossed levels stay in the map.
SetLevel(d, s, tick, quantity) ==
    LET o == Opposite(s)
        improves == Better(s, tick, d.best[s])
        opposite == IF improves /\ Crosses(s, tick, d.best[o])
                    THEN NextLevel(o, d.qty[o], tick, d.far[o])
                    ELSE d.best[o]
    IN  [qty |-> [d.qty EXCEPT ![s][tick] = quantity],
         best |-> [d.best EXCEPT ![s] = IF improves THEN tick ELSE @,
                                 ![o] = opposite],
         far |-> [d.far EXCEPT ![s] = IF Better(s, @, tick) THEN tick ELSE @]]

UpdateDepth(d, s, tick, quantity) ==
    IF Lots(quantity) > 0 THEN SetLevel(d, s, tick, quantity)
                          ELSE RemoveLevel(d, s, tick)

\* clear_depth(side, price): the levels from the best down to the cut go, and
\* the best price becomes the next level behind the cut.
ClearUpto(d, s, cut) ==
    LET levels == [t \in Ticks |->
                     IF ~Better(s, cut, t) /\ ~Better(s, t, d.best[s])
                     THEN 0 ELSE d.qty[s][t]]
        best == NextLevel(s, levels, cut, d.far[s])
    IN  [qty |-> [d.qty EXCEPT ![s] = levels],
         best |-> [d.best EXCEPT ![s] = best],
         far |-> [d.far EXCEPT ![s] = IF best = NoBest(s)
                                      THEN NoBest(Opposite(s)) ELSE @]]

\* clear_depth(side, non-finite price).
ClearSide(d, s) ==
    [qty |-> [d.qty EXCEPT ![s] = [t \in Ticks |-> 0]],
     best |-> [d.best EXCEPT ![s] = NoBest(s)],
     far |-> [d.far EXCEPT ![s] = NoBest(Opposite(s))]]

\* do_apply_snapshot: the book is built from the levels of the snapshot, given
\* here as a function from sides and ticks to quantities, 0 where there is none.
ApplySnapshot(levels) ==
    LET listed(s) == {t \in Ticks : levels[s][t] > 0}
    IN  [qty |-> levels,
         best |-> [s \in Sides |-> IF listed(s) = {} THEN NoBest(s)
                                   ELSE BestOf(s, listed(s))],
         far |-> [s \in Sides |-> IF listed(s) = {} THEN NoBest(Opposite(s))
                                  ELSE BestOf(Opposite(s), listed(s))]]

\* Mutant of Snapshot: every level of the map is reported.
Snapshot_Everything(d) == d.qty

\* do_snapshot: the levels from the best price on; what was crossed is left out.
Snapshot(d) ==
    [s \in Sides |-> [t \in Ticks |-> IF Better(s, t, d.best[s]) THEN 0
                                      ELSE d.qty[s][t]]]

=============================================================================
