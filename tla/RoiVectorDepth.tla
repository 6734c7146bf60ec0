--------------------------- MODULE RoiVectorDepth ---------------------------
(***************************************************************************)
(* ROIVectorMarketDepth (include/hbt/depth/roi_vector_depth.hpp): the same *)
(* interface as HashMapDepth over two arrays that cover a range of ticks.  *)
(* A value of the class is a record with, per side,                        *)
(*                                                                         *)
(*   qty[s]   bid_depth_ / ask_depth_, one cell per tick of the range      *)
(*   best[s]  best_bid_tick_ / best_ask_tick_                              *)
(*                                                                         *)
(* low_bid_tick_ and high_ask_tick_ are written by the class and never     *)
(* read: its scans go to the end of the range.  They are left out.         *)
(***************************************************************************)
EXTENDS Orders, FiniteSetsExt

CONSTANTS RoiLow, RoiHigh    \* roi_lb_ and roi_ub_

ASSUME RoiAssumption == RoiLow \in Ticks /\ RoiHigh \in Ticks /\ RoiLow <= RoiHigh

Roi == RoiLow..RoiHigh

RoiDepth == [qty : [Sides -> [Roi -> Nat]],
             best : [Sides -> {INVALID_MIN, INVALID_MAX} \cup Roi]]

RoiEmpty ==
    [qty |-> [s \in Sides |-> [t \in Roi |-> 0]],
     best |-> [s \in Sides |-> NoBest(s)]]

RoiTop(s, S) == IF S = {} THEN NoBest(s) ELSE IF s = "Buy" THEN Max(S) ELSE Min(S)

\* scan_bid_below / scan_ask_above: the next cell above zero behind `start`.
RoiScan(s, levels, start) == RoiTop(s, {t \in Roi : Better(s, start, t) /\ levels[t] > 0})

\* Mutants of RoiUpdate: the opposite best price is not pushed behind a new best;
\* prices outside the range are not ignored.
RoiUpdate_NoPush(r, s, tick, quantity) ==
    LET levels == [r.qty[s] EXCEPT ![tick] = quantity]
        improves == Lots(quantity) > 0 /\ Better(s, tick, r.best[s])
        exhausts == Lots(quantity) = 0 /\ tick = r.best[s]
    IN  IF tick \notin Roi THEN r
        ELSE [qty |-> [r.qty EXCEPT ![s] = levels],
              best |-> [r.best EXCEPT
                          ![s] = IF improves THEN tick
                                 ELSE IF exhausts THEN RoiScan(s, levels, tick) ELSE @]]

RoiUpdate_NoRange(r, s, tick, quantity) ==
    LET improves == Lots(quantity) > 0 /\ Better(s, tick, r.best[s])
        levels == [r.qty[s] EXCEPT ![tick] = quantity]
        exhausts == Lots(quantity) = 0 /\ tick = r.best[s]
    IN  [qty |-> [r.qty EXCEPT ![s] = levels],
         best |-> [r.best EXCEPT
                     ![s] = IF improves THEN tick
                            ELSE IF exhausts THEN RoiScan(s, levels, tick) ELSE @]]

\* update_bid_depth and update_ask_depth.  The cell takes the quantity as it is,
\* a quantity below half a lot too.
RoiUpdate(r, s, tick, quantity) ==
    LET o == Opposite(s)
        levels == [r.qty[s] EXCEPT ![tick] = quantity]
        improves == Lots(quantity) > 0 /\ Better(s, tick, r.best[s])
        exhausts == Lots(quantity) = 0 /\ tick = r.best[s]
    IN  IF tick \notin Roi THEN r
        ELSE [qty |-> [r.qty EXCEPT ![s] = levels],
              best |-> [r.best EXCEPT
                          ![s] = IF improves THEN tick
                                 ELSE IF exhausts THEN RoiScan(s, levels, tick) ELSE @,
                          ![o] = IF improves /\ Crosses(s, tick, @)
                                 THEN RoiScan(o, r.qty[o], tick) ELSE @]]

\* Mutant of RoiClearUpto: the cell at the cut stays.
RoiClearUpto_KeepsCut(r, s, cut) ==
    LET levels == [t \in Roi |-> IF t = cut \/ Better(s, cut, t) THEN r.qty[s][t] ELSE 0]
    IN  [qty |-> [r.qty EXCEPT ![s] = levels],
         best |-> [r.best EXCEPT ![s] = RoiTop(s, {t \in Roi : levels[t] > 0})]]

\* clear_depth(side, price): the cells at the cut and in front of it; the best
\* price is computed anew from all that is left.
RoiClearUpto(r, s, cut) ==
    LET levels == [t \in Roi |-> IF Better(s, cut, t) THEN r.qty[s][t] ELSE 0]
    IN  [qty |-> [r.qty EXCEPT ![s] = levels],
         best |-> [r.best EXCEPT ![s] = RoiTop(s, {t \in Roi : levels[t] > 0})]]

\* clear_depth(side, non-finite price).
RoiClearSide(r, s) ==
    [qty |-> [r.qty EXCEPT ![s] = [t \in Roi |-> 0]],
     best |-> [r.best EXCEPT ![s] = NoBest(s)]]

\* The order of a snapshot's events: bids from the highest down, then asks from the
\* lowest up; no event for a tick without quantity.
SnapshotSide(n) == IF n <= NTicks THEN "Buy" ELSE "Sell"
SnapshotTick(n) == IF n <= NTicks THEN NTicks + 1 - n ELSE n - NTicks
SnapshotQty(levels, n) ==
    LET s == SnapshotSide(n)
        t == SnapshotTick(n)
    IN  IF t \in DOMAIN levels[s] THEN levels[s][t] ELSE 0

\* do_apply_snapshot: an update for each event in turn, from the empty book.
RoiApplySnapshot(levels) ==
    LET book[n \in 0..2 * NTicks] ==
            IF n = 0 THEN RoiEmpty
            ELSE IF SnapshotQty(levels, n) = 0 THEN book[n - 1]
            ELSE RoiUpdate(book[n - 1], SnapshotSide(n), SnapshotTick(n),
                           SnapshotQty(levels, n))
    IN  book[2 * NTicks]

\* Mutant of RoiSnapshot: the best level is left out.
RoiSnapshot_BehindBest(r) ==
    [s \in Sides |-> [t \in Roi |-> IF Better(s, r.best[s], t) THEN r.qty[s][t] ELSE 0]]

\* do_snapshot: every cell above zero, also one that was crossed.
RoiSnapshot(r) == r.qty

=============================================================================
