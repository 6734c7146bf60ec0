---------------------------- MODULE DepthReplay ----------------------------
(***************************************************************************)
(* Both market depths fed with the same events, the way the feed handlers  *)
(* of the processors call them (include/hbt/backtest/local.hpp, process).  *)
(* Each step is one event of the feed.                                     *)
(*                                                                         *)
(* The feed of an exchange that nothing was dropped from never reports a   *)
(* level that meets the other side's best price.  Here it may: `clean`     *)
(* tells whether it has, since the book was last empty or replaced.  No    *)
(* event depends on it, only what is promised of the book after the event. *)
(***************************************************************************)
EXTENDS HashMapDepth, RoiVectorDepth

CONSTANTS
    FeedQtys,        \* quantities of depth updates, besides 0
    SnapshotQtys,    \* quantities of the levels of a snapshot, a lot at least
    EventKinds       \* subset of {"depth", "cut", "clear", "snapshot"}

ASSUME ReplayAssumption ==
    /\ FeedQtys \subseteq Nat
    /\ SnapshotQtys \subseteq {q \in Nat : Lots(q) > 0}

VARIABLES
    event,       \* the last event of the feed
    hash,        \* a HashMapMarketDepth
    roi,         \* an ROIVectorMarketDepth
    clean        \* history: no level has met the other side's best price

replayVars == <<event, hash, roi, clean>>

\* The levels of a snapshot do not cross.
SnapshotLevels ==
    {levels \in [Sides -> [Ticks -> SnapshotQtys \cup {0}]] :
        \A b, a \in Ticks :
            levels["Buy"][b] > 0 /\ levels["Sell"][a] > 0 => b < a}

Events ==
    [kind : {"depth"}, side : Sides, tick : Ticks, qty : FeedQtys \cup {0}]
    \cup [kind : {"cut"}, side : Sides, tick : Ticks]
    \cup [kind : {"clear"}, sides : {{"Buy"}, {"Sell"}, Sides}]
    \cup [kind : {"snapshot"}, levels : SnapshotLevels]

Init ==
    /\ event = [kind |-> "none"]
    /\ hash = EmptyDepth
    /\ roi = RoiEmpty
    /\ clean = TRUE

Arrives(e) == e.kind \in EventKinds /\ event' = e

\* update_bid_depth or update_ask_depth.
UpdatesLevel ==
    \E s \in Sides, t \in Ticks, q \in FeedQtys \cup {0} :
        /\ Arrives([kind |-> "depth", side |-> s, tick |-> t, qty |-> q])
        /\ hash' = UpdateDepth(hash, s, t, q)
        /\ roi' = RoiUpdate(roi, s, t, q)
        /\ clean' = (clean /\ (Lots(q) = 0 \/ ~Crosses(s, t, hash.best[Opposite(s)])))

\* clear_depth with a price.
CutsSide ==
    \E s \in Sides, t \in Ticks :
        /\ Arrives([kind |-> "cut", side |-> s, tick |-> t])
        /\ hash' = ClearUpto(hash, s, t)
        /\ roi' = RoiClearUpto(roi, s, t)
        /\ UNCHANGED clean

\* clear_depth without a price, of one side or of both.
ClearsSide ==
    \E s \in Sides :
        /\ Arrives([kind |-> "clear", sides |-> {s}])
        /\ hash' = ClearSide(hash, s)
        /\ roi' = RoiClearSide(roi, s)
        /\ UNCHANGED clean

ClearsBook ==
    /\ Arrives([kind |-> "clear", sides |-> Sides])
    /\ hash' = EmptyDepth
    /\ roi' = RoiEmpty
    /\ clean' = TRUE

\* apply_snapshot.
TakesSnapshot ==
    \E levels \in SnapshotLevels :
        /\ Arrives([kind |-> "snapshot", levels |-> levels])
        /\ hash' = ApplySnapshot(levels)
        /\ roi' = RoiApplySnapshot(levels)
        /\ clean' = TRUE

Next == UpdatesLevel \/ CutsSide \/ ClearsSide \/ ClearsBook \/ TakesSnapshot

Spec == Init /\ [][Next]_replayVars

-----------------------------------------------------------------------------
(* Properties.                                                              *)

\* Types of both books.
TypeOK == hash \in Depth /\ roi \in RoiDepth

\* A clear up to a price of a book whose levels the feed has crossed.
CutsCrossed == event'.kind = "cut" /\ ~clean

\* Whatever the feed reports, an update never brings the best prices of the
\* hash-map book together, also when it crosses because events were dropped: a new
\* best price pushes the other side's away. Of the clears only one up to a price
\* of a crossed book may, and the book of a clean feed is never crossed.
StaysUncrossed ==
    [][ (clean' \/ hash.best["Buy"] < hash.best["Sell"]) /\ ~CutsCrossed
           => hash'.best["Buy"] < hash'.best["Sell"] ]_replayVars

\* The same for the ROI-vector book (for feeds without quantities that round to
\* no lot).
RoiStaysUncrossed ==
    [][ (clean' \/ roi.best["Buy"] < roi.best["Sell"]) /\ ~CutsCrossed
           => roi'.best["Buy"] < roi'.best["Sell"] ]_replayVars

\* A book rebuilt from its own snapshot has the same best prices with the same
\* quantities ("SnapshotRoundTrip"), also after levels were crossed.
SnapshotRoundTrip ==
    LET again == ApplySnapshot(Snapshot(hash))
    IN  /\ again.best = hash.best
        /\ \A s \in Sides : hash.best[s] \in Ticks =>
              hash.qty[s][hash.best[s]] > 0
              /\ again.qty[s][hash.best[s]] = hash.qty[s][hash.best[s]]

\* An ROI-vector book rebuilt from its own snapshot is the same book while the
\* feed is clean.
RoiSnapshotRoundTrip == clean => RoiApplySnapshot(RoiSnapshot(roi)) = roi

\* A level in front of the best price of the hash-map book, which its clear up to
\* a price does not reach and that of the ROI-vector book does.
OutOfReach(s, t) == CutsCrossed /\ event'.side = s /\ Better(s, t, hash.best[s])

\* Within the range of the ROI-vector book the two classes hold the same levels
\* while the feed is clean, and their best prices are the best of them. No event
\* makes them differ about a level of which they agreed, crossed or not, but a
\* clear up to a price of a level out of reach (for feeds without quantities that
\* round to no lot).
BooksAgree ==
    [][ \A s \in Sides :
          /\ \A t \in Roi :
                clean' \/ roi.qty[s][t] = hash.qty[s][t]
                   => roi'.qty[s][t] = hash'.qty[s][t] \/ OutOfReach(s, t)
          /\ clean' => roi'.best[s] = RoiTop(s, {t \in Roi : hash'.qty[s][t] > 0}) ]_replayVars

\* The hash-map book is the book the feed describes, and while the feed is clean
\* its best prices are the best of the levels: what its bounded scans skip never
\* holds a level, unless the feed has crossed.
Book == INSTANCE L2Book WITH FeedEvents <- Events, levels <- hash.qty, best <- hash.best
IsL2Book == Book!Spec

\* The view under which runs tell states apart: no action reads the last event.
Books == <<hash, roi, clean>>

\* What the header of the class and the push in update_bid_depth lead one to expect
\* of a feed with dropped events: the best prices of a book never meet.
NotCrossed == hash.best["Buy"] < hash.best["Sell"]

=============================================================================
