----------------------------- MODULE QueueReplay -----------------------------
(***************************************************************************)
(* One order of the strategy in the queue of its price level, the feed of  *)
(* that level, and what both queue models make of it, the way the partial  *)
(* fill exchange calls them (include/hbt/backtest/exchange.hpp).           *)
(*                                                                         *)
(* The market that was recorded knows what is in front of the place the    *)
(* order would have had and what is behind.  Its feed reports each trade,  *)
(* and now and then the quantity of the level; who cancelled is not told.  *)
(***************************************************************************)
EXTENDS QueueModels

CONSTANTS
    OrderQty,       \* the quantity of the order
    Sizes,          \* quantities of trades, cancellations and other orders
    MaxLevel,       \* bound: the quantity of the level
    MaxTraded,      \* bound: the quantity traded between two depth events
    MaxCancelled    \* bound: the quantity cancelled in front and behind, each

\* Quantities of the market are whole lots.
ASSUME QueueAssumption ==
    /\ OrderQty \in Nat \ {0}
    /\ Sizes \subseteq Nat \ {0}
    /\ \A n \in Sizes : n = Lots(n) * LotSize
    /\ MaxLevel \in Nat /\ MaxTraded \in Nat /\ MaxCancelled \in Nat

VARIABLES
    ahead, behind,     \* the market: in front of the order's place, and behind
    earned,            \* the market: what trades left for that place
    level,             \* the level's quantity in the depth of the exchange
    risk,              \* the order under RiskAdverseQueueModel: position and leaves_qty
    prob,              \* the order under ProbQueueModel
    gone,              \* history: what was cancelled in front, and behind
    unclear,           \* history: the level was cleared, or reported empty twice
    overtaken          \* history: a depth event has found or left front_q_qty below zero

marketVars == <<ahead, behind, earned>>
vars == <<marketVars, level, risk, prob, gone, unclear, overtaken>>

\* new_order, in both models: what the level holds is in front.  Bound: the order
\* enters when the reported level is that of the market, not between a trade and
\* the report of its level, when new_order reads a quantity that is no longer there.
Init ==
    /\ level \in {0} \cup Sizes
    /\ ahead = level /\ behind = 0 /\ earned = 0
    /\ risk = [front |-> level, leaves |-> OrderQty]
    /\ prob = [pos |-> NewPosition(level), leaves |-> OrderQty]
    /\ gone = [front |-> 0, back |-> 0]
    /\ unclear = FALSE /\ overtaken = FALSE

\* is_filled and the fill: the executable quantity, up to what the order has left,
\* and a position that was executed from starts again at zero.
Filled(front, leaves) == Smaller(Executable(front), leaves)
Reset(front) == IF Executable(front) > 0 THEN 0 ELSE front

\* A trade at the price: queue model, then fills.  An order without a rest is gone.
Trades(n) ==
    LET riskFront == RiskTrade(risk.front, n)
        probPos == ProbTrade(prob.pos, n)
    IN  /\ n <= ahead + behind
        /\ prob.pos.cum + n <= MaxTraded
        /\ ahead' = Larger(0, ahead - n)
        /\ behind' = behind - Larger(0, n - ahead)
        /\ earned' = Smaller(OrderQty, earned + Larger(0, n - ahead))
        /\ risk' = IF risk.leaves = 0 THEN risk
                   ELSE [front |-> Reset(riskFront),
                         leaves |-> risk.leaves - Filled(riskFront, risk.leaves)]
        /\ prob' = IF prob.leaves = 0 THEN prob
                   ELSE [pos |-> [probPos EXCEPT !.front = Reset(@)],
                         leaves |-> prob.leaves - Filled(probPos.front, prob.leaves)]
        /\ UNCHANGED <<level, gone, unclear, overtaken>>

\* The market: others cancel in front or behind, or join the queue.
Cancels(a, b) ==
    /\ a <= ahead /\ b <= behind
    /\ gone.front + a <= MaxCancelled /\ gone.back + b <= MaxCancelled
    /\ ahead' = ahead - a
    /\ behind' = behind - b
    /\ gone' = [front |-> gone.front + a, back |-> gone.back + b]
    /\ UNCHANGED <<earned, level, risk, prob, unclear, overtaken>>

Joins(n) ==
    /\ ahead + behind + n <= MaxLevel
    /\ behind' = behind + n
    /\ UNCHANGED <<ahead, earned, level, risk, prob, gone, unclear, overtaken>>

\* A depth event: update_bid_depth or update_ask_depth, then on_bid_qty_chg or
\* on_ask_qty_chg with the quantities before and after.
Reports ==
    LET new == ahead + behind
    IN  /\ level' = new
        /\ risk' = IF risk.leaves = 0 THEN risk
                   ELSE [risk EXCEPT !.front = RiskDepth(@, level, new)]
        /\ IF prob.leaves = 0 THEN UNCHANGED prob
           ELSE \E pos \in ProbDepth(prob.pos, level, new) : prob' = [prob EXCEPT !.pos = pos]
        /\ unclear' = (unclear \/ (level = 0 /\ new = 0))
        /\ overtaken' = (overtaken \/ prob.pos.front < 0 \/ prob'.pos.front < 0)
        /\ UNCHANGED <<marketVars, gone>>

\* A clear event changes the depth; no order is told.
Clears ==
    /\ level' = 0
    /\ unclear' = TRUE
    /\ UNCHANGED <<marketVars, risk, prob, gone, overtaken>>

Next ==
    \/ \E n \in Sizes : Trades(n) \/ Cancels(n, 0) \/ Cancels(0, n) \/ Joins(n)
    \/ Reports \/ Clears

Spec == Init /\ [][Next]_vars

-----------------------------------------------------------------------------
(* Properties.                                                              *)

\* RiskAdverseQueueModel is conservative: it never places the order in front of
\* where it would have been, nor fills it before the market would have, whatever
\* was cancelled and however late, once the order is in the queue, the level is
\* reported or cleared.
Conservative ==
    /\ risk.leaves > 0 => ahead <= risk.front
    /\ OrderQty - risk.leaves <= earned

\* ProbQueueModel takes no trade twice, once as a trade and once as a smaller
\* level: it is wrong by no more than was cancelled, in front or behind.  Less than
\* half a lot below zero is not executed; then nothing is in front.
WrongByCancels ==
    prob.leaves > 0 /\ ~prob.pos.nan /\ ~overtaken =>
        /\ ahead - gone.back <= Larger(0, prob.pos.front)
        /\ prob.pos.front <= ahead + gone.front

\* ProbQueueModel fills no later than the conservative model, and is never behind it.
FillsNoLater ==
    ~prob.pos.nan /\ ~overtaken =>
        /\ prob.leaves <= risk.leaves
        /\ prob.leaves > 0 => prob.pos.front <= risk.front

\* The estimate becomes NaN, and the order can never be filled by its queue again,
\* only after cancellations, a clear or a report of nothing for nothing.
StaysANumber == prob.pos.nan => gone.front + gone.back > 0 \/ unclear

=============================================================================
