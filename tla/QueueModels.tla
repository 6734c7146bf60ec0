----------------------------- MODULE QueueModels -----------------------------
(***************************************************************************)
(* The queue models (include/hbt/models/queue.hpp): what each estimates of *)
(* the quantity in front of a resting order from the trades at its price   *)
(* and the changes of its level.  RiskAdverseQueueModel keeps one number;  *)
(* ProbQueueModel also the trades since the last change of the level, and  *)
(* splits a cancelled quantity by a probability, a function of the         *)
(* quantities in front and behind.                                         *)
(*                                                                         *)
(* A position is a record with front, front_q_qty; cum, cum_trade_qty; and *)
(* nan, TRUE when front_q_qty is not a number (front is then 0).           *)
(***************************************************************************)
EXTENDS Integers

CONSTANT LotSize     \* the units in a lot

ASSUME LotAssumption == LotSize \in Nat \ {0}

Smaller(a, b) == IF a < b THEN a ELSE b
Larger(a, b) == IF a > b THEN a ELSE b

\* std::round of a quantity above zero over the lot size.
Lots(q) == (2 * q + LotSize) \div (2 * LotSize)

\* is_filled before it resets the position: whole lots, when trades have gone
\* through more than what was in front.  The conversion of NaN is undefined in
\* C++; the builds give no positive integer.
Executable(front) == IF front < 0 THEN Lots(-front) * LotSize ELSE 0

-----------------------------------------------------------------------------
(* RiskAdverseQueueModel.                                                   *)

RiskTrade(front, qty) == front - qty

\* Mutant of RiskDepth: whatever leaves the level was in front.
RiskDepth_AllInFront(front, prev, new) == Smaller(front - Larger(0, prev - new), new)

RiskDepth(front, prev, new) == Smaller(front, new)

-----------------------------------------------------------------------------
(* ProbQueueModel.                                                          *)

NewPosition(qty) == [front |-> qty, cum |-> 0, nan |-> FALSE]

NotANumber == [front |-> 0, cum |-> 0, nan |-> TRUE]

\* Mutant of ProbTrade: the trade is not remembered for the depth event.
ProbTrade_Forgets(pos, qty) ==
    IF pos.nan THEN pos ELSE [pos EXCEPT !.front = @ - qty]

\* trade.  What NaN is counted with does not matter any more.
ProbTrade(pos, qty) ==
    IF pos.nan THEN pos ELSE [pos EXCEPT !.front = @ - qty, !.cum = @ + qty]

\* How much of a cancelled quantity was behind the order, p times chg, for all the
\* functors: everything when nothing is in front, nothing when nothing is behind,
\* and else any part, by the functor and its exponent.  Powers and logarithms of
\* a negative quantity give anything; bound: up to chg too little or too much.
Behind(front, back, chg) ==
    IF front < 0 \/ back < 0 THEN (-chg)..(2 * chg)
    ELSE IF front = 0 THEN {chg}
    ELSE IF back = 0 THEN {0}
    ELSE 0..chg

\* 0/0 when the level was empty, and a power or logarithm of a negative quantity.
MayBeNaN(front, back) == front < 0 \/ back < 0 \/ (front = 0 /\ back = 0)
IsNaN(front, back) == front = 0 /\ back = 0

Estimate(front, back, chg, behind) ==
    front - (chg - behind) + Smaller(back - behind, 0)

\* Mutants of ProbDepth: a level that grows is treated like one that shrinks; the
\* estimate may exceed the level.
ProbDepth_AnyChange(pos, prev, new) ==
    LET chg == (prev - new) - pos.cum
        back == prev - pos.front
        at(front) == [front |-> Smaller(front, new), cum |-> 0, nan |-> FALSE]
    IN  IF pos.nan \/ IsNaN(pos.front, back) THEN {NotANumber}
        ELSE {at(Estimate(pos.front, back, chg, behind)) :
                 behind \in Behind(pos.front, back, chg)}

ProbDepth_NoCap(pos, prev, new) ==
    LET chg == (prev - new) - pos.cum
        at(front) == [front |-> front, cum |-> 0, nan |-> FALSE]
    IN  IF pos.nan THEN {NotANumber}
        ELSE IF chg < 0 THEN {at(pos.front)}
        ELSE {at(Estimate(pos.front, prev - pos.front, chg, behind)) :
                 behind \in Behind(pos.front, prev - pos.front, chg)}

\* depth: the positions it may leave.
ProbDepth(pos, prev, new) ==
    LET chg == (prev - new) - pos.cum
        back == prev - pos.front
        at(front) == [front |-> Smaller(front, new), cum |-> 0, nan |-> FALSE]
    IN  IF pos.nan THEN {NotANumber}
        ELSE IF chg < 0 THEN {at(pos.front)}
        ELSE (IF MayBeNaN(pos.front, back) THEN {NotANumber} ELSE {})
             \cup (IF IsNaN(pos.front, back) THEN {}
                   ELSE {at(Estimate(pos.front, back, chg, behind)) :
                            behind \in Behind(pos.front, back, chg)})

=============================================================================
