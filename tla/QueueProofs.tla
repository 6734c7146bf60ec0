---------------------------- MODULE QueueProofs ----------------------------
(***************************************************************************)
(* RiskAdverseQueueModel is conservative, and ProbQueueModel is wrong by   *)
(* no more than was cancelled and not behind the other, for every lot      *)
(* size, order, feed and market in whole lots.                             *)
(*                                                                         *)
(* For the conservative model the invariant adds that the quantity in      *)
(* front is a number of whole lots and never below zero: a trade that goes *)
(* further executes a whole lot at least, and the position starts again at *)
(* zero. With parts of a lot it would not, since is_filled rounds to the   *)
(* nearest lot, and what is rounded up is executed without having been     *)
(* traded.                                                                 *)
(*                                                                         *)
(* The estimate of ProbQueueModel has no such form: a depth event may      *)
(* leave any part of a lot. What bounds it is the decrease the next depth  *)
(* event would count. Some of that was traded, and was counted with the    *)
(* trade; the rest was cancelled, in front or behind (Counted). A depth    *)
(* event therefore moves the estimate by no more than what it may have     *)
(* missed, and never back.                                                 *)
(***************************************************************************)
EXTENDS QueueReplay, TLAPS

Whole(n) == n = Lots(n) * LotSize

\* A number of lots is rounded to itself.
LEMMA LotsOfWhole ==
    ASSUME NEW k \in Nat
    PROVE  Lots(k * LotSize) = k
<1>1. LotSize \in Nat \ {0}
  BY LotAssumption
<1> DEFINE d == 2 * LotSize
<1>2. d \in Nat \ {0} /\ LotSize < d
  BY <1>1
<1>3. k * LotSize \in Nat /\ 2 * (k * LotSize) = k * d
  BY <1>1
<1> HIDE DEF d
<1>4. (k * d + LotSize) \div d = k
  BY <1>1, <1>2
<1>5. Lots(k * LotSize) = (2 * (k * LotSize) + LotSize) \div d
  BY DEF Lots, d
<1> QED BY <1>3, <1>4, <1>5

\* Rounding gives a natural number.
LEMMA LotsType ==
    ASSUME NEW n \in Nat
    PROVE  Lots(n) \in Nat
  BY LotAssumption DEF Lots

\* Whole lots add up to whole lots, and may be taken from more.
LEMMA WholeFacts ==
    ASSUME NEW a \in Nat, NEW b \in Nat, Whole(a), Whole(b)
    PROVE  Whole(a + b) /\ (b <= a => Whole(a - b))
<1>1. LotSize \in Nat \ {0}
  BY LotAssumption
<1>2. PICK i \in Nat : a = i * LotSize
  BY LotsType DEF Whole
<1>3. PICK j \in Nat : b = j * LotSize
  BY LotsType DEF Whole
<1>4. Whole(a + b)
  <2>1. a + b = (i + j) * LotSize /\ i + j \in Nat
    BY <1>1, <1>2, <1>3
  <2> QED BY <2>1, LotsOfWhole DEF Whole
<1>5. ASSUME b <= a PROVE Whole(a - b)
  <2>1. j <= i
    BY <1>1, <1>2, <1>3, <1>5
  <2>2. a - b = (i - j) * LotSize /\ i - j \in Nat
    BY <1>1, <1>2, <1>3, <2>1
  <2> QED BY <2>2, LotsOfWhole DEF Whole
<1> QED BY <1>4, <1>5

-----------------------------------------------------------------------------
(* RiskAdverseQueueModel.                                                   *)

Inv ==
    /\ ahead \in Nat /\ Whole(ahead)
    /\ behind \in Nat /\ Whole(behind)
    /\ earned \in 0..OrderQty
    /\ risk \in [front : Nat, leaves : 0..OrderQty]
    /\ Whole(risk.front)
    /\ Conservative

LEMMA SizesWhole ==
    ASSUME NEW n \in Sizes
    PROVE  n \in Nat /\ n > 0 /\ Whole(n)
  BY QueueAssumption DEF Whole

LEMMA ZeroWhole == Whole(0)
  BY LotsOfWhole, LotAssumption DEF Whole

LEMMA InitHolds == Init => Inv
<1> SUFFICES ASSUME Init PROVE Inv
  OBVIOUS
<1>1. level \in Nat /\ Whole(level)
  BY SizesWhole, ZeroWhole DEF Init
<1>2. OrderQty \in Nat
  BY QueueAssumption
<1> QED BY <1>1, <1>2, ZeroWhole DEF Init, Inv, Conservative

\* What a trade executes is what went past the quantity in front.
LEMMA ExecutesWhole ==
    ASSUME NEW front \in Nat, NEW n \in Nat, Whole(front), Whole(n)
    PROVE  /\ n <= front => Executable(front - n) = 0 /\ Whole(front - n)
           /\ front < n => Executable(front - n) = n - front
<1>1. ASSUME n <= front PROVE Executable(front - n) = 0 /\ Whole(front - n)
  BY <1>1, WholeFacts DEF Executable
<1>2. ASSUME front < n PROVE Executable(front - n) = n - front
  <2>1. Whole(n - front) /\ n - front \in Nat
    BY <1>2, WholeFacts
  <2>2. -(front - n) = n - front /\ front - n < 0
    BY <1>2
  <2>3. Executable(front - n) = Lots(n - front) * LotSize
    BY <2>2 DEF Executable
  <2> QED BY <2>1, <2>3 DEF Whole
<1> QED BY <1>1, <1>2

LEMMA TradesStep ==
    ASSUME Inv, NEW n \in Sizes, Trades(n)
    PROVE  Inv'
<1>1. n \in Nat /\ n > 0 /\ Whole(n)
  BY SizesWhole
<1>2. /\ ahead \in Nat /\ Whole(ahead) /\ behind \in Nat /\ Whole(behind)
      /\ n <= ahead + behind /\ OrderQty \in Nat
  BY QueueAssumption DEF Inv, Trades
<1>3. /\ ahead' = Larger(0, ahead - n)
      /\ behind' = behind - Larger(0, n - ahead)
      /\ earned' = Smaller(OrderQty, earned + Larger(0, n - ahead))
  BY DEF Trades
<1>4. ahead' \in Nat /\ Whole(ahead') /\ behind' \in Nat /\ Whole(behind')
  <2>1. CASE n <= ahead
    <3>1. ahead' = ahead - n /\ behind' = behind
      BY <1>1, <1>2, <1>3, <2>1 DEF Larger
    <3> QED BY <1>1, <1>2, <2>1, <3>1, WholeFacts
  <2>2. CASE ahead < n
    <3>1. ahead' = 0 /\ behind' = behind - (n - ahead)
      BY <1>1, <1>2, <1>3, <2>2 DEF Larger
    <3>2. n - ahead \in Nat /\ Whole(n - ahead) /\ n - ahead <= behind
      BY <1>1, <1>2, <2>2, WholeFacts
    <3> DEFINE through == n - ahead
    <3> HIDE DEF through
    <3>3. through \in Nat /\ Whole(through) /\ through <= behind
      BY <3>2 DEF through
    <3>4. behind - through \in Nat /\ Whole(behind - through)
      <4>1. behind \in Nat /\ Whole(behind)
        BY <1>2
      <4>2. Whole(behind - through)
        BY <4>1, <3>3, WholeFacts
      <4> QED BY <4>1, <4>2, <3>3
    <3>5. behind' = behind - through
      BY <3>1 DEF through
    <3> QED BY <3>1, <3>4, <3>5, ZeroWhole
  <2> QED BY <1>1, <1>2, <2>1, <2>2
<1>5. earned \in 0..OrderQty /\ earned' \in 0..OrderQty /\ earned <= earned'
  BY <1>1, <1>2, <1>3 DEF Inv, Smaller, Larger
<1>6. /\ risk \in [front : Nat, leaves : 0..OrderQty] /\ Whole(risk.front)
      /\ OrderQty - risk.leaves <= earned
  BY DEF Inv, Conservative
<1>7. CASE risk.leaves = 0
  <2>1. risk' = risk
    BY <1>7 DEF Trades
  <2> QED BY <1>2, <1>4, <1>5, <1>6, <1>7, <2>1 DEF Inv, Conservative
<1>8. CASE risk.leaves > 0
  <2> DEFINE left == risk.front - n
  <2>1. risk' = [front |-> Reset(left), leaves |-> risk.leaves - Filled(left, risk.leaves)]
    BY <1>8 DEF Trades, RiskTrade
  <2>2. ahead <= risk.front /\ risk.front \in Nat
    BY <1>6, <1>8 DEF Inv, Conservative
  <2>3. CASE n <= risk.front
    <3>1. Executable(left) = 0 /\ Whole(left) /\ left \in Nat
      BY <1>1, <1>6, <2>2, <2>3, ExecutesWhole
    <3>2. risk' = [front |-> left, leaves |-> risk.leaves]
      BY <1>6, <1>8, <2>1, <3>1 DEF Reset, Filled, Smaller
    <3>3. ahead' <= left
      BY <1>1, <1>2, <1>3, <2>2, <2>3 DEF Larger
    <3> HIDE DEF left
    <3> QED BY <1>2, <1>4, <1>5, <1>6, <3>1, <3>2, <3>3 DEF Inv, Conservative
  <2>4. CASE risk.front < n
    <3>1. Executable(left) = n - risk.front /\ n - risk.front > 0
      BY <1>1, <1>6, <2>2, <2>4, ExecutesWhole
    <3> DEFINE filled == Smaller(n - risk.front, risk.leaves)
    <3>2. risk' = [front |-> 0, leaves |-> risk.leaves - filled]
      BY <2>1, <3>1 DEF Reset, Filled
    <3>3. ahead' = 0
      BY <1>1, <1>2, <1>3, <2>2, <2>4 DEF Larger
    <3>4. filled \in 0..risk.leaves /\ filled <= n - risk.front
      BY <1>1, <1>6, <1>8, <2>2, <2>4 DEF Smaller
    <3>5. earned' = Smaller(OrderQty, earned + (n - ahead))
      BY <1>1, <1>2, <1>3, <2>2, <2>4 DEF Larger
    <3> HIDE DEF filled
    <3>6. OrderQty - (risk.leaves - filled) <= earned'
      BY <1>1, <1>2, <1>5, <1>6, <2>2, <3>4, <3>5 DEF Smaller
    <3>7. risk.leaves - filled \in 0..OrderQty
      BY <1>2, <1>6, <3>4
    <3> QED BY <1>2, <1>4, <1>5, <3>2, <3>3, <3>6, <3>7, ZeroWhole DEF Inv, Conservative
  <2> QED BY <1>1, <2>2, <2>3, <2>4
<1> QED BY <1>2, <1>6, <1>7, <1>8

LEMMA CancelsStep ==
    ASSUME Inv, NEW a \in Nat, NEW b \in Nat, Whole(a), Whole(b), Cancels(a, b)
    PROVE  Inv'
<1>1. /\ ahead' = ahead - a /\ behind' = behind - b /\ a <= ahead /\ b <= behind
      /\ risk' = risk /\ earned' = earned
  BY DEF Cancels
<1>2. ahead' \in Nat /\ Whole(ahead') /\ behind' \in Nat /\ Whole(behind') /\ ahead' <= ahead
  BY <1>1, WholeFacts DEF Inv
<1> QED BY <1>1, <1>2 DEF Inv, Conservative

LEMMA JoinsStep ==
    ASSUME Inv, NEW n \in Sizes, Joins(n)
    PROVE  Inv'
<1>1. behind' = behind + n /\ ahead' = ahead /\ risk' = risk /\ earned' = earned
  BY DEF Joins
<1>2. behind' \in Nat /\ Whole(behind')
  <2>1. n \in Nat /\ Whole(n) /\ behind \in Nat /\ Whole(behind)
    BY SizesWhole DEF Inv
  <2>2. behind + n \in Nat /\ Whole(behind + n)
    BY <2>1, WholeFacts
  <2> QED BY <1>1, <2>2
<1> QED BY <1>1, <1>2 DEF Inv, Conservative

LEMMA ReportsStep ==
    ASSUME Inv, Reports
    PROVE  Inv'
<1>1. /\ ahead' = ahead /\ behind' = behind /\ earned' = earned
      /\ risk' = IF risk.leaves = 0 THEN risk
                 ELSE [risk EXCEPT !.front = Smaller(@, ahead + behind)]
  BY DEF Reports, marketVars, RiskDepth
<1>2. /\ ahead + behind \in Nat /\ Whole(ahead + behind) /\ ahead <= ahead + behind
  BY WholeFacts DEF Inv
<1>3. CASE risk.leaves = 0
  BY <1>1, <1>3 DEF Inv, Conservative
<1>4. CASE risk.leaves # 0
  <2>1. /\ risk \in [front : Nat, leaves : 0..OrderQty] /\ Whole(risk.front)
        /\ ahead <= risk.front /\ OrderQty - risk.leaves <= earned
    BY <1>4, QueueAssumption DEF Inv, Conservative
  <2>2. PICK front \in Nat : front = Smaller(risk.front, ahead + behind)
    BY <1>2, <2>1 DEF Smaller
  <2>3. Whole(front) /\ ahead <= front
    BY <1>2, <2>1, <2>2 DEF Smaller
  <2>4. risk' = [front |-> front, leaves |-> risk.leaves]
    BY <1>1, <1>4, <2>1, <2>2
  <2> QED BY <1>1, <2>1, <2>3, <2>4 DEF Inv, Conservative
<1> QED BY <1>3, <1>4

LEMMA NextHolds == Inv /\ [Next]_vars => Inv'
<1> SUFFICES ASSUME Inv, [Next]_vars PROVE Inv'
  OBVIOUS
<1>1. ASSUME NEW n \in Sizes, Trades(n) PROVE Inv'
  BY <1>1, TradesStep
<1>2. ASSUME NEW n \in Sizes, Cancels(n, 0) \/ Cancels(0, n) PROVE Inv'
  BY <1>2, CancelsStep, SizesWhole, ZeroWhole
<1>3. ASSUME NEW n \in Sizes, Joins(n) PROVE Inv'
  BY <1>3, JoinsStep
<1>4. ASSUME Reports PROVE Inv'
  BY <1>4, ReportsStep
<1>5. ASSUME Clears PROVE Inv'
  BY <1>5 DEF Clears, Inv, Conservative, marketVars
<1>6. ASSUME UNCHANGED vars PROVE Inv'
  BY <1>6 DEF vars, Inv, Conservative, marketVars
<1> QED BY <1>1, <1>2, <1>3, <1>4, <1>5, <1>6 DEF Next

-----------------------------------------------------------------------------
(* ProbQueueModel.                                                          *)

\* The order is at work, and its estimate a number that no depth event found or left
\* below zero.
Estimated == prob.leaves > 0 /\ ~prob.pos.nan /\ ~overtaken

Positions == [front : Int, cum : Nat, nan : BOOLEAN]
ProbTyped ==
    /\ prob \in [pos : Positions, leaves : 0..OrderQty]
    /\ level \in Nat
    /\ gone \in [front : Nat, back : Nat]
    /\ unclear \in BOOLEAN /\ overtaken \in BOOLEAN

\* The estimate is capped by the level, but a clear does not tell it.
Capped == Estimated => prob.pos.front <= level \/ level = 0

\* What the next depth event would have leave the level, if all of it was in front,
\* leaves no less in front than what is there, up to what was cancelled behind.
Counted ==
    Estimated /\ ahead > 0 /\ prob.pos.front > 0 =>
        level - behind - prob.pos.cum - gone.back <= prob.pos.front

\* Until something is cancelled or cleared the estimate is right, and the level has
\* lost no more than was traded.
Exact ==
    prob.leaves > 0 /\ gone.front + gone.back = 0 /\ ~unclear =>
        /\ ~prob.pos.nan
        /\ prob.pos.front = ahead
        /\ ahead <= level
        /\ level - (ahead + behind) <= prob.pos.cum

ProbInv ==
    /\ ProbTyped /\ Capped /\ Counted /\ Exact
    /\ WrongByCancels /\ FillsNoLater /\ StaysANumber

LEMMA ProbInit == Init => ProbInv
<1> SUFFICES ASSUME Init PROVE ProbInv
  OBVIOUS
<1>1. level \in Nat /\ OrderQty \in Nat
  BY SizesWhole, QueueAssumption DEF Init
<1>2. /\ prob = [pos |-> [front |-> level, cum |-> 0, nan |-> FALSE], leaves |-> OrderQty]
      /\ risk = [front |-> level, leaves |-> OrderQty]
      /\ ahead = level /\ behind = 0 /\ gone = [front |-> 0, back |-> 0]
      /\ unclear = FALSE /\ overtaken = FALSE
  BY DEF Init, NewPosition
<1>3. ProbTyped
  <2>1. [front |-> level, cum |-> 0, nan |-> FALSE] \in Positions
    BY <1>1 DEF Positions
  <2>2. OrderQty \in 0..OrderQty
    BY <1>1
  <2> DEFINE pos == [front |-> level, cum |-> 0, nan |-> FALSE]
  <2> HIDE DEF pos
  <2>3. prob \in [pos : Positions, leaves : 0..OrderQty]
    BY <1>2, <2>1, <2>2 DEF pos
  <2>4. gone \in [front : Nat, back : Nat]
    BY <1>2
  <2> QED BY <1>1, <1>2, <2>3, <2>4 DEF ProbTyped
<1>4. Capped /\ Counted /\ Exact
  BY <1>1, <1>2 DEF Capped, Counted, Exact
<1>5. WrongByCancels /\ FillsNoLater /\ StaysANumber
  BY <1>1, <1>2 DEF WrongByCancels, FillsNoLater, StaysANumber, Larger
<1> QED BY <1>3, <1>4, <1>5 DEF ProbInv

-----------------------------------------------------------------------------
(* Trades.                                                                  *)

LEMMA LotsMonotone ==
    ASSUME NEW a \in Nat, NEW b \in Nat, a <= b
    PROVE  Lots(a) * LotSize <= Lots(b) * LotSize
<1>1. LotSize \in Nat \ {0}
  BY LotAssumption
<1> DEFINE d == 2 * LotSize
<1>2. d \in Nat \ {0}
  BY <1>1
<1> DEFINE x == 2 * a + LotSize
           y == 2 * b + LotSize
<1>3. x \in Nat /\ y \in Nat /\ x <= y
  BY <1>1
<1>4. Lots(a) = x \div d /\ Lots(b) = y \div d
  BY DEF Lots
<1> HIDE DEF d, x, y
<1>5. x \div d <= y \div d
  BY <1>2, <1>3
<1>6. Lots(a) \in Nat /\ Lots(b) \in Nat /\ Lots(a) <= Lots(b)
  BY <1>4, <1>5, LotsType
<1> QED BY <1>1, <1>6

\* What is_filled makes of an estimate.
LEMMA ResetFacts ==
    ASSUME NEW front \in Int
    PROVE  /\ Executable(front) \in Nat
           /\ Reset(front) \in Int
           /\ front >= 0 => Executable(front) = 0 /\ Reset(front) = front
           /\ front < 0 => Reset(front) <= 0
           /\ Executable(front) > 0 => Reset(front) = 0
<1>1. LotSize \in Nat
  BY LotAssumption
<1>2. front < 0 => Lots(-front) \in Nat
  BY LotsType
<1>3. Executable(front) \in Nat
  BY <1>1, <1>2 DEF Executable
<1>4. front >= 0 => Executable(front) = 0
  BY DEF Executable
<1> QED BY <1>3, <1>4 DEF Reset

LEMMA ExecutableMonotone ==
    ASSUME NEW a \in Int, NEW b \in Int, a <= b
    PROVE  Executable(b) <= Executable(a)
<1>1. CASE b >= 0
  BY <1>1, ResetFacts
<1>2. CASE b < 0
  <2>1. -b \in Nat /\ -a \in Nat /\ -b <= -a /\ a < 0
    BY <1>2
  <2>2. Lots(-b) * LotSize <= Lots(-a) * LotSize
    BY <2>1, LotsMonotone
  <2> QED BY <1>2, <2>1, <2>2 DEF Executable
<1> QED BY <1>1, <1>2

\* The model whose estimate is further in front fills as much as the other, and is not
\* behind it after the fill.
LEMMA FillsTogether ==
    ASSUME NEW n \in Nat, NEW f \in Int, NEW r \in Nat, f <= r, Whole(n), Whole(r),
           NEW mine \in Nat, NEW others \in Nat, mine <= others
    PROVE  /\ mine - Filled(f - n, mine) <= others - Filled(r - n, others)
           /\ Reset(f - n) <= Reset(r - n)
<1>1. f - n \in Int /\ r - n \in Int /\ f - n <= r - n
  OBVIOUS
<1>2. /\ Executable(f - n) \in Nat /\ Executable(r - n) \in Nat
      /\ Executable(r - n) <= Executable(f - n)
  BY <1>1, ResetFacts, ExecutableMonotone
<1>3. mine - Filled(f - n, mine) <= others - Filled(r - n, others)
  BY <1>2 DEF Filled, Smaller
<1>4. CASE n <= r
  <2>1. Reset(r - n) = r - n /\ r - n >= 0
    BY <1>1, <1>4, ResetFacts
  <2>2. Reset(f - n) = f - n \/ Reset(f - n) <= 0
    BY <1>1, ResetFacts
  <2>3. Reset(f - n) \in Int
    BY <1>1, ResetFacts
  <2> QED BY <1>1, <1>3, <2>1, <2>2, <2>3
<1>5. CASE r < n
  <2>1. Executable(r - n) = n - r /\ n - r > 0
    BY <1>5, ExecutesWhole
  <2>2. Executable(f - n) > 0
    BY <1>2, <2>1
  <2>3. Reset(r - n) = 0 /\ Reset(f - n) = 0
    BY <1>1, <1>2, <2>1, <2>2, ResetFacts
  <2> QED BY <1>3, <2>3
<1> QED BY <1>4, <1>5

LEMMA ProbTypes ==
    ASSUME ProbTyped
    PROVE  /\ prob.pos.front \in Int /\ prob.pos.cum \in Nat /\ prob.pos.nan \in BOOLEAN
           /\ prob.leaves \in 0..OrderQty /\ prob.leaves \in Nat
           /\ level \in Nat /\ gone.front \in Nat /\ gone.back \in Nat
  BY QueueAssumption DEF ProbTyped, Positions

\* The market's side of a trade.
LEMMA TradesMarket ==
    ASSUME Inv, NEW n \in Sizes, Trades(n)
    PROVE  /\ ahead' \in Nat /\ behind' \in Nat /\ risk'.leaves \in Nat
           /\ n <= ahead => ahead' = ahead - n /\ behind' = behind
           /\ ahead < n => ahead' = 0 /\ behind' = behind - (n - ahead)
           /\ UNCHANGED <<level, gone, unclear, overtaken>>
<1>1. n \in Nat /\ n > 0
  BY SizesWhole
<1>2. ahead \in Nat /\ behind \in Nat
  BY DEF Inv
<1>3. Inv' /\ OrderQty \in Nat
  BY TradesStep, QueueAssumption
<1>4. ahead' \in Nat /\ behind' \in Nat /\ risk'.leaves \in Nat
  BY <1>3 DEF Inv
<1>5. /\ n <= ahead => ahead' = ahead - n /\ behind' = behind
      /\ ahead < n => ahead' = 0 /\ behind' = behind - (n - ahead)
  BY <1>1, <1>2 DEF Trades, Larger
<1> QED BY <1>4, <1>5 DEF Trades

\* What a trade makes of an estimate that is a number.
LEMMA TradesEstimate ==
    ASSUME ProbTyped, NEW n \in Sizes, Trades(n), prob.leaves > 0, ~prob.pos.nan
    PROVE  /\ prob'.pos.front = Reset(prob.pos.front - n)
           /\ prob'.pos.cum = prob.pos.cum + n
           /\ prob'.pos.nan = FALSE
           /\ prob'.leaves = prob.leaves - Filled(prob.pos.front - n, prob.leaves)
           /\ ProbTyped'
<1> DEFINE f == prob.pos.front - n
           p == prob.pos
           traded == ProbTrade(prob.pos, n)
           pos == [traded EXCEPT !.front = Reset(@)]
           left == prob.leaves - Filled(traded.front, prob.leaves)
<1>1. n \in Nat /\ f \in Int /\ prob.pos.cum + n \in Nat
  BY ProbTypes, SizesWhole
<1>2. p \in Positions /\ p.nan = FALSE
  BY DEF ProbTyped, Positions
<1>3. prob' = [pos |-> pos, leaves |-> left]
  BY ProbTypes DEF Trades
<1>4. traded = [p EXCEPT !.front = @ - n, !.cum = @ + n]
  BY Zenon DEF ProbTrade
<1>5. traded \in Positions /\ traded.front = f /\ traded.cum = prob.pos.cum + n /\ traded.nan = FALSE
  <2> HIDE DEF p, traded
  <2>1. p.front - n \in Int /\ p.cum + n \in Nat
    BY <1>1 DEF p
  <2> QED BY <1>2, <1>4, <2>1 DEF p, Positions
<1> HIDE DEF traded
<1>6. Reset(f) \in Int /\ Executable(f) \in Nat
  BY <1>1, ResetFacts
<1>7. pos \in Positions /\ pos.front = Reset(f) /\ pos.cum = prob.pos.cum + n /\ pos.nan = FALSE
  BY <1>5, <1>6 DEF Positions
<1>8. left = prob.leaves - Filled(f, prob.leaves) /\ left \in 0..OrderQty
  BY <1>5, <1>6, ProbTypes, QueueAssumption DEF Filled, Smaller
<1> HIDE DEF pos, left
<1>9. prob' \in [pos : Positions, leaves : 0..OrderQty]
  BY <1>3, <1>7, <1>8
<1>10. UNCHANGED <<level, gone, unclear, overtaken>>
  BY DEF Trades
<1>11. ProbTyped'
  BY <1>9, <1>10 DEF ProbTyped
<1> QED BY <1>3, <1>7, <1>8, <1>11

LEMMA ProbTradesStep ==
    ASSUME Inv, ProbInv, NEW n \in Sizes, Trades(n)
    PROVE  ProbInv'
<1>1. n \in Nat /\ n > 0 /\ Whole(n)
  BY SizesWhole
<1>2. /\ ahead' \in Nat /\ behind' \in Nat /\ risk'.leaves \in Nat
      /\ n <= ahead => ahead' = ahead - n /\ behind' = behind
      /\ ahead < n => ahead' = 0 /\ behind' = behind - (n - ahead)
      /\ UNCHANGED <<level, gone, unclear, overtaken>>
  BY TradesMarket
<1>3. /\ prob.pos.front \in Int /\ prob.pos.cum \in Nat /\ prob.pos.nan \in BOOLEAN
      /\ prob.leaves \in Nat /\ level \in Nat /\ gone.front \in Nat /\ gone.back \in Nat
      /\ ahead \in Nat /\ Whole(ahead) /\ behind \in Nat /\ n <= ahead + behind
      /\ risk.front \in Nat /\ risk.leaves \in Nat /\ Whole(risk.front)
  BY ProbTypes, QueueAssumption DEF ProbInv, Inv, Trades
<1>4. ProbTyped /\ Exact /\ StaysANumber
  BY DEF ProbInv
<1>5. CASE prob.leaves = 0
  <2>1. prob' = prob
    BY <1>5 DEF Trades
  <2>2. ProbTyped' /\ Exact' /\ StaysANumber'
    BY <1>2, <1>4, <1>5, <2>1 DEF ProbTyped, Exact, StaysANumber
  <2>3. Capped' /\ Counted' /\ WrongByCancels'
    BY <1>5, <2>1 DEF Capped, Counted, WrongByCancels, Estimated
  <2>4. FillsNoLater'
    BY <1>2, <1>5, <2>1 DEF FillsNoLater
  <2> QED BY <2>2, <2>3, <2>4 DEF ProbInv
<1>6. CASE prob.leaves > 0 /\ prob.pos.nan
  <2> DEFINE pos == [prob.pos EXCEPT !.front = Reset(@)]
             left == prob.leaves - Filled(prob.pos.front, prob.leaves)
  <2>1. prob' = [pos |-> pos, leaves |-> left]
    BY <1>6 DEF Trades, ProbTrade
  <2>2. Reset(prob.pos.front) \in Int /\ Executable(prob.pos.front) \in Nat
    BY <1>3, ResetFacts
  <2>3. left \in 0..OrderQty
    BY <1>3, <1>4, <2>2, QueueAssumption DEF ProbTyped, Filled, Smaller
  <2>4. pos \in Positions /\ pos.nan = prob.pos.nan
    BY <1>4, <2>2 DEF ProbTyped, Positions
  <2>5. ProbTyped' /\ prob'.pos.nan = TRUE
    <3>1. prob'.pos.nan = TRUE
      BY <1>3, <1>6, <2>1, <2>4
    <3>2. pos \in Positions
      BY <2>4
    <3> HIDE DEF pos, left
    <3>3. prob' \in [pos : Positions, leaves : 0..OrderQty]
      BY <2>1, <2>3, <3>2
    <3> QED BY <1>2, <1>4, <3>1, <3>3 DEF ProbTyped
  <2>6. Capped' /\ Counted' /\ WrongByCancels' /\ FillsNoLater'
    BY <2>5 DEF Capped, Counted, WrongByCancels, FillsNoLater, Estimated
  <2>7. Exact' /\ StaysANumber'
    BY <1>2, <1>4, <1>6 DEF Exact, StaysANumber
  <2> QED BY <2>5, <2>6, <2>7 DEF ProbInv
<1>7. CASE prob.leaves > 0 /\ ~prob.pos.nan
  <2> DEFINE f == prob.pos.front - n
  <2>1. /\ prob'.pos.front = Reset(f) /\ prob'.pos.cum = prob.pos.cum + n
        /\ prob'.pos.nan = FALSE /\ prob'.leaves = prob.leaves - Filled(f, prob.leaves)
        /\ ProbTyped'
    BY <1>4, <1>7, TradesEstimate
  <2>2. /\ f \in Int /\ Reset(f) \in Int
        /\ f >= 0 => Reset(f) = f
        /\ f < 0 => Reset(f) <= 0
    BY <1>1, <1>3, ResetFacts
  <2>3. StaysANumber'
    BY <2>1 DEF StaysANumber
  <2>4. Exact'
    <3> SUFFICES ASSUME gone.front + gone.back = 0, ~unclear PROVE Exact'
      BY <1>2 DEF Exact
    <3>1. prob.pos.front = ahead /\ ahead <= level /\ level - (ahead + behind) <= prob.pos.cum
      BY <1>4, <1>7 DEF Exact
    <3>2. Reset(f) = ahead'
      <4>1. CASE n <= ahead
        BY <1>1, <1>2, <1>3, <2>2, <3>1, <4>1
      <4>2. CASE ahead < n
        <5>1. Executable(ahead - n) = n - ahead /\ n - ahead > 0
          BY <1>1, <1>3, <4>2, ExecutesWhole
        <5>2. Reset(ahead - n) = 0
          BY <1>1, <1>3, <5>1, ResetFacts
        <5> QED BY <1>2, <3>1, <4>2, <5>2
      <4> QED BY <1>1, <1>3, <4>1, <4>2
    <3>3. ahead' <= level /\ level - (ahead' + behind') <= prob.pos.cum + n
      BY <1>1, <1>2, <1>3, <3>1
    <3> QED BY <1>2, <2>1, <3>2, <3>3 DEF Exact
  <2>5. CASE overtaken
    BY <1>2, <2>1, <2>3, <2>4, <2>5 DEF ProbInv, Capped, Counted, WrongByCancels, FillsNoLater, Estimated
  <2>6. CASE ~overtaken
    <3>1. Estimated
      BY <1>7, <2>6 DEF Estimated
    <3>2. /\ prob.pos.front <= level \/ level = 0
          /\ ahead > 0 /\ prob.pos.front > 0 =>
                level - behind - prob.pos.cum - gone.back <= prob.pos.front
      BY <3>1 DEF ProbInv, Capped, Counted
    <3>3. /\ ahead - gone.back <= Larger(0, prob.pos.front)
          /\ prob.pos.front <= ahead + gone.front
      BY <3>1 DEF ProbInv, WrongByCancels, Estimated
    <3>4. prob.leaves <= risk.leaves /\ prob.pos.front <= risk.front
      BY <3>1 DEF ProbInv, FillsNoLater, Estimated
    <3> HIDE DEF f
    <3>5. f = prob.pos.front - n
      BY DEF f
    <3>6. Capped'
      BY <1>1, <1>2, <1>3, <2>1, <2>2, <3>2, <3>5 DEF Capped
    <3>7. Counted'
      BY <1>1, <1>2, <1>3, <2>1, <2>2, <3>2, <3>5 DEF Counted
    <3>8. WrongByCancels'
      <4>1. ahead' - gone.back <= Larger(0, Reset(f))
        BY <1>1, <1>2, <1>3, <2>2, <3>3, <3>5 DEF Larger
      <4>2. Reset(f) <= ahead' + gone.front
        BY <1>1, <1>2, <1>3, <2>2, <3>3, <3>5
      <4> QED BY <1>2, <2>1, <4>1, <4>2 DEF WrongByCancels
    <3>9. FillsNoLater'
      <4>1. risk' = [front |-> Reset(risk.front - n),
                     leaves |-> risk.leaves - Filled(risk.front - n, risk.leaves)]
        BY <1>3, <1>7, <3>4 DEF Trades, RiskTrade
      <4>2. /\ prob.leaves - Filled(f, prob.leaves)
                  <= risk.leaves - Filled(risk.front - n, risk.leaves)
            /\ Reset(f) <= Reset(risk.front - n)
        BY <1>1, <1>3, <3>4, FillsTogether DEF f
      <4> QED BY <2>1, <4>1, <4>2 DEF FillsNoLater
    <3> QED BY <2>1, <2>3, <2>4, <3>6, <3>7, <3>8, <3>9 DEF ProbInv
  <2> QED BY <2>5, <2>6
<1> QED BY <1>3, <1>5, <1>6, <1>7

LEMMA ProbCancelsStep ==
    ASSUME Inv, ProbInv, NEW a \in Nat, NEW b \in Nat, Cancels(a, b)
    PROVE  ProbInv'
<1>1. /\ ahead' = ahead - a /\ behind' = behind - b /\ a <= ahead /\ b <= behind
      /\ gone' = [front |-> gone.front + a, back |-> gone.back + b]
      /\ UNCHANGED <<level, risk, prob, unclear, overtaken>>
  BY DEF Cancels
<1>2. gone'.front = gone.front + a /\ gone'.back = gone.back + b
  BY <1>1
<1>3. /\ prob.pos.front \in Int /\ prob.pos.cum \in Nat
      /\ level \in Nat /\ gone.front \in Nat /\ gone.back \in Nat
      /\ ahead \in Nat /\ behind \in Nat
  BY ProbTypes DEF ProbInv, Inv
<1>4. ProbTyped'
  <2>1. gone' \in [front : Nat, back : Nat]
    BY <1>1, <1>3
  <2> QED BY <1>1, <2>1 DEF ProbInv, ProbTyped
<1>5. Capped' /\ FillsNoLater'
  BY <1>1 DEF ProbInv, Capped, FillsNoLater, Estimated
<1>6. Counted'
  <2> SUFFICES ASSUME Estimated, ahead' > 0, prob.pos.front > 0
               PROVE  level - behind' - prob.pos.cum - gone'.back <= prob.pos.front
    BY <1>1 DEF Counted, Estimated
  <2>1. level - behind - prob.pos.cum - gone.back <= prob.pos.front
    BY <1>1, <1>3 DEF ProbInv, Counted
  <2> QED BY <1>1, <1>2, <1>3, <2>1
<1>7. WrongByCancels'
  <2> SUFFICES ASSUME prob.leaves > 0, ~prob.pos.nan, ~overtaken
               PROVE  /\ ahead' - gone'.back <= Larger(0, prob.pos.front)
                      /\ prob.pos.front <= ahead' + gone'.front
    BY <1>1 DEF WrongByCancels
  <2>1. /\ ahead - gone.back <= Larger(0, prob.pos.front)
        /\ prob.pos.front <= ahead + gone.front
    BY DEF ProbInv, WrongByCancels
  <2> QED BY <1>1, <1>2, <1>3, <2>1 DEF Larger
<1>8. Exact' /\ StaysANumber'
  <2>1. StaysANumber'
    BY <1>1, <1>2, <1>3 DEF ProbInv, StaysANumber
  <2>2. CASE gone'.front + gone'.back # 0
    BY <2>1, <2>2 DEF Exact
  <2>3. CASE gone'.front + gone'.back = 0
    <3>1. a = 0 /\ b = 0 /\ gone.front + gone.back = 0
      BY <1>2, <1>3, <2>3
    <3>2. ahead' = ahead /\ behind' = behind
      BY <1>1, <1>3, <3>1
    <3> QED BY <1>1, <2>1, <3>1, <3>2 DEF ProbInv, Exact
  <2> QED BY <2>2, <2>3
<1> QED BY <1>4, <1>5, <1>6, <1>7, <1>8 DEF ProbInv

LEMMA ProbJoinsStep ==
    ASSUME Inv, ProbInv, NEW n \in Sizes, Joins(n)
    PROVE  ProbInv'
<1>1. /\ behind' = behind + n /\ n \in Nat
      /\ UNCHANGED <<ahead, level, risk, prob, gone, unclear, overtaken>>
  BY SizesWhole DEF Joins
<1>2. /\ prob.pos.front \in Int /\ prob.pos.cum \in Nat
      /\ level \in Nat /\ gone.back \in Nat /\ ahead \in Nat /\ behind \in Nat
  BY ProbTypes DEF ProbInv, Inv
<1>3. ProbTyped' /\ Capped' /\ FillsNoLater' /\ WrongByCancels' /\ StaysANumber'
  BY <1>1 DEF ProbInv, ProbTyped, Capped, FillsNoLater, WrongByCancels, StaysANumber, Estimated
<1>4. Counted'
  <2> SUFFICES ASSUME Estimated, ahead > 0, prob.pos.front > 0
               PROVE  level - behind' - prob.pos.cum - gone.back <= prob.pos.front
    BY <1>1 DEF Counted, Estimated
  <2>1. level - behind - prob.pos.cum - gone.back <= prob.pos.front
    BY DEF ProbInv, Counted
  <2> QED BY <1>1, <1>2, <2>1
<1>5. Exact'
  <2> SUFFICES ASSUME prob.leaves > 0, gone.front + gone.back = 0, ~unclear
               PROVE  /\ ~prob.pos.nan /\ prob.pos.front = ahead /\ ahead <= level
                      /\ level - (ahead + behind') <= prob.pos.cum
    BY <1>1 DEF Exact
  <2>1. /\ ~prob.pos.nan /\ prob.pos.front = ahead /\ ahead <= level
        /\ level - (ahead + behind) <= prob.pos.cum
    BY DEF ProbInv, Exact
  <2> QED BY <1>1, <1>2, <2>1
<1> QED BY <1>3, <1>4, <1>5 DEF ProbInv

LEMMA ProbClearsStep ==
    ASSUME Inv, ProbInv, Clears
    PROVE  ProbInv'
<1>1. /\ level' = 0 /\ unclear' = TRUE
      /\ UNCHANGED <<ahead, behind, risk, prob, gone, overtaken>>
  BY DEF Clears, marketVars
<1>2. /\ prob.pos.front \in Int /\ prob.pos.cum \in Nat
      /\ gone.back \in Nat /\ behind \in Nat
  BY ProbTypes DEF ProbInv, Inv
<1>3. ProbTyped' /\ Capped' /\ FillsNoLater' /\ WrongByCancels' /\ StaysANumber' /\ Exact'
  BY <1>1 DEF ProbInv, ProbTyped, Capped, FillsNoLater, WrongByCancels, StaysANumber, Exact, Estimated
<1>4. Counted'
  BY <1>1, <1>2 DEF Counted
<1> QED BY <1>3, <1>4 DEF ProbInv

-----------------------------------------------------------------------------
(* Depth events.                                                            *)

\* A depth event never puts the order further back, nor further to the front than what
\* has left the level without being traded.
Reasonable(est, front, back, chg) ==
    /\ est \in Int /\ est <= front
    /\ front = 0 /\ back >= chg => est = 0
    /\ front > 0 /\ back >= 0 => est >= front - chg

LEMMA EstimateFacts ==
    ASSUME NEW front \in Nat, NEW back \in Int, NEW chg \in Nat,
           NEW b \in Behind(front, back, chg), ~IsNaN(front, back)
    PROVE  Reasonable(Estimate(front, back, chg, b), front, back, chg)
<1>1. b \in Int
  BY DEF Behind
<1>2. /\ back < 0 => b \in (-chg)..(2 * chg)
      /\ front = 0 /\ back >= 0 => b = chg
      /\ front > 0 /\ back = 0 => b = 0
      /\ front > 0 /\ back > 0 => b \in 0..chg
  BY DEF Behind
<1>3. Smaller(back - b, 0) = IF back < b THEN back - b ELSE 0
  BY <1>1 DEF Smaller
<1>4. IsNaN(front, back) <=> front = 0 /\ back = 0
  BY DEF IsNaN
<1> QED BY <1>1, <1>2, <1>3, <1>4 DEF Estimate, Reasonable

\* What a depth event makes of an estimate.
LEMMA ReportsEstimate ==
    ASSUME ProbTyped, ahead \in Nat, behind \in Nat, Reports, prob.leaves > 0
    PROVE  LET new == ahead + behind
               front == prob.pos.front
               back == level - front
               chg == (level - new) - prob.pos.cum
           IN  /\ ProbTyped'
               /\ prob'.leaves = prob.leaves
               /\ prob.pos.nan => prob'.pos.nan
               /\ ~prob.pos.nan /\ prob'.pos.nan => chg >= 0 /\ MayBeNaN(front, back)
               /\ ~prob'.pos.nan =>
                     /\ prob'.pos.cum = 0
                     /\ \/ chg < 0 /\ prob'.pos.front = Smaller(front, new)
                        \/ /\ chg >= 0 /\ ~IsNaN(front, back)
                           /\ \E b \in Behind(front, back, chg) :
                                 prob'.pos.front = Smaller(Estimate(front, back, chg, b), new)
<1> DEFINE new == ahead + behind
           front == prob.pos.front
           back == level - front
           chg == (level - new) - prob.pos.cum
           at(f) == [front |-> Smaller(f, new), cum |-> 0, nan |-> FALSE]
<1>1. /\ front \in Int /\ prob.pos.cum \in Nat /\ level \in Nat /\ new \in Nat
      /\ back \in Int /\ chg \in Int /\ prob.pos.nan \in BOOLEAN
  BY ProbTypes
<1>2. /\ level' = new
      /\ \E pos \in ProbDepth(prob.pos, level, new) : prob' = [prob EXCEPT !.pos = pos]
      /\ UNCHANGED gone
      /\ unclear' = (unclear \/ (level = 0 /\ new = 0))
      /\ overtaken' = (overtaken \/ prob.pos.front < 0 \/ prob'.pos.front < 0)
  BY ProbTypes DEF Reports
<1>3. PICK pos \in ProbDepth(prob.pos, level, new) : prob' = [prob EXCEPT !.pos = pos]
  BY <1>2
<1>4. prob'.pos = pos /\ prob'.leaves = prob.leaves
  BY <1>3 DEF ProbTyped
<1>5. \/ /\ pos = NotANumber
         /\ prob.pos.nan \/ (chg >= 0 /\ MayBeNaN(front, back))
      \/ ~prob.pos.nan /\ chg < 0 /\ pos = at(front)
      \/ /\ ~prob.pos.nan /\ chg >= 0 /\ ~IsNaN(front, back)
         /\ \E b \in Behind(front, back, chg) : pos = at(Estimate(front, back, chg, b))
  <2>1. CASE prob.pos.nan
    <3>1. ProbDepth(prob.pos, level, new) = {NotANumber}
      BY <2>1, Zenon DEF ProbDepth
    <3> QED BY <2>1, <3>1
  <2>2. CASE ~prob.pos.nan /\ chg < 0
    <3>1. ProbDepth(prob.pos, level, new) = {at(front)}
      BY <2>2, Zenon DEF ProbDepth
    <3> QED BY <2>2, <3>1
  <2>3. CASE ~prob.pos.nan /\ chg >= 0
    <3>0. ~(chg < 0)
      BY <1>1, <2>3
    <3>1. ProbDepth(prob.pos, level, new) =
             (IF MayBeNaN(front, back) THEN {NotANumber} ELSE {})
             \cup (IF IsNaN(front, back) THEN {}
                   ELSE {at(Estimate(front, back, chg, b)) : b \in Behind(front, back, chg)})
      BY <2>3, <3>0, Zenon DEF ProbDepth
    <3> HIDE DEF front, back, chg, at
    <3>2. \/ pos = NotANumber /\ MayBeNaN(front, back)
          \/ /\ ~IsNaN(front, back)
             /\ \E b \in Behind(front, back, chg) : pos = at(Estimate(front, back, chg, b))
      BY <1>3, <3>1, Zenon
    <3> QED BY <2>3, <3>2
  <2> QED BY <1>1, <2>1, <2>2, <2>3
<1>6. \A f \in Int : at(f) \in Positions
  BY <1>1 DEF Positions, Smaller
<1>7. \A b \in Behind(front, back, chg) : Estimate(front, back, chg, b) \in Int
  <2>1. \A b \in Behind(front, back, chg) : b \in Int
    BY <1>1 DEF Behind
  <2>2. ASSUME NEW b \in Int PROVE Estimate(front, back, chg, b) \in Int
    <3> HIDE DEF front, back, chg
    <3> QED BY <1>1 DEF Estimate, Smaller
  <2> QED BY <2>1, <2>2
<1>8. NotANumber \in Positions /\ NotANumber.nan = TRUE
  BY DEF NotANumber, Positions
<1> HIDE DEF front, back, chg
<1>9. pos \in Positions
  <2> HIDE DEF at
  <2> QED BY <1>1, <1>5, <1>6, <1>7, <1>8
<1>10. ProbTyped'
  <2>1. prob' \in [pos : Positions, leaves : 0..OrderQty]
    BY <1>3, <1>9 DEF ProbTyped
  <2>2. overtaken' \in BOOLEAN /\ unclear' \in BOOLEAN
    BY <1>2
  <2> QED BY <1>1, <1>2, <2>1, <2>2 DEF ProbTyped
<1>11. prob.pos.nan => prob'.pos.nan
  BY <1>4, <1>5, <1>8
<1>12. ~prob.pos.nan /\ prob'.pos.nan => chg >= 0 /\ MayBeNaN(front, back)
  BY <1>4, <1>5, <1>8
<1>13. ~prob'.pos.nan =>
         /\ prob'.pos.cum = 0
         /\ \/ chg < 0 /\ prob'.pos.front = Smaller(front, new)
            \/ /\ chg >= 0 /\ ~IsNaN(front, back)
               /\ \E b \in Behind(front, back, chg) :
                     prob'.pos.front = Smaller(Estimate(front, back, chg, b), new)
  <2>1. CASE pos = NotANumber
    BY <1>4, <1>8, <2>1
  <2>2. CASE chg < 0 /\ pos = at(front)
    BY <1>4, <2>2
  <2>3. CASE /\ chg >= 0 /\ ~IsNaN(front, back)
             /\ \E b \in Behind(front, back, chg) : pos = at(Estimate(front, back, chg, b))
    BY <1>4, <2>3
  <2> QED BY <1>5, <2>1, <2>2, <2>3
<1> QED BY <1>4, <1>10, <1>11, <1>12, <1>13 DEF front, back, chg

LEMMA ProbReportsStep ==
    ASSUME Inv, ProbInv, Reports
    PROVE  ProbInv'
<1> DEFINE new == ahead + behind
           front == prob.pos.front
           back == level - front
           chg == (level - new) - prob.pos.cum
<1>1. /\ level' = new /\ unclear' = (unclear \/ (level = 0 /\ new = 0))
      /\ overtaken' = (overtaken \/ front < 0 \/ prob'.pos.front < 0)
      /\ UNCHANGED <<ahead, behind, gone>>
  BY DEF Reports, marketVars
<1>2. /\ front \in Int /\ prob.pos.cum \in Nat /\ level \in Nat /\ new \in Nat
      /\ back \in Int /\ chg \in Int /\ prob.pos.nan \in BOOLEAN /\ prob.leaves \in Nat
      /\ gone.front \in Nat /\ gone.back \in Nat /\ ahead \in Nat /\ behind \in Nat
  BY ProbTypes DEF ProbInv, Inv
<1>3. /\ ProbTyped /\ Exact /\ StaysANumber
      /\ unclear \in BOOLEAN /\ overtaken \in BOOLEAN
  BY DEF ProbInv, ProbTyped
<1>4. /\ risk.leaves \in Nat /\ risk.front \in Nat /\ risk'.leaves = risk.leaves
      /\ risk.leaves > 0 => risk'.front = Smaller(risk.front, new)
  BY QueueAssumption DEF Inv, Reports, RiskDepth
<1>5. CASE prob.leaves = 0
  <2>1. prob' = prob
    BY <1>5 DEF Reports
  <2>2. ProbTyped' /\ Exact' /\ StaysANumber'
    <3>1. level' \in Nat /\ unclear' \in BOOLEAN /\ overtaken' \in BOOLEAN
      BY <1>1, <1>2, <1>3
    <3> HIDE DEF new, front
    <3> QED BY <1>1, <1>3, <1>5, <2>1, <3>1 DEF ProbTyped, Exact, StaysANumber
  <2>3. Capped' /\ Counted' /\ WrongByCancels'
    BY <1>5, <2>1 DEF Capped, Counted, WrongByCancels, Estimated
  <2>4. FillsNoLater'
    BY <1>4, <1>5, <2>1 DEF FillsNoLater
  <2> QED BY <2>2, <2>3, <2>4 DEF ProbInv
<1>6. CASE prob.leaves > 0
  <2>1. /\ ProbTyped'
        /\ prob'.leaves = prob.leaves
        /\ prob.pos.nan => prob'.pos.nan
        /\ ~prob.pos.nan /\ prob'.pos.nan => chg >= 0 /\ MayBeNaN(front, back)
        /\ ~prob'.pos.nan =>
              /\ prob'.pos.cum = 0
              /\ \/ chg < 0 /\ prob'.pos.front = Smaller(front, new)
                 \/ /\ chg >= 0 /\ ~IsNaN(front, back)
                    /\ \E b \in Behind(front, back, chg) :
                          prob'.pos.front = Smaller(Estimate(front, back, chg, b), new)
    BY <1>2, <1>3, <1>6, ReportsEstimate
  <2>2. prob'.pos.front \in Int
    BY <2>1 DEF ProbTyped, Positions
  <2> HIDE DEF new, front, back, chg
  \* Without cancels and clears the level has lost what was traded, or has grown.
  <2>3. ASSUME gone.front + gone.back = 0, ~unclear, level # 0 \/ new # 0
        PROVE  ~prob'.pos.nan /\ prob'.pos.front = ahead
    <3>1. /\ ~prob.pos.nan /\ front = ahead /\ ahead <= level /\ level - new <= prob.pos.cum
      BY <1>3, <1>6, <2>3 DEF Exact, front, new
    <3>2. front \in Nat /\ back >= 0 /\ chg <= 0 /\ ahead <= new
      BY <1>2, <3>1 DEF back, chg, new
    <3>3. chg = 0 => level # 0
      BY <1>2, <2>3, <3>1 DEF chg
    <3>4. chg >= 0 => ~MayBeNaN(front, back)
      BY <1>2, <3>2, <3>3 DEF MayBeNaN, back
    <3>5. ~prob'.pos.nan
      BY <2>1, <3>1, <3>4
    <3>6. CASE chg < 0
      BY <1>2, <2>1, <3>1, <3>2, <3>5, <3>6 DEF Smaller
    <3>7. CASE chg >= 0
      <4>1. PICK b \in Behind(front, back, chg) :
                 prob'.pos.front = Smaller(Estimate(front, back, chg, b), new)
        BY <2>1, <3>5, <3>7, <1>2
      <4>2. chg = 0 /\ chg \in Nat /\ ~IsNaN(front, back)
        BY <1>2, <3>2, <3>4, <3>7 DEF IsNaN, MayBeNaN
      <4> DEFINE est == Estimate(front, back, chg, b)
      <4>3. Reasonable(est, front, back, chg)
        <5>1. front \in Nat /\ back \in Int
          BY <1>2, <3>2
        <5> QED BY <4>1, <4>2, <5>1, EstimateFacts
      <4> HIDE DEF est
      <4>4. est = ahead
        BY <1>2, <3>1, <3>2, <4>2, <4>3 DEF Reasonable
      <4>5. prob'.pos.front = Smaller(est, new)
        BY <4>1 DEF est
      <4> QED BY <1>2, <3>2, <3>5, <4>4, <4>5 DEF Smaller
    <3> QED BY <1>2, <3>6, <3>7
  <2>4. Exact'
    <3> SUFFICES ASSUME gone.front + gone.back = 0, ~unclear, level # 0 \/ new # 0 PROVE Exact'
      BY <1>1 DEF Exact
    <3>1. ~prob'.pos.nan /\ prob'.pos.front = ahead /\ prob'.pos.cum \in Nat
      BY <2>1, <2>3 DEF ProbTyped, Positions
    <3>2. ahead <= new /\ new - (ahead + behind) <= prob'.pos.cum
      BY <1>2, <3>1 DEF new
    <3> QED BY <1>1, <3>1, <3>2 DEF Exact
  <2>5. StaysANumber'
    <3> SUFFICES ASSUME ~(gone.front + gone.back > 0), ~unclear, level # 0 \/ new # 0
                 PROVE  ~prob'.pos.nan
      BY <1>1 DEF StaysANumber
    <3>1. gone.front + gone.back = 0
      BY <1>2
    <3> QED BY <2>3, <3>1
  <2>6. CASE prob'.pos.nan \/ overtaken'
    BY <2>1, <2>4, <2>5, <2>6 DEF ProbInv, Capped, Counted, WrongByCancels, FillsNoLater, Estimated
  <2>7. CASE ~prob'.pos.nan /\ ~overtaken'
    <3>0. ~overtaken /\ ~(front < 0) /\ ~(prob'.pos.front < 0)
      BY <1>1, <2>7
    <3>1. Estimated /\ front \in Nat /\ prob'.pos.front >= 0
      <4>1. ~prob.pos.nan
        BY <2>1, <2>7
      <4>2. Estimated
        BY <1>6, <3>0, <4>1 DEF Estimated
      <4> QED BY <1>2, <2>2, <3>0, <4>2
    <3>2. /\ front <= level \/ level = 0
          /\ ahead > 0 /\ front > 0 => level - behind - prob.pos.cum - gone.back <= front
      BY <3>1 DEF ProbInv, Capped, Counted, front
    <3>3. /\ ahead - gone.back <= front
          /\ front <= ahead + gone.front
      BY <1>2, <3>1 DEF ProbInv, WrongByCancels, Estimated, Larger, front
    <3>4. prob.leaves <= risk.leaves /\ front <= risk.front
      BY <3>1 DEF ProbInv, FillsNoLater, Estimated, front
    <3>5. prob'.pos.front <= front /\ prob'.pos.front <= new /\ ahead - gone.back <= prob'.pos.front
      <4>1. ahead <= new /\ ahead - gone.back <= new
        BY <1>2 DEF new
      <4>2. CASE chg < 0
        <5>1. prob'.pos.front = Smaller(front, new)
          BY <1>2, <2>1, <2>7, <4>2
        <5> QED BY <1>2, <3>3, <4>1, <5>1 DEF Smaller
      <4>3. CASE chg >= 0
        <5>1. PICK b \in Behind(front, back, chg) :
                 prob'.pos.front = Smaller(Estimate(front, back, chg, b), new)
          BY <1>2, <2>1, <2>7, <4>3
        <5>2. chg \in Nat /\ ~IsNaN(front, back)
          BY <1>2, <2>1, <2>7, <4>3
        <5> DEFINE est == Estimate(front, back, chg, b)
        <5>3. Reasonable(est, front, back, chg)
          BY <1>2, <3>1, <5>1, <5>2, EstimateFacts
        <5>4. prob'.pos.front = Smaller(est, new)
          BY <5>1
        <5> HIDE DEF est
        <5>5. prob'.pos.front <= front /\ prob'.pos.front <= new
          BY <1>2, <5>3, <5>4 DEF Smaller, Reasonable
        <5>6. ahead - gone.back <= 0 => ahead - gone.back <= prob'.pos.front
          BY <1>2, <2>2, <3>1
        <5>7. ASSUME ahead - gone.back > 0 PROVE ahead - gone.back <= prob'.pos.front
          <6>1. ahead > 0 /\ front > 0
            BY <1>2, <3>3, <5>7
          \* An order with something in front is in a level above zero, unless it was cleared,
          \* and then no decrease is left to count.
          <6>2. level # 0
            BY <1>2, <4>3, <6>1 DEF chg, new
          <6>3. back >= 0
            BY <1>2, <3>2, <6>2 DEF back
          <6>4. est >= front - chg
            BY <5>3, <6>1, <6>3 DEF Reasonable
          <6>5. front - chg >= ahead - gone.back
            BY <1>2, <3>2, <6>1 DEF chg, new
          <6> QED BY <1>2, <4>1, <5>3, <5>4, <6>4, <6>5 DEF Smaller, Reasonable
        <5> QED BY <1>2, <5>5, <5>6, <5>7
      <4> QED BY <1>2, <4>2, <4>3
    <3>6. Capped'
      BY <1>1, <3>5 DEF Capped
    <3>7. Counted'
      <4>1. prob'.pos.cum = 0
        BY <2>1, <2>7
      <4> QED BY <1>1, <1>2, <2>2, <3>5, <4>1 DEF Counted, new
    <3>8. WrongByCancels'
      <4>1. prob'.pos.front <= ahead + gone.front
        BY <1>2, <2>2, <3>3, <3>5
      <4> QED BY <1>1, <2>2, <3>1, <3>5, <4>1 DEF WrongByCancels, Larger
    <3>9. FillsNoLater'
      <4>1. risk'.front = Smaller(risk.front, new)
        BY <1>2, <1>4, <1>6, <3>4
      <4>2. prob'.pos.front <= risk'.front
        BY <1>2, <1>4, <2>2, <3>4, <3>5, <4>1 DEF Smaller
      <4> QED BY <1>4, <2>1, <3>4, <4>2 DEF FillsNoLater
    <3> QED BY <2>1, <2>4, <2>5, <3>6, <3>7, <3>8, <3>9 DEF ProbInv
  <2> QED BY <2>6, <2>7
<1> QED BY <1>2, <1>5, <1>6

LEMMA ProbNext == Inv /\ ProbInv /\ [Next]_vars => ProbInv'
<1> SUFFICES ASSUME Inv, ProbInv, [Next]_vars PROVE ProbInv'
  OBVIOUS
<1>1. ASSUME NEW n \in Sizes, Trades(n) PROVE ProbInv'
  BY <1>1, ProbTradesStep
<1>2. ASSUME NEW n \in Sizes, Cancels(n, 0) \/ Cancels(0, n) PROVE ProbInv'
  BY <1>2, ProbCancelsStep, SizesWhole
<1>3. ASSUME NEW n \in Sizes, Joins(n) PROVE ProbInv'
  BY <1>3, ProbJoinsStep
<1>4. ASSUME Reports PROVE ProbInv'
  BY <1>4, ProbReportsStep
<1>5. ASSUME Clears PROVE ProbInv'
  BY <1>5, ProbClearsStep
<1>6. ASSUME UNCHANGED vars PROVE ProbInv'
  BY <1>6 DEF vars, marketVars, ProbInv, ProbTyped, Capped, Counted, Exact, Estimated,
              WrongByCancels, FillsNoLater, StaysANumber
<1> QED BY <1>1, <1>2, <1>3, <1>4, <1>5, <1>6 DEF Next

-----------------------------------------------------------------------------
(* The theorems.                                                            *)

\* Under RiskAdverseQueueModel an order is never in front of the place it would have
\* had, nor filled before the market would have filled it.
THEOREM NeverOptimistic == Spec => []Conservative
<1>1. Inv => Conservative
  BY DEF Inv
<1> QED BY InitHolds, NextHolds, <1>1, PTL DEF Spec

LEMMA ProbHolds == Spec => []ProbInv
<1> QED BY InitHolds, NextHolds, ProbInit, ProbNext, PTL DEF Spec

\* ProbQueueModel is wrong by no more than was cancelled: what was traded it counts once,
\* with the trade or with the level, whatever is reported in between.
THEOREM NoTradeTwice == Spec => []WrongByCancels
<1>1. ProbInv => WrongByCancels
  BY DEF ProbInv
<1> QED BY ProbHolds, <1>1, PTL

\* An order under ProbQueueModel is never behind the same order under the conservative
\* model, nor filled later.
THEOREM NeverLater == Spec => []FillsNoLater
<1>1. ProbInv => FillsNoLater
  BY DEF ProbInv
<1> QED BY ProbHolds, <1>1, PTL

\* Without cancellations, clears and reports of nothing for nothing the estimate is never 0/0.
THEOREM NotZeroByZero == Spec => []StaysANumber
<1>1. ProbInv => StaysANumber
  BY DEF ProbInv
<1> QED BY ProbHolds, <1>1, PTL

=============================================================================
