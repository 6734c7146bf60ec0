------------------------- MODULE HashMapDepthProofs -------------------------
(***************************************************************************)
(* Facts about the operators of HashMapDepth, for every number of ticks    *)
(* and every lot size.                                                     *)
(***************************************************************************)
EXTENDS HashMapDepth, WellFoundedInduction, TLAPS

\* The two sides and their sentinels.
LEMMA SideFacts ==
    ASSUME NEW s \in Sides
    PROVE  /\ Opposite(s) \in Sides /\ Opposite(s) # s
           /\ Opposite(Opposite(s)) = s
           /\ NoBest(s) \in INVALID_MIN..INVALID_MAX
           /\ Sign(s) \in Int
    BY OrdersAssumption DEF Sides, Opposite, NoBest, INVALID_MIN, INVALID_MAX, Sign

\* A set of naturals that is not empty has a least element.
LEMMA LeastElement ==
    ASSUME NEW T \in SUBSET Nat, T # {}
    PROVE  \E x \in T : \A y \in T : x <= y
<1>1. PICK x \in T : \A y \in T : <<y, x>> \notin OpToRel(<, Nat)
  BY WFMin, NatLessThanWellFounded, Zenon
<1>2. ASSUME NEW y \in T PROVE x <= y
  <2>1. ~(y < x)
    BY <1>1, Zenon DEF OpToRel
  <2>2. QED
    BY <2>1
<1>3. QED
  BY <1>2

\* BestOf picks the highest bid and the lowest ask of a set of levels.
LEMMA BestOfIsBest ==
    ASSUME NEW s \in Sides, NEW S \in SUBSET Ticks, S # {}
    PROVE  /\ BestOf(s, S) \in S
           /\ \A t \in S : ~Better(s, t, BestOf(s, S))
<1>1. NTicks \in Nat
  BY OrdersAssumption
<1>2. \E x \in S : \A y \in S : x <= y
  BY <1>1, LeastElement DEF Ticks
<1>3. \E x \in S : \A y \in S : x >= y
  <2> DEFINE R == {NTicks - t : t \in S}
  <2>0. \A t \in S : NTicks - t \in Nat
    BY <1>1 DEF Ticks
  <2>1. R \in SUBSET Nat /\ R # {}
    BY <2>0
  <2> HIDE DEF R
  <2>2. PICK r \in R : \A u \in R : r <= u
    BY <2>1, LeastElement
  <2>3. PICK x \in S : r = NTicks - x
    BY <2>2 DEF R
  <2>4. \A y \in S : NTicks - x <= NTicks - y
    BY <2>2, <2>3 DEF R
  <2>5. QED
    BY <1>1, <2>4 DEF Ticks
<1>4. S \subseteq Int
  BY <1>1 DEF Ticks
<1>5. Max(S) \in S /\ \A y \in S : Max(S) >= y
  BY <1>3, Zenon DEF Max
<1>6. Min(S) \in S /\ \A y \in S : Min(S) <= y
  BY <1>2, Zenon DEF Min
<1>7. CASE s = "Buy"
  <2>1. BestOf(s, S) = Max(S)
    BY <1>7 DEF BestOf
  <2>2. ASSUME NEW m \in S, \A y \in S : m >= y
        PROVE  \A t \in S : ~Better(s, t, m)
    BY <1>4, <1>7, <2>2 DEF Better
  <2>3. QED
    BY <1>5, <2>1, <2>2, Zenon
<1>8. CASE s = "Sell"
  <2>1. BestOf(s, S) = Min(S)
    BY <1>8 DEF BestOf
  <2>2. ASSUME NEW m \in S, \A y \in S : m <= y
        PROVE  \A t \in S : ~Better(s, t, m)
    BY <1>4, <1>8, <2>2 DEF Better
  <2>3. QED
    BY <1>6, <2>1, <2>2, Zenon
<1>9. QED
  BY <1>7, <1>8 DEF Sides

\* The scan behind a level returns a level or the sentinel.
LEMMA NextLevelType ==
    ASSUME NEW s \in Sides, NEW levels, NEW start, NEW end
    PROVE  /\ NextLevel(s, levels, start, end) \in Ticks \cup {NoBest(s)}
           /\ NextLevel(s, levels, start, end) \in INVALID_MIN..INVALID_MAX
<1> DEFINE found == {t \in Ticks : Better(s, start, t) /\ ~Better(s, end, t) /\ levels[t] > 0}
           next == NextLevel(s, levels, start, end)
<1>1. NTicks \in Nat
  BY OrdersAssumption
<1>2. next = IF found = {} THEN NoBest(s) ELSE BestOf(s, found)
  BY DEF NextLevel
<1>3. found # {} => BestOf(s, found) \in Ticks
  BY BestOfIsBest
<1> HIDE DEF found, next
<1>4. next \in Ticks \cup {NoBest(s)}
  BY <1>2, <1>3
<1>5. Ticks \subseteq INVALID_MIN..INVALID_MAX
  BY <1>1 DEF Ticks, INVALID_MIN, INVALID_MAX
<1>6. QED
  BY <1>4, <1>5, SideFacts DEF next

\* A scan ends strictly behind the level it starts from.
LEMMA NextLevelBehind ==
    ASSUME NEW s \in Sides, NEW levels, NEW start, NEW end,
           NextLevel(s, levels, start, end) # NoBest(s)
    PROVE  Better(s, start, NextLevel(s, levels, start, end))
<1> DEFINE found == {t \in Ticks : Better(s, start, t) /\ ~Better(s, end, t) /\ levels[t] > 0}
<1>1. NextLevel(s, levels, start, end) = IF found = {} THEN NoBest(s) ELSE BestOf(s, found)
  BY DEF NextLevel
<1>2. found # {} => BestOf(s, found) \in found
  <2> HIDE DEF found
  <2>1. found \in SUBSET Ticks
    BY DEF found
  <2>2. QED
    BY <2>1, BestOfIsBest
<1>3. QED
  BY <1>1, <1>2

\* An empty book is a book.
LEMMA EmptyDepthType == EmptyDepth \in Depth
  BY OrdersAssumption, SideFacts DEF EmptyDepth, Depth

\* Every member function leaves a book of the right type.
LEMMA UpdateDepthType ==
    ASSUME NEW d \in Depth, NEW s \in Sides, NEW tick \in Ticks, NEW quantity \in Nat
    PROVE  UpdateDepth(d, s, tick, quantity) \in Depth
<1> USE OrdersAssumption
<1>1. RemoveLevel(d, s, tick) \in Depth
  BY NextLevelType, SideFacts DEF RemoveLevel, Depth, Ticks
<1>2. SetLevel(d, s, tick, quantity) \in Depth
  <2> DEFINE o == Opposite(s)
             improves == Better(s, tick, d.best[s])
             opposite == IF improves /\ Crosses(s, tick, d.best[o])
                         THEN NextLevel(o, d.qty[o], tick, d.far[o]) ELSE d.best[o]
  <2>1. o \in Sides /\ o # s
    BY SideFacts
  <2>2. opposite \in INVALID_MIN..INVALID_MAX
    BY <2>1, NextLevelType DEF Depth
  <2>3. tick \in INVALID_MIN..INVALID_MAX
    BY DEF Ticks, INVALID_MIN, INVALID_MAX
  <2> HIDE DEF opposite, improves, o
  <2>4. SetLevel(d, s, tick, quantity) =
          [qty |-> [d.qty EXCEPT ![s][tick] = quantity],
           best |-> [d.best EXCEPT ![s] = IF improves THEN tick ELSE @, ![o] = opposite],
           far |-> [d.far EXCEPT ![s] = IF Better(s, @, tick) THEN tick ELSE @]]
    BY DEF SetLevel, opposite, improves, o
  <2>5. QED
    BY <2>1, <2>2, <2>3, <2>4 DEF Depth
<1>3. QED
  BY <1>1, <1>2 DEF UpdateDepth

\* Clearing a side up to a price leaves a book.
LEMMA ClearDepthType ==
    ASSUME NEW d \in Depth, NEW s \in Sides, NEW cut \in Ticks
    PROVE  ClearUpto(d, s, cut) \in Depth
  BY NextLevelType, SideFacts DEF ClearUpto, Depth

\* Clearing a side leaves a book.
LEMMA ClearSideType ==
    ASSUME NEW d \in Depth, NEW s \in Sides
    PROVE  ClearSide(d, s) \in Depth
  BY SideFacts DEF ClearSide, Depth

-----------------------------------------------------------------------------
(* Books whose levels are in order: nothing in front of the best price and  *)
(* nothing beyond the far end.  Every member function leaves such a book    *)
(* when no level meets the other side.                                      *)

SideOrdered(s, side, best, far) ==
    /\ IF best \in Ticks THEN side[best] > 0 ELSE best = NoBest(s)
    /\ \A t \in Ticks : side[t] > 0 => ~Better(s, t, best) /\ ~Better(s, far, t)

Ordered(d) == \A s \in Sides : SideOrdered(s, d.qty[s], d.best[s], d.far[s])

\* Better is a strict order on the prices, and any level is better than none.
LEMMA BetterFacts ==
    ASSUME NEW s \in Sides, NEW a \in Int, NEW b \in Int
    PROVE  /\ ~Better(s, a, a)
           /\ Better(s, a, b) => ~Better(s, b, a)
           /\ a = b \/ Better(s, a, b) \/ Better(s, b, a)
           /\ \A c \in Int : Better(s, a, b) /\ ~Better(s, c, b) => Better(s, a, c)
           /\ \A c \in Int : Better(s, a, b) /\ ~Better(s, a, c) => Better(s, c, b)
           /\ a \in Ticks => Better(s, a, NoBest(s)) /\ a # NoBest(s)
           /\ Better(Opposite(s), a, b) <=> Better(s, b, a)
  BY OrdersAssumption DEF Better, Sides, Opposite, Ticks, NoBest, INVALID_MIN, INVALID_MAX

\* The prices of a book are integers.
LEMMA DepthPrices ==
    ASSUME NEW d \in Depth, NEW s \in Sides
    PROVE  /\ d.best[s] \in Int /\ d.far[s] \in Int
           /\ d.qty[s] \in [Ticks -> Nat]
           /\ Ticks \subseteq Int
  BY OrdersAssumption DEF Depth, Ticks, INVALID_MIN, INVALID_MAX

\* The best price of an ordered side is the best of its levels.
LEMMA OrderedBest ==
    ASSUME NEW s \in Sides, NEW side \in [Ticks -> Nat], NEW best \in Int, NEW far \in Int,
           SideOrdered(s, side, best, far)
    PROVE  LET offered == {t \in Ticks : side[t] > 0}
           IN  best = IF offered = {} THEN NoBest(s) ELSE BestOf(s, offered)
<1> DEFINE offered == {t \in Ticks : side[t] > 0}
<1>1. Ticks \subseteq Int
  BY OrdersAssumption DEF Ticks
<1>2. CASE offered = {}
  BY <1>2 DEF SideOrdered
<1>3. CASE offered # {}
  <2>1. offered \in SUBSET Ticks
    OBVIOUS
  <2>2. PICK top \in offered : top = BestOf(s, offered) /\ \A t \in offered : ~Better(s, t, top)
    <3> HIDE DEF offered
    <3> QED BY <1>3, <2>1, BestOfIsBest
  <2>3. ~Better(s, top, best)
    BY DEF SideOrdered
  <2>4. best \in Ticks
    <3> SUFFICES ASSUME best \notin Ticks PROVE FALSE
      OBVIOUS
    <3>1. best = NoBest(s)
      BY DEF SideOrdered
    <3> QED BY <1>1, <2>3, <3>1, BetterFacts
  <2>5. ~Better(s, best, top)
    BY <2>2, <2>4 DEF SideOrdered
  <2>6. top = best
    BY <1>1, <2>3, <2>5, BetterFacts
  <2> QED BY <1>3, <2>2, <2>6
<1> QED BY <1>2, <1>3

\* A scan over all that is left of a side finds the best of it.
LEMMA ScanFinds ==
    ASSUME NEW s \in Sides, NEW side, NEW start, NEW end,
           \A t \in Ticks : side[t] > 0 => Better(s, start, t) /\ ~Better(s, end, t)
    PROVE  LET next == NextLevel(s, side, start, end)
           IN  /\ IF next \in Ticks THEN side[next] > 0 ELSE next = NoBest(s)
               /\ \A t \in Ticks : side[t] > 0 => next \in Ticks /\ ~Better(s, t, next)
<1> DEFINE found == {t \in Ticks : Better(s, start, t) /\ ~Better(s, end, t) /\ side[t] > 0}
           next == NextLevel(s, side, start, end)
<1>1. next = IF found = {} THEN NoBest(s) ELSE BestOf(s, found)
  BY DEF NextLevel
<1>2. \A t \in Ticks : t \in found <=> side[t] > 0
  OBVIOUS
<1>3. found \in SUBSET Ticks
  OBVIOUS
<1>4. NoBest(s) \notin Ticks
  BY OrdersAssumption DEF NoBest, Ticks, INVALID_MIN, INVALID_MAX
<1> HIDE DEF found, next
<1>5. CASE found = {}
  BY <1>1, <1>2, <1>4, <1>5 DEF next
<1>6. CASE found # {}
  BY <1>1, <1>2, <1>3, <1>6, BestOfIsBest DEF next
<1> QED BY <1>5, <1>6

\* Deleting a level of an ordered book leaves an ordered book.
LEMMA RemoveOrdered ==
    ASSUME NEW d \in Depth, Ordered(d), NEW s \in Sides, NEW tick \in Ticks
    PROVE  Ordered(RemoveLevel(d, s, tick))
<1> DEFINE e == RemoveLevel(d, s, tick)
           levels == [d.qty[s] EXCEPT ![tick] = 0]
           next == NextLevel(s, levels, d.best[s], d.far[s])
           best == IF tick = d.best[s] THEN next ELSE d.best[s]
           far == IF tick = d.best[s] /\ best = NoBest(s) THEN NoBest(Opposite(s)) ELSE d.far[s]
<1>1. /\ d.best[s] \in Int /\ d.far[s] \in Int /\ Ticks \subseteq Int
      /\ d.qty[s] \in [Ticks -> Nat]
  BY DepthPrices
<1>2. SideOrdered(s, d.qty[s], d.best[s], d.far[s])
  BY DEF Ordered
<1>3. /\ e.qty = [d.qty EXCEPT ![s] = levels]
      /\ e.best = [d.best EXCEPT ![s] = best]
      /\ e.far = [d.far EXCEPT ![s] = far]
  BY DEF RemoveLevel, Depth
<1>4. \A t \in Ticks : levels[t] = IF t = tick THEN 0 ELSE d.qty[s][t]
  BY <1>1
<1>5. SideOrdered(s, levels, best, far)
  <2>1. CASE tick = d.best[s]
    <3>1. \A t \in Ticks : levels[t] > 0 => Better(s, d.best[s], t) /\ ~Better(s, d.far[s], t)
      <4> TAKE t \in Ticks
      <4> HAVE levels[t] > 0
      <4>1. t # d.best[s] /\ d.qty[s][t] > 0
        BY <1>4, <2>1
      <4>2. ~Better(s, t, d.best[s]) /\ ~Better(s, d.far[s], t)
        BY <1>2, <4>1 DEF SideOrdered
      <4> QED BY <1>1, <4>1, <4>2, BetterFacts
    <3> HIDE DEF levels
    <3>2. /\ IF next \in Ticks THEN levels[next] > 0 ELSE next = NoBest(s)
          /\ \A t \in Ticks : levels[t] > 0 => next \in Ticks /\ ~Better(s, t, next)
      BY <3>1, ScanFinds
    <3>3. NoBest(s) \notin Ticks
      BY OrdersAssumption DEF NoBest, Ticks, INVALID_MIN, INVALID_MAX
    <3> HIDE DEF next
    <3>4. \A t \in Ticks : levels[t] > 0 => far = d.far[s]
      BY <2>1, <3>2, <3>3
    <3> QED BY <2>1, <3>1, <3>2, <3>4 DEF SideOrdered
  <2>2. CASE tick # d.best[s]
    <3>1. best = d.best[s] /\ far = d.far[s]
      BY <2>2
    <3> HIDE DEF levels, best, far
    <3> QED BY <1>2, <1>4, <2>2, <3>1 DEF SideOrdered
  <2> QED BY <2>1, <2>2
<1> HIDE DEF e, levels, next, best, far
<1>6. ASSUME NEW r \in Sides PROVE SideOrdered(r, e.qty[r], e.best[r], e.far[r])
  <2>1. CASE r = s
    BY <1>3, <1>5, <2>1 DEF Depth
  <2>2. CASE r # s
    <3>1. e.qty[r] = d.qty[r] /\ e.best[r] = d.best[r] /\ e.far[r] = d.far[r]
      BY <1>3, <2>2 DEF Depth
    <3> QED BY <3>1 DEF Ordered
  <2> QED BY <2>1, <2>2
<1> QED BY <1>6 DEF Ordered, e

\* Setting a level that does not meet the other side leaves an ordered book.
LEMMA SetOrdered ==
    ASSUME NEW d \in Depth, Ordered(d), NEW s \in Sides, NEW tick \in Ticks,
           NEW quantity \in Nat, quantity > 0, ~Crosses(s, tick, d.best[Opposite(s)])
    PROVE  Ordered(SetLevel(d, s, tick, quantity))
<1> DEFINE e == SetLevel(d, s, tick, quantity)
           o == Opposite(s)
           levels == [d.qty[s] EXCEPT ![tick] = quantity]
           improves == Better(s, tick, d.best[s])
           best == IF improves THEN tick ELSE d.best[s]
           far == IF Better(s, d.far[s], tick) THEN tick ELSE d.far[s]
<1>1. /\ d.best[s] \in Int /\ d.far[s] \in Int /\ Ticks \subseteq Int
      /\ d.qty[s] \in [Ticks -> Nat] /\ tick \in Int
  BY DepthPrices
<1>2. SideOrdered(s, d.qty[s], d.best[s], d.far[s])
  BY DEF Ordered
<1>3. o \in Sides /\ o # s
  BY SideFacts
<1>4. /\ e.qty = [d.qty EXCEPT ![s][tick] = quantity]
      /\ e.best = [d.best EXCEPT ![s] = best, ![o] = d.best[o]]
      /\ e.far = [d.far EXCEPT ![s] = far]
  BY DEF SetLevel, Depth
<1>5. \A t \in Ticks : levels[t] = IF t = tick THEN quantity ELSE d.qty[s][t]
  BY <1>1
<1>6. SideOrdered(s, levels, best, far)
  <2>1. IF best \in Ticks THEN levels[best] > 0 ELSE best = NoBest(s)
    <3>1. CASE improves
      BY <1>5, <3>1
    <3>2. CASE ~improves
      <4> HIDE DEF levels
      <4> QED BY <1>2, <1>5, <3>2 DEF SideOrdered
    <3> QED BY <3>1, <3>2
  <2>2. ASSUME NEW t \in Ticks, levels[t] > 0
        PROVE  ~Better(s, t, best) /\ ~Better(s, far, t)
    <3> HIDE DEF levels
    <3>1. t \in Int
      BY <1>1
    <3>2. CASE t = tick
      <4>1. ~Better(s, t, best)
        BY <1>1, <3>2, BetterFacts
      <4>2. ~Better(s, far, t)
        BY <1>1, <3>2, BetterFacts
      <4> QED BY <4>1, <4>2
    <3>3. CASE t # tick
      <4>1. ~Better(s, t, d.best[s]) /\ ~Better(s, d.far[s], t)
        BY <1>2, <1>5, <2>2, <3>3 DEF SideOrdered
      <4>2. improves => Better(s, tick, t)
        BY <1>1, <3>1, <4>1, BetterFacts
      <4>3. ~Better(s, t, best)
        BY <1>1, <3>1, <4>1, <4>2, BetterFacts
      <4>4. Better(s, d.far[s], tick) => Better(s, t, tick)
        BY <1>1, <3>1, <4>1, BetterFacts
      <4>5. ~Better(s, far, t)
        BY <1>1, <3>1, <4>1, <4>4, BetterFacts
      <4> QED BY <4>3, <4>5
    <3> QED BY <3>2, <3>3
  <2> HIDE DEF levels, best, far
  <2> QED BY <2>1, <2>2 DEF SideOrdered
<1> HIDE DEF e, o, improves, best, far
<1>7. ASSUME NEW r \in Sides PROVE SideOrdered(r, e.qty[r], e.best[r], e.far[r])
  <2>1. CASE r = s
    <3>1. e.qty[r] = levels /\ e.best[r] = best /\ e.far[r] = far
      BY <1>3, <1>4, <2>1 DEF Depth
    <3> QED BY <1>6, <2>1, <3>1
  <2>2. CASE r # s
    <3>1. e.qty[r] = d.qty[r] /\ e.best[r] = d.best[r] /\ e.far[r] = d.far[r]
      BY <1>3, <1>4, <2>2 DEF Depth
    <3> QED BY <3>1 DEF Ordered
  <2> QED BY <2>1, <2>2
<1> QED BY <1>7 DEF Ordered, e

\* Clearing a side of an ordered book up to a price leaves an ordered book, and
\* all levels behind the price but no other.
LEMMA CutOrdered ==
    ASSUME NEW d \in Depth, Ordered(d), NEW s \in Sides, NEW cut \in Ticks
    PROVE  /\ Ordered(ClearUpto(d, s, cut))
           /\ ClearUpto(d, s, cut).qty =
                [d.qty EXCEPT ![s] = [t \in Ticks |-> IF Better(s, cut, t) THEN @[t] ELSE 0]]
<1> DEFINE e == ClearUpto(d, s, cut)
           levels == [t \in Ticks |-> IF ~Better(s, cut, t) /\ ~Better(s, t, d.best[s])
                                      THEN 0 ELSE d.qty[s][t]]
           best == NextLevel(s, levels, cut, d.far[s])
           far == IF best = NoBest(s) THEN NoBest(Opposite(s)) ELSE d.far[s]
<1>1. /\ d.best[s] \in Int /\ d.far[s] \in Int /\ Ticks \subseteq Int
      /\ d.qty[s] \in [Ticks -> Nat]
  BY DepthPrices
<1>2. SideOrdered(s, d.qty[s], d.best[s], d.far[s])
  BY DEF Ordered
<1>3. /\ e.qty = [d.qty EXCEPT ![s] = levels]
      /\ e.best = [d.best EXCEPT ![s] = best]
      /\ e.far = [d.far EXCEPT ![s] = far]
  BY DEF ClearUpto, Depth
<1>4. \A t \in Ticks : levels[t] = IF Better(s, cut, t) THEN d.qty[s][t] ELSE 0
  <2> TAKE t \in Ticks
  <2>1. d.qty[s][t] \in Nat /\ (d.qty[s][t] > 0 => ~Better(s, t, d.best[s]))
    BY <1>1, <1>2 DEF SideOrdered
  <2> QED BY <2>1
<1>5. levels = [t \in Ticks |-> IF Better(s, cut, t) THEN d.qty[s][t] ELSE 0]
  BY <1>4
<1>6. \A t \in Ticks : levels[t] > 0 => Better(s, cut, t) /\ ~Better(s, d.far[s], t)
  <2> HIDE DEF levels
  <2> QED BY <1>2, <1>4 DEF SideOrdered
<1> HIDE DEF levels
<1>7. /\ IF best \in Ticks THEN levels[best] > 0 ELSE best = NoBest(s)
      /\ \A t \in Ticks : levels[t] > 0 => best \in Ticks /\ ~Better(s, t, best)
  BY <1>6, ScanFinds
<1>8. NoBest(s) \notin Ticks
  BY OrdersAssumption DEF NoBest, Ticks, INVALID_MIN, INVALID_MAX
<1> HIDE DEF e, best
<1>9. SideOrdered(s, levels, best, far)
  BY <1>6, <1>7, <1>8 DEF SideOrdered
<1> HIDE DEF far
<1>10. ASSUME NEW r \in Sides PROVE SideOrdered(r, e.qty[r], e.best[r], e.far[r])
  <2>1. CASE r = s
    BY <1>3, <1>9, <2>1 DEF Depth
  <2>2. CASE r # s
    <3>1. e.qty[r] = d.qty[r] /\ e.best[r] = d.best[r] /\ e.far[r] = d.far[r]
      BY <1>3, <2>2 DEF Depth
    <3> QED BY <3>1 DEF Ordered
  <2> QED BY <2>1, <2>2
<1>11. Ordered(e)
  BY <1>10 DEF Ordered
<1>12. e.qty = [d.qty EXCEPT ![s] = [t \in Ticks |-> IF Better(s, cut, t) THEN @[t] ELSE 0]]
  BY <1>3, <1>5
<1> QED BY <1>11, <1>12 DEF e

\* Clearing a side, or both, leaves an ordered book.
LEMMA ClearOrdered ==
    /\ Ordered(EmptyDepth)
    /\ \A d \in Depth, s \in Sides : Ordered(d) => Ordered(ClearSide(d, s))
<1> USE OrdersAssumption
<1>1. \A s \in Sides : NoBest(s) \notin Ticks
  BY DEF NoBest, Ticks, INVALID_MIN, INVALID_MAX
<1>2. ASSUME NEW s \in Sides, NEW far PROVE SideOrdered(s, [t \in Ticks |-> 0], NoBest(s), far)
  BY <1>1 DEF SideOrdered
<1>3. Ordered(EmptyDepth)
  BY <1>2 DEF Ordered, EmptyDepth
<1>4. ASSUME NEW d \in Depth, NEW s \in Sides, Ordered(d), NEW r \in Sides
      PROVE  LET e == ClearSide(d, s) IN SideOrdered(r, e.qty[r], e.best[r], e.far[r])
  <2> DEFINE e == ClearSide(d, s)
  <2>1. CASE r = s
    <3>1. e.qty[r] = [t \in Ticks |-> 0] /\ e.best[r] = NoBest(r)
      BY <2>1 DEF ClearSide, Depth
    <3> HIDE DEF e
    <3>2. SideOrdered(r, e.qty[r], e.best[r], e.far[r])
      BY <1>2, <3>1
    <3> QED BY <3>2 DEF e
  <2>2. CASE r # s
    <3>1. e.qty[r] = d.qty[r] /\ e.best[r] = d.best[r] /\ e.far[r] = d.far[r]
      BY <2>2 DEF ClearSide, Depth
    <3> HIDE DEF e
    <3>2. SideOrdered(r, e.qty[r], e.best[r], e.far[r])
      BY <1>4, <3>1 DEF Ordered
    <3> QED BY <3>2 DEF e
  <2> QED BY <2>1, <2>2
<1>5. \A d \in Depth, s \in Sides : Ordered(d) => Ordered(ClearSide(d, s))
  BY <1>4 DEF Ordered
<1> QED BY <1>3, <1>5

\* A book built from levels is ordered.
LEMMA SnapshotOrdered ==
    ASSUME NEW levels \in [Sides -> [Ticks -> Nat]]
    PROVE  Ordered(ApplySnapshot(levels))
<1> SUFFICES ASSUME NEW s \in Sides
             PROVE  LET d == ApplySnapshot(levels)
                    IN  SideOrdered(s, d.qty[s], d.best[s], d.far[s])
  BY DEF Ordered
<1> DEFINE listed == {t \in Ticks : levels[s][t] > 0}
           d == ApplySnapshot(levels)
<1>1. /\ d.qty[s] = levels[s]
      /\ d.best[s] = IF listed = {} THEN NoBest(s) ELSE BestOf(s, listed)
      /\ d.far[s] = IF listed = {} THEN NoBest(Opposite(s)) ELSE BestOf(Opposite(s), listed)
  BY DEF ApplySnapshot
<1>2. listed \in SUBSET Ticks /\ Ticks \subseteq Int /\ Opposite(s) \in Sides
  BY OrdersAssumption, SideFacts DEF Ticks
<1>3. NoBest(s) \notin Ticks
  BY OrdersAssumption DEF NoBest, Ticks, INVALID_MIN, INVALID_MAX
<1>4. \A t \in Ticks : t \in listed <=> levels[s][t] > 0
  OBVIOUS
<1> HIDE DEF listed, d
<1>5. CASE listed = {}
  BY <1>1, <1>3, <1>4, <1>5 DEF SideOrdered, d
<1>6. CASE listed # {}
  <2>1. BestOf(s, listed) \in listed /\ \A t \in listed : ~Better(s, t, BestOf(s, listed))
    BY <1>2, <1>6, BestOfIsBest
  <2>2. /\ BestOf(Opposite(s), listed) \in listed
        /\ \A t \in listed : ~Better(Opposite(s), t, BestOf(Opposite(s), listed))
    BY <1>2, <1>6, BestOfIsBest
  <2>3. \A t \in listed : ~Better(s, BestOf(Opposite(s), listed), t)
    BY <1>2, <2>2, BetterFacts
  <2>4. SideOrdered(s, d.qty[s], d.best[s], d.far[s])
    BY <1>1, <1>2, <1>4, <1>6, <2>1, <2>3 DEF SideOrdered
  <2> QED BY <2>4 DEF d
<1> QED BY <1>5, <1>6

=============================================================================
