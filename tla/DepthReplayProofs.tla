------------------------- MODULE DepthReplayProofs -------------------------
(***************************************************************************)
(* The hash-map book implements L2Book: for every number of ticks, every   *)
(* lot size and every feed its levels are those the feed describes, its    *)
(* best prices stay apart but for a clear up to a price of crossed levels, *)
(* and as long as the feed does not cross its own levels they are the best *)
(* of the levels.                                                          *)
(*                                                                         *)
(* The invariant is that a book with a clean feed is ordered: no level is  *)
(* in front of its best price or beyond the far end where the scans for    *)
(* the next one stop; and that its best prices are apart.  An update keeps *)
(* any two best prices apart by pushing the other side's away (KeepsApart, *)
(* a fact about steps); a clear up to a price looks for the best level     *)
(* from there, and finds none in front of the old best only if the book is *)
(* ordered.                                                                *)
(*                                                                         *)
(* The ROI-vector book is compared with it step by step.  With a clean     *)
(* feed, of quantities that round to a lot at least, its cells are the     *)
(* levels of the other in the range and its best prices are the best of    *)
(* the cells (Twins): the range scans of the one book and the far ends of  *)
(* the other stop at different prices.  Whatever the feed, a cell that is  *)
(* the level of the other stays so, unless a clear up to a price finds     *)
(* crossed levels, in front of the best price (TwinStep).                  *)
(*                                                                         *)
(* A snapshot of the hash-map book is one assignment of levels and a look  *)
(* for the best of them (Held: a best price is a level or a sentinel).     *)
(* That of the ROI-vector book is a sequence of updates. After n of them   *)
(* the book is ordered and holds the levels up to there and no other       *)
(* (Restored): RestoresNext takes it through one event more, and after the *)
(* last the book is the one the snapshot was taken of.                     *)
(***************************************************************************)
EXTENDS DepthReplay, HashMapDepthProofs

Apart(d) == d.best["Buy"] < d.best["Sell"]
Inv ==
    /\ hash \in Depth
    /\ clean \in BOOLEAN
    /\ clean => Ordered(hash) /\ Apart(hash)

\* What a step does to the best prices, the formula of StaysUncrossed.
KeepsApart == (clean' \/ Apart(hash)) /\ ~CutsCrossed => Apart(hash')

\* Both books have prices or sentinels for best prices.
Priced(d) == d.best \in [Sides -> INVALID_MIN..INVALID_MAX]

LEMMA DepthPriced == ASSUME NEW d \in Depth PROVE Priced(d)
  BY DEF Depth, Priced

\* Seen from either side, the best prices are apart when they do not cross.
LEMMA ApartBySide ==
    ASSUME NEW d, Priced(d), NEW s \in Sides
    PROVE  Apart(d) <=> ~Crosses(s, d.best[s], d.best[Opposite(s)])
<1>1. d.best["Buy"] \in Int /\ d.best["Sell"] \in Int
  BY OrdersAssumption DEF Priced, Sides, INVALID_MIN, INVALID_MAX
<1>2. QED
  BY <1>1 DEF Apart, Crosses, Better, Opposite, Sides

\* A price at or behind another that does not cross does not cross either.
LEMMA BehindStaysApart ==
    ASSUME NEW s \in Sides, NEW a \in Int, NEW b \in Int, NEW c \in Int,
           ~Crosses(s, a, c), b = a \/ Better(s, a, b)
    PROVE  ~Crosses(s, b, c)
  BY DEF Crosses, Better, Sides

\* The sentinel of a side crosses nothing that the other side may have.
LEMMA NoBestApart ==
    ASSUME NEW s \in Sides, NEW c \in INVALID_MIN..INVALID_MAX, c # NoBest(s)
    PROVE  ~Crosses(s, NoBest(s), c)
  BY OrdersAssumption DEF Crosses, Better, NoBest, Sides, INVALID_MIN, INVALID_MAX

\* A sentinel is never on the wrong side of an uncrossed book.
LEMMA ApartSentinel ==
    ASSUME NEW d, Priced(d), Apart(d), NEW s \in Sides
    PROVE  d.best[Opposite(s)] # NoBest(s)
<1>1. d.best["Buy"] \in INVALID_MIN..INVALID_MAX /\ d.best["Sell"] \in INVALID_MIN..INVALID_MAX
  BY DEF Priced, Sides
<1>2. QED
  BY <1>1, OrdersAssumption DEF Apart, NoBest, Opposite, Sides, INVALID_MIN, INVALID_MAX

\* Moving one best price back, or to the sentinel, keeps an uncrossed book so.
LEMMA MovesBack ==
    ASSUME NEW d, NEW e, Priced(d), Priced(e), NEW s \in Sides, Apart(d),
           e.best[Opposite(s)] = d.best[Opposite(s)],
           \/ e.best[s] = d.best[s]
           \/ e.best[s] = NoBest(s)
           \/ Better(s, d.best[s], e.best[s])
    PROVE  Apart(e)
<1>1. Opposite(s) \in Sides
  BY SideFacts
<1>2. /\ d.best[s] \in Int /\ e.best[s] \in Int /\ d.best[Opposite(s)] \in Int
      /\ d.best[Opposite(s)] \in INVALID_MIN..INVALID_MAX
  BY <1>1, OrdersAssumption DEF Priced, INVALID_MIN, INVALID_MAX
<1>3. ~Crosses(s, d.best[s], d.best[Opposite(s)])
  BY ApartBySide
<1>4. ~Crosses(s, e.best[s], d.best[Opposite(s)])
  <2>1. CASE e.best[s] = NoBest(s)
    BY <2>1, <1>2, ApartSentinel, NoBestApart
  <2>2. CASE e.best[s] = d.best[s] \/ Better(s, d.best[s], e.best[s])
    BY <2>2, <1>2, <1>3, BehindStaysApart
  <2>3. QED
    BY <2>1, <2>2
<1>5. QED
  BY <1>4, ApartBySide

\* Deleting a level moves only its side, and backwards.
LEMMA RemoveApart ==
    ASSUME NEW d \in Depth, Apart(d), NEW s \in Sides, NEW tick \in Ticks,
           RemoveLevel(d, s, tick) \in Depth
    PROVE  Apart(RemoveLevel(d, s, tick))
<1> DEFINE e == RemoveLevel(d, s, tick)
           levels == [d.qty[s] EXCEPT ![tick] = 0]
           next == NextLevel(s, levels, d.best[s], d.far[s])
<1>1. Opposite(s) \in Sides /\ Opposite(s) # s
  BY SideFacts
<1>2. e.best = [d.best EXCEPT ![s] = IF tick = d.best[s] THEN next ELSE d.best[s]]
  BY DEF RemoveLevel
<1>3. next = NoBest(s) \/ Better(s, d.best[s], next)
  BY NextLevelBehind
<1> HIDE DEF e, next
<1>4. e.best[Opposite(s)] = d.best[Opposite(s)]
  BY <1>1, <1>2 DEF Depth
<1>5. e.best[s] = next \/ e.best[s] = d.best[s]
  BY <1>2 DEF Depth
<1>6. e \in Depth
  BY DEF e
<1>7. Apart(e)
  BY <1>3, <1>4, <1>5, <1>6, DepthPriced, MovesBack
<1>8. QED
  BY <1>7 DEF e

\* A new best price pushes the opposite one behind it.
LEMMA SetApart ==
    ASSUME NEW d \in Depth, Apart(d), NEW s \in Sides, NEW tick \in Ticks, NEW quantity,
           SetLevel(d, s, tick, quantity) \in Depth
    PROVE  Apart(SetLevel(d, s, tick, quantity))
<1> DEFINE e == SetLevel(d, s, tick, quantity)
           o == Opposite(s)
           improves == Better(s, tick, d.best[s])
           next == NextLevel(o, d.qty[o], tick, d.far[o])
           opposite == IF improves /\ Crosses(s, tick, d.best[o]) THEN next ELSE d.best[o]
<1>1. o \in Sides /\ o # s /\ Opposite(o) = s
  BY SideFacts
<1>2. e.best = [d.best EXCEPT ![s] = IF improves THEN tick ELSE @, ![o] = opposite]
  BY DEF SetLevel
<1>3. next = NoBest(o) \/ Better(o, tick, next)
  BY <1>1, NextLevelBehind
<1> HIDE DEF e, next, o, improves
<1>4. e.best[s] = (IF improves THEN tick ELSE d.best[s]) /\ e.best[o] = opposite
  BY <1>1, <1>2 DEF Depth
<1>5. e \in Depth
  BY DEF e
<1>6. ~Crosses(s, d.best[s], d.best[o])
  BY DepthPriced, ApartBySide DEF o
<1>7. ~Crosses(s, e.best[s], e.best[o])
  <2>1. CASE ~improves
    BY <2>1, <1>4, <1>6
  <2>2. CASE improves /\ ~Crosses(s, tick, d.best[o])
    BY <2>2, <1>4
  <2>3. CASE improves /\ Crosses(s, tick, d.best[o])
    <3>1. e.best[s] = tick /\ e.best[o] = next
      BY <2>3, <1>4
    <3>2. next \in Int /\ tick \in Int /\ 0 < tick /\ tick < INVALID_MAX
      BY <3>1, <1>1, <1>5, OrdersAssumption DEF Depth, Ticks, INVALID_MIN, INVALID_MAX
    <3>3. CASE next = NoBest(o)
      BY <3>1, <3>2, <3>3, <1>1, OrdersAssumption
         DEF NoBest, Crosses, Better, Sides, INVALID_MIN, INVALID_MAX
    <3>4. CASE Better(o, tick, next)
      BY <3>1, <3>2, <3>4, <1>1 DEF Crosses, Better, Sides
    <3>5. QED
      BY <1>3, <3>3, <3>4
  <2>4. QED
    BY <2>1, <2>2, <2>3
<1>8. QED
  BY <1>5, <1>7, DepthPriced, ApartBySide DEF e, o

\* A book built from a snapshot that does not cross does not cross.
LEMMA SnapshotApart ==
    ASSUME NEW levels \in SnapshotLevels
    PROVE  ApplySnapshot(levels) \in Depth /\ Apart(ApplySnapshot(levels))
<1> DEFINE listed(s) == {t \in Ticks : levels[s][t] > 0}
           d == ApplySnapshot(levels)
<1>1. levels \in [Sides -> [Ticks -> Nat]]
  <2>1. SnapshotQtys \cup {0} \subseteq Nat
    BY ReplayAssumption
  <2>2. levels \in [Sides -> [Ticks -> SnapshotQtys \cup {0}]]
    BY DEF SnapshotLevels
  <2>3. \A s \in Sides, t \in Ticks : levels[s][t] \in Nat
    BY <2>1, <2>2
  <2>4. QED
    BY <2>2, <2>3
<1>2. \A s \in Sides : listed(s) # {} => BestOf(s, listed(s)) \in listed(s)
  <2>1. \A s \in Sides : listed(s) \in SUBSET Ticks
    OBVIOUS
  <2> HIDE DEF listed
  <2>2. QED
    BY <2>1, BestOfIsBest
<1>3. \A s \in Sides : listed(s) # {} => BestOf(Opposite(s), listed(s)) \in listed(s)
  <2>1. \A s \in Sides : listed(s) \in SUBSET Ticks /\ Opposite(s) \in Sides
    BY SideFacts
  <2> HIDE DEF listed
  <2>2. QED
    BY <2>1, BestOfIsBest
<1>4. Ticks \subseteq INVALID_MIN..INVALID_MAX
  BY OrdersAssumption DEF Ticks, INVALID_MIN, INVALID_MAX
<1>5. d = [qty |-> levels,
           best |-> [s \in Sides |-> IF listed(s) = {} THEN NoBest(s)
                                     ELSE BestOf(s, listed(s))],
           far |-> [s \in Sides |-> IF listed(s) = {} THEN NoBest(Opposite(s))
                                    ELSE BestOf(Opposite(s), listed(s))]]
  BY DEF ApplySnapshot
<1>6. d \in Depth
  <2>1. \A s \in Sides : listed(s) \subseteq INVALID_MIN..INVALID_MAX
    BY <1>4
  <2>2. \A s \in Sides : NoBest(s) \in INVALID_MIN..INVALID_MAX
                         /\ NoBest(Opposite(s)) \in INVALID_MIN..INVALID_MAX
    BY SideFacts
  <2> HIDE DEF listed
  <2>3. QED
    BY <1>1, <1>2, <1>3, <1>5, <2>1, <2>2 DEF Depth
<1>7. Apart(d)
  <2>1. \A b \in listed("Buy"), a \in listed("Sell") : b < a
    BY DEF SnapshotLevels
  <2>2. "Buy" \in Sides /\ "Sell" \in Sides
    BY DEF Sides
  <2>3. listed("Buy") \subseteq Ticks /\ listed("Sell") \subseteq Ticks
    OBVIOUS
  <2> HIDE DEF listed
  <2>4. d.best["Buy"] = IF listed("Buy") = {} THEN INVALID_MIN ELSE BestOf("Buy", listed("Buy"))
    BY <1>5, <2>2 DEF NoBest
  <2>5. d.best["Sell"] = IF listed("Sell") = {} THEN INVALID_MAX ELSE BestOf("Sell", listed("Sell"))
    BY <1>5, <2>2 DEF NoBest
  <2>6. \A t \in Ticks : INVALID_MIN < t /\ t < INVALID_MAX
    BY OrdersAssumption DEF Ticks, INVALID_MIN, INVALID_MAX
  <2>7. INVALID_MIN < INVALID_MAX
    BY OrdersAssumption DEF INVALID_MIN, INVALID_MAX
  <2>8. QED
    BY <1>2, <2>1, <2>2, <2>3, <2>4, <2>5, <2>6, <2>7 DEF Apart
<1>8. QED
  BY <1>6, <1>7

\* The empty book is apart.
LEMMA EmptyApart == EmptyDepth \in Depth /\ Apart(EmptyDepth)
<1>1. EmptyDepth.best = [s \in Sides |-> NoBest(s)]
  BY DEF EmptyDepth
<1>2. QED
  BY <1>1, EmptyDepthType, OrdersAssumption DEF Apart, NoBest, Sides, INVALID_MIN, INVALID_MAX

\* Clearing an ordered side up to a price moves its best price back.
LEMMA CutApart ==
    ASSUME NEW d \in Depth, Apart(d), Ordered(d), NEW s \in Sides, NEW cut \in Ticks
    PROVE  Apart(ClearUpto(d, s, cut))
<1> DEFINE e == ClearUpto(d, s, cut)
<1>1. e \in Depth
  BY ClearDepthType
<1>2. Ordered(e) /\ e.qty = [d.qty EXCEPT ![s] = [t \in Ticks |-> IF Better(s, cut, t) THEN @[t] ELSE 0]]
  BY CutOrdered
<1>3. e.best[Opposite(s)] = d.best[Opposite(s)]
  BY SideFacts DEF ClearUpto, Depth
<1> HIDE DEF e
<1>4. /\ d.best[s] \in Int /\ e.best[s] \in Int /\ Ticks \subseteq Int
      /\ d.qty[s] \in [Ticks -> Nat]
  BY <1>1, DepthPrices
<1>5. CASE e.best[s] \in Ticks
  <2>1. e.qty[s][e.best[s]] > 0
    BY <1>2, <1>5 DEF Ordered, SideOrdered
  <2>2. e.qty[s][e.best[s]] = IF Better(s, cut, e.best[s]) THEN d.qty[s][e.best[s]] ELSE 0
    BY <1>2, <1>5 DEF Depth
  <2>3. ~Better(s, e.best[s], d.best[s])
    BY <1>5, <2>1, <2>2 DEF Ordered, SideOrdered
  <2>4. e.best[s] = d.best[s] \/ Better(s, d.best[s], e.best[s])
    BY <1>4, <2>3, BetterFacts
  <2> QED BY <1>1, <1>3, <2>4, DepthPriced, MovesBack DEF e
<1>6. CASE e.best[s] \notin Ticks
  <2>1. e.best[s] = NoBest(s)
    BY <1>2, <1>6 DEF Ordered, SideOrdered
  <2> QED BY <1>1, <1>3, <2>1, DepthPriced, MovesBack DEF e
<1> QED BY <1>5, <1>6

-----------------------------------------------------------------------------
(* One lemma for each event: the invariant, and the step of L2Book.         *)

\* L2Book extends the same vocabulary.
LEMMA Vocabulary ==
    /\ Book!Ticks = Ticks /\ Book!Sides = Sides
    /\ Book!INVALID_MIN = INVALID_MIN /\ Book!INVALID_MAX = INVALID_MAX
    /\ \A q : Book!Lots(q) = Lots(q)
    /\ \A s : Book!NoBest(s) = NoBest(s) /\ Book!Opposite(s) = Opposite(s)
    /\ \A s, a, b : /\ Book!Better(s, a, b) = Better(s, a, b)
                    /\ Book!Crosses(s, a, b) = Crosses(s, a, b)
    /\ \A S : Book!Max(S) = Max(S) /\ Book!Min(S) = Min(S)
<1>1. /\ Book!Ticks = Ticks /\ Book!Sides = Sides
      /\ Book!INVALID_MIN = INVALID_MIN /\ Book!INVALID_MAX = INVALID_MAX
  BY DEF Book!Ticks, Ticks, Book!Sides, Sides, Book!INVALID_MIN, INVALID_MIN,
         Book!INVALID_MAX, INVALID_MAX
<1>2. \A q : Book!Lots(q) = Lots(q)
  BY DEF Book!Lots, Lots
<1>3. \A s : Book!NoBest(s) = NoBest(s) /\ Book!Opposite(s) = Opposite(s)
  BY <1>1 DEF Book!NoBest, NoBest, Book!Opposite, Opposite
<1>4. \A s, a, b : Book!Better(s, a, b) = Better(s, a, b)
  BY DEF Book!Better, Better
<1>5. \A s, a, b : Book!Crosses(s, a, b) = Crosses(s, a, b)
  BY <1>4 DEF Book!Crosses, Crosses
<1>6. \A S : Book!Max(S) = Max(S) /\ Book!Min(S) = Min(S)
  BY Zenon DEF Book!Max, Max, Book!Min, Min
<1> QED BY <1>1, <1>2, <1>3, <1>4, <1>5, <1>6

\* What is common to all events: the best prices of an ordered book.
LEMMA BookStep ==
    ASSUME Inv', KeepsApart, event' \in Events, hash'.qty = Book!After(event'),
           event'.kind = "cut" => Better(event'.side, event'.tick, hash'.best[event'.side]),
           clean' = (Book!Restarts(event') \/ (clean /\ ~Book!Crossing(event')))
    PROVE  Book!Next
<1>1. /\ hash'.best \in [Sides -> INVALID_MIN..INVALID_MAX]
      /\ (clean' \/ hash.best["Buy"] < hash.best["Sell"]) /\ ~Book!CutsCrossed
            => hash'.best["Buy"] < hash'.best["Sell"]
  BY DEF Inv, Depth, Apart, KeepsApart, CutsCrossed, Book!CutsCrossed
<1>2. ASSUME clean' PROVE hash'.best = [s \in Sides |-> Book!Touch(s, hash'.qty[s])]
  <2>1. ASSUME NEW s \in Sides PROVE hash'.best[s] = Book!Touch(s, hash'.qty[s])
    <3>1. hash'.best[s] \in Int /\ hash'.far[s] \in Int /\ hash'.qty[s] \in [Ticks -> Nat]
      BY DepthPrices DEF Inv
    <3>2. SideOrdered(s, hash'.qty[s], hash'.best[s], hash'.far[s])
      BY <1>2 DEF Inv, Ordered
    <3> QED BY Vocabulary, <3>1, <3>2, OrderedBest DEF Book!Touch, BestOf
  <2> QED BY <1>1, <2>1
<1> QED BY Vocabulary, <1>1, <1>2 DEF Book!Next

\* A level meets the other side's best price exactly when it meets one of its levels.
LEMMA MeetsALevel ==
    ASSUME NEW d \in Depth, Ordered(d), NEW s \in Sides, NEW tick \in Ticks
    PROVE  Crosses(s, tick, d.best[Opposite(s)]) <=>
             \E t \in Ticks : d.qty[Opposite(s)][t] > 0 /\ Crosses(s, tick, t)
<1> DEFINE o == Opposite(s)
<1>1. /\ o \in Sides /\ Opposite(o) = s
      /\ d.best[o] \in Int /\ Ticks \subseteq Int
  BY SideFacts, DepthPrices
<1>2. SideOrdered(o, d.qty[o], d.best[o], d.far[o])
  BY <1>1 DEF Ordered
<1> HIDE DEF o
<1>3. ASSUME Crosses(s, tick, d.best[o])
      PROVE  d.best[o] \in Ticks /\ d.qty[o][d.best[o]] > 0
  <2>1. d.best[o] # NoBest(o)
    <3> SUFFICES ASSUME d.best[o] = NoBest(o) PROVE FALSE
      OBVIOUS
    <3>1. Better(o, tick, NoBest(o)) /\ tick # NoBest(o) /\ NoBest(o) \in Int /\ tick \in Int
      BY <1>1, BetterFacts
    <3>2. Better(s, NoBest(o), tick)
      BY <1>1, <3>1, BetterFacts
    <3> QED BY <1>3, <3>1, <3>2, BetterFacts DEF Crosses
  <2> QED BY <1>2, <2>1 DEF SideOrdered
<1>4. ASSUME NEW t \in Ticks, d.qty[o][t] > 0, Crosses(s, tick, t)
      PROVE  Crosses(s, tick, d.best[o])
  <2>1. ~Better(o, t, d.best[o])
    BY <1>2, <1>4 DEF SideOrdered
  <2>2. ~Better(s, d.best[o], t)
    BY <1>1, <2>1, BetterFacts
  <2>3. t \in Int /\ tick \in Int
    BY <1>1
  <2> QED BY <1>1, <1>4, <2>2, <2>3, BetterFacts DEF Crosses
<1> QED BY <1>3, <1>4 DEF o

LEMMA UpdatesLevelStep ==
    ASSUME Inv, UpdatesLevel
    PROVE  Inv' /\ KeepsApart /\ Book!Next
<1> USE DEF Inv
<1>1. PICK s \in Sides, t \in Ticks, q \in FeedQtys \cup {0} :
          /\ event' = [kind |-> "depth", side |-> s, tick |-> t, qty |-> q]
          /\ hash' = UpdateDepth(hash, s, t, q)
          /\ clean' = (clean /\ (Lots(q) = 0 \/ ~Crosses(s, t, hash.best[Opposite(s)])))
  BY DEF UpdatesLevel, Arrives
<1>2. q \in Nat /\ Opposite(s) \in Sides /\ Opposite(s) # s
  BY ReplayAssumption, SideFacts
<1>3. Lots(q) \in Nat /\ (Lots(q) > 0 => q > 0)
  <2>1. LotSize \in Nat \ {0}
    BY OrdersAssumption
  <2>2. Lots(q) \in Nat
    BY <1>2, <2>1 DEF Lots
  <2>3. q = 0 => Lots(q) = 0
    BY <2>1 DEF Lots
  <2> QED BY <1>2, <2>2, <2>3
<1>4. hash' \in Depth
  BY <1>1, <1>2, UpdateDepthType
<1>5. CASE Lots(q) > 0
  <2>1. hash' = SetLevel(hash, s, t, q)
    BY <1>1, <1>5 DEF UpdateDepth
  <2>2. Apart(hash) => Apart(hash')
    BY <1>4, <2>1, SetApart
  <2>3. ASSUME clean' PROVE Ordered(hash')
    <3>1. Lots(q) # 0 /\ q > 0
      BY <1>3, <1>5
    <3>2. clean /\ ~Crosses(s, t, hash.best[Opposite(s)])
      BY <1>1, <2>3, <3>1, Zenon
    <3>3. hash \in Depth /\ Ordered(hash)
      BY <3>2
    <3> QED BY <1>2, <2>1, <3>1, <3>2, <3>3, SetOrdered
  <2>4. Inv' /\ KeepsApart
    BY <1>1, <1>4, <2>2, <2>3 DEF KeepsApart
  <2>5. hash'.qty = [hash.qty EXCEPT ![s][t] = q]
    BY <2>1 DEF SetLevel
  <2>6. hash'.qty = Book!After(event')
    BY Vocabulary, <1>1, <1>3, <1>5, <2>5 DEF Book!After
  <2>7. clean => (Crosses(s, t, hash.best[Opposite(s)]) <=> Book!Crossing(event'))
    BY Vocabulary, <1>1, <1>5, MeetsALevel DEF Book!Crossing
  <2>8. clean' = (Book!Restarts(event') \/ (clean /\ ~Book!Crossing(event')))
    BY <1>1, <1>3, <1>5, <2>7 DEF Book!Restarts
  <2>9. event' \in Events
    BY <1>1 DEF Events
  <2> QED BY <1>1, <2>4, <2>6, <2>8, <2>9, BookStep
<1>6. CASE Lots(q) = 0
  <2>1. hash' = RemoveLevel(hash, s, t)
    BY <1>1, <1>6 DEF UpdateDepth
  <2>2. Apart(hash) => Apart(hash')
    BY <1>4, <2>1, RemoveApart
  <2>3. clean' => Ordered(hash')
    BY <1>1, <2>1, RemoveOrdered
  <2>4. Inv' /\ KeepsApart
    BY <1>1, <1>4, <2>2, <2>3 DEF KeepsApart
  <2>5. hash'.qty = [hash.qty EXCEPT ![s] = [@ EXCEPT ![t] = 0]]
    BY <2>1 DEF RemoveLevel
  <2>6. hash'.qty = Book!After(event')
    BY Vocabulary, <1>1, <1>6, <2>5 DEF Book!After
  <2>7. ~Book!Crossing(event') /\ ~Book!Restarts(event')
    BY Vocabulary, <1>1, <1>6 DEF Book!Crossing, Book!Restarts
  <2>8. clean' = (Book!Restarts(event') \/ (clean /\ ~Book!Crossing(event')))
    BY <1>1, <1>6, <2>7
  <2>9. event' \in Events
    BY <1>1 DEF Events
  <2> QED BY <1>1, <2>4, <2>6, <2>8, <2>9, BookStep
<1> QED BY <1>3, <1>5, <1>6

LEMMA CutsSideStep ==
    ASSUME Inv, CutsSide
    PROVE  Inv' /\ KeepsApart /\ Book!Next
<1> USE DEF Inv
<1>1. PICK s \in Sides, t \in Ticks :
          /\ clean' = clean
          /\ event' = [kind |-> "cut", side |-> s, tick |-> t]
          /\ hash' = ClearUpto(hash, s, t)
  BY DEF CutsSide, Arrives
<1>2. /\ hash' \in Depth
      /\ clean => Ordered(hash') /\ Apart(hash')
  BY <1>1, ClearDepthType, CutOrdered, CutApart
<1>3. Inv' /\ KeepsApart
  BY <1>1, <1>2 DEF KeepsApart, CutsCrossed
<1>4. hash'.qty = Book!After(event')
  <2>1. hash'.qty = [hash.qty EXCEPT ![s] =
           [u \in Ticks |-> IF ~Better(s, t, u) /\ ~Better(s, u, hash.best[s])
                            THEN 0 ELSE hash.qty[s][u]]]
    BY <1>1 DEF ClearUpto
  <2>2. Book!After(event') = [hash.qty EXCEPT ![s] =
           [u \in Ticks |-> IF Better(s, t, u) \/ Better(s, u, hash.best[s])
                            THEN hash.qty[s][u] ELSE 0]]
    BY Vocabulary, <1>1 DEF Book!After, Depth
  <2> QED BY <2>1, <2>2
<1>5. ~Book!Crossing(event') /\ ~Book!Restarts(event')
  BY Vocabulary, <1>1 DEF Book!Crossing, Book!Restarts
<1>6. event' \in Events
  BY <1>1 DEF Events
<1>7. Better(s, t, hash'.best[s])
  <2> DEFINE levels == [u \in Ticks |-> IF ~Better(s, t, u) /\ ~Better(s, u, hash.best[s])
                                        THEN 0 ELSE hash.qty[s][u]]
  <2>1. hash'.best[s] = NextLevel(s, levels, t, hash.far[s])
    BY <1>1 DEF ClearUpto, Depth
  <2>2. t \in Int
    BY DepthPrices
  <2> HIDE DEF levels
  <2> QED BY <2>1, <2>2, NextLevelBehind, BetterFacts
<1> QED BY <1>1, <1>3, <1>4, <1>5, <1>6, <1>7, BookStep

LEMMA ClearsSideStep ==
    ASSUME Inv, ClearsSide
    PROVE  Inv' /\ KeepsApart /\ Book!Next
<1> USE DEF Inv
<1>1. PICK s \in Sides :
          /\ clean' = clean
          /\ event' = [kind |-> "clear", sides |-> {s}]
          /\ hash' = ClearSide(hash, s)
  BY DEF ClearsSide, Arrives
<1>2. hash' \in Depth
  BY <1>1, ClearSideType
<1>3. hash'.best[s] = NoBest(s) /\ hash'.best[Opposite(s)] = hash.best[Opposite(s)]
  BY <1>1, SideFacts DEF ClearSide, Depth
<1>4. Apart(hash) => Apart(hash')
  BY <1>2, <1>3, DepthPriced, MovesBack
<1>5. clean' => Ordered(hash')
  BY <1>1, ClearOrdered
<1>6. Inv' /\ KeepsApart
  BY <1>1, <1>2, <1>4, <1>5 DEF KeepsApart
<1>7. {s} # Sides /\ {s} \in {{"Buy"}, {"Sell"}, Sides}
  BY DEF Sides
<1>8. hash'.qty = [r \in Sides |-> IF r \in {s} THEN [t \in Ticks |-> 0] ELSE hash.qty[r]]
  BY <1>1 DEF ClearSide, Depth
<1>9. hash'.qty = Book!After(event')
  BY Vocabulary, <1>1, <1>8 DEF Book!After, Book!NoLevels
<1>10. ~Book!Crossing(event') /\ ~Book!Restarts(event')
  BY Vocabulary, <1>1, <1>7 DEF Book!Crossing, Book!Restarts
<1>11. event' \in Events
  BY <1>1, <1>7 DEF Events
<1> QED BY <1>1, <1>6, <1>9, <1>10, <1>11, BookStep

LEMMA ClearsBookStep ==
    ASSUME Inv, ClearsBook
    PROVE  Inv' /\ KeepsApart /\ Book!Next
<1>1. event' = [kind |-> "clear", sides |-> Sides] /\ hash' = EmptyDepth /\ clean' = TRUE
  BY DEF ClearsBook, Arrives
<1>2. Inv' /\ KeepsApart
  BY <1>1, EmptyApart, ClearOrdered DEF Inv, KeepsApart
<1>3. hash'.qty = [s \in Sides |-> [t \in Ticks |-> 0]]
  BY <1>1 DEF EmptyDepth
<1>4. hash'.qty = Book!After(event')
  BY Vocabulary, <1>1, <1>3 DEF Book!After, Book!NoLevels
<1>5. Book!Restarts(event') /\ event' \in Events
  BY Vocabulary, <1>1 DEF Book!Restarts, Events
<1> QED BY <1>1, <1>2, <1>4, <1>5, BookStep

LEMMA TakesSnapshotStep ==
    ASSUME Inv, TakesSnapshot
    PROVE  Inv' /\ KeepsApart /\ Book!Next
<1>1. PICK levels \in SnapshotLevels :
          /\ event' = [kind |-> "snapshot", levels |-> levels]
          /\ hash' = ApplySnapshot(levels)
          /\ clean' = TRUE
  BY DEF TakesSnapshot, Arrives
<1>2. levels \in [Sides -> [Ticks -> Nat]]
  <2>1. hash'.qty = levels
    BY <1>1 DEF ApplySnapshot
  <2> QED BY <1>1, <2>1, SnapshotApart DEF Depth
<1>3. Inv' /\ KeepsApart
  BY <1>1, <1>2, SnapshotApart, SnapshotOrdered DEF Inv, KeepsApart
<1>4. hash'.qty = Book!After(event')
  BY Vocabulary, <1>1 DEF Book!After, ApplySnapshot
<1>5. Book!Restarts(event') /\ event' \in Events
  BY <1>1 DEF Book!Restarts, Events
<1> QED BY <1>1, <1>3, <1>4, <1>5, BookStep

\* The initial book, and every step.
LEMMA InitHolds == Init => Inv /\ Book!Init
<1> SUFFICES ASSUME Init PROVE Inv /\ Book!Init
  OBVIOUS
<1>1. hash = EmptyDepth /\ clean = TRUE /\ event = [kind |-> "none"]
  BY DEF Init
<1>2. Inv
  BY <1>1, EmptyApart, ClearOrdered DEF Inv
<1>3. /\ hash.qty = [s \in Sides |-> [t \in Ticks |-> 0]]
      /\ hash.best = [s \in Sides |-> NoBest(s)]
  BY <1>1 DEF EmptyDepth
<1> QED BY Vocabulary, <1>1, <1>2, <1>3 DEF Book!Init, Book!NoEvent, Book!NoLevels

LEMMA NextHolds ==
    Inv /\ [Next]_replayVars
        => Inv' /\ [KeepsApart]_replayVars /\ [Book!Next]_(Book!bookVars)
<1> SUFFICES ASSUME Inv, [Next]_replayVars
             PROVE  Inv' /\ [KeepsApart]_replayVars /\ [Book!Next]_(Book!bookVars)
  OBVIOUS
<1>1. CASE Next
  BY <1>1, UpdatesLevelStep, CutsSideStep, ClearsSideStep, ClearsBookStep,
     TakesSnapshotStep DEF Next
<1>2. CASE UNCHANGED replayVars
  BY <1>2 DEF replayVars, Inv, Book!bookVars
<1> QED BY <1>1, <1>2

-----------------------------------------------------------------------------
(* The ROI-vector book.                                                     *)

\* Quantities that are no lot would be cells of the ROI-vector book and no levels of
\* the hash-map book.
WholeLots == \A q \in FeedQtys : q = 0 \/ Lots(q) > 0

\* The cells of a side that are not empty.
Filled(side) == {t \in Roi : side[t] > 0}

\* Its best prices are the best of its cells.
RoiOrdered(r) == \A s \in Sides : r.best[s] = RoiTop(s, Filled(r.qty[s]))

LEMMA RoiTicks == Roi \subseteq Ticks /\ Ticks \subseteq Int /\ \A s \in Sides : NoBest(s) \notin Ticks
  BY RoiAssumption, OrdersAssumption
     DEF Roi, Ticks, NoBest, Sides, INVALID_MIN, INVALID_MAX

\* What RoiTop picks, and that nothing else is what it picks.
LEMMA RoiTopIs ==
    ASSUME NEW s \in Sides, NEW S \in SUBSET Roi
    PROVE  /\ S = {} => RoiTop(s, S) = NoBest(s)
           /\ S # {} => RoiTop(s, S) \in S
           /\ \A t \in S : ~Better(s, t, RoiTop(s, S))
           /\ \A x \in S : (\A t \in S : ~Better(s, t, x)) => RoiTop(s, S) = x
<1>1. S \in SUBSET Ticks /\ S \subseteq Int
  BY RoiTicks
<1>2. S # {} => RoiTop(s, S) = BestOf(s, S)
  BY DEF RoiTop, BestOf
<1>3. S # {} => RoiTop(s, S) \in S /\ \A t \in S : ~Better(s, t, RoiTop(s, S))
  BY <1>1, <1>2, BestOfIsBest
<1>4. ASSUME NEW x \in S, \A t \in S : ~Better(s, t, x)
      PROVE  RoiTop(s, S) = x
  <2>1. RoiTop(s, S) \in S /\ ~Better(s, x, RoiTop(s, S)) /\ ~Better(s, RoiTop(s, S), x)
    BY <1>3, <1>4
  <2>2. QED
    BY <1>1, <2>1, BetterFacts
<1>5. QED
  BY <1>3, <1>4 DEF RoiTop

\* A scan ends strictly behind where it starts.
LEMMA RoiScanIs ==
    ASSUME NEW s \in Sides, NEW side, NEW start
    PROVE  LET next == RoiScan(s, side, start)
           IN  next = NoBest(s) \/ (next \in Roi /\ Better(s, start, next))
<1> DEFINE found == {t \in Roi : Better(s, start, t) /\ side[t] > 0}
<1>1. found \in SUBSET Roi /\ RoiScan(s, side, start) = RoiTop(s, found)
  BY DEF RoiScan
<1>2. \A t \in found : t \in Roi /\ Better(s, start, t)
  OBVIOUS
<1> HIDE DEF found
<1>3. QED
  BY <1>1, <1>2, RoiTopIs

\* Every member function leaves a book of the right type.
LEMMA RoiPrices ==
    ASSUME NEW r \in RoiDepth, NEW s \in Sides
    PROVE  /\ r.best[s] \in {INVALID_MIN, INVALID_MAX} \cup Roi /\ r.best[s] \in Int
           /\ r.qty[s] \in [Roi -> Nat]
           /\ r.best[s] \in INVALID_MIN..INVALID_MAX
<1>1. r.best[s] \in {INVALID_MIN, INVALID_MAX} \cup Roi /\ r.qty[s] \in [Roi -> Nat]
  BY DEF RoiDepth
<1>2. {INVALID_MIN, INVALID_MAX} \cup Roi \subseteq INVALID_MIN..INVALID_MAX
  BY RoiTicks, OrdersAssumption DEF Ticks, INVALID_MIN, INVALID_MAX
<1>3. INVALID_MIN..INVALID_MAX \subseteq Int
  OBVIOUS
<1>4. QED
  BY <1>1, <1>2, <1>3

LEMMA RoiTopType ==
    ASSUME NEW s \in Sides, NEW S \in SUBSET Roi
    PROVE  RoiTop(s, S) \in {INVALID_MIN, INVALID_MAX} \cup Roi
<1>1. NoBest(s) \in {INVALID_MIN, INVALID_MAX}
  BY DEF NoBest
<1>2. QED
  BY <1>1, RoiTopIs

LEMMA RoiUpdateType ==
    ASSUME NEW r \in RoiDepth, NEW s \in Sides, NEW tick, NEW quantity \in Nat
    PROVE  RoiUpdate(r, s, tick, quantity) \in RoiDepth
<1> DEFINE o == Opposite(s)
           levels == [r.qty[s] EXCEPT ![tick] = quantity]
           improves == Lots(quantity) > 0 /\ Better(s, tick, r.best[s])
           exhausts == Lots(quantity) = 0 /\ tick = r.best[s]
           price == {INVALID_MIN, INVALID_MAX} \cup Roi
           mine == IF improves THEN tick
                   ELSE IF exhausts THEN RoiScan(s, levels, tick) ELSE r.best[s]
           other == IF improves /\ Crosses(s, tick, r.best[o])
                    THEN RoiScan(o, r.qty[o], tick) ELSE r.best[o]
<1>1. CASE tick \notin Roi
  BY <1>1 DEF RoiUpdate
<1>2. CASE tick \in Roi
  <2>1. o \in Sides /\ o # s
    BY SideFacts
  <2>2. RoiScan(s, levels, tick) \in price /\ RoiScan(o, r.qty[o], tick) \in price
    BY <2>1, RoiScanIs DEF NoBest
  <2>3. levels \in [Roi -> Nat] /\ r.best[s] \in price /\ r.best[o] \in price
    BY <1>2, <2>1, RoiPrices
  <2>4. RoiUpdate(r, s, tick, quantity) =
          [qty |-> [r.qty EXCEPT ![s] = levels],
           best |-> [r.best EXCEPT ![s] = mine, ![o] = other]]
    BY <1>2, <2>1 DEF RoiUpdate, RoiDepth
  <2>5. mine \in price /\ other \in price
    BY <1>2, <2>2, <2>3
  <2> HIDE DEF mine, other, levels, o, price
  <2>6. [r.qty EXCEPT ![s] = levels] \in [Sides -> [Roi -> Nat]]
    BY <2>3 DEF RoiDepth
  <2>7. [r.best EXCEPT ![s] = mine, ![o] = other] \in [Sides -> price]
    BY <2>1, <2>5 DEF RoiDepth, price
  <2>8. QED
    BY <2>4, <2>6, <2>7 DEF RoiDepth, price
<1>3. QED
  BY <1>1, <1>2

LEMMA RoiEmptyType == RoiEmpty \in RoiDepth /\ Apart(RoiEmpty) /\ RoiOrdered(RoiEmpty)
<1>1. RoiEmpty \in RoiDepth
  BY DEF RoiEmpty, RoiDepth, NoBest
<1>2. Apart(RoiEmpty)
  BY OrdersAssumption DEF RoiEmpty, Apart, NoBest, Sides, INVALID_MIN, INVALID_MAX
<1>3. \A s \in Sides : Filled(RoiEmpty.qty[s]) = {} /\ RoiEmpty.best[s] = NoBest(s)
  BY DEF RoiEmpty, Filled
<1>4. QED
  BY <1>1, <1>2, <1>3 DEF RoiOrdered, RoiTop

LEMMA RoiClearType ==
    ASSUME NEW r \in RoiDepth, NEW s \in Sides
    PROVE  /\ RoiClearSide(r, s) \in RoiDepth
           /\ \A cut : RoiClearUpto(r, s, cut) \in RoiDepth
<1>1. RoiClearSide(r, s) \in RoiDepth
  BY DEF RoiClearSide, RoiDepth, NoBest
<1>2. ASSUME NEW cut PROVE RoiClearUpto(r, s, cut) \in RoiDepth
  <2> DEFINE levels == [t \in Roi |-> IF Better(s, cut, t) THEN r.qty[s][t] ELSE 0]
             top == RoiTop(s, {t \in Roi : levels[t] > 0})
  <2>1. levels \in [Roi -> Nat]
    BY RoiPrices
  <2>2. top \in {INVALID_MIN, INVALID_MAX} \cup Roi
    BY RoiTopType
  <2>3. RoiClearUpto(r, s, cut) = [qty |-> [r.qty EXCEPT ![s] = levels],
                                   best |-> [r.best EXCEPT ![s] = top]]
    BY DEF RoiClearUpto
  <2> HIDE DEF levels, top
  <2>4. QED
    BY <2>1, <2>2, <2>3 DEF RoiDepth
<1>3. QED
  BY <1>1, <1>2

\* An update inside the range, field by field.
RoiMoves(r, s, tick, quantity, e) ==
    LET o == Opposite(s)
        levels == [r.qty[s] EXCEPT ![tick] = quantity]
        improves == Lots(quantity) > 0 /\ Better(s, tick, r.best[s])
        exhausts == Lots(quantity) = 0 /\ tick = r.best[s]
    IN  /\ e.qty[s] = levels /\ e.qty[o] = r.qty[o]
        /\ e.qty = [r.qty EXCEPT ![s] = levels]
        /\ improves => e.best[s] = tick
        /\ ~improves /\ exhausts => e.best[s] = RoiScan(s, levels, tick)
        /\ ~improves /\ ~exhausts => e.best[s] = r.best[s]
        /\ e.best[o] = IF improves /\ Crosses(s, tick, r.best[o])
                       THEN RoiScan(o, r.qty[o], tick) ELSE r.best[o]

LEMMA RoiUpdateIs ==
    ASSUME NEW r \in RoiDepth, NEW s \in Sides, NEW tick \in Roi, NEW quantity
    PROVE  RoiMoves(r, s, tick, quantity, RoiUpdate(r, s, tick, quantity))
<1> DEFINE o == Opposite(s)
           levels == [r.qty[s] EXCEPT ![tick] = quantity]
           improves == Lots(quantity) > 0 /\ Better(s, tick, r.best[s])
           exhausts == Lots(quantity) = 0 /\ tick = r.best[s]
           mine == IF improves THEN tick
                   ELSE IF exhausts THEN RoiScan(s, levels, tick) ELSE r.best[s]
           other == IF improves /\ Crosses(s, tick, r.best[o])
                    THEN RoiScan(o, r.qty[o], tick) ELSE r.best[o]
<1>1. o \in Sides /\ o # s
  BY SideFacts
<1>2. RoiUpdate(r, s, tick, quantity) =
        [qty |-> [r.qty EXCEPT ![s] = levels], best |-> [r.best EXCEPT ![s] = mine, ![o] = other]]
  BY <1>1 DEF RoiUpdate, RoiDepth
<1> HIDE DEF o, levels, mine, other
<1>3. LET e == RoiUpdate(r, s, tick, quantity)
      IN  /\ e.qty = [r.qty EXCEPT ![s] = levels]
          /\ e.qty[s] = levels /\ e.qty[o] = r.qty[o] /\ e.best[s] = mine /\ e.best[o] = other
  BY <1>1, <1>2 DEF RoiDepth
<1>4. QED
  BY <1>3 DEF o, levels, mine, other, RoiMoves

LEMMA RoiPriced == ASSUME NEW r \in RoiDepth PROVE Priced(r)
  BY RoiPrices DEF RoiDepth, Priced

\* A new best price pushes the opposite one behind it, and a scan goes backwards.
LEMMA RoiUpdateApart ==
    ASSUME NEW r \in RoiDepth, Apart(r), NEW s \in Sides, NEW tick, NEW quantity \in Nat
    PROVE  Apart(RoiUpdate(r, s, tick, quantity))
<1> DEFINE e == RoiUpdate(r, s, tick, quantity)
           o == Opposite(s)
           levels == [r.qty[s] EXCEPT ![tick] = quantity]
           improves == Lots(quantity) > 0 /\ Better(s, tick, r.best[s])
<1>1. CASE tick \notin Roi
  BY <1>1 DEF RoiUpdate
<1>2. CASE tick \in Roi
  <2>1. o \in Sides /\ Opposite(o) = s /\ e \in RoiDepth /\ Priced(e) /\ Priced(r)
    BY SideFacts, RoiUpdateType, RoiPriced
  <2>2. /\ improves => e.best[s] = tick
        /\ ~improves /\ Lots(quantity) = 0 /\ tick = r.best[s] =>
              e.best[s] = RoiScan(s, levels, tick)
        /\ ~improves /\ ~(Lots(quantity) = 0 /\ tick = r.best[s]) => e.best[s] = r.best[s]
        /\ e.best[o] = IF improves /\ Crosses(s, tick, r.best[o])
                       THEN RoiScan(o, r.qty[o], tick) ELSE r.best[o]
    <3>1. RoiMoves(r, s, tick, quantity, e)
      BY <1>2, RoiUpdateIs
    <3> HIDE DEF e
    <3>2. QED
      BY <3>1 DEF RoiMoves
  <2>3. /\ RoiScan(s, levels, tick) = NoBest(s) \/ Better(s, tick, RoiScan(s, levels, tick))
        /\ RoiScan(o, r.qty[o], tick) = NoBest(o) \/ Better(o, tick, RoiScan(o, r.qty[o], tick))
    BY <2>1, RoiScanIs
  <2> HIDE DEF e, levels, o
  <2>4. CASE ~improves
    <3>1. e.best[o] = r.best[o]
      BY <2>2, <2>4
    <3>2. e.best[s] = r.best[s] \/ e.best[s] = NoBest(s) \/ Better(s, r.best[s], e.best[s])
      BY <2>2, <2>3, <2>4
    <3>3. QED
      BY <2>1, <3>1, <3>2, MovesBack DEF e, o
  <2>5. CASE improves /\ ~Crosses(s, tick, r.best[o])
    BY <2>1, <2>2, <2>5, ApartBySide DEF e, o
  <2>6. CASE improves /\ Crosses(s, tick, r.best[o])
    <3>1. e.best[s] = tick /\ (e.best[o] = NoBest(o) \/ Better(o, tick, e.best[o]))
      BY <2>2, <2>3, <2>6
    <3>2. tick \in Ticks /\ tick \in Int /\ e.best[o] \in Int
      BY <1>2, <2>1, RoiTicks, RoiPrices
    <3>3. ~Crosses(s, tick, e.best[o])
      <4>1. CASE e.best[o] = NoBest(o)
        BY <2>1, <3>2, <4>1, BetterFacts DEF Crosses
      <4>2. CASE Better(o, tick, e.best[o])
        BY <2>1, <3>2, <4>2, BetterFacts DEF Crosses
      <4>3. QED
        BY <3>1, <4>1, <4>2
    <3>4. QED
      BY <2>1, <3>1, <3>3, ApartBySide DEF e, o
  <2>7. QED
    BY <2>4, <2>5, <2>6 DEF e
<1>3. QED
  BY <1>1, <1>2

\* The best price of an ordered book, in terms of its cells.
LEMMA RoiBest ==
    ASSUME NEW r \in RoiDepth, RoiOrdered(r), NEW s \in Sides
    PROVE  /\ r.best[s] \in Filled(r.qty[s]) \/ (Filled(r.qty[s]) = {} /\ r.best[s] = NoBest(s))
           /\ \A t \in Filled(r.qty[s]) : ~Better(s, t, r.best[s])
<1>1. Filled(r.qty[s]) \in SUBSET Roi /\ r.best[s] = RoiTop(s, Filled(r.qty[s]))
  BY DEF Filled, RoiOrdered
<1>2. QED
  BY <1>1, RoiTopIs

\* A level that meets none of the other side's, or the end of one, keeps an ordered
\* book in order.
LEMMA RoiUpdateOrdered ==
    ASSUME NEW r \in RoiDepth, RoiOrdered(r), NEW s \in Sides, NEW tick, NEW quantity \in Nat,
           quantity = 0 \/ Lots(quantity) > 0,
           quantity # 0 =>
              \A t \in Filled(r.qty[Opposite(s)]) : ~Crosses(s, tick, t)
    PROVE  RoiOrdered(RoiUpdate(r, s, tick, quantity))
<1> DEFINE e == RoiUpdate(r, s, tick, quantity)
           o == Opposite(s)
           levels == [r.qty[s] EXCEPT ![tick] = quantity]
           improves == Lots(quantity) > 0 /\ Better(s, tick, r.best[s])
<1>1. CASE tick \notin Roi
  BY <1>1 DEF RoiUpdate
<1>2. CASE tick \in Roi
  <2>1. o \in Sides /\ Opposite(o) = s /\ e \in RoiDepth /\ Sides = {s, o}
    BY SideFacts, RoiUpdateType DEF Sides, Opposite
  <2>2. /\ e.qty[s] = levels /\ e.qty[o] = r.qty[o]
        /\ improves => e.best[s] = tick
        /\ ~improves /\ Lots(quantity) = 0 /\ tick = r.best[s] =>
              e.best[s] = RoiScan(s, levels, tick)
        /\ ~improves /\ ~(Lots(quantity) = 0 /\ tick = r.best[s]) => e.best[s] = r.best[s]
        /\ e.best[o] = IF improves /\ Crosses(s, tick, r.best[o])
                       THEN RoiScan(o, r.qty[o], tick) ELSE r.best[o]
    <3>1. RoiMoves(r, s, tick, quantity, e)
      BY <1>2, RoiUpdateIs
    <3> HIDE DEF e
    <3>2. QED
      BY <3>1 DEF RoiMoves
  <2>3. /\ r.best[s] \in Filled(r.qty[s]) \/ (Filled(r.qty[s]) = {} /\ r.best[s] = NoBest(s))
        /\ \A t \in Filled(r.qty[s]) : ~Better(s, t, r.best[s])
        /\ r.best[o] \in Filled(r.qty[o]) \/ (Filled(r.qty[o]) = {} /\ r.best[o] = NoBest(o))
    BY <2>1, RoiBest
  <2>4. /\ r.best[s] \in Int /\ r.qty[s] \in [Roi -> Nat]
        /\ tick \in Ticks /\ tick \in Int /\ Roi \subseteq Int /\ r.best[o] \in Int
    BY <1>2, <2>1, RoiPrices, RoiTicks
  <2>5. levels \in [Roi -> Nat] /\ levels[tick] = quantity
        /\ \A t \in Roi : t # tick => levels[t] = r.qty[s][t]
    BY <1>2, <2>4
  <2>6. Lots(quantity) = 0 <=> quantity = 0
    BY OrdersAssumption DEF Lots
  <2> HIDE DEF e, levels, o
  <2>7. e.best[o] = r.best[o]
    <3> SUFFICES ASSUME improves PROVE ~Crosses(s, tick, r.best[o])
      BY <2>2
    <3>1. CASE r.best[o] \in Filled(r.qty[o])
      BY <2>6, <3>1 DEF o
    <3>2. CASE r.best[o] = NoBest(o)
      BY <2>1, <2>4, <3>2, BetterFacts DEF Crosses
    <3>3. QED
      BY <2>3, <3>1, <3>2
  <2>8. e.best[s] = RoiTop(s, Filled(levels))
    <3>1. Filled(levels) \in SUBSET Roi
      BY DEF Filled
    <3>2. CASE quantity # 0
      <4>1. tick \in Filled(levels) /\ Lots(quantity) # 0
            /\ Filled(levels) = Filled(r.qty[s]) \cup {tick}
        BY <1>2, <2>5, <2>6, <3>2 DEF Filled
      <4>2. e.best[s] \in Filled(levels)
        <5>1. CASE improves
          BY <2>2, <4>1, <5>1
        <5>2. CASE ~improves
          <6>1. e.best[s] = r.best[s] /\ ~Better(s, tick, r.best[s])
            BY <2>2, <2>6, <3>2, <4>1, <5>2
          <6>2. r.best[s] # NoBest(s)
            BY <2>4, <6>1, BetterFacts
          <6>3. QED
            BY <2>3, <4>1, <6>1, <6>2
        <5>3. QED
          BY <5>1, <5>2
      <4>3. \A t \in Filled(levels) : ~Better(s, t, e.best[s])
        <5>1. CASE improves
          <6>1. e.best[s] = tick /\ Better(s, tick, r.best[s])
            BY <2>2, <5>1
          <6>2. ASSUME NEW t \in Filled(r.qty[s]) PROVE ~Better(s, t, tick)
            <7>1. ~Better(s, t, r.best[s]) /\ t \in Int
              BY <2>3, <2>4 DEF Filled
            <7>2. QED
              BY <2>4, <6>1, <7>1, BetterFacts
          <6>3. QED
            BY <2>4, <4>1, <6>1, <6>2, BetterFacts
        <5>2. CASE ~improves
          <6>1. e.best[s] = r.best[s] /\ ~Better(s, tick, r.best[s])
            BY <2>2, <2>6, <3>2, <4>1, <5>2
          <6>2. QED
            BY <2>3, <4>1, <6>1
        <5>3. QED
          BY <5>1, <5>2
      <4>4. QED
        BY <3>1, <4>2, <4>3, RoiTopIs
    <3>3. CASE quantity = 0 /\ tick = r.best[s]
      <4>1. ~improves /\ e.best[s] = RoiScan(s, levels, tick)
        BY <2>2, <2>6, <3>3
      <4>2. \A t \in Roi : levels[t] > 0 => Better(s, tick, t)
        <5> SUFFICES ASSUME NEW t \in Roi, levels[t] > 0 PROVE Better(s, tick, t)
          OBVIOUS
        <5>1. t # tick /\ t \in Filled(r.qty[s]) /\ t \in Int
          BY <2>4, <2>5, <3>3 DEF Filled
        <5>2. ~Better(s, t, tick)
          BY <2>3, <3>3, <5>1
        <5>3. QED
          BY <2>4, <5>1, <5>2, BetterFacts
      <4>3. {t \in Roi : Better(s, tick, t) /\ levels[t] > 0} = Filled(levels)
        BY <4>2 DEF Filled
      <4>4. QED
        BY <4>1, <4>3 DEF RoiScan
    <3>4. CASE quantity = 0 /\ tick # r.best[s]
      <4>1. e.best[s] = r.best[s]
        BY <2>2, <2>6, <3>4
      <4>2. Filled(levels) \subseteq Filled(r.qty[s])
        BY <2>5, <3>4 DEF Filled
      <4>3. CASE Filled(r.qty[s]) = {} /\ r.best[s] = NoBest(s)
        BY <4>1, <4>2, <4>3 DEF RoiTop
      <4>4. CASE r.best[s] \in Filled(r.qty[s])
        <5>1. r.best[s] \in Filled(levels)
          BY <2>5, <3>4, <4>4 DEF Filled
        <5>2. QED
          BY <2>3, <3>1, <4>1, <4>2, <5>1, RoiTopIs
      <4>5. QED
        BY <2>3, <4>3, <4>4
    <3>5. QED
      BY <3>2, <3>3, <3>4
  <2>9. QED
    BY <2>1, <2>2, <2>7, <2>8 DEF RoiOrdered, e
<1>3. QED
  BY <1>1, <1>2

\* Clearing a side of an ordered book up to a price moves its best price back.
LEMMA RoiCut ==
    ASSUME NEW r \in RoiDepth, RoiOrdered(r), Apart(r), NEW s \in Sides, NEW cut
    PROVE  LET e == RoiClearUpto(r, s, cut)
           IN  /\ RoiOrdered(e) /\ Apart(e)
               /\ e.qty = [r.qty EXCEPT ![s] = [t \in Roi |-> IF Better(s, cut, t) THEN @[t] ELSE 0]]
<1> DEFINE e == RoiClearUpto(r, s, cut)
           levels == [t \in Roi |-> IF Better(s, cut, t) THEN r.qty[s][t] ELSE 0]
           o == Opposite(s)
<1>1. /\ e = [qty |-> [r.qty EXCEPT ![s] = levels],
              best |-> [r.best EXCEPT ![s] = RoiTop(s, Filled(levels))]]
      /\ o \in Sides /\ o # s /\ Sides = {s, o}
  BY DEF RoiClearUpto, Filled, Opposite, Sides
<1>2. e \in RoiDepth
  BY RoiClearType
<1>3. Filled(levels) \subseteq Filled(r.qty[s]) /\ Filled(levels) \in SUBSET Roi
  BY DEF Filled
<1>4. [r.qty EXCEPT ![s] = [t \in Roi |-> IF Better(s, cut, t) THEN @[t] ELSE 0]]
        = [r.qty EXCEPT ![s] = levels]
  BY DEF RoiDepth
<1> HIDE DEF e, levels, o
<1>5. /\ e.qty[s] = levels /\ e.best[s] = RoiTop(s, Filled(levels))
      /\ e.qty[o] = r.qty[o] /\ e.best[o] = r.best[o]
  BY <1>1 DEF RoiDepth
<1>6. RoiOrdered(e)
  BY <1>1, <1>5 DEF RoiOrdered
<1>7. e.best[s] = r.best[s] \/ e.best[s] = NoBest(s) \/ Better(s, r.best[s], e.best[s])
  <2>1. CASE Filled(levels) = {}
    BY <1>5, <2>1 DEF RoiTop
  <2>2. CASE Filled(levels) # {}
    <3>1. e.best[s] \in Filled(r.qty[s])
      BY <1>3, <1>5, <2>2, RoiTopIs
    <3>2. ~Better(s, e.best[s], r.best[s]) /\ e.best[s] \in Int /\ r.best[s] \in Int
      BY <1>2, <3>1, RoiBest, RoiPrices
    <3>3. QED
      BY <3>2, BetterFacts
  <2>3. QED
    BY <2>1, <2>2
<1>8. Apart(e)
  BY <1>2, <1>5, <1>7, RoiPriced, MovesBack DEF o
<1>9. QED
  BY <1>1, <1>4, <1>6, <1>8 DEF e

LEMMA RoiClear ==
    ASSUME NEW r \in RoiDepth, NEW s \in Sides
    PROVE  LET e == RoiClearSide(r, s)
           IN  /\ Apart(r) => Apart(e)
               /\ RoiOrdered(r) => RoiOrdered(e)
               /\ e.qty = [r.qty EXCEPT ![s] = [t \in Roi |-> 0]]
<1> DEFINE e == RoiClearSide(r, s)
           o == Opposite(s)
<1>1. /\ e = [qty |-> [r.qty EXCEPT ![s] = [t \in Roi |-> 0]],
              best |-> [r.best EXCEPT ![s] = NoBest(s)]]
      /\ o \in Sides /\ o # s /\ Sides = {s, o}
  BY DEF RoiClearSide, Opposite, Sides
<1>2. e \in RoiDepth
  BY RoiClearType
<1> HIDE DEF e, o
<1>3. /\ e.qty[s] = [t \in Roi |-> 0] /\ e.best[s] = NoBest(s)
      /\ e.qty[o] = r.qty[o] /\ e.best[o] = r.best[o]
  BY <1>1 DEF RoiDepth
<1>4. Apart(r) => Apart(e)
  BY <1>2, <1>3, RoiPriced, MovesBack DEF o
<1>5. Filled(e.qty[s]) = {}
  BY <1>3 DEF Filled
<1>6. RoiOrdered(r) => RoiOrdered(e)
  BY <1>1, <1>3, <1>5 DEF RoiOrdered, RoiTop
<1>7. QED
  BY <1>1, <1>4, <1>6 DEF e

\* An ordered book is determined by its cells.
LEMMA RoiSame ==
    ASSUME NEW r \in RoiDepth, NEW e \in RoiDepth, RoiOrdered(r), RoiOrdered(e), r.qty = e.qty
    PROVE  r = e
<1>1. ASSUME NEW s \in Sides PROVE r.best[s] = e.best[s]
  BY <1>1 DEF RoiOrdered
<1>2. /\ r.best \in [Sides -> {INVALID_MIN, INVALID_MAX} \cup Roi]
      /\ e.best \in [Sides -> {INVALID_MIN, INVALID_MAX} \cup Roi]
  BY DEF RoiDepth
<1>3. r.best = e.best
  BY <1>1, <1>2
<1>4. QED
  BY <1>3 DEF RoiDepth

-----------------------------------------------------------------------------
(* do_apply_snapshot of the ROI-vector book, event by event.                *)

\* Levels that do not cross, lots all of them, in the range at least.
Uncrossed(levels) ==
    /\ \E D : Roi \subseteq D /\ D \subseteq Ticks /\ levels \in [Sides -> [D -> Nat]]
    /\ \A s \in Sides : \A t \in DOMAIN levels[s] : levels[s][t] = 0 \/ Lots(levels[s][t]) > 0
    /\ \A b \in DOMAIN levels["Buy"], a \in DOMAIN levels["Sell"] :
          levels["Buy"][b] > 0 /\ levels["Sell"][a] > 0 => b < a

\* The event of a level, and the cells that are set after n of them.
Turn(s, t) == IF s = "Buy" THEN NTicks + 1 - t ELSE NTicks + t
Shown(levels, n) ==
    [s \in Sides |-> [t \in Roi |-> IF Turn(s, t) <= n THEN levels[s][t] ELSE 0]]

\* The book after each event.
Building(book, levels, m) ==
    book = [n \in 0..m |->
              IF n = 0 THEN RoiEmpty
              ELSE IF SnapshotQty(levels, n) = 0 THEN book[n - 1]
              ELSE RoiUpdate(book[n - 1], SnapshotSide(n), SnapshotTick(n),
                             SnapshotQty(levels, n))]

LEMMA TurnFacts ==
    ASSUME NEW n \in 1..2 * NTicks
    PROVE  /\ SnapshotSide(n) \in Sides /\ SnapshotTick(n) \in Ticks
           /\ Turn(SnapshotSide(n), SnapshotTick(n)) = n
           /\ \A s \in Sides, t \in Ticks :
                 /\ Turn(s, t) \in 1..2 * NTicks
                 /\ Turn(s, t) = n => s = SnapshotSide(n) /\ t = SnapshotTick(n)
<1>1. NTicks \in Nat
  BY OrdersAssumption
<1>2. QED
  BY <1>1 DEF SnapshotSide, SnapshotTick, Turn, Sides, Ticks

\* There is such a sequence of books.
LEMMA Builds ==
    ASSUME NEW levels, NEW m \in Nat
    PROVE  \E book : Building(book, levels, m)
<1> DEFINE Stuck == {n \in Nat : ~\E book : Building(book, levels, n)}
           after(book, n) ==
              IF SnapshotQty(levels, n) = 0 THEN book[n - 1]
              ELSE RoiUpdate(book[n - 1], SnapshotSide(n), SnapshotTick(n), SnapshotQty(levels, n))
<1> SUFFICES ASSUME Stuck # {} PROVE FALSE
  OBVIOUS
<1>1. PICK n \in Stuck : \A l \in Stuck : n <= l
  <2>1. Stuck \in SUBSET Nat
    OBVIOUS
  <2> HIDE DEF Stuck
  <2>2. QED
    BY <2>1, LeastElement
<1>2. n \in Nat /\ ~\E book : Building(book, levels, n)
  OBVIOUS
<1>3. n # 0
  <2> SUFFICES ASSUME n = 0 PROVE FALSE
    OBVIOUS
  <2> DEFINE first == [k \in 0..0 |-> RoiEmpty]
  <2>1. Building(first, levels, 0)
    BY DEF Building
  <2>2. QED
    BY <1>2, <2>1
<1>4. n - 1 \in Nat /\ ~(n <= n - 1)
  BY <1>2, <1>3
<1>5. PICK book : Building(book, levels, n - 1)
  BY <1>1, <1>4
<1> DEFINE more == [k \in 0..n |-> IF k < n THEN book[k] ELSE after(book, n)]
<1>6. book = [k \in 0..n - 1 |-> IF k = 0 THEN RoiEmpty ELSE after(book, k)]
  BY <1>5 DEF Building
<1>7. ASSUME NEW k \in 0..n
      PROVE  more[k] = IF k = 0 THEN RoiEmpty ELSE after(more, k)
  <2>1. CASE k < n
    <3>1. k \in 0..n - 1 /\ (k # 0 => k - 1 \in 0..n /\ k - 1 < n)
      BY <1>2, <2>1
    <3>2. more[k] = book[k] /\ (k # 0 => more[k - 1] = book[k - 1])
      BY <2>1, <3>1
    <3>3. book[k] = IF k = 0 THEN RoiEmpty ELSE after(book, k)
      BY <1>6, <3>1
    <3> HIDE DEF more
    <3>4. QED
      BY <3>2, <3>3
  <2>2. CASE k = n
    <3>1. n - 1 \in 0..n /\ n - 1 < n /\ n \in 0..n
      BY <1>2, <1>4
    <3>2. more[n - 1] = book[n - 1] /\ more[n] = after(book, n)
      BY <3>1
    <3> HIDE DEF more
    <3>3. QED
      BY <1>3, <2>2, <3>2
  <2>3. QED
    BY <1>2, <2>1, <2>2
<1>8. Building(more, levels, n)
  BY <1>7 DEF Building
<1>9. QED
  BY <1>2, <1>8

\* Cells are compared one by one.
LEMMA ShownIs ==
    ASSUME NEW levels, NEW n, NEW qty \in [Sides -> [Roi -> Nat]],
           \A s \in Sides, t \in Roi : qty[s][t] = Shown(levels, n)[s][t]
    PROVE  qty = Shown(levels, n)
<1>1. ASSUME NEW s \in Sides PROVE qty[s] = Shown(levels, n)[s]
  <2>1. /\ qty[s] \in [Roi -> Nat] /\ DOMAIN Shown(levels, n)[s] = Roi
        /\ Shown(levels, n)[s] = [t \in Roi |-> Shown(levels, n)[s][t]]
    BY DEF Shown
  <2>2. \A t \in Roi : qty[s][t] = Shown(levels, n)[s][t]
    OBVIOUS
  <2>3. qty[s] = [t \in Roi |-> qty[s][t]]
    BY <2>1
  <2>4. QED
    BY <2>1, <2>2, <2>3
<1>2. Shown(levels, n) = [s \in Sides |-> Shown(levels, n)[s]]
  BY DEF Shown
<1>3. QED
  BY <1>1, <1>2

\* What the book is after n events.
Restored(r, levels, n) ==
    r \in RoiDepth /\ Apart(r) /\ RoiOrdered(r) /\ r.qty = Shown(levels, n)

\* One event more.
LEMMA RestoresNext ==
    ASSUME NEW levels, Uncrossed(levels), NEW n \in 1..2 * NTicks, NEW r,
           Restored(r, levels, n - 1)
    PROVE  Restored(IF SnapshotQty(levels, n) = 0 THEN r
                    ELSE RoiUpdate(r, SnapshotSide(n), SnapshotTick(n), SnapshotQty(levels, n)),
                    levels, n)
<1> DEFINE s == SnapshotSide(n)
           t == SnapshotTick(n)
           q == SnapshotQty(levels, n)
           o == Opposite(s)
<1>1. /\ s \in Sides /\ t \in Ticks /\ Turn(s, t) = n
      /\ \A s2 \in Sides, t2 \in Ticks :
            /\ Turn(s2, t2) \in 1..2 * NTicks
            /\ Turn(s2, t2) = n => s2 = s /\ t2 = t
  BY TurnFacts
<1>2. PICK D : Roi \subseteq D /\ D \subseteq Ticks /\ levels \in [Sides -> [D -> Nat]]
  BY DEF Uncrossed
<1>3. /\ q = IF t \in D THEN levels[s][t] ELSE 0
      /\ q \in Nat
      /\ q = 0 \/ (t \in D /\ q = levels[s][t] /\ q > 0 /\ Lots(q) > 0)
  <2>1. q = IF t \in D THEN levels[s][t] ELSE 0
    BY <1>1, <1>2 DEF SnapshotQty
  <2>2. t \in D => levels[s][t] \in Nat
    BY <1>1, <1>2
  <2>3. t \in D => levels[s][t] = 0 \/ Lots(levels[s][t]) > 0
    BY <1>1, <1>2 DEF Uncrossed
  <2> HIDE DEF q
  <2>4. QED
    BY <2>1, <2>2, <2>3
<1>4. /\ r \in RoiDepth /\ Apart(r) /\ RoiOrdered(r) /\ r.qty = Shown(levels, n - 1)
  BY DEF Restored
<1>5. ASSUME NEW s2 \in Sides, NEW t2 \in Roi
      PROVE  Turn(s2, t2) <= n <=> (Turn(s2, t2) <= n - 1 \/ (s2 = s /\ t2 = t))
  <2>1. t2 \in Ticks /\ Turn(s2, t2) \in 1..2 * NTicks
    BY <1>1, RoiTicks
  <2>2. Turn(s2, t2) \in Int /\ n \in Int
    BY <2>1
  <2>3. s2 = s /\ t2 = t => Turn(s2, t2) = n
    BY <1>1
  <2>4. Turn(s2, t2) = n => s2 = s /\ t2 = t
    BY <1>1, <2>1
  <2>5. QED
    BY <2>2, <2>3, <2>4
<1>6. ASSUME NEW s2 \in Sides, NEW t2 \in Roi
      PROVE  /\ Shown(levels, n)[s2][t2] = IF Turn(s2, t2) <= n THEN levels[s2][t2] ELSE 0
             /\ r.qty[s2][t2] = IF Turn(s2, t2) <= n - 1 THEN levels[s2][t2] ELSE 0
  BY <1>4 DEF Shown
<1> HIDE DEF s, t, q, o
<1>7. CASE q = 0
  <2>1. ASSUME NEW s2 \in Sides, NEW t2 \in Roi
        PROVE  Shown(levels, n)[s2][t2] = r.qty[s2][t2]
    BY <1>2, <1>3, <1>5, <1>6, <1>7
  <2>2. r.qty \in [Sides -> [Roi -> Nat]]
    BY <1>4 DEF RoiDepth
  <2>3. Shown(levels, n) = r.qty
    BY <2>1, <2>2, ShownIs
  <2>4. QED
    BY <1>4, <1>7, <2>3 DEF Restored, q
<1>8. CASE q # 0
  <2> DEFINE e == RoiUpdate(r, s, t, q)
  <2>1. e \in RoiDepth /\ Apart(e)
    BY <1>1, <1>3, <1>4, RoiUpdateType, RoiUpdateApart
  <2>2. \A t2 \in Filled(r.qty[o]) : ~Crosses(s, t, t2)
    <3> SUFFICES ASSUME NEW t2 \in Roi, r.qty[o][t2] > 0 PROVE ~Crosses(s, t, t2)
      BY DEF Filled
    <3>1. o \in Sides /\ (s = "Buy" => o = "Sell") /\ (s = "Sell" => o = "Buy")
      BY <1>1 DEF o, Opposite, Sides
    <3>2. levels[o][t2] > 0 /\ t2 \in D /\ t \in D /\ levels[s][t] > 0
      BY <1>2, <1>3, <1>6, <1>8, <3>1
    <3>3. DOMAIN levels["Buy"] = D /\ DOMAIN levels["Sell"] = D
      BY <1>2 DEF Sides
    <3>4. IF s = "Buy" THEN t < t2 ELSE t2 < t
      BY <1>1, <3>1, <3>2, <3>3 DEF Uncrossed, Sides
    <3>5. t \in Int /\ t2 \in Int
      BY <1>1, RoiTicks
    <3>6. QED
      BY <1>1, <3>4, <3>5 DEF Crosses, Better, Sides
  <2>3. RoiOrdered(e)
    BY <1>1, <1>3, <1>4, <1>8, <2>2, RoiUpdateOrdered DEF o
  <2>4. e.qty = Shown(levels, n)
    <3>1. ASSUME NEW s2 \in Sides, NEW t2 \in Roi
          PROVE  Shown(levels, n)[s2][t2] = e.qty[s2][t2]
      <4>1. CASE t \notin Roi
        <5>1. e = r
          BY <4>1 DEF RoiUpdate
        <5>2. t2 # t
          BY <4>1
        <5>3. QED
          BY <1>5, <1>6, <5>1, <5>2
      <4>2. CASE t \in Roi
        <5>1. RoiMoves(r, s, t, q, e)
          BY <1>1, <1>4, <4>2, RoiUpdateIs
        <5> HIDE DEF e
        <5>2. e.qty = [r.qty EXCEPT ![s] = [r.qty[s] EXCEPT ![t] = q]]
          BY <5>1 DEF RoiMoves
        <5>3. e.qty[s2][t2] = IF s2 = s /\ t2 = t THEN q ELSE r.qty[s2][t2]
          BY <1>1, <1>4, <4>2, <5>2 DEF RoiDepth
        <5>4. CASE s2 = s /\ t2 = t
          BY <1>3, <1>5, <1>6, <1>8, <5>3, <5>4
        <5>5. CASE ~(s2 = s /\ t2 = t)
          BY <1>5, <1>6, <5>3, <5>5
        <5>6. QED
          BY <5>4, <5>5
      <4>3. QED
        BY <4>1, <4>2
    <3> HIDE DEF e
    <3>2. e.qty \in [Sides -> [Roi -> Nat]]
      BY <2>1 DEF RoiDepth
    <3>3. QED
      BY <3>1, <3>2, ShownIs
  <2>5. QED
    BY <1>8, <2>1, <2>3, <2>4 DEF Restored, s, t, q
<1>9. QED
  BY <1>7, <1>8

\* After the last event the book has the levels of the snapshot that are in its range.
LEMMA Restores ==
    ASSUME NEW levels, Uncrossed(levels)
    PROVE  LET r == RoiApplySnapshot(levels)
           IN  /\ r \in RoiDepth /\ Apart(r) /\ RoiOrdered(r)
               /\ r.qty = [s \in Sides |-> [t \in Roi |-> levels[s][t]]]
<1> DEFINE last == 2 * NTicks
           book == CHOOSE book : Building(book, levels, last)
           after(n) == IF SnapshotQty(levels, n) = 0 THEN book[n - 1]
                       ELSE RoiUpdate(book[n - 1], SnapshotSide(n), SnapshotTick(n),
                                      SnapshotQty(levels, n))
<1>1. last \in Nat
  BY OrdersAssumption
<1>2. RoiApplySnapshot(levels) = book[last]
  BY DEF RoiApplySnapshot, Building
<1>3. Building(book, levels, last)
  <2> HIDE DEF last
  <2>1. QED
    BY <1>1, Builds
<1> HIDE DEF book, last
<1>4. book = [n \in 0..last |-> IF n = 0 THEN RoiEmpty ELSE after(n)]
  BY <1>3 DEF Building
<1>5. \A n \in 0..last : book[n] = IF n = 0 THEN RoiEmpty ELSE after(n)
  BY <1>4
<1>6. Restored(book[0], levels, 0)
  <2>1. book[0] = RoiEmpty
    BY <1>1, <1>5
  <2>2. Shown(levels, 0) = RoiEmpty.qty
    <3>1. ASSUME NEW s \in Sides, NEW t \in Roi PROVE ~(Turn(s, t) <= 0)
      <4>1. t \in 1..NTicks /\ NTicks \in Nat
        BY RoiTicks, OrdersAssumption DEF Ticks
      <4>2. QED
        BY <4>1 DEF Turn
    <3>2. Shown(levels, 0) = [s \in Sides |-> [t \in Roi |-> 0]]
      BY <3>1 DEF Shown
    <3>3. QED
      BY <3>2 DEF RoiEmpty
  <2>3. QED
    BY <2>1, <2>2, RoiEmptyType DEF Restored
<1>7. ASSUME NEW n \in 1..last, Restored(book[n - 1], levels, n - 1)
      PROVE  Restored(book[n], levels, n)
  <2>1. n \in 0..last /\ n # 0 /\ n \in 1..2 * NTicks
    BY <1>1 DEF last
  <2>2. book[n] = after(n)
    BY <1>5, <2>1
  <2>3. Restored(after(n), levels, n)
    BY <1>7, <2>1, RestoresNext
  <2>4. QED
    BY <2>2, <2>3
<1>8. \A n \in 0..last : Restored(book[n], levels, n)
  <2> DEFINE Wrong == {n \in 0..last : ~Restored(book[n], levels, n)}
  <2> SUFFICES ASSUME Wrong # {} PROVE FALSE
    OBVIOUS
  <2>1. Wrong \in SUBSET Nat
    BY <1>1
  <2>2. PICK n \in Wrong : \A l \in Wrong : n <= l
    <3> HIDE DEF Wrong
    <3>1. QED
      BY <2>1, LeastElement
  <2>3. n \in 0..last /\ ~Restored(book[n], levels, n) /\ n # 0
    BY <1>6, <2>2
  <2>4. n \in 1..last /\ n - 1 \in 0..last /\ ~(n <= n - 1)
    BY <1>1, <2>3
  <2>5. Restored(book[n - 1], levels, n - 1)
    BY <2>2, <2>4
  <2>6. QED
    BY <1>7, <2>3, <2>4, <2>5
<1>9. Restored(book[last], levels, last)
  BY <1>1, <1>8
<1>10. Shown(levels, last) = [s \in Sides |-> [t \in Roi |-> levels[s][t]]]
  <2>1. ASSUME NEW s \in Sides, NEW t \in Roi PROVE Turn(s, t) <= last
    <3>1. t \in 1..NTicks /\ NTicks \in Nat
      BY RoiTicks, OrdersAssumption DEF Ticks
    <3>2. QED
      BY <3>1 DEF Turn, last
  <2>2. QED
    BY <2>1 DEF Shown
<1>11. QED
  BY <1>2, <1>9, <1>10 DEF Restored

-----------------------------------------------------------------------------
(* Both books.                                                              *)

\* The ROI-vector book beside the hash-map book.
Twins ==
    /\ roi \in RoiDepth
    /\ clean /\ (WholeLots \/ "cut" \notin EventKinds) => Apart(roi)
    /\ WholeLots => \A s \in Sides : \A t \in Roi :
                       roi.qty[s][t] = 0 \/ Lots(roi.qty[s][t]) > 0
    /\ WholeLots /\ clean => RoiOrdered(roi)
    /\ WholeLots /\ clean => \A s \in Sides : \A t \in Roi : roi.qty[s][t] = hash.qty[s][t]

\* What a step does to the best prices of the ROI-vector book, and to a cell that is
\* the level of the hash-map book.
RoiKeepsApart == (clean' \/ Apart(roi)) /\ ~CutsCrossed => Apart(roi')
KeepsTwins ==
    \A s \in Sides : \A t \in Roi :
        roi.qty[s][t] = hash.qty[s][t] => roi'.qty[s][t] = hash'.qty[s][t] \/ OutOfReach(s, t)

TwinStep ==
    /\ Twins'
    /\ WholeLots \/ "cut" \notin EventKinds => RoiKeepsApart
    /\ WholeLots => KeepsTwins

LEMMA UpdatesLevelTwins ==
    ASSUME Inv, Twins, UpdatesLevel
    PROVE  TwinStep
<1>1. PICK s \in Sides, t \in Ticks, q \in FeedQtys \cup {0} :
          /\ hash' = UpdateDepth(hash, s, t, q)
          /\ roi' = RoiUpdate(roi, s, t, q)
          /\ clean' = (clean /\ (Lots(q) = 0 \/ ~Crosses(s, t, hash.best[Opposite(s)])))
  BY DEF UpdatesLevel
<1>2. q \in Nat /\ Opposite(s) \in Sides
  BY ReplayAssumption, SideFacts
<1>3. /\ roi \in RoiDepth /\ roi' \in RoiDepth
      /\ Apart(roi) => Apart(roi')
  BY <1>1, <1>2, RoiUpdateType, RoiUpdateApart DEF Twins
<1>4. hash \in Depth /\ (clean => Ordered(hash))
  BY DEF Inv
<1>5. ASSUME WholeLots
      PROVE  /\ \A s2 \in Sides : \A t2 \in Roi :
                   /\ roi.qty[s2][t2] = hash.qty[s2][t2] => roi'.qty[s2][t2] = hash'.qty[s2][t2]
                   /\ roi'.qty[s2][t2] = 0 \/ Lots(roi'.qty[s2][t2]) > 0
             /\ clean' => RoiOrdered(roi')
  <2>1. q = 0 \/ Lots(q) > 0
    BY <1>5 DEF WholeLots
  <2>2. \A s2 \in Sides : \A t2 \in Roi :
           /\ clean => roi.qty[s2][t2] = hash.qty[s2][t2]
           /\ roi.qty[s2][t2] = 0 \/ Lots(roi.qty[s2][t2]) > 0
    BY <1>5 DEF Twins
  <2>3. hash'.qty = [hash.qty EXCEPT ![s][t] = q]
    <3>1. CASE Lots(q) > 0
      BY <1>1, <3>1 DEF UpdateDepth, SetLevel
    <3>2. CASE ~(Lots(q) > 0)
      <4>1. hash' = RemoveLevel(hash, s, t) /\ q = 0
        BY <1>1, <2>1, <3>2 DEF UpdateDepth
      <4>2. hash'.qty = [hash.qty EXCEPT ![s] = [hash.qty[s] EXCEPT ![t] = 0]]
        BY <4>1 DEF RemoveLevel
      <4>3. QED
        BY <1>4, <4>1, <4>2 DEF Depth
    <3>3. QED
      BY <3>1, <3>2
  <2>4. \A s2 \in Sides : \A t2 \in Roi :
           hash'.qty[s2][t2] = IF s2 = s /\ t2 = t THEN q ELSE hash.qty[s2][t2]
    BY <1>4, <2>3, RoiTicks DEF Depth
  <2>5. \A s2 \in Sides : \A t2 \in Roi :
           roi'.qty[s2][t2] = IF s2 = s /\ t2 = t THEN q ELSE roi.qty[s2][t2]
    <3>1. CASE t \notin Roi
      BY <1>1, <3>1 DEF RoiUpdate
    <3>2. CASE t \in Roi
      <4>1. RoiMoves(roi, s, t, q, roi')
        BY <1>1, <1>3, <3>2, RoiUpdateIs
      <4>2. roi'.qty = [roi.qty EXCEPT ![s] = [roi.qty[s] EXCEPT ![t] = q]]
        BY <4>1 DEF RoiMoves
      <4>3. QED
        BY <1>3, <3>2, <4>2 DEF RoiDepth
    <3>3. QED
      BY <3>1, <3>2
  <2>6. ASSUME clean'
        PROVE  RoiOrdered(roi')
    <3>1. clean /\ (Lots(q) = 0 \/ ~Crosses(s, t, hash.best[Opposite(s)])) /\ Ordered(hash)
      BY <1>1, <1>4, <2>6
    <3>2. RoiOrdered(roi)
      BY <1>5, <3>1 DEF Twins
    <3>3. ASSUME q # 0, NEW t2 \in Filled(roi.qty[Opposite(s)])
          PROVE  ~Crosses(s, t, t2)
      <4>1. ~Crosses(s, t, hash.best[Opposite(s)])
        <5>1. Lots(q) # 0
          BY <2>1, <3>3, OrdersAssumption DEF Lots
        <5>2. QED
          BY <3>1, <5>1
      <4>2. t2 \in Ticks /\ hash.qty[Opposite(s)][t2] > 0
        BY <1>2, <2>2, <3>1, <3>3, RoiTicks DEF Filled
      <4>3. QED
        BY <1>4, <3>1, <4>1, <4>2, MeetsALevel
    <3>4. QED
      BY <1>1, <1>2, <1>3, <2>1, <3>2, <3>3, RoiUpdateOrdered
  <2>7. QED
    BY <2>1, <2>2, <2>4, <2>5, <2>6
<1>6. WholeLots => KeepsTwins
  BY <1>5 DEF KeepsTwins
<1>7. clean' => clean
  BY <1>1
<1>8. Twins'
  BY <1>3, <1>5, <1>7 DEF Twins, RoiOrdered, Apart
<1>9. WholeLots \/ "cut" \notin EventKinds => RoiKeepsApart
  BY <1>3, <1>7 DEF Twins, RoiKeepsApart
<1>10. QED
  BY <1>6, <1>8, <1>9 DEF TwinStep

LEMMA CutsSideTwins ==
    ASSUME Inv, Twins, CutsSide
    PROVE  TwinStep
<1>1. PICK s \in Sides, t \in Ticks :
          /\ clean' = clean /\ "cut" \in EventKinds
          /\ event'.kind = "cut" /\ event'.side = s
          /\ hash' = ClearUpto(hash, s, t)
          /\ roi' = RoiClearUpto(roi, s, t)
  BY DEF CutsSide, Arrives
<1>2. /\ hash \in Depth /\ roi \in RoiDepth /\ roi' \in RoiDepth
      /\ clean => Ordered(hash)
  BY <1>1, RoiClearType DEF Inv, Twins
<1>3. \A s2 \in Sides : \A t2 \in Roi :
         /\ roi'.qty[s2][t2] = IF s2 = s /\ ~Better(s, t, t2) THEN 0 ELSE roi.qty[s2][t2]
         /\ hash'.qty[s2][t2] =
               IF s2 = s /\ ~Better(s, t, t2) /\ ~Better(s, t2, hash.best[s])
               THEN 0 ELSE hash.qty[s2][t2]
  BY <1>1, <1>2, RoiTicks DEF RoiClearUpto, ClearUpto, RoiDepth, Depth
<1>4. clean => \A s2 \in Sides : \A t2 \in Roi :
         hash'.qty[s2][t2] = IF s2 = s /\ ~Better(s, t, t2) THEN 0 ELSE hash.qty[s2][t2]
  <2>1. SUFFICES ASSUME clean
                 PROVE  \A s2 \in Sides : \A t2 \in Roi :
                   hash'.qty[s2][t2] = IF s2 = s /\ ~Better(s, t, t2) THEN 0 ELSE hash.qty[s2][t2]
    OBVIOUS
  <2>2. hash'.qty = [hash.qty EXCEPT ![s] = [t2 \in Ticks |-> IF Better(s, t, t2) THEN @[t2] ELSE 0]]
    BY <1>1, <1>2, <2>1, CutOrdered
  <2>3. QED
    BY <1>2, <2>2, RoiTicks DEF Depth
<1>5. KeepsTwins
  <2>1. ASSUME NEW s2 \in Sides, NEW t2 \in Roi, roi.qty[s2][t2] = hash.qty[s2][t2]
        PROVE  roi'.qty[s2][t2] = hash'.qty[s2][t2] \/ OutOfReach(s2, t2)
    <3>1. CASE clean
      BY <1>3, <1>4, <2>1, <3>1
    <3>2. CASE ~clean
      BY <1>1, <1>3, <2>1, <3>2 DEF OutOfReach, CutsCrossed
    <3>3. QED
      BY <3>1, <3>2
  <2>2. QED
    BY <2>1 DEF KeepsTwins
<1>6. WholeLots /\ clean => RoiOrdered(roi') /\ Apart(roi')
  BY <1>1, <1>2, RoiCut DEF Twins
<1>7. Twins'
  <2>1. WholeLots => \A s2 \in Sides : \A t2 \in Roi :
           roi'.qty[s2][t2] = 0 \/ Lots(roi'.qty[s2][t2]) > 0
    BY <1>3 DEF Twins
  <2>2. WholeLots /\ clean => \A s2 \in Sides : \A t2 \in Roi : roi'.qty[s2][t2] = hash'.qty[s2][t2]
    BY <1>3, <1>4 DEF Twins
  <2>3. QED
    BY <1>1, <1>2, <1>6, <2>1, <2>2 DEF Twins, RoiOrdered, Apart
<1>8. WholeLots \/ "cut" \notin EventKinds => RoiKeepsApart
  BY <1>1, <1>6 DEF RoiKeepsApart, CutsCrossed
<1>9. QED
  BY <1>5, <1>7, <1>8 DEF TwinStep

LEMMA ClearsSideTwins ==
    ASSUME Inv, Twins, ClearsSide
    PROVE  TwinStep
<1>1. PICK s \in Sides :
          clean' = clean /\ hash' = ClearSide(hash, s) /\ roi' = RoiClearSide(roi, s)
  BY DEF ClearsSide
<1>2. hash \in Depth /\ roi \in RoiDepth /\ roi' \in RoiDepth
  BY <1>1, RoiClearType DEF Inv, Twins
<1>3. /\ Apart(roi) => Apart(roi')
      /\ RoiOrdered(roi) => RoiOrdered(roi')
      /\ roi'.qty = [roi.qty EXCEPT ![s] = [t \in Roi |-> 0]]
  BY <1>1, <1>2, RoiClear
<1>4. hash'.qty = [hash.qty EXCEPT ![s] = [t \in Ticks |-> 0]]
  BY <1>1 DEF ClearSide
<1>5. \A s2 \in Sides : \A t2 \in Roi :
         /\ hash'.qty[s2][t2] = IF s2 = s THEN 0 ELSE hash.qty[s2][t2]
         /\ roi'.qty[s2][t2] = IF s2 = s THEN 0 ELSE roi.qty[s2][t2]
  BY <1>2, <1>3, <1>4, RoiTicks DEF Depth, RoiDepth
<1>6. KeepsTwins
  BY <1>5 DEF KeepsTwins
<1>7. Twins'
  <2>1. WholeLots => \A s2 \in Sides : \A t2 \in Roi :
           roi'.qty[s2][t2] = 0 \/ Lots(roi'.qty[s2][t2]) > 0
    BY <1>5 DEF Twins
  <2>2. WholeLots /\ clean => \A s2 \in Sides : \A t2 \in Roi : roi'.qty[s2][t2] = hash'.qty[s2][t2]
    BY <1>5 DEF Twins
  <2>3. QED
    BY <1>1, <1>2, <1>3, <2>1, <2>2 DEF Twins, RoiOrdered, Apart
<1>8. WholeLots \/ "cut" \notin EventKinds => RoiKeepsApart
  BY <1>1, <1>3 DEF Twins, RoiKeepsApart
<1>9. QED
  BY <1>6, <1>7, <1>8 DEF TwinStep

LEMMA ClearsBookTwins ==
    ASSUME hash' = EmptyDepth, roi' = RoiEmpty
    PROVE  TwinStep
<1>1. \A s \in Sides : \A t \in Roi : roi'.qty[s][t] = 0 /\ hash'.qty[s][t] = 0
  BY RoiTicks DEF RoiEmpty, EmptyDepth
<1>2. roi' \in RoiDepth /\ Apart(roi') /\ RoiOrdered(roi')
  BY RoiEmptyType
<1>3. Twins'
  BY <1>1, <1>2 DEF Twins, RoiOrdered, Apart
<1>4. QED
  BY <1>1, <1>2, <1>3 DEF TwinStep, RoiKeepsApart, KeepsTwins

LEMMA TakesSnapshotTwins ==
    ASSUME TakesSnapshot
    PROVE  TwinStep
<1>1. PICK levels \in SnapshotLevels :
         hash' = ApplySnapshot(levels) /\ roi' = RoiApplySnapshot(levels)
  BY DEF TakesSnapshot
<1>2. /\ levels \in [Sides -> [Ticks -> SnapshotQtys \cup {0}]]
      /\ \A b, a \in Ticks : levels["Buy"][b] > 0 /\ levels["Sell"][a] > 0 => b < a
  BY <1>1 DEF SnapshotLevels
<1>3. SnapshotQtys \cup {0} \subseteq Nat /\ \A q \in SnapshotQtys \cup {0} : q = 0 \/ Lots(q) > 0
  BY ReplayAssumption
<1>4. \A s \in Sides : \A t \in Ticks :
         levels[s][t] \in Nat /\ (levels[s][t] = 0 \/ Lots(levels[s][t]) > 0)
  BY <1>2, <1>3
<1>5. Uncrossed(levels)
  <2>1. levels \in [Sides -> [Ticks -> Nat]] /\ \A s \in Sides : DOMAIN levels[s] = Ticks
    BY <1>2, <1>4
  <2>2. "Buy" \in Sides /\ "Sell" \in Sides
    BY DEF Sides
  <2>3. \E D : Roi \subseteq D /\ D \subseteq Ticks /\ levels \in [Sides -> [D -> Nat]]
    BY <2>1, RoiTicks
  <2>4. QED
    BY <1>2, <1>4, <2>1, <2>2, <2>3 DEF Uncrossed
<1>6. /\ roi' \in RoiDepth /\ Apart(roi') /\ RoiOrdered(roi')
      /\ roi'.qty = [s \in Sides |-> [t \in Roi |-> levels[s][t]]]
  BY <1>1, <1>5, Restores
<1>7. hash'.qty = levels
  BY <1>1 DEF ApplySnapshot
<1>8. \A s \in Sides : \A t \in Roi :
         /\ roi'.qty[s][t] = hash'.qty[s][t]
         /\ roi'.qty[s][t] = 0 \/ Lots(roi'.qty[s][t]) > 0
  BY <1>4, <1>6, <1>7, RoiTicks
<1>9. Twins'
  BY <1>6, <1>8 DEF Twins, RoiOrdered, Apart
<1>10. QED
  BY <1>6, <1>8, <1>9 DEF TwinStep, RoiKeepsApart, KeepsTwins

LEMMA TwinsHold ==
    /\ Init => Inv /\ Twins
    /\ Inv /\ Twins /\ [Next]_replayVars => Inv' /\ Twins' /\ [TwinStep]_replayVars
<1>1. Init => Inv /\ Twins
  <2>1. Init => Twins
    <3> SUFFICES ASSUME Init PROVE Twins
      OBVIOUS
    <3>1. \A s \in Sides : \A t \in Roi : roi.qty[s][t] = 0 /\ hash.qty[s][t] = 0
      BY RoiTicks DEF Init, RoiEmpty, EmptyDepth
    <3>2. QED
      BY <3>1, RoiEmptyType DEF Init, Twins
  <2>2. QED
    BY <2>1, InitHolds
<1>2. ASSUME Inv, Twins, [Next]_replayVars
      PROVE  Inv' /\ Twins' /\ [TwinStep]_replayVars
  <2>1. CASE UpdatesLevel \/ CutsSide \/ ClearsSide
    BY <1>2, <2>1, NextHolds, UpdatesLevelTwins, CutsSideTwins, ClearsSideTwins DEF TwinStep
  <2>2. CASE ClearsBook \/ TakesSnapshot
    BY <1>2, <2>2, NextHolds, ClearsBookTwins, TakesSnapshotTwins DEF ClearsBook, TwinStep
  <2>3. CASE UNCHANGED replayVars
    <3>1. Twins'
      BY <1>2, <2>3 DEF replayVars, Twins, RoiOrdered, Apart
    <3>2. QED
      BY <1>2, <2>3, <3>1, NextHolds
  <2>4. QED
    BY <1>2, <2>1, <2>2, <2>3 DEF Next
<1>3. QED
  BY <1>1, <1>2

\* Both invariants hold throughout.
LEMMA BothHold == Spec => [](Inv /\ Twins)
  BY TwinsHold, PTL DEF Spec

-----------------------------------------------------------------------------
(* A best price of the hash-map book is a level, however the feed crosses.  *)

Held(d) ==
    \A s \in Sides :
        \/ d.best[s] = NoBest(s)
        \/ d.best[s] \in Ticks /\ d.qty[s][d.best[s]] > 0

LEMMA ScanHeld ==
    ASSUME NEW s \in Sides, NEW side, NEW start, NEW end
    PROVE  LET next == NextLevel(s, side, start, end)
           IN  next = NoBest(s) \/ (next \in Ticks /\ side[next] > 0 /\ Better(s, start, next))
<1> DEFINE found == {t \in Ticks : Better(s, start, t) /\ ~Better(s, end, t) /\ side[t] > 0}
<1>1. NextLevel(s, side, start, end) = IF found = {} THEN NoBest(s) ELSE BestOf(s, found)
  BY DEF NextLevel
<1>2. found \in SUBSET Ticks /\ \A t \in found : side[t] > 0 /\ Better(s, start, t)
  OBVIOUS
<1> HIDE DEF found
<1>3. QED
  BY <1>1, <1>2, BestOfIsBest

LEMMA UpdateHeld ==
    ASSUME NEW d \in Depth, Held(d), NEW s \in Sides, NEW tick \in Ticks, NEW q \in Nat
    PROVE  Held(UpdateDepth(d, s, tick, q))
<1> DEFINE o == Opposite(s)
<1>1. o \in Sides /\ o # s /\ Sides = {s, o} /\ Ticks \subseteq Int
  BY DepthPrices DEF Sides, Opposite
<1>2. /\ d.best[s] = NoBest(s) \/ (d.best[s] \in Ticks /\ d.qty[s][d.best[s]] > 0)
      /\ d.best[o] = NoBest(o) \/ (d.best[o] \in Ticks /\ d.qty[o][d.best[o]] > 0)
  BY <1>1 DEF Held
<1>3. CASE Lots(q) > 0
  <2> DEFINE e == SetLevel(d, s, tick, q)
             improves == Better(s, tick, d.best[s])
             next == NextLevel(o, d.qty[o], tick, d.far[o])
             other == IF improves /\ Crosses(s, tick, d.best[o]) THEN next ELSE d.best[o]
  <2>1. /\ e.qty = [d.qty EXCEPT ![s][tick] = q]
        /\ e.best = [d.best EXCEPT ![s] = IF improves THEN tick ELSE @, ![o] = other]
    BY DEF SetLevel
  <2>2. next = NoBest(o) \/ (next \in Ticks /\ d.qty[o][next] > 0)
    BY <1>1, ScanHeld
  <2>3. q > 0
    <3>1. q # 0
      BY <1>3, OrdersAssumption DEF Lots
    <3>2. QED
      BY <3>1
  <2> HIDE DEF e, improves, next, o
  <2>4. /\ e.best[s] = (IF improves THEN tick ELSE d.best[s]) /\ e.best[o] = other
        /\ e.qty[o] = d.qty[o] /\ e.qty[s][tick] = q
        /\ \A t \in Ticks : t # tick => e.qty[s][t] = d.qty[s][t]
    BY <1>1, <2>1 DEF Depth
  <2>5. \A r \in Sides : e.best[r] = NoBest(r) \/ (e.best[r] \in Ticks /\ e.qty[r][e.best[r]] > 0)
    BY <1>1, <1>2, <2>2, <2>3, <2>4
  <2>6. QED
    BY <1>3, <2>5 DEF UpdateDepth, Held, e
<1>4. CASE ~(Lots(q) > 0)
  <2> DEFINE e == RemoveLevel(d, s, tick)
             levels == [d.qty[s] EXCEPT ![tick] = 0]
             next == NextLevel(s, levels, d.best[s], d.far[s])
  <2>1. /\ e.qty = [d.qty EXCEPT ![s] = levels]
        /\ e.best = [d.best EXCEPT ![s] = IF tick = d.best[s] THEN next ELSE d.best[s]]
    BY DEF RemoveLevel
  <2>2. next = NoBest(s) \/ (next \in Ticks /\ levels[next] > 0)
    BY ScanHeld
  <2>3. \A t \in Ticks : t # tick => levels[t] = d.qty[s][t]
    BY DEF Depth
  <2> HIDE DEF e, levels, next, o
  <2>4. /\ e.best[s] = (IF tick = d.best[s] THEN next ELSE d.best[s]) /\ e.best[o] = d.best[o]
        /\ e.qty[o] = d.qty[o] /\ e.qty[s] = levels
    BY <1>1, <2>1 DEF Depth
  <2>5. \A r \in Sides : e.best[r] = NoBest(r) \/ (e.best[r] \in Ticks /\ e.qty[r][e.best[r]] > 0)
    BY <1>1, <1>2, <2>2, <2>3, <2>4
  <2>6. QED
    BY <1>4, <2>5 DEF UpdateDepth, Held, e
<1>5. QED
  BY <1>3, <1>4

LEMMA ClearHeld ==
    ASSUME NEW d \in Depth, Held(d), NEW s \in Sides
    PROVE  Held(ClearSide(d, s)) /\ \A cut : Held(ClearUpto(d, s, cut))
<1> DEFINE o == Opposite(s)
<1>1. o \in Sides /\ o # s /\ Sides = {s, o}
  BY DEF Sides, Opposite
<1>2. d.best[o] = NoBest(o) \/ (d.best[o] \in Ticks /\ d.qty[o][d.best[o]] > 0)
  BY <1>1 DEF Held
<1>3. Held(ClearSide(d, s))
  <2> DEFINE e == ClearSide(d, s)
  <2>1. e.best[s] = NoBest(s) /\ e.best[o] = d.best[o] /\ e.qty[o] = d.qty[o]
    BY <1>1 DEF ClearSide, Depth
  <2> HIDE DEF e, o
  <2>2. Held(e)
    BY <1>1, <1>2, <2>1 DEF Held
  <2>3. QED
    BY <2>2 DEF e
<1>4. ASSUME NEW cut PROVE Held(ClearUpto(d, s, cut))
  <2> DEFINE e == ClearUpto(d, s, cut)
             levels == [t \in Ticks |-> IF ~Better(s, cut, t) /\ ~Better(s, t, d.best[s])
                                        THEN 0 ELSE d.qty[s][t]]
             next == NextLevel(s, levels, cut, d.far[s])
  <2>1. /\ e.qty = [d.qty EXCEPT ![s] = levels]
        /\ e.best = [d.best EXCEPT ![s] = next]
    BY DEF ClearUpto
  <2>2. next = NoBest(s) \/ (next \in Ticks /\ levels[next] > 0)
    BY ScanHeld
  <2> HIDE DEF e, levels, next, o
  <2>3. /\ e.best[s] = next /\ e.best[o] = d.best[o]
        /\ e.qty[o] = d.qty[o] /\ e.qty[s] = levels
    BY <1>1, <2>1 DEF Depth
  <2>4. Held(e)
    BY <1>1, <1>2, <2>2, <2>3 DEF Held
  <2>5. QED
    BY <2>4 DEF e
<1>5. QED
  BY <1>3, <1>4

LEMMA SnapshotHeld ==
    ASSUME NEW levels
    PROVE  Held(ApplySnapshot(levels))
<1> DEFINE d == ApplySnapshot(levels)
           listed(s) == {t \in Ticks : levels[s][t] > 0}
<1>1. \A s \in Sides : /\ d.best[s] = IF listed(s) = {} THEN NoBest(s) ELSE BestOf(s, listed(s))
                       /\ d.qty[s] = levels[s]
  BY DEF ApplySnapshot
<1>2. ASSUME NEW s \in Sides, listed(s) # {}
      PROVE  BestOf(s, listed(s)) \in Ticks /\ levels[s][BestOf(s, listed(s))] > 0
  <2>1. listed(s) \in SUBSET Ticks /\ \A t \in listed(s) : levels[s][t] > 0
    OBVIOUS
  <2> HIDE DEF listed
  <2>2. QED
    BY <1>2, <2>1, BestOfIsBest
<1> HIDE DEF d, listed
<1>3. Held(d)
  BY <1>1, <1>2 DEF Held
<1>4. QED
  BY <1>3 DEF d

LEMMA HeldHolds == Spec => []Held(hash)
<1>1. Init => Held(hash)
  BY DEF Init, EmptyDepth, Held
<1>2. Inv /\ Held(hash) /\ [Next]_replayVars => Held(hash')
  <2> SUFFICES ASSUME Inv, Held(hash), [Next]_replayVars PROVE Held(hash')
    OBVIOUS
  <2>1. hash \in Depth /\ \A q \in FeedQtys \cup {0} : q \in Nat
    BY ReplayAssumption DEF Inv
  <2>2. CASE UpdatesLevel
    BY <2>1, <2>2, UpdateHeld DEF UpdatesLevel
  <2>3. CASE CutsSide
    BY <2>1, <2>3, ClearHeld DEF CutsSide
  <2>4. CASE ClearsSide
    BY <2>1, <2>4, ClearHeld DEF ClearsSide
  <2>5. CASE ClearsBook
    BY <2>5 DEF ClearsBook, EmptyDepth, Held
  <2>6. CASE TakesSnapshot
    BY <2>6, SnapshotHeld DEF TakesSnapshot
  <2>7. CASE UNCHANGED replayVars
    BY <2>7 DEF replayVars
  <2>8. QED
    BY <2>2, <2>3, <2>4, <2>5, <2>6, <2>7 DEF Next
<1>3. Held(hash') <=> Held(hash)'
  BY DEF Held
<1>4. QED
  BY <1>1, <1>2, <1>3, InitHolds, NextHolds, PTL DEF Spec

\* A book rebuilt from the levels at its best price and behind.
LEMMA HeldRoundTrip ==
    ASSUME NEW d \in Depth, Held(d)
    PROVE  LET again == ApplySnapshot(Snapshot(d))
           IN  /\ again.best = d.best
               /\ \A s \in Sides : d.best[s] \in Ticks =>
                     d.qty[s][d.best[s]] > 0 /\ again.qty[s][d.best[s]] = d.qty[s][d.best[s]]
<1> DEFINE shot == Snapshot(d)
           again == ApplySnapshot(shot)
           listed(s) == {t \in Ticks : shot[s][t] > 0}
<1>1. \A s \in Sides, t \in Ticks :
         shot[s][t] = IF Better(s, t, d.best[s]) THEN 0 ELSE d.qty[s][t]
  BY DEF Snapshot
<1>2. /\ again.qty = shot
      /\ again.best = [s \in Sides |-> IF listed(s) = {} THEN NoBest(s) ELSE BestOf(s, listed(s))]
  BY DEF ApplySnapshot
<1> HIDE DEF shot, again
<1>3. ASSUME NEW s \in Sides
      PROVE  /\ again.best[s] = d.best[s]
             /\ d.best[s] \in Ticks =>
                  d.qty[s][d.best[s]] > 0 /\ again.qty[s][d.best[s]] = d.qty[s][d.best[s]]
  <2>1. d.best[s] \in Int /\ Ticks \subseteq Int /\ NoBest(s) \notin Ticks
    BY DepthPrices, RoiTicks
  <2>2. listed(s) \in SUBSET Ticks
    OBVIOUS
  <2>3. CASE d.best[s] = NoBest(s)
    <3>1. \A t \in Ticks : Better(s, t, d.best[s])
      BY <2>1, <2>3, BetterFacts
    <3>2. listed(s) = {}
      BY <1>1, <3>1
    <3>3. QED
      BY <1>2, <2>1, <2>3, <3>2
  <2>4. CASE d.best[s] \in Ticks /\ d.qty[s][d.best[s]] > 0
    <3>1. ~Better(s, d.best[s], d.best[s]) /\ shot[s][d.best[s]] = d.qty[s][d.best[s]]
      BY <1>1, <2>1, <2>4, BetterFacts
    <3>2. d.best[s] \in listed(s) /\ \A t \in listed(s) : ~Better(s, t, d.best[s])
      BY <1>1, <2>4, <3>1
    <3> HIDE DEF listed
    <3>3. /\ BestOf(s, listed(s)) \in listed(s)
          /\ ~Better(s, d.best[s], BestOf(s, listed(s)))
          /\ ~Better(s, BestOf(s, listed(s)), d.best[s])
      BY <2>2, <3>2, BestOfIsBest
    <3>4. BestOf(s, listed(s)) = d.best[s]
      BY <2>1, <2>2, <3>3, BetterFacts
    <3>5. QED
      BY <1>2, <2>4, <3>1, <3>2, <3>4
  <2>5. QED
    BY <2>3, <2>4 DEF Held
<1>4. again.best = d.best
  BY <1>2, <1>3 DEF Depth
<1>5. QED
  BY <1>3, <1>4 DEF again, shot

-----------------------------------------------------------------------------
(* The theorems.                                                            *)

\* No update brings the best prices of the hash-map book together, and no clear or
\* snapshot but a clear up to a price of levels that the feed has crossed.
THEOREM UncrossedStays == Spec => StaysUncrossed
<1>1. [KeepsApart]_replayVars =>
        [ (clean' \/ hash.best["Buy"] < hash.best["Sell"]) /\ ~CutsCrossed
             => hash'.best["Buy"] < hash'.best["Sell"] ]_replayVars
  BY DEF KeepsApart, Apart
<1> QED BY InitHolds, NextHolds, <1>1, PTL DEF Spec, StaysUncrossed

\* The hash-map book implements the book that the feed describes: its levels always,
\* and its best prices while the feed does not cross its own levels.
THEOREM ImplementsL2Book == Spec => IsL2Book
<1>1. Spec => []Inv
  BY InitHolds, NextHolds, PTL DEF Spec
<1> QED BY <1>1, InitHolds, NextHolds, PTL DEF Spec, IsL2Book, Book!Spec

\* Both books are of their types: no scan, clear or snapshot leaves the range.
THEOREM BooksTyped == Spec => []TypeOK
<1>1. Inv /\ Twins => TypeOK
  BY DEF Inv, Twins, TypeOK
<1> QED BY <1>1, BothHold, PTL

\* The same for the ROI-vector book.  A cell with less than half a lot moves no best
\* price when it is set, wherever it is; but a clear up to a price looks at all cells,
\* and then it may be the best of them.
THEOREM RoiUncrossedStays ==
    ASSUME WholeLots \/ "cut" \notin EventKinds PROVE Spec => RoiStaysUncrossed
<1>1. [TwinStep]_replayVars =>
        [ (clean' \/ roi.best["Buy"] < roi.best["Sell"]) /\ ~CutsCrossed
             => roi'.best["Buy"] < roi'.best["Sell"] ]_replayVars
  BY DEF TwinStep, RoiKeepsApart, Apart
<1> QED BY TwinsHold, <1>1, PTL DEF Spec, RoiStaysUncrossed

\* The two classes hold the same levels in the range of the ROI-vector book while the
\* feed is clean, and its best prices are the best of them; whatever the feed, a level
\* that both hold alike they keep alike, but for a clear up to a price of crossed levels.
THEOREM OneBehaviour == ASSUME WholeLots PROVE Spec => BooksAgree
<1> DEFINE Agree(s) ==
              /\ \A t \in Roi :
                    clean' \/ roi.qty[s][t] = hash.qty[s][t]
                       => roi'.qty[s][t] = hash'.qty[s][t] \/ OutOfReach(s, t)
              /\ clean' => roi'.best[s] = RoiTop(s, {t \in Roi : hash'.qty[s][t] > 0})
<1>1. TwinStep => \A s \in Sides : Agree(s)
  <2> SUFFICES ASSUME TwinStep, NEW s \in Sides PROVE Agree(s)
    OBVIOUS
  <2>1. \A t \in Roi : clean' => roi'.qty[s][t] = hash'.qty[s][t]
    BY DEF TwinStep, Twins
  <2>2. clean' => Filled(roi'.qty[s]) = {t \in Roi : hash'.qty[s][t] > 0}
    BY <2>1 DEF Filled
  <2>3. clean' => roi'.best[s] = RoiTop(s, Filled(roi'.qty[s]))
    BY DEF TwinStep, Twins, RoiOrdered
  <2> QED BY <2>1, <2>2, <2>3 DEF TwinStep, KeepsTwins
<1>2. [TwinStep]_replayVars => [\A s \in Sides : Agree(s)]_replayVars
  BY <1>1
<1> QED BY TwinsHold, <1>2, PTL DEF Spec, BooksAgree

\* do_snapshot and do_apply_snapshot of the hash-map book: a book rebuilt from its own
\* snapshot has its best prices, whatever was crossed before.
THEOREM SnapshotRestores == Spec => []SnapshotRoundTrip
<1>1. Inv /\ Held(hash) => SnapshotRoundTrip
  BY HeldRoundTrip DEF Inv, SnapshotRoundTrip
<1> QED BY <1>1, HeldHolds, BothHold, PTL

\* The same of the ROI-vector book: while the feed is clean the events of a snapshot
\* rebuild all of it, in the order in which they are applied.
THEOREM RoiSnapshotRestores == ASSUME WholeLots PROVE Spec => []RoiSnapshotRoundTrip
<1>1. Twins => RoiSnapshotRoundTrip
  <2> SUFFICES ASSUME Twins, clean PROVE RoiApplySnapshot(RoiSnapshot(roi)) = roi
    BY DEF RoiSnapshotRoundTrip
  <2>1. roi \in RoiDepth /\ RoiOrdered(roi) /\ Apart(roi)
    BY DEF Twins
  <2>2. \A s \in Sides : roi.qty[s] \in [Roi -> Nat] /\ DOMAIN roi.qty[s] = Roi
    BY <2>1 DEF RoiDepth
  <2>3. ASSUME NEW b \in Roi, NEW a \in Roi, roi.qty["Buy"][b] > 0, roi.qty["Sell"][a] > 0
        PROVE  b < a
    <3>1. "Buy" \in Sides /\ "Sell" \in Sides
      BY DEF Sides
    <3>2. ~Better("Buy", b, roi.best["Buy"]) /\ ~Better("Sell", a, roi.best["Sell"])
      BY <2>1, <2>3, <3>1, RoiBest DEF Filled
    <3>3. roi.best["Buy"] \in Int /\ roi.best["Sell"] \in Int /\ a \in Int /\ b \in Int
      BY <2>1, <3>1, RoiPrices, RoiTicks
    <3> QED BY <2>1, <3>2, <3>3 DEF Better, Apart
  <2>4. "Buy" \in Sides /\ "Sell" \in Sides
    BY DEF Sides
  <2>5. \E D : Roi \subseteq D /\ D \subseteq Ticks /\ roi.qty \in [Sides -> [D -> Nat]]
    BY <2>1, RoiTicks DEF RoiDepth
  <2>6. \A s \in Sides : \A t \in Roi : roi.qty[s][t] = 0 \/ Lots(roi.qty[s][t]) > 0
    BY DEF Twins
  <2>7. Uncrossed(roi.qty)
    BY <2>2, <2>3, <2>4, <2>5, <2>6 DEF Uncrossed
  <2> DEFINE again == RoiApplySnapshot(roi.qty)
  <2>8. /\ again \in RoiDepth /\ RoiOrdered(again)
        /\ again.qty = [s \in Sides |-> [t \in Roi |-> roi.qty[s][t]]]
    BY <2>7, Restores
  <2> HIDE DEF again
  <2>9. roi.qty = [s \in Sides |-> [t \in Roi |-> roi.qty[s][t]]]
    <3>1. ASSUME NEW s \in Sides PROVE roi.qty[s] = [t \in Roi |-> roi.qty[s][t]]
      BY <2>2
    <3>2. roi.qty = [s \in Sides |-> roi.qty[s]]
      BY <2>1 DEF RoiDepth
    <3> QED BY <3>1, <3>2
  <2>10. again.qty = roi.qty
    BY <2>8, <2>9
  <2> QED BY <2>1, <2>8, <2>10, RoiSame DEF again, RoiSnapshot
<1> QED BY <1>1, BothHold, PTL

=============================================================================
