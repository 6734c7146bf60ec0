---------------------------- MODULE TradingProofs ----------------------------
(***************************************************************************)
(* Type correctness of the composed system and the agreement of the        *)
(* exchange's orders with its price index, for every set of order ids,     *)
(* every number of ticks, every latency model, every feed and both kinds   *)
(* of exchange.                                                            *)
(*                                                                         *)
(* Neither TypeOK nor IndexConsistent is inductive alone.  A handler that  *)
(* walks an index finds orders only when the index names nothing else, so  *)
(* the types depend on the index; a request is acknowledged only when it   *)
(* is one of the three the exchange knows; and an order is put on a bus    *)
(* without queue scratch only when the strategy's map holds none.  Inv     *)
(* adds these facts.                                                       *)
(*                                                                         *)
(* First come lemmas on what the operators of Orders, OrderBus and         *)
(* Exchange return and preserve: orders of the right type that keep their  *)
(* identity, side and price, and a book whose index names exactly its      *)
(* orders.                                                                 *)
(***************************************************************************)
EXTENDS Trading, HashMapDepthProofs, FiniteSetTheorems, SequenceTheorems

-----------------------------------------------------------------------------
(* Orders.                                                                  *)

\* A quantity is a natural number of lots.
LEMMA LotsType == ASSUME NEW n \in Nat PROVE Lots(n) \in Nat
<1>1. LotSize \in Nat /\ LotSize > 0
  BY OrdersAssumption
<1>2. ASSUME NEW m \in Nat, NEW d \in Nat, d > 0 PROVE m \div d \in Nat
  BY <1>2
<1>3. 2 * n + LotSize \in Nat /\ 2 * LotSize \in Nat /\ 2 * LotSize > 0
  BY <1>1
<1>4. QED
  BY <1>2, <1>3 DEF Lots

\* Prices lie between the sentinels.
LEMMA TicksAreInt == Ticks \subseteq INVALID_MIN..INVALID_MAX /\ Ticks \subseteq Nat
  BY OrdersAssumption DEF Ticks, INVALID_MIN, INVALID_MAX

\* A fresh order.
LEMMA MakeOrderType ==
    ASSUME NEW id \in OrderIds, NEW s \in Sides, NEW tick \in Ticks, NEW quantity \in Nat,
           NEW type \in OrdTypes, NEW tif \in TimesInForce
    PROVE  LET o == MakeOrder(id, s, tick, quantity, type, tif)
           IN  o \in Order /\ o.order_id = id /\ o.q = 0
  BY TicksAreInt, OrdersAssumption
     DEF MakeOrder, Order, Statuses, INVALID_MIN, INVALID_MAX

Same(o1, o2) ==
    o1.order_id = o2.order_id /\ o1.side = o2.side /\ o1.price_tick = o2.price_tick

\* A fill moves no order: the index needs no change.
LEMMA FillType ==
    ASSUME NEW o \in Order, NEW ts \in Nat, NEW tick \in INVALID_MIN..INVALID_MAX,
           NEW quantity \in Nat
    PROVE  Fill(o, ts, tick, quantity) \in Order /\ Same(Fill(o, ts, tick, quantity), o)
<1> DEFINE leaves == Larger(0, o.leaves_qty - quantity)
           st == IF Lots(leaves) > 0 THEN "PartiallyFilled" ELSE "Filled"
<1>1. leaves \in Nat
  BY DEF Larger, Order
<1>2. st \in Statuses
  BY DEF Statuses
<1>3. Fill(o, ts, tick, quantity) =
        IF o.status \in Terminal THEN o
        ELSE [o EXCEPT !.exec_price_tick = tick, !.exec_qty = quantity,
                       !.leaves_qty = leaves, !.status = st, !.exch_timestamp = ts]
  BY DEF Fill
<1> HIDE DEF leaves, st
<1>4. QED
  BY <1>1, <1>2, <1>3 DEF Order, Same

\* Filling the rest of an order keeps it an order of the same id, side and price.
LEMMA FillMakerType ==
    ASSUME NEW o \in Order, NEW ts \in Nat
    PROVE  FillMaker(o, ts) \in Order /\ Same(FillMaker(o, ts), o)
  <1>1. o.price_tick \in INVALID_MIN..INVALID_MAX /\ o.leaves_qty \in Nat
    BY TicksAreInt DEF Order
  <1>2. QED
    BY <1>1, FillType DEF FillMaker

\* So does a trade that passes or reaches it.
LEMMA AfterTradeType ==
    ASSUME NEW o \in Order, NEW tick \in Ticks, NEW quantity \in Nat, NEW ts \in Nat
    PROVE  /\ AfterTrade(o, tick, quantity, ts) \in Order
           /\ Same(AfterTrade(o, tick, quantity, ts), o)
<1> DEFINE moved == Advance(o, quantity)
           portion == IF PartialFill THEN Smaller(Executable(moved), o.leaves_qty)
                                     ELSE o.leaves_qty
           front == [moved EXCEPT !.q = 0]
<1>1. moved \in Order /\ Same(moved, o)
  BY DEF Advance, Order, Same
<1>2. Executable(moved) \in Nat
  <2>1. CASE moved.q < 0
    <3>1. Lots(-moved.q) \in Nat
      BY <1>1, <2>1, LotsType DEF Order
    <3>2. QED
      BY <2>1, <3>1, OrdersAssumption DEF Executable
  <2>2. CASE ~(moved.q < 0)
    BY <2>2 DEF Executable
  <2>3. QED
    BY <2>1, <2>2
<1>3. portion \in Nat
  BY <1>2 DEF Smaller, Order
<1>4. front \in Order /\ Same(front, o)
  BY <1>1 DEF Order, Same
<1>5. o.price_tick \in INVALID_MIN..INVALID_MAX
  BY TicksAreInt DEF Order
<1>6. AfterTrade(o, tick, quantity, ts) =
        IF Through(o, tick) THEN FillMaker(o, ts)
        ELSE IF AtFront(o, tick, quantity) THEN Fill(front, ts, o.price_tick, portion)
        ELSE IF o.price_tick = tick THEN moved
        ELSE o
  BY DEF AfterTrade
<1> HIDE DEF moved, portion, front
<1>7. Fill(front, ts, o.price_tick, portion) \in Order
      /\ Same(Fill(front, ts, o.price_tick, portion), o)
  BY <1>3, <1>4, <1>5, FillType DEF Same
<1>8. QED
  BY <1>1, <1>6, <1>7, FillMakerType DEF Same

\* An order without its scratch can travel.
LEMMA ToPlainType ==
    ASSUME NEW o \in Order
    PROVE  ToPlain(o) \in Order /\ ToPlain(o).q = 0 /\ Same(ToPlain(o), o)
  BY DEF ToPlain, Order, Same

-----------------------------------------------------------------------------
(* Buses.                                                                   *)

\* What append schedules is an entry of the bus.
LEMMA ScheduledType ==
    ASSUME NEW bus \in Seq(Entry), NEW o \in Order, o.q = 0, NEW ts \in Nat
    PROVE  Scheduled(bus, o, ts) \in Entry
<1>1. LatestTs(bus) \in Nat
  <2>1. CASE bus = <<>>
    BY <2>1 DEF LatestTs
  <2>2. CASE bus # <<>>
    <3>1. Len(bus) \in 1..Len(bus)
      BY <2>2, EmptySeq
    <3>2. bus[Len(bus)] \in Entry
      BY <3>1, ElementOfSeq
    <3>3. QED
      BY <2>2, <3>2 DEF LatestTs, Entry
  <2>3. QED
    BY <2>1, <2>2
<1>2. Larger(ts, LatestTs(bus)) \in Nat
  BY <1>1 DEF Larger
<1>3. QED
  BY <1>2 DEF Scheduled, Entry

\* An answer to a sequence of orders leaves a bus.
LEMMA RespondType ==
    ASSUME to_local \in Seq(Entry), NEW os \in Seq(Order), NEW ts \in Nat,
           NEW lat \in ResponseLatencies, Respond(os, ts, lat)
    PROVE  to_local' \in Seq(Entry)
<1> DEFINE new == [i \in 1..Len(os) |-> Scheduled(to_local, ToPlain(os[i]), ts + lat)]
<1>1. ts + lat \in Nat
  BY LatencyAssumption
<1>2. ASSUME NEW i \in 1..Len(os)
      PROVE  Scheduled(to_local, ToPlain(os[i]), ts + lat) \in Entry
  <2>1. os[i] \in Order
    BY <1>2, ElementOfSeq
  <2>2. QED
    BY <1>1, <2>1, ToPlainType, ScheduledType
<1>3. Len(os) \in Nat
  BY LenProperties
<1>4. new \in [1..Len(os) -> Entry]
  BY <1>2
<1>5. new \in Seq(Entry)
  BY <1>3, <1>4, SeqDef
<1>6. to_local' = to_local \o new
  BY DEF Respond
<1> HIDE DEF new
<1>7. QED
  BY <1>5, <1>6, ConcatProperties

-----------------------------------------------------------------------------
(* The book: every way it changes keeps the index and the orders together.  *)

BookOK(b) == IsBook(b) /\ Indexed(b)

\* An order whose id is not in the book enters it and its index.
LEMMA InsertOK ==
    ASSUME NEW b, BookOK(b), NEW o \in Order, o.order_id \notin Ids(b)
    PROVE  BookOK(Insert(b, o))
<1> DEFINE n == Insert(b, o)
<1>1. o.order_id \in OrderIds /\ o.side \in Sides /\ o.price_tick \in Ticks
  BY DEF Order
<1>2. /\ n.orders = [id \in Ids(b) \cup {o.order_id} |->
                       IF id \in Ids(b) THEN b.orders[id] ELSE o]
      /\ n.index = [b.index EXCEPT ![o.side][o.price_tick] = @ \cup {o.order_id}]
      /\ n = [orders |-> n.orders, index |-> n.index]
  BY DEF Insert
<1> HIDE DEF n
<1>3. IsOrderMap(n.orders)
  BY <1>1, <1>2 DEF BookOK, IsBook, IsOrderMap, Ids
<1>4. n.index \in [Sides -> [Ticks -> SUBSET OrderIds]]
  BY <1>1, <1>2 DEF BookOK, IsBook
<1>5. Indexed(n)
  <2> SUFFICES ASSUME NEW s \in Sides, NEW t \in Ticks
               PROVE  n.index[s][t] = {id \in DOMAIN n.orders :
                         n.orders[id].side = s /\ n.orders[id].price_tick = t}
    BY DEF Indexed
  <2>1. b.index[s][t] = {id \in Ids(b) : b.orders[id].side = s /\ b.orders[id].price_tick = t}
    BY DEF BookOK, Indexed, Ids
  <2> DEFINE there == s = o.side /\ t = o.price_tick
  <2>2. b.index \in [Sides -> [Ticks -> SUBSET OrderIds]]
    BY DEF BookOK, IsBook
  <2>3. there => n.index[s][t] = b.index[s][t] \cup {o.order_id}
    BY <1>2, <2>2
  <2>4. ~there => n.index[s][t] = b.index[s][t]
    BY <1>1, <1>2, <2>2
  <2>5. QED
    BY <1>2, <2>1, <2>3, <2>4
<1>6. QED
  BY <1>2, <1>3, <1>4, <1>5 DEF BookOK, IsBook, n

\* Orders leave the book and its index together.
LEMMA WithdrawOK ==
    ASSUME NEW b, BookOK(b), NEW ids
    PROVE  BookOK(Withdraw(b, ids)) /\ Ids(Withdraw(b, ids)) = Ids(b) \ ids
<1> DEFINE n == Withdraw(b, ids)
           gone(s, t) == {id \in ids \cap Ids(b) :
                             b.orders[id].side = s /\ b.orders[id].price_tick = t}
<1>1. /\ n.orders = [id \in Ids(b) \ ids |-> b.orders[id]]
      /\ n.index = [s \in Sides |-> [t \in Ticks |-> b.index[s][t] \ gone(s, t)]]
      /\ n = [orders |-> n.orders, index |-> n.index]
  BY DEF Withdraw
<1> HIDE DEF n
<1>2. IsOrderMap(n.orders) /\ DOMAIN n.orders = Ids(b) \ ids
  BY <1>1 DEF BookOK, IsBook, IsOrderMap, Ids
<1>3. n.index \in [Sides -> [Ticks -> SUBSET OrderIds]]
  BY <1>1 DEF BookOK, IsBook
<1>4. Indexed(n)
  <2> SUFFICES ASSUME NEW s \in Sides, NEW t \in Ticks
               PROVE  n.index[s][t] = {id \in DOMAIN n.orders :
                         n.orders[id].side = s /\ n.orders[id].price_tick = t}
    BY DEF Indexed
  <2>1. b.index[s][t] = {id \in Ids(b) : b.orders[id].side = s /\ b.orders[id].price_tick = t}
    BY DEF BookOK, Indexed, Ids
  <2>2. n.index[s][t] = b.index[s][t] \ gone(s, t)
    BY <1>1
  <2>3. QED
    BY <1>1, <2>1, <2>2
<1>5. QED
  BY <1>1, <1>2, <1>3, <1>4 DEF BookOK, IsBook, Ids, n

\* Orders may change in place when side and price stay.
LEMMA ReplaceOK ==
    ASSUME NEW b, BookOK(b), NEW os,
           \A id \in Ids(b) \cap DOMAIN os : os[id] \in Order /\ Same(os[id], b.orders[id])
    PROVE  BookOK(Replace(b, os)) /\ Ids(Replace(b, os)) = Ids(b)
<1> DEFINE n == Replace(b, os)
<1>1. /\ n.orders = [id \in Ids(b) |-> IF id \in DOMAIN os THEN os[id] ELSE b.orders[id]]
      /\ n.index = b.index
      /\ n = [orders |-> n.orders, index |-> n.index]
  BY DEF Replace, BookOK, IsBook
<1> HIDE DEF n
<1>2. IsOrderMap(n.orders) /\ DOMAIN n.orders = Ids(b)
  BY <1>1 DEF BookOK, IsBook, IsOrderMap, Ids, Same
<1>3. \A id \in Ids(b) : n.orders[id].side = b.orders[id].side
                         /\ n.orders[id].price_tick = b.orders[id].price_tick
  BY <1>1 DEF Same
<1>4. Indexed(n)
  BY <1>1, <1>2, <1>3 DEF Indexed, BookOK, Ids
<1>5. QED
  BY <1>1, <1>2, <1>4 DEF BookOK, IsBook, Ids, n

\* What a scan returns is in the book.
LEMMA ScannedInBook ==
    ASSUME BookOK(book), NEW s \in Sides, NEW from, NEW to
    PROVE  Scanned(s, from, to) \subseteq Ids(book)
<1>1. \A t \in Ticks : book.index[s][t] \subseteq Ids(book)
  BY DEF BookOK, Indexed, Ids
<1>2. QED
  BY <1>1 DEF Scanned

-----------------------------------------------------------------------------
(* The handlers.                                                            *)

\* The state of the exchange and its buses.
Requested == {"New", "Canceled", "Replaced"}
RequestEntry == {e \in Entry : e.order.req \in Requested}

ExchTyped == exch_depth \in Depth /\ BookOK(book) /\ exch_pos \in [OrderIds -> Int]

\* Fills leave positions integers.
LEMMA PositionType ==
    ASSUME NEW pos \in [OrderIds -> Int], NEW o \in Order
    PROVE  ApplyFill(pos, o) \in [OrderIds -> Int]
<1>1. o.order_id \in OrderIds /\ o.exec_qty \in Nat /\ o.side \in Sides
  BY DEF Order
<1>2. Sign(o.side) * o.exec_qty \in Int
  BY <1>1 DEF Sign
<1>3. QED
  BY <1>1, <1>2 DEF ApplyFill

\* Publishing fills keeps the buses and the position typed.
LEMMA PublishType ==
    ASSUME exch_pos \in [OrderIds -> Int], to_local \in Seq(Entry),
           NEW fills, DOMAIN fills \subseteq OrderIds,
           \A id \in DOMAIN fills : fills[id] \in Order,
           NEW ts \in Nat, Publish(fills, ts)
    PROVE  exch_pos' \in [OrderIds -> Int] /\ to_local' \in Seq(Entry)
<1>1. exch_pos' \in [OrderIds -> Int]
  <2>1. \A id \in DOMAIN fills : Sign(fills[id].side) * fills[id].exec_qty \in Int
    BY DEF Sign, Order
  <2>2. exch_pos' = ApplyFills(exch_pos, fills)
    BY DEF Publish
  <2>3. QED
    BY <2>1, <2>2 DEF ApplyFills
<1>2. to_local' \in Seq(Entry)
  <2>1. PICK ids \in SetToSeqs(DOMAIN fills), lat \in ResponseLatencies :
           Respond([i \in 1..Len(ids) |-> fills[ids[i]]], ts, lat)
    BY Zenon DEF Publish
  <2> DEFINE os == [i \in 1..Len(ids) |-> fills[ids[i]]]
  <2>2. Cardinality(DOMAIN fills) \in Nat
    BY OrdersAssumption, FS_Subset, FS_CardinalityType
  <2>3. ids \in [1..Cardinality(DOMAIN fills) -> DOMAIN fills]
    BY DEF SetToSeqs
  <2>4. ids \in Seq(DOMAIN fills)
    BY <2>2, <2>3, SeqDef
  <2>5. Len(ids) \in Nat /\ \A i \in 1..Len(ids) : fills[ids[i]] \in Order
    BY <2>4, LenProperties, ElementOfSeq
  <2>6. os \in [1..Len(ids) -> Order]
    BY <2>5
  <2>7. os \in Seq(Order)
    BY <2>5, <2>6, SeqDef
  <2> HIDE DEF os
  <2>8. Respond(os, ts, lat)
    BY <2>1 DEF os
  <2>9. QED
    BY <2>7, <2>8, RespondType
<1>3. QED
  BY <1>1, <1>2

\* A trade keeps the exchange and its buses well formed.
LEMMA ProcessTradeType ==
    ASSUME ExchTyped, to_local \in Seq(Entry),
           NEW s \in Sides, NEW tick \in Ticks, NEW quantity \in Nat, NEW ts \in Nat,
           ProcessTrade(s, tick, quantity, ts)
    PROVE  ExchTyped' /\ to_local' \in Seq(Entry)
<1> DEFINE reached == Scanned(s, exch_depth.best[Opposite(s)], tick)
           after == [id \in reached |-> AfterTrade(book.orders[id], tick, quantity, ts)]
           hit == {id \in reached : \/ Through(book.orders[id], tick)
                                    \/ AtFront(book.orders[id], tick, quantity)}
           done == {id \in hit : after[id].status = "Filled"}
           fills == [id \in hit |-> after[id]]
<1>1. BookOK(book) /\ exch_pos \in [OrderIds -> Int] /\ exch_depth \in Depth
  BY DEF ExchTyped
<1>2. reached \subseteq Ids(book)
  BY <1>1, ScannedInBook
<1>3. \A id \in Ids(book) : id \in OrderIds /\ book.orders[id] \in Order
  BY <1>1 DEF BookOK, IsBook, IsOrderMap, Ids
<1>4. /\ book' = Withdraw(Replace(book, after), done)
      /\ Publish(fills, ts)
      /\ exch_depth' = exch_depth
  BY DEF ProcessTrade
<1> HIDE DEF reached
<1>5. \A id \in reached : after[id] \in Order /\ Same(after[id], book.orders[id])
  BY <1>2, <1>3, AfterTradeType
<1>6. DOMAIN after = reached
  OBVIOUS
<1>7. DOMAIN fills \subseteq OrderIds /\ \A id \in DOMAIN fills : fills[id] \in Order
  BY <1>2, <1>3, <1>5
<1> HIDE DEF after, hit, done, fills
<1>8. BookOK(Replace(book, after))
  BY <1>1, <1>5, <1>6, ReplaceOK
<1>9. BookOK(book')
  BY <1>4, <1>8, WithdrawOK
<1>10. exch_pos' \in [OrderIds -> Int] /\ to_local' \in Seq(Entry)
  BY <1>1, <1>4, <1>7, PublishType
<1>11. QED
  BY <1>1, <1>4, <1>9, <1>10 DEF ExchTyped, BookOK, IsBook, Indexed

\* So does a depth event.
LEMMA ProcessDepthType ==
    ASSUME ExchTyped, to_local \in Seq(Entry),
           NEW s \in Sides, NEW tick \in Ticks, NEW quantity \in Nat, NEW ts \in Nat,
           ProcessDepth(s, tick, quantity, ts)
    PROVE  ExchTyped' /\ to_local' \in Seq(Entry)
<1> DEFINE d == UpdateDepth(exch_depth, s, tick, quantity)
           o == Opposite(s)
           requeued == [id \in book.index[s][tick] |->
                          [book.orders[id] EXCEPT !.q = Smaller(@, quantity)]]
           met == IF Better(s, d.best[s], exch_depth.best[s])
                  THEN {id \in Scanned(o, exch_depth.best[s], d.best[s]) :
                           Crosses(o, book.orders[id].price_tick, d.best[s])}
                  ELSE {}
           fills == [id \in met |-> FillMaker(book.orders[id], ts)]
<1>1. BookOK(book) /\ exch_pos \in [OrderIds -> Int] /\ exch_depth \in Depth
  BY DEF ExchTyped
<1>2. \A id \in Ids(book) : id \in OrderIds /\ book.orders[id] \in Order
  BY <1>1 DEF BookOK, IsBook, IsOrderMap, Ids
<1>3. /\ exch_depth' = d
      /\ book' = Withdraw(Replace(book, requeued), met)
      /\ Publish(fills, ts)
  BY DEF ProcessDepth
<1>4. d \in Depth
  BY <1>1, UpdateDepthType
<1>5. met \subseteq Ids(book)
  BY <1>1, SideFacts, ScannedInBook
<1> HIDE DEF d, met
<1>6. book.index[s][tick] \subseteq Ids(book)
  BY <1>1 DEF BookOK, Indexed, Ids
<1>7. \A id \in DOMAIN requeued : requeued[id] \in Order /\ Same(requeued[id], book.orders[id])
  <2>1. ASSUME NEW r \in Order
        PROVE  LET n == [r EXCEPT !.q = Smaller(@, quantity)]
               IN  n \in Order /\ Same(n, r)
    BY DEF Order, Same, Smaller
  <2>2. QED
    BY <1>2, <1>6, <2>1
<1>8. DOMAIN fills \subseteq OrderIds /\ \A id \in DOMAIN fills : fills[id] \in Order
  BY <1>2, <1>5, FillMakerType
<1> HIDE DEF requeued, fills
<1>9. BookOK(Replace(book, requeued))
  BY <1>1, <1>7, ReplaceOK
<1>10. BookOK(book')
  BY <1>3, <1>9, WithdrawOK
<1>11. exch_pos' \in [OrderIds -> Int] /\ to_local' \in Seq(Entry)
  BY <1>1, <1>3, <1>8, PublishType
<1>12. QED
  BY <1>3, <1>4, <1>10, <1>11 DEF ExchTyped, BookOK, IsBook, Indexed

\* Acknowledgements: the request is in the shape ack_new leaves it in.
AckOK(a) == BookOK(a.book) /\ a.order \in Order /\ a.executed \in BOOLEAN

\* An acknowledgement is right when its parts are.
LEMMA AckIsOK ==
    ASSUME NEW b, BookOK(b), NEW o \in Order, NEW executed \in BOOLEAN
    PROVE  AckOK(Ack(b, o, executed))
  BY DEF AckOK, Ack

\* A rejection leaves the book alone.
LEMMA RejectOK ==
    ASSUME NEW b, BookOK(b), NEW o \in Order, NEW ts \in Nat
    PROVE  AckOK(Reject(b, o, ts))
  BY DEF AckOK, Reject, Ack, Order, Statuses

\* An order that enters the queue behind what its level holds.
LEMMA RestingType ==
    ASSUME NEW a \in Order, NEW ts \in Nat, NEW ahead \in Nat
    PROVE  LET r == [a EXCEPT !.status = "New", !.exch_timestamp = ts, !.q = ahead]
           IN  r \in Order /\ r.order_id = a.order_id
<1> DEFINE r == [a EXCEPT !.status = "New", !.exch_timestamp = ts]
<1>1. r \in Order /\ r.order_id = a.order_id
  BY DEF Order, Statuses
<1>2. [a EXCEPT !.status = "New", !.exch_timestamp = ts, !.q = ahead]
        = [r EXCEPT !.q = ahead]
  BY DEF Order
<1>3. ahead \in Int
  OBVIOUS
<1> HIDE DEF r
<1>4. [r EXCEPT !.q = ahead] \in Order /\ [r EXCEPT !.q = ahead].order_id = a.order_id
  BY <1>1, <1>3 DEF Order
<1>5. QED
  BY <1>2, <1>4

\* ack_new leaves a consistent book and an order to answer with.
LEMMA AckNewOK ==
    ASSUME exch_depth \in Depth, NEW b, BookOK(b), NEW o \in Order, NEW ts \in Nat
    PROVE  AckOK(AckNew(b, o, ts))
<1> DEFINE accepted == [o EXCEPT !.req = "None"]
           best == exch_depth.best[Opposite(o.side)]
           market == o.order_type = "Market"
           meets == Crosses(o.side, o.price_tick, best)
           takes == market \/ (meets /\ o.time_in_force # "GTX")
           rests == ~market /\ ~meets /\ o.time_in_force \in {"GTC", "GTX"}
           resting == [accepted EXCEPT !.status = "New", !.exch_timestamp = ts,
                                       !.q = exch_depth.qty[o.side][o.price_tick]]
           filled == Fill(accepted, ts, best, o.leaves_qty)
           expired == [accepted EXCEPT !.status = "Expired", !.exch_timestamp = ts]
<1>1. AckNew(b, o, ts) =
        IF o.order_id \in Ids(b) THEN Reject(b, o, ts)
        ELSE IF takes THEN Ack(b, filled, o.status \notin Terminal)
        ELSE IF rests THEN Ack(Insert(b, resting), resting, FALSE)
        ELSE Ack(b, expired, FALSE)
  BY DEF AckNew
<1>2. o.side \in Sides /\ o.price_tick \in Ticks /\ o.leaves_qty \in Nat
  BY DEF Order
<1>3. best \in INVALID_MIN..INVALID_MAX /\ exch_depth.qty[o.side][o.price_tick] \in Nat
  BY <1>2, SideFacts DEF Depth
<1>4. accepted \in Order
  BY DEF Order, Statuses
<1>5. expired \in Order
  BY <1>4 DEF Order, Statuses
<1>6. resting \in Order /\ resting.order_id = o.order_id
  <2>1. accepted.order_id = o.order_id
    BY DEF Order
  <2>2. ASSUME NEW a \in Order, NEW ahead \in Nat
        PROVE  LET r == [a EXCEPT !.status = "New", !.exch_timestamp = ts, !.q = ahead]
               IN  r \in Order /\ r.order_id = a.order_id
    BY RestingType
  <2> HIDE DEF accepted
  <2>3. QED
    BY <1>3, <1>4, <2>1, <2>2
<1> HIDE DEF accepted, best, takes, rests, resting, expired
<1>7. filled \in Order
  BY <1>2, <1>3, <1>4, FillType
<1> HIDE DEF filled
<1>8. CASE o.order_id \in Ids(b)
  BY <1>1, <1>8, RejectOK
<1>9. CASE o.order_id \notin Ids(b)
  <2>1. BookOK(Insert(b, resting))
    BY <1>6, <1>9, InsertOK
  <2>2. AckOK(Ack(Insert(b, resting), resting, FALSE)) /\ AckOK(Ack(b, expired, FALSE))
    BY <1>5, <1>6, <2>1, AckIsOK
  <2>3. AckOK(Ack(b, filled, o.status \notin Terminal))
    BY <1>7, AckIsOK
  <2>4. QED
    BY <1>1, <1>9, <2>2, <2>3, Zenon
<1>10. QED
  BY <1>8, <1>9

\* So does ack_cancel.
LEMMA AckCancelOK ==
    ASSUME NEW b, BookOK(b), NEW o \in Order, NEW ts \in Nat
    PROVE  AckOK(AckCancel(b, o, ts))
<1>1. CASE o.order_id \notin Ids(b)
  BY <1>1, RejectOK DEF AckCancel
<1>2. CASE o.order_id \in Ids(b)
  <2> DEFINE canceled == [b.orders[o.order_id] EXCEPT !.req = "None", !.status = "Canceled",
                                                      !.exch_timestamp = ts]
  <2>1. b.orders[o.order_id] \in Order
    BY <1>2 DEF BookOK, IsBook, IsOrderMap, Ids
  <2>2. canceled \in Order
    BY <2>1 DEF Order, Statuses
  <2>3. BookOK(Withdraw(b, {o.order_id}))
    BY WithdrawOK
  <2>4. AckCancel(b, o, ts) = Ack(Withdraw(b, {o.order_id}), canceled, FALSE)
    BY <1>2 DEF AckCancel
  <2> HIDE DEF canceled
  <2>5. QED
    BY <2>2, <2>3, <2>4 DEF AckOK, Ack
<1>3. QED
  BY <1>1, <1>2

\* The resting order keeps its price when it is amended in place, and the index
\* with it.
LEMMA AckModifyOK ==
    ASSUME exch_depth \in Depth, NEW b, BookOK(b), NEW o \in Order, NEW ts \in Nat
    PROVE  AckOK(AckModify(b, o, ts))
<1> DEFINE resting == b.orders[o.order_id]
           amended == [resting EXCEPT !.qty = o.qty, !.leaves_qty = o.qty,
                                      !.exch_timestamp = ts, !.status = "New"]
           reply == [o EXCEPT !.leaves_qty = o.qty, !.exch_timestamp = ts, !.status = "New"]
           reenter == resting.price_tick # o.price_tick \/ o.qty > resting.leaves_qty
           inplace == [id \in {o.order_id} |-> amended]
<1>1. AckModify(b, o, ts) =
        IF o.order_id \notin Ids(b) THEN Reject(b, o, ts)
        ELSE IF reenter THEN AckNew(AckCancel(b, o, ts).book, o, ts)
        ELSE Ack(Replace(b, inplace), reply, FALSE)
  BY DEF AckModify
<1>2. CASE o.order_id \notin Ids(b)
  BY <1>1, <1>2, RejectOK
<1>3. CASE o.order_id \in Ids(b)
  <2>1. resting \in Order
    BY <1>3 DEF BookOK, IsBook, IsOrderMap, Ids
  <2>2. amended \in Order /\ Same(amended, resting)
    BY <2>1 DEF Order, Same, Statuses
  <2>3. reply \in Order
    BY DEF Order, Statuses
  <2>4. AckOK(AckNew(AckCancel(b, o, ts).book, o, ts))
    BY AckCancelOK, AckNewOK DEF AckOK
  <2> HIDE DEF amended, reply, reenter
  <2>5. BookOK(Replace(b, inplace))
    <3>1. \A id \in Ids(b) \cap DOMAIN inplace :
             inplace[id] \in Order /\ Same(inplace[id], b.orders[id])
      BY <2>2
    <3>2. QED
      BY <3>1, ReplaceOK
  <2> HIDE DEF inplace
  <2>6. QED
    <3>1. AckOK(Ack(Replace(b, inplace), reply, FALSE))
      BY <2>3, <2>5, AckIsOK
    <3>2. QED
      BY <1>1, <1>3, <2>4, <3>1, Zenon
<1>4. QED
  BY <1>2, <1>3

\* A request keeps the exchange and its buses well formed.
LEMMA ProcessRequestType ==
    ASSUME ExchTyped, to_local \in Seq(Entry), to_exch \in Seq(RequestEntry),
           to_exch # <<>>, NEW ts \in Nat, ProcessRequest(ts)
    PROVE  ExchTyped' /\ to_local' \in Seq(Entry) /\ to_exch' \in Seq(RequestEntry)
<1> DEFINE o == Head(to_exch).order
           ack == Acknowledge(book, o, ts)
<1>1. BookOK(book) /\ exch_pos \in [OrderIds -> Int] /\ exch_depth \in Depth
  BY DEF ExchTyped
<1>2. Head(to_exch) \in RequestEntry /\ Tail(to_exch) \in Seq(RequestEntry)
  BY HeadTailProperties
<1>3. o \in Order /\ o.req \in Requested
  BY <1>2 DEF RequestEntry, Entry
<1>4. /\ to_exch' = Tail(to_exch)
      /\ book' = ack.book
      /\ exch_pos' = IF ack.executed THEN ApplyFill(exch_pos, ack.order) ELSE exch_pos
      /\ exch_depth' = exch_depth
  BY DEF ProcessRequest
<1>5. PICK lat \in ResponseLatencies :
         Respond(<<ack.order>>, ack.order.exch_timestamp, lat)
  BY DEF ProcessRequest
<1> HIDE DEF o
<1>6. AckOK(ack)
  <2>1. CASE o.req = "New"
    BY <1>1, <1>3, <2>1, AckNewOK DEF Acknowledge
  <2>2. CASE o.req = "Canceled"
    BY <1>1, <1>3, <2>2, AckCancelOK DEF Acknowledge
  <2>3. CASE o.req = "Replaced"
    BY <1>1, <1>3, <2>3, AckModifyOK DEF Acknowledge
  <2>4. QED
    BY <1>3, <2>1, <2>2, <2>3 DEF Requested
<1> HIDE DEF ack
<1>7. ack.order \in Order /\ ack.order.exch_timestamp \in Nat /\ BookOK(ack.book)
  BY <1>6 DEF AckOK, Order
<1>8. <<ack.order>> \in Seq(Order)
  BY <1>7
<1>9. to_local' \in Seq(Entry)
  BY <1>5, <1>7, <1>8, RespondType
<1>10. exch_pos' \in [OrderIds -> Int]
  BY <1>1, <1>4, <1>7, PositionType
<1>11. QED
  BY <1>1, <1>2, <1>4, <1>7, <1>9, <1>10 DEF ExchTyped, BookOK, IsBook, Indexed

-----------------------------------------------------------------------------
(* The whole system.                                                        *)

Plain == {o \in Order : o.q = 0}
IsPlainMap(orders) == IsOrderMap(orders) /\ \A id \in DOMAIN orders : orders[id] \in Plain

BusTyped == to_exch \in Seq(RequestEntry) /\ to_local \in Seq(Entry)
LocalTyped == IsPlainMap(local_orders) /\ local_pos \in [OrderIds -> Int]
EngineTyped ==
    /\ cur_ts \in Nat
    /\ phase \in {"bot", "run", "close", "closed"}
    /\ receiving \in BOOLEAN
    /\ feed_ts \in Nat
    /\ requests \in 0..MaxRequests /\ events \in 0..MaxEvents

\* The inductive invariant.
Inv == BusTyped /\ ExchTyped /\ LocalTyped /\ EngineTyped

\* The inductive invariant implies what the runs check.
LEMMA InvImplies == Inv => TypeOK /\ IndexConsistent
<1>1. RequestEntry \subseteq Entry
  BY DEF RequestEntry
<1>2. to_exch \in Seq(RequestEntry) => to_exch \in Seq(Entry)
  BY <1>1, SeqMonotonic
<1>3. QED
  BY <1>2 DEF Inv, BusTyped, ExchTyped, LocalTyped, EngineTyped, TypeOK,
              IndexConsistent, BookOK, IsPlainMap

\* It holds initially.
LEMMA InitTyped == Init => Inv
<1> SUFFICES ASSUME Init PROVE Inv
  OBVIOUS
<1>1. BusTyped
  BY EmptySeq DEF Init, BusTyped
<1>2. BookOK(EmptyBook)
  BY DEF EmptyBook, BookOK, IsBook, IsOrderMap, Indexed
<1>3. ExchTyped
  BY <1>2, TradingAssumption DEF Init, ExchInit, ExchTyped
<1>4. LocalTyped
  BY DEF Init, LocalInit, LocalTyped, IsPlainMap, IsOrderMap
<1>5. EngineTyped
  <2>1. receiving \in BOOLEAN /\ phase \in {"bot", "run", "close", "closed"}
    BY Zenon DEF Init
  <2>2. cur_ts = 1 /\ feed_ts = 2 /\ requests = 0 /\ events = 0
    BY DEF Init
  <2>3. 0 \in 0..MaxRequests /\ 0 \in 0..MaxEvents /\ 1 \in Nat /\ 2 \in Nat
    BY TradingAssumption
  <2>4. QED
    BY <2>1, <2>2, <2>3, Zenon DEF EngineTyped
<1>6. QED
  BY <1>1, <1>3, <1>4, <1>5 DEF Inv

-----------------------------------------------------------------------------
(* The local side.                                                          *)

\* A request keeps both buses typed, whether accepted or rejected on the way.
LEMMA RequestType ==
    ASSUME BusTyped, NEW o \in Plain, o.req \in Requested, NEW rejected \in Plain,
           NEW lat \in EntryLatencies, Request(o, rejected, lat)
    PROVE  BusTyped'
<1>1. lat \in Int /\ o.local_timestamp \in Nat /\ o \in Order /\ o.q = 0
      /\ rejected \in Order /\ rejected.q = 0
  BY LatencyAssumption DEF Plain, Order
<1>2. RequestEntry \subseteq Entry
  BY DEF RequestEntry
<1>3. to_exch \in Seq(RequestEntry) /\ to_exch \in Seq(Entry) /\ to_local \in Seq(Entry)
  BY <1>2, SeqMonotonic DEF BusTyped
<1>4. CASE lat < 0
  <2> DEFINE e == Scheduled(to_local, rejected, o.local_timestamp - lat)
  <2>1. o.local_timestamp - lat \in Nat
    BY <1>1, <1>4
  <2>2. e \in Entry
    BY <1>1, <1>3, <2>1, ScheduledType
  <2>3. to_local' = Append(to_local, e) /\ to_exch' = to_exch
    BY <1>4 DEF Request
  <2> HIDE DEF e
  <2>4. QED
    BY <1>3, <2>2, <2>3 DEF BusTyped
<1>5. CASE ~(lat < 0)
  <2> DEFINE e == Scheduled(to_exch, o, o.local_timestamp + lat)
  <2>1. o.local_timestamp + lat \in Nat
    BY <1>1, <1>5
  <2>2. e \in Entry
    BY <1>1, <1>3, <2>1, ScheduledType
  <2>3. e.order = o
    BY DEF Scheduled
  <2>4. to_exch' = Append(to_exch, e) /\ to_local' = to_local
    BY <1>5 DEF Request
  <2> HIDE DEF e
  <2>5. e \in RequestEntry
    BY <2>2, <2>3 DEF RequestEntry
  <2>6. QED
    BY <1>3, <2>4, <2>5 DEF BusTyped
<1>6. QED
  BY <1>4, <1>5

\* Storing an order without scratch keeps the map of such orders.
LEMMA PutType ==
    ASSUME NEW orders, IsPlainMap(orders), NEW o \in Plain
    PROVE  IsPlainMap(Put(orders, o))
<1>1. o.order_id \in OrderIds
  BY DEF Plain, Order
<1>2. QED
  BY <1>1 DEF IsPlainMap, IsOrderMap, Put, Plain

\* A response makes an order out of an order.
LEMMA ReceiveType ==
    ASSUME NEW mine \in Plain, NEW resp \in Plain
    PROVE  Receive(mine, resp) \in Plain
<1>1. Update(mine, resp) \in Plain
  BY DEF Update, Plain, Order
<1>2. [mine EXCEPT !.req = "None",
                   !.status = IF mine.req = "New" THEN "Expired" ELSE @] \in Plain
  BY DEF Plain, Order, Statuses
<1>3. QED
  BY <1>1, <1>2 DEF Receive

\* submit_order keeps the types.
LEMMA SubmitOrderType ==
    ASSUME BusTyped, LocalTyped, NEW id \in OrderIds, NEW s \in Sides, NEW tick \in Ticks,
           NEW quantity \in Nat, NEW type \in OrdTypes, NEW tif \in TimesInForce,
           NEW ts \in Nat, NEW lat \in EntryLatencies,
           SubmitOrder(id, s, tick, quantity, type, tif, ts, lat)
    PROVE  BusTyped' /\ LocalTyped'
<1> DEFINE fresh == MakeOrder(id, s, tick, quantity, type, tif)
           o == [fresh EXCEPT !.req = "New", !.local_timestamp = ts]
           rejected == [o EXCEPT !.req = "Rejected"]
<1>1. fresh \in Order /\ fresh.q = 0
  BY MakeOrderType
<1>2. /\ local_orders' = Put(local_orders, o)
      /\ Request(o, rejected, lat)
      /\ local_pos' = local_pos
  BY DEF SubmitOrder
<1> HIDE DEF fresh
<1>3. o \in Plain /\ o.req \in Requested
  BY <1>1 DEF Plain, Order, Statuses, Requested
<1> HIDE DEF o
<1>4. rejected \in Plain
  BY <1>3 DEF Plain, Order, Statuses
<1> HIDE DEF rejected
<1>5. BusTyped'
  BY <1>2, <1>3, <1>4, RequestType
<1>6. QED
  BY <1>2, <1>3, <1>5, PutType DEF LocalTyped, IsPlainMap, IsOrderMap

\* modify keeps the types.
LEMMA ModifyType ==
    ASSUME BusTyped, LocalTyped, NEW id, NEW tick \in Ticks, NEW quantity \in Nat,
           NEW ts \in Nat, NEW lat \in EntryLatencies, Modify(id, tick, quantity, ts, lat)
    PROVE  BusTyped' /\ LocalTyped'
<1> DEFINE old == local_orders[id]
           o == [old EXCEPT !.price_tick = tick, !.qty = quantity,
                            !.req = "Replaced", !.local_timestamp = ts]
           rejected == [o EXCEPT !.req = "Rejected", !.price_tick = old.price_tick,
                                 !.qty = old.qty]
<1>1. old \in Plain
  BY DEF Modify, Known, LocalTyped, IsPlainMap
<1>2. /\ local_orders' = Put(local_orders, o)
      /\ Request(o, rejected, lat)
      /\ local_pos' = local_pos
  BY DEF Modify
<1>3. old.price_tick \in Ticks /\ old.qty \in Nat
  BY <1>1 DEF Plain, Order
<1>4. o \in Plain /\ o.req \in Requested
  BY <1>1 DEF Plain, Order, Statuses, Requested
<1> HIDE DEF o, old
<1>5. rejected \in Plain
  BY <1>3, <1>4 DEF Plain, Order, Statuses
<1> HIDE DEF rejected
<1>6. BusTyped'
  BY <1>2, <1>4, <1>5, RequestType
<1>7. QED
  BY <1>2, <1>4, <1>6, PutType DEF LocalTyped, IsPlainMap, IsOrderMap

\* cancel keeps the types.
LEMMA CancelType ==
    ASSUME BusTyped, LocalTyped, NEW id, NEW ts \in Nat, NEW lat \in EntryLatencies,
           Cancel(id, ts, lat)
    PROVE  BusTyped' /\ LocalTyped'
<1> DEFINE o == [local_orders[id] EXCEPT !.req = "Canceled", !.local_timestamp = ts]
           rejected == [o EXCEPT !.req = "Rejected"]
<1>1. local_orders[id] \in Plain
  BY DEF Cancel, Known, LocalTyped, IsPlainMap
<1>2. /\ local_orders' = Put(local_orders, o)
      /\ Request(o, rejected, lat)
      /\ local_pos' = local_pos
  BY DEF Cancel
<1>3. o \in Plain /\ o.req \in Requested
  BY <1>1 DEF Plain, Order, Statuses, Requested
<1> HIDE DEF o
<1>4. rejected \in Plain
  BY <1>3 DEF Plain, Order, Statuses
<1> HIDE DEF rejected
<1>5. BusTyped'
  BY <1>2, <1>3, <1>4, RequestType
<1>6. QED
  BY <1>2, <1>3, <1>5, PutType DEF LocalTyped, IsPlainMap, IsOrderMap

\* process_recv_order of the local processor keeps the types.
LEMMA ProcessResponseType ==
    ASSUME BusTyped, LocalTyped, to_local # <<>>, ProcessResponse
    PROVE  BusTyped' /\ LocalTyped'
<1> DEFINE resp == Head(to_local).order
           id == resp.order_id
<1>1. Head(to_local) \in Entry /\ Tail(to_local) \in Seq(Entry)
  BY HeadTailProperties DEF BusTyped
<1>2. resp \in Plain /\ resp \in Order
  BY <1>1 DEF Entry, Plain
<1>3. /\ to_local' = Tail(to_local) /\ to_exch' = to_exch
      /\ local_pos' = IF resp.status \in {"Filled", "PartiallyFilled"}
                      THEN ApplyFill(local_pos, resp) ELSE local_pos
      /\ local_orders' =
            IF id \in Known THEN Put(local_orders, Receive(local_orders[id], resp))
            ELSE IF resp.req # "Rejected" THEN Put(local_orders, resp)
            ELSE local_orders
  BY DEF ProcessResponse
<1> HIDE DEF resp
<1>4. IsPlainMap(local_orders) /\ local_pos \in [OrderIds -> Int]
  BY DEF LocalTyped
<1>5. local_pos' \in [OrderIds -> Int]
  BY <1>2, <1>3, <1>4, PositionType
<1>6. id \in Known => Receive(local_orders[id], resp) \in Plain
  BY <1>2, <1>4, ReceiveType DEF Known, IsPlainMap
<1>7. IsPlainMap(local_orders')
  BY <1>2, <1>3, <1>4, <1>6, PutType
<1>8. QED
  BY <1>1, <1>3, <1>5, <1>7 DEF BusTyped, LocalTyped, IsPlainMap, IsOrderMap

-----------------------------------------------------------------------------
(* Steps: one lemma for each group of actions that share their frame.       *)

\* The strategy's requests.
LEMMA AsksTyped ==
    ASSUME Inv, Asks
    PROVE  ExchTyped' /\ EngineTyped' /\ cur_ts \in Nat
<1>1. cur_ts \in Nat
  BY DEF Inv, EngineTyped
<1>2. exch_depth' = exch_depth /\ book' = book /\ exch_pos' = exch_pos
  BY DEF Asks, exchVars
<1>3. ExchTyped'
  BY <1>2 DEF Inv, ExchTyped, BookOK, IsBook, Indexed
<1>4. requests' \in 0..MaxRequests
  BY TradingAssumption DEF Asks, Inv, EngineTyped
<1>5. UNCHANGED <<cur_ts, phase, receiving, feed_ts, events>>
  BY DEF Asks, engineVars
<1>6. EngineTyped'
  BY <1>4, <1>5, Zenon DEF Inv, EngineTyped
<1>7. QED
  BY <1>1, <1>3, <1>6

\* A request of the strategy keeps the invariant.
LEMMA BotRequests ==
    ASSUME Inv, BotSubmits \/ BotCancels \/ BotReprices \/ BotResizes
    PROVE  Inv'
<1>1. Asks
  BY DEF BotSubmits, BotCancels, BotReprices, BotResizes
<1>2. ExchTyped' /\ EngineTyped' /\ cur_ts \in Nat /\ BusTyped /\ LocalTyped
  BY <1>1, AsksTyped DEF Inv
<1>3. CASE BotSubmits
  <2>1. PICK id \in OrderIds, s \in Sides, tick \in Ticks, quantity \in OrderQtys,
             kind \in OrderKinds, lat \in EntryLatencies :
                SubmitOrder(id, s, tick, quantity, kind[1], kind[2], cur_ts, lat)
    BY <1>3 DEF BotSubmits
  <2>2. quantity \in Nat /\ kind[1] \in OrdTypes /\ kind[2] \in TimesInForce
    BY TradingAssumption
  <2>3. QED
    BY <1>2, <2>1, <2>2, SubmitOrderType DEF Inv
<1>4. CASE BotCancels
  BY <1>2, <1>4, CancelType DEF BotCancels, Inv
<1>5. CASE BotReprices
  <2>1. PICK id \in OrderIds, tick \in Ticks, lat \in EntryLatencies :
           MayTouch(id) /\ Modify(id, tick, local_orders[id].qty, cur_ts, lat)
    BY <1>5 DEF BotReprices
  <2>2. local_orders[id].qty \in Nat
    BY <1>2, <2>1 DEF MayTouch, Known, LocalTyped, IsPlainMap, Plain, Order
  <2>3. QED
    BY <1>2, <2>1, <2>2, ModifyType DEF Inv
<1>6. CASE BotResizes
  <2>1. PICK id \in OrderIds, quantity \in OrderQtys, lat \in EntryLatencies :
           MayTouch(id) /\ Modify(id, local_orders[id].price_tick, quantity, cur_ts, lat)
    BY <1>6 DEF BotResizes
  <2>2. local_orders[id].price_tick \in Ticks /\ quantity \in Nat
    BY <1>2, <2>1, TradingAssumption DEF MayTouch, Known, LocalTyped, IsPlainMap, Plain, Order
  <2>3. QED
    BY <1>2, <2>1, <2>2, ModifyType DEF Inv
<1>7. QED
  BY <1>3, <1>4, <1>5, <1>6

\* So does clear_inactive_orders.
LEMMA BotClearsTyped == ASSUME Inv, BotClears PROVE Inv'
<1>1. /\ local_orders' = [id \in {i \in Known : local_orders[i].status \notin Terminal} |->
                            local_orders[id]]
      /\ UNCHANGED <<local_pos, to_exch, to_local>>
  BY DEF BotClears, ClearInactiveOrders
<1>2. UNCHANGED <<cur_ts, exch_depth, book, exch_pos, phase, receiving, feed_ts,
                  requests, events>>
  BY DEF BotClears, exchVars, engineVars
<1>3. LocalTyped'
  BY <1>1 DEF Inv, LocalTyped, IsPlainMap, IsOrderMap, Known
<1>4. BusTyped'
  BY <1>1 DEF Inv, BusTyped
<1>5. ExchTyped'
  BY <1>2 DEF Inv, ExchTyped, BookOK, IsBook, Indexed
<1>6. EngineTyped'
  BY <1>2, Zenon DEF Inv, EngineTyped
<1>7. QED
  BY <1>3, <1>4, <1>5, <1>6 DEF Inv

\* Steps that change nothing but the engine's variables.
LEMMA EngineSteps ==
    ASSUME Inv, UNCHANGED <<busVars, exchVars, localVars>>, EngineTyped'
    PROVE  Inv'
<1>1. BusTyped'
  BY DEF Inv, BusTyped, busVars
<1>2. ExchTyped'
  BY DEF Inv, ExchTyped, BookOK, IsBook, Indexed, exchVars
<1>3. LocalTyped'
  BY DEF Inv, LocalTyped, IsPlainMap, IsOrderMap, localVars
<1>4. QED
  BY <1>1, <1>2, <1>3 DEF Inv

\* So does the return of elapse or wait_*.
LEMMA ReturnsTyped == ASSUME Inv, Returns PROVE Inv'
<1>1. cur_ts' \in Nat
  BY TradingAssumption DEF Inv, EngineTyped, Returns
<1>2. feed_ts' \in Nat
  <2>1. feed_ts' = cur_ts' + 1
    BY DEF Returns
  <2>2. \A n \in Nat : n + 1 \in Nat
    OBVIOUS
  <2>3. QED
    BY <1>1, <2>1, <2>2, Zenon
<1>3. phase' = "bot" /\ UNCHANGED <<busVars, exchVars, localVars, receiving, requests, events>>
  BY DEF Returns
<1>4. EngineTyped'
  BY <1>1, <1>2, <1>3, Zenon DEF Inv, EngineTyped
<1>5. QED
  BY <1>3, <1>4, EngineSteps

\* So does the LocalOrder slot.
LEMMA LocalReceivesTyped == ASSUME Inv, LocalReceives PROVE Inv'
<1>1. BusTyped' /\ LocalTyped'
  BY ProcessResponseType DEF LocalReceives, Inv
<1>2. cur_ts' = Head(to_local).ts /\ feed_ts' = Larger(feed_ts, cur_ts')
      /\ UNCHANGED <<exch_depth, book, exch_pos, phase, receiving, requests, events>>
  BY DEF LocalReceives, exchVars
<1>3. cur_ts' \in Nat
  <2>1. to_local \in Seq(Entry) /\ to_local # <<>>
    BY DEF LocalReceives, Inv, BusTyped
  <2>2. Head(to_local) \in Entry
    BY <2>1, HeadTailProperties
  <2>3. QED
    BY <1>2, <2>2 DEF Entry
<1>4. feed_ts' \in Nat
  BY <1>2, <1>3 DEF Larger, Inv, EngineTyped
<1>5. EngineTyped'
  BY <1>2, <1>3, <1>4, Zenon DEF Inv, EngineTyped
<1>6. ExchTyped'
  BY <1>2 DEF Inv, ExchTyped, BookOK, IsBook, Indexed
<1>7. QED
  BY <1>1, <1>5, <1>6 DEF Inv

\* So does the ExchOrder slot.
LEMMA ExchangeReceivesTyped == ASSUME Inv, ExchangeReceives PROVE Inv'
<1>1. /\ cur_ts' = Head(to_exch).ts
      /\ feed_ts' = cur_ts' + 1
      /\ ProcessRequest(cur_ts')
      /\ receiving' = DueAt(to_exch', cur_ts')
      /\ to_exch # <<>>
      /\ UNCHANGED <<local_orders, local_pos, phase, requests, events>>
  BY DEF ExchangeReceives, localVars
<1>2. cur_ts' \in Nat
  BY <1>1, HeadTailProperties DEF Inv, BusTyped, RequestEntry, Entry
<1>3. ExchTyped' /\ to_local' \in Seq(Entry) /\ to_exch' \in Seq(RequestEntry)
  BY <1>1, <1>2, ProcessRequestType DEF Inv, BusTyped
<1>4. feed_ts' \in Nat
  BY <1>1, <1>2
<1>5. receiving' \in BOOLEAN
  BY <1>1, Zenon DEF DueAt
<1>6. EngineTyped'
  BY <1>1, <1>2, <1>4, <1>5, Zenon DEF Inv, EngineTyped
<1>7. LocalTyped'
  BY <1>1 DEF Inv, LocalTyped, IsPlainMap, IsOrderMap
<1>8. QED
  BY <1>3, <1>6, <1>7 DEF Inv, BusTyped

\* Feed events.
LEMMA FeedTurnTyped ==
    ASSUME Inv, FeedTurn
    PROVE  LocalTyped' /\ EngineTyped' /\ cur_ts' \in Nat
<1>1. /\ cur_ts' \in feed_ts..MaxTs /\ feed_ts' = cur_ts'
      /\ events < MaxEvents /\ events' = events + 1
      /\ UNCHANGED <<local_orders, local_pos, phase, receiving, requests>>
  BY DEF FeedTurn, localVars
<1>2. cur_ts' \in Nat /\ feed_ts' \in Nat
  BY <1>1, TradingAssumption DEF Inv, EngineTyped
<1>3. events' \in 0..MaxEvents
  BY <1>1, TradingAssumption DEF Inv, EngineTyped
<1>4. EngineTyped'
  BY <1>1, <1>2, <1>3, Zenon DEF Inv, EngineTyped
<1>5. LocalTyped'
  BY <1>1 DEF Inv, LocalTyped, IsPlainMap, IsOrderMap
<1>6. QED
  BY <1>2, <1>4, <1>5

\* So does the ExchData slot, whatever the event.
LEMMA FeedTyped ==
    ASSUME Inv, FeedDepth \/ FeedTrade \/ FeedClear
    PROVE  Inv'
<1>1. FeedTurn
  BY DEF FeedDepth, FeedTrade, FeedClear
<1>2. LocalTyped' /\ EngineTyped' /\ cur_ts' \in Nat
  BY <1>1, FeedTurnTyped
<1>3. ExchTyped /\ to_local \in Seq(Entry) /\ to_exch \in Seq(RequestEntry)
  BY DEF Inv, BusTyped
<1>4. CASE FeedDepth
  <2>1. PICK s \in Sides, tick \in Ticks, quantity \in FeedQtys \cup {0} :
           ProcessDepth(s, tick, quantity, cur_ts')
    BY <1>4 DEF FeedDepth
  <2>2. quantity \in Nat
    BY TradingAssumption
  <2>3. to_exch' = to_exch
    BY <2>1 DEF ProcessDepth, Publish
  <2>4. QED
    BY <1>2, <1>3, <2>1, <2>2, <2>3, ProcessDepthType DEF Inv, BusTyped
<1>5. CASE FeedTrade
  <2>1. PICK s \in Sides, tick \in Ticks, quantity \in FeedQtys :
           ProcessTrade(s, tick, quantity, cur_ts')
    BY <1>5 DEF FeedTrade
  <2>2. quantity \in Nat
    BY TradingAssumption
  <2>3. to_exch' = to_exch
    BY <2>1 DEF ProcessTrade, Publish
  <2>4. QED
    BY <1>2, <1>3, <2>1, <2>2, <2>3, ProcessTradeType DEF Inv, BusTyped
<1>6. CASE FeedClear
  <2>1. PICK d \in Depth : ProcessClear(d)
    <3>1. exch_depth \in Depth
      BY <1>3 DEF ExchTyped
    <3>2. CASE \E s \in Sides, cut \in Ticks : ProcessClear(ClearUpto(exch_depth, s, cut))
      BY <3>1, <3>2, ClearDepthType
    <3>3. CASE \E s \in Sides : ProcessClear(ClearSide(exch_depth, s))
      BY <3>1, <3>3, ClearSideType
    <3>4. CASE ProcessClear(EmptyDepth)
      BY <3>4, EmptyDepthType
    <3>5. QED
      BY <1>6, <3>2, <3>3, <3>4 DEF FeedClear
  <2>2. ExchTyped' /\ to_local' = to_local /\ to_exch' = to_exch
    BY <1>3, <2>1 DEF ProcessClear, ExchTyped, BookOK, IsBook, Indexed
  <2>3. QED
    BY <1>2, <1>3, <2>2 DEF Inv, BusTyped
<1>7. QED
  BY <1>4, <1>5, <1>6

\* Every step keeps it.
LEMMA NextTyped == Inv /\ [Next]_vars => Inv'
<1> SUFFICES ASSUME Inv, [Next]_vars PROVE Inv'
  OBVIOUS
<1>1. CASE BotSubmits \/ BotCancels \/ BotReprices \/ BotResizes
  BY <1>1, BotRequests
<1>2. CASE BotClears
  BY <1>2, BotClearsTyped
<1>3. CASE Waits
  <2>1. EngineTyped'
    BY <1>3, Zenon DEF Waits, Inv, EngineTyped
  <2>2. QED
    BY <1>3, <2>1, EngineSteps DEF Waits
<1>4. CASE LocalReceives
  BY <1>4, LocalReceivesTyped
<1>5. CASE ExchangeReceives
  BY <1>5, ExchangeReceivesTyped
<1>6. CASE FeedDepth \/ FeedTrade \/ FeedClear
  BY <1>6, FeedTyped
<1>7. CASE Returns
  BY <1>7, ReturnsTyped
<1>8. CASE Closes
  <2>1. EngineTyped'
    BY <1>8, Zenon DEF Closes, Inv, EngineTyped
  <2>2. QED
    BY <1>8, <2>1, EngineSteps DEF Closes
<1>9. CASE Ended \/ UNCHANGED vars
  <2>1. UNCHANGED <<busVars, exchVars, localVars>>
        /\ UNCHANGED <<cur_ts, phase, receiving, feed_ts, requests, events>>
    BY <1>9 DEF Ended, vars, engineVars
  <2>2. EngineTyped'
    BY <2>1, Zenon DEF Inv, EngineTyped
  <2>3. QED
    BY <2>1, <2>2, EngineSteps
<1>10. QED
  BY <1>1, <1>2, <1>3, <1>4, <1>5, <1>6, <1>7, <1>8, <1>9 DEF Next

\* It holds for ever.
LEMMA InvHolds == Spec => []Inv
  BY InitTyped, NextTyped, PTL DEF Spec

\* Every state the program reaches is of the declared types, whatever the
\* latencies, the feed and the requests are.
THEOREM TypeCorrect == Spec => []TypeOK
  BY InvHolds, InvImplies, PTL

\* orders_ and the two price indexes of the exchange never disagree: no lookup of
\* an indexed id fails, and no order is missed by a scan of the index.
THEOREM IndexCorrect == Spec => []IndexConsistent
  BY InvHolds, InvImplies, PTL

-----------------------------------------------------------------------------
(***************************************************************************)
(* What the exchange does to orders, for every set of orders, book, feed   *)
(* and latency.  Three invariants on top of the types:                     *)
(*                                                                         *)
(*   Resting        an order in the book is working, so that a fill        *)
(*                  reaches it (fill ignores orders that are done);        *)
(*   NoRestingCross no order in the book meets the other side's best       *)
(*                  price, so that a range scan that starts behind it      *)
(*                  misses none.  The feed has no clear events: a clear up *)
(*                  to a price may bring the best price forward;           *)
(*   Prompt         a request for an order that is done is never under     *)
(*                  way, so that every answer carries the time and the     *)
(*                  price of now.  The strategy asks cancellable() first.  *)
(***************************************************************************)


Resting == \A id \in Ids(book) : book.orders[id].status \in Working

-----------------------------------------------------------------------------
(* Fills.                                                                   *)

\* Nothing left is no lot left.
LEMMA NoLots == Lots(0) = 0
<1>1. LotSize \in Nat \ {0}
  BY OrdersAssumption
<1> DEFINE d == 2 * LotSize
<1>2. d \in Nat \ {0} /\ LotSize < d
  BY <1>1
<1>3. Lots(0) = LotSize \div d
  BY <1>1 DEF Lots, d
<1> HIDE DEF d
<1>4. LotSize \div d = 0
  BY <1>1, <1>2
<1>5. QED
  BY <1>3, <1>4

\* What a fill writes to an order that is not done.
LEMMA FillWrites ==
    ASSUME NEW o \in Order, o.status \notin Terminal, NEW ts \in Nat,
           NEW tick \in INVALID_MIN..INVALID_MAX, NEW quantity \in Nat
    PROVE  LET f == Fill(o, ts, tick, quantity)
           IN  /\ f.status \in {"PartiallyFilled", "Filled"}
               /\ quantity >= o.leaves_qty => f.status = "Filled"
               /\ f.exec_price_tick = tick /\ f.exch_timestamp = ts
               /\ f.price_tick = o.price_tick /\ f.side = o.side
               /\ f.order_type = o.order_type
<1> DEFINE leaves == Larger(0, o.leaves_qty - quantity)
           st == IF Lots(leaves) > 0 THEN "PartiallyFilled" ELSE "Filled"
<1>1. Fill(o, ts, tick, quantity) =
        [o EXCEPT !.exec_price_tick = tick, !.exec_qty = quantity,
                  !.leaves_qty = leaves, !.status = st, !.exch_timestamp = ts]
  BY DEF Fill
<1>2. quantity >= o.leaves_qty => leaves = 0
  BY DEF Larger, Order
<1>3. quantity >= o.leaves_qty => st = "Filled"
  BY <1>2, NoLots
<1>4. st \in {"PartiallyFilled", "Filled"}
  OBVIOUS
<1> HIDE DEF leaves, st
<1>5. QED
  BY <1>1, <1>3, <1>4 DEF Order

\* The rest of a working order at its own price.
LEMMA FillMakerWrites ==
    ASSUME NEW o \in Order, o.status \in Working, NEW ts \in Nat
    PROVE  LET f == FillMaker(o, ts)
           IN  /\ f.status = "Filled"
               /\ f.exec_price_tick = f.price_tick /\ f.side \in Sides
               /\ f.price_tick \in Ticks
<1>1. o.status \notin Terminal
  BY DEF Working, Terminal
<1>2. o.leaves_qty \in Nat /\ o.side \in Sides /\ o.price_tick \in Ticks
  BY DEF Order
<1>3. o.price_tick \in INVALID_MIN..INVALID_MAX
  BY <1>2, TicksAreInt
<1>4. \A n \in Nat : n >= n
  OBVIOUS
<1>5. o.leaves_qty >= o.leaves_qty
  BY <1>2, <1>4, Zenon
<1>6. QED
  BY <1>1, <1>2, <1>3, <1>5, FillWrites DEF FillMaker

\* A trade fills the orders it goes through or reaches, at their own price, and
\* leaves the others as working as they were.
LEMMA AfterTradeWrites ==
    ASSUME NEW o \in Order, o.status \in Working, NEW tick \in Ticks,
           NEW quantity \in Nat, NEW ts \in Nat
    PROVE  LET f == AfterTrade(o, tick, quantity, ts)
           IN  /\ f.status \in Working \cup {"Filled"}
               /\ Through(o, tick) => f.status = "Filled"
               /\ Through(o, tick) \/ AtFront(o, tick, quantity)
                    => f.exec_price_tick = f.price_tick
               /\ ~(Through(o, tick) \/ AtFront(o, tick, quantity))
                    => f.status = o.status
<1> DEFINE moved == Advance(o, quantity)
           portion == IF PartialFill THEN Smaller(Executable(moved), o.leaves_qty)
                                     ELSE o.leaves_qty
           front == [moved EXCEPT !.q = 0]
<1>1. moved \in Order /\ moved.status = o.status /\ Same(moved, o)
  BY DEF Advance, Order, Same
<1>2. Executable(moved) \in Nat
  <2>1. CASE moved.q < 0
    <3>1. Lots(-moved.q) \in Nat
      BY <1>1, <2>1, LotsType DEF Order
    <3>2. QED
      BY <2>1, <3>1, OrdersAssumption DEF Executable
  <2>2. CASE ~(moved.q < 0)
    BY <2>2 DEF Executable
  <2>3. QED
    BY <2>1, <2>2
<1>3. portion \in Nat
  BY <1>2 DEF Smaller, Order
<1>4. front \in Order /\ front.status = o.status /\ Same(front, o)
  BY <1>1 DEF Order, Same
<1>5. o.price_tick \in INVALID_MIN..INVALID_MAX /\ o.status \notin Terminal
  BY TicksAreInt DEF Order, Working, Terminal
<1>6. AfterTrade(o, tick, quantity, ts) =
        IF Through(o, tick) THEN FillMaker(o, ts)
        ELSE IF AtFront(o, tick, quantity) THEN Fill(front, ts, o.price_tick, portion)
        ELSE IF o.price_tick = tick THEN moved
        ELSE o
  BY DEF AfterTrade
<1> HIDE DEF moved, portion, front
<1>7. /\ Fill(front, ts, o.price_tick, portion).status \in {"PartiallyFilled", "Filled"}
      /\ Fill(front, ts, o.price_tick, portion).exec_price_tick =
           Fill(front, ts, o.price_tick, portion).price_tick
  BY <1>3, <1>4, <1>5, FillWrites DEF Same
<1>8. QED
  BY <1>1, <1>6, <1>7, FillMakerWrites DEF Working

-----------------------------------------------------------------------------
(* Prices and scans.                                                        *)

\* Prices are integers.
LEMMA PricesAreInt ==
    /\ Ticks \subseteq Int
    /\ \A d \in Depth, s \in Sides : d.best[s] \in INVALID_MIN..INVALID_MAX /\ d.best[s] \in Int
  BY OrdersAssumption DEF Ticks, Depth, INVALID_MIN, INVALID_MAX

\* A price that does not meet the other side's best does not meet one behind it.
LEMMA StaysApart ==
    ASSUME NEW s \in Sides, NEW p \in Int, NEW a \in Int, NEW b \in Int,
           ~Crosses(s, p, a), b = a \/ Better(Opposite(s), a, b)
    PROVE  ~Crosses(s, p, b)
  BY DEF Crosses, Better, Opposite, Sides

\* An update of one side moves the other side's best price back or not at all.
LEMMA OtherBestMovesBack ==
    ASSUME NEW d \in Depth, NEW s \in Sides, NEW tick \in Ticks, NEW quantity
    PROVE  LET e == UpdateDepth(d, s, tick, quantity)
               o == Opposite(s)
           IN  e.best[o] = d.best[o] \/ Better(o, d.best[o], e.best[o])
<1> DEFINE o == Opposite(s)
           next == NextLevel(o, d.qty[o], tick, d.far[o])
           improves == Better(s, tick, d.best[s])
<1>1. o \in Sides /\ o # s /\ d.best \in [Sides -> INVALID_MIN..INVALID_MAX]
  BY SideFacts DEF Depth
<1>2. RemoveLevel(d, s, tick).best[o] = d.best[o]
  BY <1>1 DEF RemoveLevel
<1>3. SetLevel(d, s, tick, quantity).best[o] =
        IF improves /\ Crosses(s, tick, d.best[o]) THEN next ELSE d.best[o]
  BY <1>1 DEF SetLevel
<1>4. ASSUME Crosses(s, tick, d.best[o])
      PROVE  next = d.best[o] \/ Better(o, d.best[o], next)
  <2>1. next = NoBest(o) \/ Better(o, tick, next)
    BY <1>1, NextLevelBehind
  <2>2. next \in INVALID_MIN..INVALID_MAX
    BY <1>1, NextLevelType
  <2>3. tick \in Int /\ d.best[o] \in INVALID_MIN..INVALID_MAX
    BY <1>1, PricesAreInt
  <2> HIDE DEF next
  <2>4. QED
    BY <1>4, <2>1, <2>2, <2>3, OrdersAssumption
       DEF Crosses, Better, Opposite, Sides, NoBest, INVALID_MIN, INVALID_MAX
<1> HIDE DEF next
<1>5. QED
  BY <1>2, <1>3, <1>4 DEF UpdateDepth

\* A scan between two prices reaches every order that meets the second and not
\* the first, by the index or by visiting all.
LEMMA ScanReaches ==
    ASSUME BookOK(book), NEW id \in Ids(book), NEW from \in Int, NEW to \in Int,
           ~Crosses(book.orders[id].side, book.orders[id].price_tick, from),
           Crosses(book.orders[id].side, book.orders[id].price_tick, to)
    PROVE  id \in Scanned(book.orders[id].side, from, to)
<1> DEFINE s == book.orders[id].side
           p == book.orders[id].price_tick
           between == {t \in Ticks : Better(s, from, t) /\ ~Better(s, to, t)}
<1>1. book.orders[id] \in Order
  BY DEF BookOK, IsBook, IsOrderMap, Ids
<1>2. s \in Sides /\ p \in Ticks /\ p \in Int
  BY <1>1, PricesAreInt DEF Order
<1>3. Better(s, from, p) /\ ~Better(s, to, p)
  BY <1>2 DEF Crosses, Better, Sides
<1>4. p \in between
  BY <1>2, <1>3
<1>5. id \in book.index[s][p]
  BY <1>2 DEF BookOK, Indexed, Ids
<1>6. id \in UNION {book.index[s][t] : t \in between}
  BY <1>4, <1>5
<1>7. id \in {other \in Ids(book) : book.orders[other].side = s}
  OBVIOUS
<1> HIDE DEF between
<1>8. QED
  BY <1>6, <1>7 DEF Scanned, between

-----------------------------------------------------------------------------
(* What the handlers do to the book.                                        *)

WorkingIn(b) == \A id \in Ids(b) : b.orders[id].status \in Working
ApartIn(b, d) ==
    \A id \in Ids(b) : ~Crosses(b.orders[id].side, b.orders[id].price_tick,
                                d.best[Opposite(b.orders[id].side)])

\* Orders in the book are orders.
LEMMA BookOrders ==
    ASSUME NEW b, BookOK(b), NEW id \in Ids(b)
    PROVE  /\ id \in OrderIds /\ b.orders[id] \in Order
           /\ b.orders[id].side \in Sides /\ b.orders[id].price_tick \in Ticks
           /\ b.orders[id].price_tick \in Int
  BY PricesAreInt DEF BookOK, IsBook, IsOrderMap, Ids, Order

\* A trade leaves working orders where they were.  When no order met the best
\* price before, none is left that the trade went through.
LEMMA TradeBook ==
    ASSUME ExchTyped, WorkingIn(book), NEW s \in Sides, NEW tick \in Ticks,
           NEW quantity \in Nat, NEW ts \in Nat, ProcessTrade(s, tick, quantity, ts)
    PROVE  /\ WorkingIn(book')
           /\ ApartIn(book, exch_depth) =>
                /\ ApartIn(book', exch_depth)
                /\ \A id \in Ids(book') :
                     book'.orders[id].side = s => ~Through(book'.orders[id], tick)
<1> DEFINE from == exch_depth.best[Opposite(s)]
           reached == Scanned(s, from, tick)
           after == [id \in reached |-> AfterTrade(book.orders[id], tick, quantity, ts)]
           hit == {id \in reached : \/ Through(book.orders[id], tick)
                                    \/ AtFront(book.orders[id], tick, quantity)}
           done == {id \in hit : after[id].status = "Filled"}
<1>1. BookOK(book) /\ exch_depth \in Depth
  BY DEF ExchTyped
<1>2. book' = Withdraw(Replace(book, after), done)
  BY DEF ProcessTrade
<1>3. reached \subseteq Ids(book)
  BY <1>1, ScannedInBook
<1>4. ASSUME NEW id \in reached
      PROVE  LET o == book.orders[id] IN
             /\ after[id] \in Order /\ Same(after[id], o)
             /\ after[id].status \in Working \cup {"Filled"}
             /\ Through(o, tick) => after[id].status = "Filled"
             /\ id \notin hit => after[id].status = o.status
  <2>1. id \in Ids(book) /\ after[id] = AfterTrade(book.orders[id], tick, quantity, ts)
    BY <1>3
  <2>2. book.orders[id] \in Order /\ book.orders[id].status \in Working
    BY <1>1, <2>1, BookOrders DEF WorkingIn
  <2> HIDE DEF after, reached
  <2>3. QED
    BY <2>1, <2>2, AfterTradeType, AfterTradeWrites
<1>5. DOMAIN after = reached /\ done \subseteq reached
      /\ (\A id \in reached : Through(book.orders[id], tick) => id \in hit)
      /\ (\A id \in hit : after[id].status = "Filled" => id \in done)
  OBVIOUS
<1> HIDE DEF reached, after, hit, done
<1>6. BookOK(Replace(book, after)) /\ Ids(Replace(book, after)) = Ids(book)
  BY <1>1, <1>4, <1>5, ReplaceOK
<1>7. /\ Ids(book') = Ids(book) \ done
      /\ \A id \in Ids(book') :
            book'.orders[id] = IF id \in reached THEN after[id] ELSE book.orders[id]
  BY <1>2, <1>5, <1>6 DEF Withdraw, Replace, Ids
<1>8. \A id \in Ids(book') : Same(book'.orders[id], book.orders[id])
  BY <1>4, <1>7 DEF Same
<1>9. WorkingIn(book')
  <2> SUFFICES ASSUME NEW id \in Ids(book') PROVE book'.orders[id].status \in Working
    BY DEF WorkingIn
  <2>1. id \in Ids(book) /\ id \notin done /\ book.orders[id].status \in Working
    BY <1>7 DEF WorkingIn
  <2>2. "Filled" \notin Working
    BY DEF Working
  <2>3. QED
    BY <1>4, <1>5, <1>7, <2>1, <2>2
<1>10. ASSUME ApartIn(book, exch_depth)
       PROVE  ApartIn(book', exch_depth)
  BY <1>7, <1>8, <1>10 DEF ApartIn, Same
<1>11. ASSUME ApartIn(book, exch_depth), NEW id \in Ids(book'), book'.orders[id].side = s
       PROVE  ~Through(book'.orders[id], tick)
  <2> SUFFICES ASSUME Through(book'.orders[id], tick) PROVE FALSE
    OBVIOUS
  <2>1. id \in Ids(book) /\ id \notin done
    BY <1>7
  <2>2. book.orders[id].side = s /\ Through(book.orders[id], tick)
    BY <1>8, <1>11 DEF Same, Through
  <2>3. Crosses(s, book.orders[id].price_tick, tick)
    BY <2>2 DEF Through, Crosses
  <2>4. ~Crosses(s, book.orders[id].price_tick, from)
    BY <1>11, <2>1, <2>2 DEF ApartIn
  <2>5. from \in Int /\ tick \in Int
    BY <1>1, PricesAreInt, SideFacts
  <2>6. id \in reached
    BY <1>1, <2>1, <2>2, <2>3, <2>4, <2>5, ScanReaches DEF reached
  <2>7. after[id].status = "Filled"
    BY <1>4, <2>2, <2>6
  <2>8. QED
    BY <1>5, <2>1, <2>2, <2>6, <2>7
<1>12. QED
  BY <1>9, <1>10, <1>11

\* A depth event leaves working orders where they were, and none that meets the
\* new best prices.
LEMMA DepthBook ==
    ASSUME ExchTyped, WorkingIn(book), NEW s \in Sides, NEW tick \in Ticks,
           NEW quantity \in Nat, NEW ts \in Nat, ProcessDepth(s, tick, quantity, ts)
    PROVE  /\ WorkingIn(book')
           /\ ApartIn(book, exch_depth) => ApartIn(book', exch_depth')
<1> DEFINE d == UpdateDepth(exch_depth, s, tick, quantity)
           o == Opposite(s)
           requeued == [id \in book.index[s][tick] |->
                          [book.orders[id] EXCEPT !.q = Smaller(@, quantity)]]
           met == IF Better(s, d.best[s], exch_depth.best[s])
                  THEN {id \in Scanned(o, exch_depth.best[s], d.best[s]) :
                           Crosses(o, book.orders[id].price_tick, d.best[s])}
                  ELSE {}
<1>1. BookOK(book) /\ exch_depth \in Depth
  BY DEF ExchTyped
<1>2. exch_depth' = d /\ book' = Withdraw(Replace(book, requeued), met)
  BY DEF ProcessDepth
<1>3. d \in Depth /\ (d.best[o] = exch_depth.best[o] \/ Better(o, exch_depth.best[o], d.best[o]))
  BY <1>1, UpdateDepthType, OtherBestMovesBack
<1>4. ASSUME Better(s, d.best[s], exch_depth.best[s]),
             NEW id \in Scanned(o, exch_depth.best[s], d.best[s]),
             Crosses(o, book.orders[id].price_tick, d.best[s])
      PROVE  id \in met
  BY <1>4
<1> HIDE DEF d, met
<1>5. DOMAIN requeued \subseteq Ids(book)
  BY <1>1 DEF BookOK, Indexed, Ids
<1>6. \A id \in DOMAIN requeued : /\ requeued[id] \in Order
                                  /\ Same(requeued[id], book.orders[id])
                                  /\ requeued[id].status = book.orders[id].status
  <2>1. ASSUME NEW r \in Order
        PROVE  LET n == [r EXCEPT !.q = Smaller(@, quantity)]
               IN  n \in Order /\ Same(n, r) /\ n.status = r.status
    BY DEF Order, Same, Smaller
  <2>2. QED
    BY <1>1, <1>5, <2>1, BookOrders
<1> HIDE DEF requeued
<1>7. Ids(Replace(book, requeued)) = Ids(book)
  BY <1>1, <1>6, ReplaceOK
<1>8. /\ Ids(book') = Ids(book) \ met
      /\ \A id \in Ids(book') :
            book'.orders[id] = IF id \in DOMAIN requeued THEN requeued[id] ELSE book.orders[id]
  BY <1>2, <1>7 DEF Withdraw, Replace, Ids
<1>9. \A id \in Ids(book') : /\ id \in Ids(book)
                             /\ Same(book'.orders[id], book.orders[id])
                             /\ book'.orders[id].status = book.orders[id].status
  BY <1>6, <1>8 DEF Same
<1>10. WorkingIn(book')
  BY <1>9 DEF WorkingIn
<1>11. ASSUME ApartIn(book, exch_depth) PROVE ApartIn(book', d)
  <2> SUFFICES ASSUME NEW id \in Ids(book')
               PROVE  ~Crosses(book.orders[id].side, book.orders[id].price_tick,
                               d.best[Opposite(book.orders[id].side)])
    BY <1>9 DEF ApartIn, Same
  <2> DEFINE x == book.orders[id].side
             p == book.orders[id].price_tick
  <2>1. x \in Sides /\ p \in Int /\ id \in Ids(book) /\ id \notin met
    BY <1>1, <1>8, BookOrders
  <2>2. ~Crosses(x, p, exch_depth.best[Opposite(x)])
    BY <1>11, <2>1 DEF ApartIn
  <2>3. /\ \A side \in Sides : d.best[side] \in Int /\ exch_depth.best[side] \in Int
        /\ o \in Sides /\ Opposite(o) = s /\ (x = s \/ x = o)
    BY <1>1, <1>3, <2>1, PricesAreInt, SideFacts DEF Opposite, Sides
  <2>4. CASE x = s
    BY <1>3, <2>1, <2>2, <2>3, <2>4, StaysApart
  <2>5. CASE x = o /\ ~Better(s, d.best[s], exch_depth.best[s])
    <3>1. d.best[s] = exch_depth.best[s] \/ Better(s, exch_depth.best[s], d.best[s])
      BY <2>3, <2>5, BetterFacts
    <3>2. QED
      BY <2>1, <2>2, <2>3, <2>5, <3>1, StaysApart
  <2>6. CASE x = o /\ Better(s, d.best[s], exch_depth.best[s])
    <3> SUFFICES ASSUME Crosses(o, p, d.best[s]) PROVE FALSE
      BY <2>3, <2>6
    <3>1. id \in Scanned(o, exch_depth.best[s], d.best[s])
      BY <1>1, <2>1, <2>2, <2>3, <2>6, ScanReaches
    <3>2. QED
      BY <1>4, <2>1, <2>6, <3>1
  <2>7. QED
    BY <2>3, <2>4, <2>5, <2>6
<1>12. QED
  BY <1>2, <1>10, <1>11

\* An order is answered at the time it is handled, and executed at its limit or
\* better.
Honours(o) ==
    /\ o.req # "Rejected"
    /\ o.order_type = "Limit"
    /\ o.status \in {"Filled", "PartiallyFilled"}
    => ~Better(o.side, o.exec_price_tick, o.price_tick)

\* ack_new lets an order rest only when it is working and meets no price, and
\* executes a limit order only at a price it meets.
LEMMA AckNewBook ==
    ASSUME exch_depth \in Depth, NEW b, BookOK(b), WorkingIn(b),
           NEW o \in Order, NEW ts \in Nat
    PROVE  LET a == AckNew(b, o, ts)
           IN  /\ WorkingIn(a.book)
               /\ ApartIn(b, exch_depth) => ApartIn(a.book, exch_depth)
               /\ o.status \notin Terminal => a.order.exch_timestamp = ts /\ Honours(a.order)
<1> DEFINE accepted == [o EXCEPT !.req = "None"]
           best == exch_depth.best[Opposite(o.side)]
           market == o.order_type = "Market"
           meets == Crosses(o.side, o.price_tick, best)
           takes == market \/ (meets /\ o.time_in_force # "GTX")
           rests == ~market /\ ~meets /\ o.time_in_force \in {"GTC", "GTX"}
           ahead == exch_depth.qty[o.side][o.price_tick]
           resting == [accepted EXCEPT !.status = "New", !.exch_timestamp = ts, !.q = ahead]
           expired == [accepted EXCEPT !.status = "Expired", !.exch_timestamp = ts]
           rejected == [o EXCEPT !.req = "Rejected", !.exch_timestamp = ts]
           filled == Fill(accepted, ts, best, o.leaves_qty)
           a == AckNew(b, o, ts)
<1>1. a = IF o.order_id \in Ids(b) THEN Ack(b, rejected, FALSE)
          ELSE IF takes THEN Ack(b, filled, o.status \notin Terminal)
          ELSE IF rests THEN Ack(Insert(b, resting), resting, FALSE)
          ELSE Ack(b, expired, FALSE)
  BY DEF AckNew, Reject
<1>2. /\ o.side \in Sides /\ o.price_tick \in Int /\ best \in INVALID_MIN..INVALID_MAX
      /\ best \in Int /\ o.leaves_qty \in Nat /\ o.order_id \in OrderIds
  BY PricesAreInt, SideFacts DEF Order
<1>3. /\ accepted \in Order /\ accepted.status = o.status
      /\ accepted.side = o.side /\ accepted.price_tick = o.price_tick
      /\ accepted.order_type = o.order_type
  BY DEF Order, Statuses
<1>4. /\ resting.status = "New" /\ resting.exch_timestamp = ts
      /\ resting.side = o.side /\ resting.price_tick = o.price_tick
      /\ resting.order_id = o.order_id
  BY DEF Order
<1>5. /\ expired.status = "Expired" /\ expired.exch_timestamp = ts
      /\ rejected.req = "Rejected" /\ rejected.exch_timestamp = ts
  BY DEF Order
<1>6. ASSUME o.status \notin Terminal
      PROVE  /\ filled.exch_timestamp = ts /\ filled.exec_price_tick = best
             /\ filled.side = o.side /\ filled.price_tick = o.price_tick
             /\ filled.order_type = o.order_type
  <2> HIDE DEF accepted, best
  <2>1. QED
    BY <1>2, <1>3, <1>6, FillWrites
<1>7. meets => ~Better(o.side, best, o.price_tick)
  BY <1>2 DEF Crosses, Better, Sides
<1>8. o.order_type = "Limit" /\ takes => meets
  OBVIOUS
<1>9. ~(o.order_id \in Ids(b)) => /\ Ids(Insert(b, resting)) = Ids(b) \cup {o.order_id}
                                 /\ \A id \in Ids(Insert(b, resting)) :
                                      Insert(b, resting).orders[id] =
                                        IF id \in Ids(b) THEN b.orders[id] ELSE resting
  BY <1>4 DEF Insert, Ids
<1> HIDE DEF a, accepted, resting, expired, rejected, filled, best
<1>10. CASE o.order_id \in Ids(b)
  BY <1>1, <1>5, <1>10 DEF Ack, Honours, a
<1>11. CASE o.order_id \notin Ids(b) /\ takes
  <2>1. a.book = b /\ a.order = filled
    BY <1>1, <1>11 DEF Ack
  <2>2. o.status \notin Terminal => Honours(filled)
    BY <1>6, <1>7, <1>8, <1>11 DEF Honours
  <2>3. QED
    BY <1>6, <2>1, <2>2 DEF a
<1>12. CASE o.order_id \notin Ids(b) /\ ~takes /\ rests
  <2>1. a.book = Insert(b, resting) /\ a.order = resting
    BY <1>1, <1>12 DEF Ack
  <2>2. WorkingIn(a.book)
    BY <1>4, <1>9, <1>12, <2>1 DEF WorkingIn, Working
  <2>3. ~Crosses(resting.side, resting.price_tick, exch_depth.best[Opposite(resting.side)])
    BY <1>4, <1>12 DEF best
  <2>4. ApartIn(b, exch_depth) => ApartIn(a.book, exch_depth)
    BY <1>9, <1>12, <2>1, <2>3 DEF ApartIn
  <2>5. Honours(resting)
    BY <1>4 DEF Honours
  <2>6. QED
    BY <1>4, <2>1, <2>2, <2>4, <2>5 DEF a
<1>13. CASE o.order_id \notin Ids(b) /\ ~takes /\ ~rests
  <2>1. a.book = b /\ a.order = expired
    BY <1>1, <1>13 DEF Ack
  <2>2. QED
    BY <1>5, <2>1 DEF a, Honours
<1>14. QED
  BY <1>10, <1>11, <1>12, <1>13

\* A rejection leaves the book alone and executes nothing.
LEMMA RejectBook ==
    ASSUME NEW b, NEW o \in Order, NEW ts
    PROVE  LET a == Reject(b, o, ts)
           IN  a.book = b /\ a.order.exch_timestamp = ts /\ Honours(a.order)
<1> DEFINE r == [o EXCEPT !.req = "Rejected", !.exch_timestamp = ts]
<1>1. r.req = "Rejected" /\ r.exch_timestamp = ts
  BY DEF Order
<1>2. Reject(b, o, ts).book = b /\ Reject(b, o, ts).order = r
  BY DEF Reject, Ack
<1> HIDE DEF r
<1>3. QED
  BY <1>1, <1>2 DEF Honours

\* ack_cancel takes one order out, and keeps the others.
LEMMA AckCancelBook ==
    ASSUME NEW b, BookOK(b), WorkingIn(b), NEW o \in Order, NEW ts \in Nat
    PROVE  LET a == AckCancel(b, o, ts)
           IN  /\ BookOK(a.book) /\ WorkingIn(a.book)
               /\ ApartIn(b, exch_depth) => ApartIn(a.book, exch_depth)
               /\ a.order.exch_timestamp = ts /\ Honours(a.order)
<1>1. CASE o.order_id \notin Ids(b)
  <2>1. AckCancel(b, o, ts) = Reject(b, o, ts)
    BY <1>1 DEF AckCancel
  <2>2. QED
    BY <2>1, RejectBook
<1>2. CASE o.order_id \in Ids(b)
  <2> DEFINE w == Withdraw(b, {o.order_id})
             canceled == [b.orders[o.order_id] EXCEPT !.req = "None", !.status = "Canceled",
                                                      !.exch_timestamp = ts]
  <2>1. AckCancel(b, o, ts) = Ack(w, canceled, FALSE)
    BY <1>2 DEF AckCancel
  <2>2. canceled.status = "Canceled" /\ canceled.exch_timestamp = ts
    BY <1>2, BookOrders DEF Order
  <2>3. BookOK(w) /\ Ids(w) \subseteq Ids(b) /\ \A id \in Ids(w) : w.orders[id] = b.orders[id]
    BY WithdrawOK DEF Withdraw, Ids
  <2>4. WorkingIn(w) /\ (ApartIn(b, exch_depth) => ApartIn(w, exch_depth))
    BY <2>3 DEF WorkingIn, ApartIn
  <2> HIDE DEF w, canceled
  <2>5. QED
    BY <2>1, <2>2, <2>3, <2>4 DEF Ack, Honours
<1>3. QED
  BY <1>1, <1>2

\* ack_modify amends an order where it is or enters it anew.
LEMMA AckModifyBook ==
    ASSUME exch_depth \in Depth, NEW b, BookOK(b), WorkingIn(b),
           NEW o \in Order, NEW ts \in Nat
    PROVE  LET a == AckModify(b, o, ts)
           IN  /\ WorkingIn(a.book)
               /\ ApartIn(b, exch_depth) => ApartIn(a.book, exch_depth)
               /\ o.status \notin Terminal => a.order.exch_timestamp = ts /\ Honours(a.order)
<1> DEFINE resting == b.orders[o.order_id]
           amended == [resting EXCEPT !.qty = o.qty, !.leaves_qty = o.qty,
                                      !.exch_timestamp = ts, !.status = "New"]
           reply == [o EXCEPT !.leaves_qty = o.qty, !.exch_timestamp = ts, !.status = "New"]
           inplace == [id \in {o.order_id} |-> amended]
           reenter == resting.price_tick # o.price_tick \/ o.qty > resting.leaves_qty
<1>1. CASE o.order_id \notin Ids(b)
  <2>1. AckModify(b, o, ts) = Reject(b, o, ts)
    BY <1>1 DEF AckModify
  <2>2. QED
    BY <2>1, RejectBook
<1>2. CASE o.order_id \in Ids(b) /\ reenter
  <2>1. AckModify(b, o, ts) = AckNew(AckCancel(b, o, ts).book, o, ts)
    BY <1>2 DEF AckModify
  <2>2. QED
    BY <2>1, AckCancelBook, AckNewBook
<1>3. CASE o.order_id \in Ids(b) /\ ~reenter
  <2>1. AckModify(b, o, ts) = Ack(Replace(b, inplace), reply, FALSE)
    BY <1>3 DEF AckModify
  <2>2. reply.status = "New" /\ reply.exch_timestamp = ts
    BY DEF Order
  <2>3. amended.status = "New" /\ amended.side = resting.side
        /\ amended.price_tick = resting.price_tick
    BY <1>3, BookOrders DEF Order
  <2> HIDE DEF amended, reply
  <2>4. /\ Ids(Replace(b, inplace)) = Ids(b)
        /\ \A id \in Ids(b) : Replace(b, inplace).orders[id] =
                               IF id = o.order_id THEN amended ELSE b.orders[id]
    BY DEF Replace, Ids, BookOK, IsBook
  <2>5. WorkingIn(Replace(b, inplace))
        /\ (ApartIn(b, exch_depth) => ApartIn(Replace(b, inplace), exch_depth))
    BY <1>3, <2>3, <2>4 DEF WorkingIn, ApartIn, Working
  <2> HIDE DEF inplace
  <2>6. QED
    BY <2>1, <2>2, <2>5 DEF Ack, Honours
<1>4. QED
  BY <1>1, <1>2, <1>3

\* Whatever a request asks for.
LEMMA AcknowledgeBook ==
    ASSUME exch_depth \in Depth, BookOK(book), WorkingIn(book),
           NEW o \in Order, o.req \in Requested, NEW ts \in Nat
    PROVE  LET a == Acknowledge(book, o, ts)
           IN  /\ WorkingIn(a.book)
               /\ ApartIn(book, exch_depth) => ApartIn(a.book, exch_depth)
               /\ o.status \notin Terminal => a.order.exch_timestamp = ts /\ Honours(a.order)
<1>1. CASE o.req = "New"
  BY <1>1, AckNewBook DEF Acknowledge
<1>2. CASE o.req = "Canceled"
  BY <1>2, AckCancelBook DEF Acknowledge
<1>3. CASE o.req = "Replaced"
  BY <1>3, AckModifyBook DEF Acknowledge
<1>4. QED
  BY <1>1, <1>2, <1>3 DEF Requested

-----------------------------------------------------------------------------
(* The book along the steps.                                                *)

\* A request handled by the exchange.
LEMMA RequestBook ==
    ASSUME Inv, Resting, ExchangeReceives
    PROVE  Resting' /\ (NoRestingCross => NoRestingCross')
<1> DEFINE o == Head(to_exch).order
           ack == Acknowledge(book, o, cur_ts')
<1>1. cur_ts' = Head(to_exch).ts /\ to_exch # <<>>
      /\ book' = ack.book /\ exch_depth' = exch_depth
  BY DEF ExchangeReceives, ProcessRequest
<1>2. Head(to_exch) \in RequestEntry
  BY <1>1, HeadTailProperties DEF Inv, BusTyped
<1>3. o \in Order /\ o.req \in Requested /\ cur_ts' \in Nat
  BY <1>1, <1>2 DEF RequestEntry, Entry
<1>4. BookOK(book) /\ exch_depth \in Depth /\ WorkingIn(book)
  BY DEF Inv, ExchTyped, Resting, WorkingIn
<1> HIDE DEF o
<1>5. WorkingIn(ack.book) /\ (ApartIn(book, exch_depth) => ApartIn(ack.book, exch_depth))
  BY <1>3, <1>4, AcknowledgeBook
<1>6. QED
  BY <1>1, <1>5 DEF Resting, NoRestingCross, WorkingIn, ApartIn

\* A step that leaves the book alone.
LEMMA BookFrame ==
    ASSUME Resting, book' = book
    PROVE  Resting' /\ (NoRestingCross /\ exch_depth' = exch_depth => NoRestingCross')
  BY DEF Resting, NoRestingCross

\* Steps that leave the book alone, and those that do not.
LEMMA WhoseBook ==
    ASSUME [Next]_vars
    PROVE  \/ book' = book /\ exch_depth' = exch_depth
           \/ ExchangeReceives \/ FeedDepth \/ FeedTrade \/ FeedClear
<1>1. CASE BotSubmits \/ BotCancels \/ BotReprices \/ BotResizes
  BY <1>1 DEF BotSubmits, BotCancels, BotReprices, BotResizes, Asks, exchVars
<1>2. CASE BotClears \/ Waits \/ LocalReceives \/ Returns \/ Closes
  BY <1>2 DEF BotClears, Waits, LocalReceives, Returns, Closes, exchVars
<1>3. CASE Ended \/ UNCHANGED vars
  BY <1>3 DEF Ended, vars, exchVars
<1>4. QED
  BY <1>1, <1>2, <1>3 DEF Next

\* What rests keeps working, and without clears keeps apart.
LEMMA BookStep ==
    ASSUME Inv, Resting, [Next]_vars
    PROVE  /\ Resting'
           /\ NoRestingCross /\ "clear" \notin FeedKinds => NoRestingCross'
<1>1. ExchTyped /\ WorkingIn(book)
  BY DEF Inv, Resting, WorkingIn
<1>2. NoRestingCross <=> ApartIn(book, exch_depth)
  BY DEF NoRestingCross, ApartIn
<1>3. WorkingIn(book') <=> Resting'
  BY DEF Resting, WorkingIn
<1>4. NoRestingCross' <=> ApartIn(book', exch_depth')
  BY DEF NoRestingCross, ApartIn
<1>5. CASE ExchangeReceives
  BY <1>5, RequestBook
<1>6. CASE FeedDepth
  <2>1. FeedTurn
    BY <1>6 DEF FeedDepth
  <2>2. PICK s \in Sides, tick \in Ticks, quantity \in FeedQtys \cup {0} :
           ProcessDepth(s, tick, quantity, cur_ts')
    BY <1>6 DEF FeedDepth
  <2>3. quantity \in Nat /\ cur_ts' \in Nat
    BY <2>1, FeedTurnTyped, TradingAssumption
  <2>4. QED
    BY <1>1, <1>2, <1>3, <1>4, <2>2, <2>3, DepthBook
<1>7. CASE FeedTrade
  <2>1. FeedTurn
    BY <1>7 DEF FeedTrade
  <2>2. PICK s \in Sides, tick \in Ticks, quantity \in FeedQtys :
           ProcessTrade(s, tick, quantity, cur_ts')
    BY <1>7 DEF FeedTrade
  <2>3. quantity \in Nat /\ cur_ts' \in Nat
    BY <2>1, FeedTurnTyped, TradingAssumption
  <2>4. exch_depth' = exch_depth
    BY <2>2 DEF ProcessTrade
  <2>5. QED
    BY <1>1, <1>2, <1>3, <1>4, <2>2, <2>3, <2>4, TradeBook
<1>8. CASE FeedClear
  <2>1. book' = book /\ "clear" \in FeedKinds
    BY <1>8 DEF FeedClear, ProcessClear
  <2>2. QED
    BY <2>1, BookFrame
<1>9. QED
  BY <1>5, <1>6, <1>7, <1>8, WhoseBook, BookFrame

\* The book is empty at first.
LEMMA BookInit == Init => Resting /\ NoRestingCross
  BY DEF Init, ExchInit, Resting, NoRestingCross, EmptyBook, Ids

\* Exchange: what rests can be executed; no order the exchange is done with is
\* still in orders_.
LEMMA RestingHolds == Spec => []Resting
<1>1. Init => Resting
  BY BookInit
<1>2. Inv /\ Resting /\ [Next]_vars => Resting'
  BY BookStep
<1>3. QED
  BY <1>1, <1>2, InvHolds, PTL DEF Spec

\* check_if_*_filled and the improving best price: without clear events no order
\* of the strategy ever rests at a price that meets the other side's best.
THEOREM NeverRestsCrossed ==
    ASSUME "clear" \notin FeedKinds
    PROVE  Spec => []NoRestingCross
<1>1. Init => NoRestingCross
  BY BookInit
<1>2. Inv /\ Resting /\ NoRestingCross /\ [Next]_vars => NoRestingCross'
  BY BookStep
<1>3. QED
  BY <1>1, <1>2, InvHolds, RestingHolds, PTL DEF Spec

\* on_sell_trade and on_buy_trade: a trade executes every order it goes through,
\* whether the code visits all orders or only those behind the best price.
THEOREM TradesAlwaysSweep ==
    ASSUME "clear" \notin FeedKinds
    PROVE  Spec => TradesSweep
<1>1. ASSUME Inv, Resting, NoRestingCross,
             events' # events, exch_depth' = exch_depth, [Next]_vars,
             NEW s \in Sides, NEW tick \in Ticks, NEW quantity \in FeedQtys,
             ProcessTrade(s, tick, quantity, cur_ts')
      PROVE  \A id \in Ids(book') : book'.orders[id].side = s =>
                                    ~Through(book'.orders[id], tick)
  <2>1. ExchTyped /\ WorkingIn(book) /\ ApartIn(book, exch_depth)
    BY <1>1 DEF Inv, Resting, NoRestingCross, WorkingIn, ApartIn
  <2>2. quantity \in Nat
    BY TradingAssumption
  <2>3. cur_ts' \in Nat
    <3>1. Inv'
      BY <1>1, NextTyped
    <3>2. QED
      BY <3>1 DEF Inv, EngineTyped
  <2>4. QED
    BY <1>1, <2>1, <2>2, <2>3, TradeBook
<1> DEFINE Swept ==
      \A s \in Sides, tick \in Ticks, quantity \in FeedQtys :
         ProcessTrade(s, tick, quantity, cur_ts') =>
            \A id \in Ids(book') :
               book'.orders[id].side = s => ~Through(book'.orders[id], tick)
<1>2. Inv /\ Resting /\ NoRestingCross /\ [Next]_vars =>
         [events' # events /\ exch_depth' = exch_depth => Swept]_vars
  BY <1>1
<1> HIDE DEF Swept
<1>3. TradesSweep <=> [][events' # events /\ exch_depth' = exch_depth => Swept]_vars
  BY PTL DEF TradesSweep, Swept
<1>4. QED
  BY <1>2, <1>3, InvHolds, RestingHolds, NeverRestsCrossed, PTL DEF Spec

-----------------------------------------------------------------------------
(* Buses that are in order and ahead of a time.                             *)

Ahead(bus, now) == Sorted(bus) /\ NoneBefore(bus, now)

\* append schedules nothing before the last entry or before its own time.
LEMMA ScheduledLate ==
    ASSUME NEW bus \in Seq(Entry), NEW o, NEW ts \in Nat
    PROVE  /\ LatestTs(bus) \in Nat
           /\ Scheduled(bus, o, ts).ts = Larger(ts, LatestTs(bus))
           /\ Larger(ts, LatestTs(bus)) \in Nat
           /\ Larger(ts, LatestTs(bus)) >= ts
           /\ Larger(ts, LatestTs(bus)) >= LatestTs(bus)
           /\ Scheduled(bus, o, ts).order = o
<1>1. LatestTs(bus) \in Nat
  <2>1. CASE bus = <<>>
    BY <2>1 DEF LatestTs
  <2>2. CASE bus # <<>>
    <3>1. Len(bus) \in 1..Len(bus)
      BY <2>2, EmptySeq
    <3>2. bus[Len(bus)] \in Entry
      BY <3>1, ElementOfSeq
    <3>3. QED
      BY <2>2, <3>2 DEF LatestTs, Entry
  <2>3. QED
    BY <2>1, <2>2
<1>2. QED
  BY <1>1 DEF Scheduled, Larger

\* An entry of a bus.
LEMMA EntryAt ==
    ASSUME NEW bus \in Seq(Entry), NEW i \in 1..Len(bus)
    PROVE  bus[i].ts \in Nat /\ bus[i].order \in Order /\ bus[i].order.q = 0
<1>1. bus[i] \in Entry
  BY ElementOfSeq
<1>2. QED
  BY <1>1 DEF Entry

\* Entries of one time behind the last keep a bus in order and ahead.
LEMMA JoinAhead ==
    ASSUME NEW bus \in Seq(Entry), NEW new \in Seq(Entry), NEW now \in Nat, Ahead(bus, now),
           NEW t \in Nat, t >= LatestTs(bus), t >= now,
           \A i \in 1..Len(new) : new[i].ts = t
    PROVE  Ahead(bus \o new, now)
<1> DEFINE all == bus \o new
<1>1. /\ Len(bus) \in Nat /\ Len(new) \in Nat /\ Len(all) = Len(bus) + Len(new)
      /\ \A i \in 1..Len(bus) : all[i] = bus[i] /\ bus[i].ts \in Nat
      /\ \A i \in 1..Len(all) : ~(i \in 1..Len(bus)) => all[i].ts = t
  <2>1. /\ Len(bus) \in Nat /\ Len(new) \in Nat /\ Len(all) = Len(bus) + Len(new)
        /\ \A i \in 1..Len(all) : all[i] = IF i <= Len(bus) THEN bus[i] ELSE new[i - Len(bus)]
    BY ConcatProperties, LenProperties
  <2>2. \A i \in 1..Len(bus) : bus[i].ts \in Nat
    BY EntryAt
  <2> HIDE DEF all
  <2>3. QED
    BY <2>1, <2>2
<1> HIDE DEF all
<1>2. \A i \in 1..Len(bus) : bus[i].ts <= t
  <2> SUFFICES ASSUME NEW i \in 1..Len(bus) PROVE bus[i].ts <= t
    OBVIOUS
  <2>1. bus # <<>> /\ Len(bus) \in 1..Len(bus) /\ i <= Len(bus)
    BY <1>1, EmptySeq
  <2>2. bus[i].ts <= bus[Len(bus)].ts
    BY <2>1 DEF Ahead, Sorted
  <2>3. bus[Len(bus)].ts <= t
    BY <2>1 DEF LatestTs
  <2>4. QED
    BY <1>1, <2>1, <2>2, <2>3
<1>3. Sorted(all)
  <2> SUFFICES ASSUME NEW i \in 1..Len(all), NEW j \in 1..Len(all), i <= j
               PROVE  all[i].ts <= all[j].ts
    BY DEF Sorted
  <2>1. CASE j \in 1..Len(bus)
    <3>1. i \in 1..Len(bus)
      BY <1>1, <2>1
    <3>2. QED
      BY <1>1, <2>1, <3>1 DEF Ahead, Sorted
  <2>2. CASE ~(j \in 1..Len(bus))
    BY <1>1, <1>2, <2>2
  <2>3. QED
    BY <2>1, <2>2
<1>4. NoneBefore(all, now)
  <2> SUFFICES ASSUME all # <<>> PROVE Head(all).ts >= now
    BY DEF NoneBefore
  <2>1. Head(all) = all[1] /\ 1 \in 1..Len(all)
    BY <1>1, EmptySeq, ConcatProperties DEF all
  <2>2. CASE bus = <<>>
    <3>1. ~(1 \in 1..Len(bus))
      BY <2>2
    <3>2. QED
      BY <1>1, <2>1, <3>1
  <2>3. CASE bus # <<>>
    <3>1. 1 \in 1..Len(bus) /\ Head(bus) = bus[1]
      BY <1>1, <2>3, EmptySeq
    <3>2. QED
      BY <1>1, <2>1, <2>3, <3>1 DEF Ahead, NoneBefore
  <2>4. QED
    BY <2>2, <2>3
<1>5. QED
  BY <1>3, <1>4 DEF Ahead, all

\* What is left of a bus is ahead of the entry that was taken.
LEMMA TailAhead ==
    ASSUME NEW bus \in Seq(Entry), bus # <<>>, Sorted(bus)
    PROVE  Ahead(Tail(bus), Head(bus).ts)
<1> DEFINE rest == Tail(bus)
<1>1. /\ Len(bus) \in Nat /\ Len(rest) = Len(bus) - 1 /\ Head(bus) = bus[1]
      /\ 1 \in 1..Len(bus)
      /\ \A i \in 1..Len(rest) : rest[i] = bus[i + 1] /\ i + 1 \in 1..Len(bus)
  BY EmptySeq, LenProperties
<1>2. rest # <<>> => Head(rest) = bus[2] /\ 2 \in 1..Len(bus)
  BY <1>1
<1> HIDE DEF rest
<1>3. Sorted(rest)
  <2> SUFFICES ASSUME NEW i \in 1..Len(rest), NEW j \in 1..Len(rest), i <= j
               PROVE  rest[i].ts <= rest[j].ts
    BY DEF Sorted
  <2>1. i + 1 <= j + 1
    OBVIOUS
  <2>2. QED
    BY <1>1, <2>1 DEF Sorted
<1>4. NoneBefore(rest, Head(bus).ts)
  <2> SUFFICES ASSUME rest # <<>> PROVE Head(rest).ts >= Head(bus).ts
    BY DEF NoneBefore
  <2>1. bus[1].ts <= bus[2].ts
    BY <1>1, <1>2 DEF Sorted
  <2>2. bus[1].ts \in Nat /\ bus[2].ts \in Nat
    BY <1>1, <1>2, EntryAt
  <2>3. QED
    BY <1>1, <1>2, <2>1, <2>2
<1>5. QED
  BY <1>3, <1>4 DEF Ahead, rest

AllHonour(bus) == \A i \in 1..Len(bus) : Honours(bus[i].order)

\* One entry at the end.
LEMMA AppendAhead ==
    ASSUME NEW bus \in Seq(Entry), NEW o \in Order, o.q = 0, NEW ts \in Nat,
           NEW now \in Nat, ts >= now, Ahead(bus, now)
    PROVE  LET new == Append(bus, Scheduled(bus, o, ts))
           IN  /\ Ahead(new, now)
               /\ Len(new) = Len(bus) + 1
               /\ \A i \in 1..Len(new) : new[i].order = IF i <= Len(bus) THEN bus[i].order ELSE o
               /\ bus # <<>> => new # <<>> /\ Head(new) = Head(bus)
<1> DEFINE e == Scheduled(bus, o, ts)
           t == Larger(ts, LatestTs(bus))
<1>1. e \in Entry /\ e.ts = t /\ e.order = o
  BY ScheduledType, ScheduledLate
<1>2. t \in Nat /\ t >= LatestTs(bus) /\ t >= ts /\ LatestTs(bus) \in Nat
  BY ScheduledLate
<1> HIDE DEF e, t
<1>3. t >= now
  BY <1>2
<1>4. Append(bus, e) = bus \o <<e>> /\ <<e>> \in Seq(Entry)
      /\ \A i \in 1..Len(<<e>>) : <<e>>[i].ts = t
  BY <1>1
<1>5. Ahead(bus \o <<e>>, now)
  BY <1>2, <1>3, <1>4, JoinAhead
<1>6. /\ Len(Append(bus, e)) = Len(bus) + 1
      /\ \A i \in 1..Len(Append(bus, e)) :
            Append(bus, e)[i].order = IF i <= Len(bus) THEN bus[i].order ELSE o
  BY <1>1
<1>7. bus # <<>> => Append(bus, e) # <<>> /\ Head(Append(bus, e)) = Head(bus)
  BY HeadTailAppend, AppendProperties, <1>1
<1>8. QED
  BY <1>4, <1>5, <1>6, <1>7 DEF e

\* Responses sent now keep the bus ahead of now, and bring the prices they have.
LEMMA RespondAhead ==
    ASSUME to_local \in Seq(Entry), NEW now \in Nat, Ahead(to_local, now),
           AllHonour(to_local), NEW os \in Seq(Order),
           \A i \in 1..Len(os) : Honours(os[i]),
           NEW lat \in ResponseLatencies, Respond(os, now, lat)
    PROVE  Ahead(to_local', now) /\ AllHonour(to_local')
<1> DEFINE new == [i \in 1..Len(os) |-> Scheduled(to_local, ToPlain(os[i]), now + lat)]
           t == Larger(now + lat, LatestTs(to_local))
<1>1. now + lat \in Nat /\ now + lat >= now
  BY LatencyAssumption
<1>2. t \in Nat /\ t >= LatestTs(to_local) /\ t >= now + lat
  BY <1>1, ScheduledLate
<1>3. ASSUME NEW i \in 1..Len(os)
      PROVE  new[i] \in Entry /\ new[i].ts = t /\ Honours(new[i].order)
  <2>1. os[i] \in Order /\ Honours(os[i])
    BY ElementOfSeq
  <2>2. Honours(ToPlain(os[i]))
    <3>1. \A o \in Order : Honours(o) => Honours(ToPlain(o))
      BY DEF Honours, ToPlain, Order
    <3>2. QED
      BY <2>1, <3>1
  <2>3. ToPlain(os[i]) \in Order /\ ToPlain(os[i]).q = 0
    BY <2>1, ToPlainType
  <2> DEFINE o == ToPlain(os[i])
             e == Scheduled(to_local, o, now + lat)
  <2>4. new[i] = e
    OBVIOUS
  <2> HIDE DEF o, new
  <2>5. e \in Entry
    BY <1>1, <2>3, ScheduledType DEF o
  <2>6. e.ts = t /\ e.order = o
    BY <1>1, ScheduledLate
  <2> HIDE DEF e, t
  <2>7. QED
    BY <2>2, <2>4, <2>5, <2>6 DEF o
<1>4. Len(os) \in Nat
  BY LenProperties
<1>5. new \in [1..Len(os) -> Entry]
  BY <1>3
<1>6. new \in Seq(Entry) /\ Len(new) = Len(os)
  BY <1>4, <1>5, SeqDef
<1>7. to_local' = to_local \o new
  BY DEF Respond
<1> HIDE DEF new, t
<1>8. t >= now
  BY <1>1, <1>2
<1>9. Ahead(to_local', now)
  BY <1>2, <1>3, <1>6, <1>7, <1>8, JoinAhead
<1>10. AllHonour(to_local')
  <2> SUFFICES ASSUME NEW i \in 1..Len(to_local') PROVE Honours(to_local'[i].order)
    BY DEF AllHonour
  <2>1. /\ Len(to_local) \in Nat /\ Len(to_local') = Len(to_local) + Len(os)
        /\ to_local'[i] = IF i <= Len(to_local) THEN to_local[i] ELSE new[i - Len(to_local)]
    <3>1. Len(to_local) \in Nat
      BY LenProperties
    <3>2. /\ Len(to_local \o new) = Len(to_local) + Len(new)
          /\ \A j \in 1..(Len(to_local) + Len(new)) : (to_local \o new)[j] =
                IF j <= Len(to_local) THEN to_local[j] ELSE new[j - Len(to_local)]
      BY <1>6, ConcatProperties
    <3>3. QED
      BY <1>6, <1>7, <3>1, <3>2
  <2>2. CASE i <= Len(to_local)
    BY <2>1, <2>2 DEF AllHonour
  <2>3. CASE ~(i <= Len(to_local))
    <3>1. i - Len(to_local) \in 1..Len(os)
      BY <1>4, <2>1, <2>3
    <3>2. QED
      BY <1>3, <2>1, <2>3, <3>1
  <2>4. QED
    BY <2>2, <2>3
<1>11. QED
  BY <1>9, <1>10

\* So does publishing fills.
LEMMA PublishAhead ==
    ASSUME to_local \in Seq(Entry), NEW now \in Nat, Ahead(to_local, now),
           AllHonour(to_local), NEW fills, DOMAIN fills \subseteq OrderIds,
           \A id \in DOMAIN fills : fills[id] \in Order /\ Honours(fills[id]),
           Publish(fills, now)
    PROVE  Ahead(to_local', now) /\ AllHonour(to_local') /\ to_exch' = to_exch
<1>1. PICK ids \in SetToSeqs(DOMAIN fills), lat \in ResponseLatencies :
         Respond([i \in 1..Len(ids) |-> fills[ids[i]]], now, lat)
  BY Zenon DEF Publish
<1> DEFINE os == [i \in 1..Len(ids) |-> fills[ids[i]]]
<1>2. Cardinality(DOMAIN fills) \in Nat
  BY OrdersAssumption, FS_Subset, FS_CardinalityType
<1>3. ids \in [1..Cardinality(DOMAIN fills) -> DOMAIN fills]
  BY DEF SetToSeqs
<1>4. ids \in Seq(DOMAIN fills)
  BY <1>2, <1>3, SeqDef
<1>5. Len(ids) \in Nat /\ \A i \in 1..Len(ids) : ids[i] \in DOMAIN fills
  BY <1>4, LenProperties, ElementOfSeq
<1>6. \A i \in 1..Len(ids) : fills[ids[i]] \in Order /\ Honours(fills[ids[i]])
  BY <1>5
<1>7. os \in [1..Len(ids) -> Order]
  BY <1>6
<1>8. os \in Seq(Order) /\ Len(os) = Len(ids)
  BY <1>5, <1>7, SeqDef
<1>9. \A i \in 1..Len(ids) : Honours(os[i])
  BY <1>6
<1> HIDE DEF os
<1>10. Respond(os, now, lat)
  BY <1>1 DEF os
<1>11. Ahead(to_local', now) /\ AllHonour(to_local')
  BY <1>8, <1>9, <1>10, RespondAhead
<1>12. QED
  BY <1>11 DEF Publish

\* The fills of a trade are at the orders' own prices.
LEMMA TradeAhead ==
    ASSUME ExchTyped, WorkingIn(book), to_local \in Seq(Entry),
           NEW s \in Sides, NEW tick \in Ticks, NEW quantity \in Nat,
           NEW now \in Nat, Ahead(to_local, now), AllHonour(to_local),
           ProcessTrade(s, tick, quantity, now)
    PROVE  Ahead(to_local', now) /\ AllHonour(to_local') /\ to_exch' = to_exch
<1> DEFINE reached == Scanned(s, exch_depth.best[Opposite(s)], tick)
           after == [id \in reached |-> AfterTrade(book.orders[id], tick, quantity, now)]
           hit == {id \in reached : \/ Through(book.orders[id], tick)
                                    \/ AtFront(book.orders[id], tick, quantity)}
           fills == [id \in hit |-> after[id]]
<1>1. BookOK(book) /\ Publish(fills, now)
  BY DEF ExchTyped, ProcessTrade
<1>2. reached \subseteq Ids(book)
  BY <1>1, ScannedInBook
<1>3. DOMAIN fills = hit
  OBVIOUS
<1>4. ASSUME NEW id \in hit
      PROVE  id \in OrderIds /\ fills[id] \in Order /\ Honours(fills[id])
  <2>1. /\ id \in Ids(book) /\ fills[id] = AfterTrade(book.orders[id], tick, quantity, now)
        /\ Through(book.orders[id], tick) \/ AtFront(book.orders[id], tick, quantity)
    BY <1>2
  <2>2. /\ id \in OrderIds /\ book.orders[id] \in Order
        /\ book.orders[id].status \in Working
    BY <1>1, <2>1, BookOrders DEF WorkingIn
  <2> HIDE DEF fills
  <2>3. fills[id] \in Order /\ fills[id].exec_price_tick = fills[id].price_tick
    BY <2>1, <2>2, AfterTradeType, AfterTradeWrites
  <2>4. fills[id].side \in Sides /\ fills[id].price_tick \in Int
    BY <2>3, PricesAreInt DEF Order
  <2>5. QED
    BY <2>2, <2>3, <2>4, BetterFacts DEF Honours
<1> HIDE DEF hit, fills
<1>5. QED
  BY <1>1, <1>3, <1>4, PublishAhead

\* So are the fills of a depth event.
LEMMA DepthAhead ==
    ASSUME ExchTyped, WorkingIn(book), to_local \in Seq(Entry),
           NEW s \in Sides, NEW tick \in Ticks, NEW quantity \in Nat,
           NEW now \in Nat, Ahead(to_local, now), AllHonour(to_local),
           ProcessDepth(s, tick, quantity, now)
    PROVE  Ahead(to_local', now) /\ AllHonour(to_local') /\ to_exch' = to_exch
<1> DEFINE d == UpdateDepth(exch_depth, s, tick, quantity)
           o == Opposite(s)
           met == IF Better(s, d.best[s], exch_depth.best[s])
                  THEN {id \in Scanned(o, exch_depth.best[s], d.best[s]) :
                           Crosses(o, book.orders[id].price_tick, d.best[s])}
                  ELSE {}
           fills == [id \in met |-> FillMaker(book.orders[id], now)]
<1>1. BookOK(book) /\ Publish(fills, now)
  BY DEF ExchTyped, ProcessDepth
<1>2. met \subseteq Ids(book)
  BY <1>1, SideFacts, ScannedInBook
<1> HIDE DEF met
<1>3. DOMAIN fills = met
  OBVIOUS
<1>4. ASSUME NEW id \in met
      PROVE  id \in OrderIds /\ fills[id] \in Order /\ Honours(fills[id])
  <2>1. id \in Ids(book) /\ fills[id] = FillMaker(book.orders[id], now)
    BY <1>2
  <2>2. /\ id \in OrderIds /\ book.orders[id] \in Order
        /\ book.orders[id].status \in Working
    BY <1>1, <2>1, BookOrders DEF WorkingIn
  <2> HIDE DEF fills
  <2>3. fills[id] \in Order /\ fills[id].exec_price_tick = fills[id].price_tick
    BY <2>1, <2>2, FillMakerType, FillMakerWrites
  <2>4. fills[id].side \in Sides /\ fills[id].price_tick \in Int
    BY <2>3, PricesAreInt DEF Order
  <2>5. QED
    BY <2>2, <2>3, <2>4, BetterFacts DEF Honours
<1> HIDE DEF fills
<1>5. QED
  BY <1>1, <1>3, <1>4, PublishAhead

-----------------------------------------------------------------------------
(* The buses along the steps of a strategy that asks cancellable() first.   *)

Unfinished(bus) == \A i \in 1..Len(bus) : bus[i].order.status \notin Terminal

Prompt ==
    /\ Unfinished(to_exch)
    /\ Ahead(to_exch, cur_ts) /\ Ahead(to_local, cur_ts)
    /\ AllHonour(to_local)
    /\ receiving => DueAt(to_exch, cur_ts)

\* Both buses hold entries, and now is a time.
LEMMA BusFacts ==
    ASSUME Inv
    PROVE  to_exch \in Seq(Entry) /\ to_local \in Seq(Entry) /\ cur_ts \in Nat
<1>1. RequestEntry \subseteq Entry
  BY DEF RequestEntry
<1>2. QED
  BY <1>1, SeqMonotonic DEF Inv, BusTyped, EngineTyped

\* A request made now.
LEMMA RequestPrompt ==
    ASSUME Inv, Prompt, NEW o \in Plain, o.status \notin Terminal,
           o.local_timestamp = cur_ts, NEW rejected \in Plain, rejected.req = "Rejected",
           NEW lat \in EntryLatencies, Request(o, rejected, lat),
           UNCHANGED <<cur_ts, receiving>>
    PROVE  Prompt'
<1>1. to_exch \in Seq(Entry) /\ to_local \in Seq(Entry) /\ cur_ts \in Nat /\ lat \in Int
  BY BusFacts, LatencyAssumption
<1>2. o \in Order /\ o.q = 0 /\ rejected \in Order /\ rejected.q = 0
  BY DEF Plain
<1>3. CASE lat < 0
  <2>1. /\ to_local' = Append(to_local, Scheduled(to_local, rejected, cur_ts - lat))
        /\ to_exch' = to_exch
    BY <1>3 DEF Request
  <2>2. cur_ts - lat \in Nat /\ cur_ts - lat >= cur_ts
    BY <1>1, <1>3
  <2>3. /\ Ahead(to_local', cur_ts)
        /\ Len(to_local') = Len(to_local) + 1
        /\ \A i \in 1..Len(to_local') :
              to_local'[i].order = IF i <= Len(to_local) THEN to_local[i].order ELSE rejected
    BY <1>1, <1>2, <2>1, <2>2, AppendAhead DEF Prompt
  <2>4. Honours(rejected)
    BY DEF Honours
  <2>5. Len(to_local) \in Nat
    BY <1>1, LenProperties
  <2>6. AllHonour(to_local')
    BY <2>3, <2>4, <2>5 DEF AllHonour, Prompt
  <2>7. Unfinished(to_exch') /\ Ahead(to_exch', cur_ts) /\ (receiving => DueAt(to_exch', cur_ts))
    BY <2>1 DEF Prompt
  <2>8. QED
    BY <2>3, <2>6, <2>7 DEF Prompt, Unfinished, Ahead, Sorted, NoneBefore, AllHonour, DueAt
<1>4. CASE ~(lat < 0)
  <2>1. /\ to_exch' = Append(to_exch, Scheduled(to_exch, o, cur_ts + lat))
        /\ to_local' = to_local
    BY <1>4 DEF Request
  <2>2. cur_ts + lat \in Nat /\ cur_ts + lat >= cur_ts
    BY <1>1, <1>4
  <2>3. /\ Ahead(to_exch', cur_ts)
        /\ Len(to_exch') = Len(to_exch) + 1
        /\ \A i \in 1..Len(to_exch') :
              to_exch'[i].order = IF i <= Len(to_exch) THEN to_exch[i].order ELSE o
        /\ to_exch # <<>> => to_exch' # <<>> /\ Head(to_exch') = Head(to_exch)
    BY <1>1, <1>2, <2>1, <2>2, AppendAhead DEF Prompt
  <2>4. Len(to_exch) \in Nat
    BY <1>1, LenProperties
  <2>5. Unfinished(to_exch')
    BY <2>3, <2>4 DEF Unfinished, Prompt
  <2>6. receiving => DueAt(to_exch', cur_ts)
    BY <2>3 DEF DueAt, Prompt
  <2>7. Ahead(to_local', cur_ts) /\ AllHonour(to_local')
    BY <2>1 DEF Prompt
  <2>8. QED
    BY <2>3, <2>5, <2>6, <2>7 DEF Prompt, Unfinished, Ahead, Sorted, NoneBefore, AllHonour, DueAt
<1>5. QED
  BY <1>3, <1>4

\* An order the strategy may touch is working, when it asks first.
LEMMA MayTouchWorking ==
    ASSUME Inv, Careful, NEW id, MayTouch(id)
    PROVE  local_orders[id] \in Plain /\ local_orders[id].status \notin Terminal
<1>1. id \in DOMAIN local_orders /\ Cancellable(local_orders[id])
  BY DEF MayTouch, Known
<1>2. local_orders[id].status \in Working
  BY <1>1 DEF Cancellable, Active
<1>3. QED
  BY <1>1, <1>2 DEF Inv, LocalTyped, IsPlainMap, Working, Terminal

\* submit_order sends an order nobody has touched.
LEMMA SubmitPrompt ==
    ASSUME Inv, Prompt, BotSubmits
    PROVE  Prompt'
<1>1. PICK id \in OrderIds, s \in Sides, tick \in Ticks, quantity \in OrderQtys,
           kind \in OrderKinds, lat \in EntryLatencies :
              SubmitOrder(id, s, tick, quantity, kind[1], kind[2], cur_ts, lat)
  BY DEF BotSubmits
<1>2. quantity \in Nat /\ kind[1] \in OrdTypes /\ kind[2] \in TimesInForce
  BY TradingAssumption
<1>3. UNCHANGED <<cur_ts, receiving>>
  BY DEF BotSubmits, Asks, engineVars
<1> DEFINE fresh == MakeOrder(id, s, tick, quantity, kind[1], kind[2])
           o == [fresh EXCEPT !.req = "New", !.local_timestamp = cur_ts]
           rejected == [o EXCEPT !.req = "Rejected"]
<1>4. fresh \in Order /\ fresh.q = 0
  BY <1>2, MakeOrderType
<1>5. fresh.status = "None"
  BY DEF MakeOrder
<1>6. Request(o, rejected, lat)
  BY <1>1 DEF SubmitOrder
<1> HIDE DEF fresh
<1>7. cur_ts \in Nat
  BY BusFacts
<1>8. /\ o \in Plain /\ o.local_timestamp = cur_ts /\ o.status \notin Terminal
  BY <1>4, <1>5, <1>7 DEF Plain, Order, Statuses, Terminal
<1> HIDE DEF o
<1>9. rejected \in Plain /\ rejected.req = "Rejected"
  BY <1>8 DEF Plain, Order, Statuses
<1> HIDE DEF rejected
<1>10. QED
  BY <1>3, <1>6, <1>8, <1>9, RequestPrompt

\* cancel sends an order that works.
LEMMA CancelPrompt ==
    ASSUME Inv, Prompt, Careful, BotCancels
    PROVE  Prompt'
<1>1. PICK id \in OrderIds, lat \in EntryLatencies : MayTouch(id) /\ Cancel(id, cur_ts, lat)
  BY DEF BotCancels
<1>2. UNCHANGED <<cur_ts, receiving>>
  BY DEF BotCancels, Asks, engineVars
<1> DEFINE old == local_orders[id]
           o == [old EXCEPT !.req = "Canceled", !.local_timestamp = cur_ts]
           rejected == [o EXCEPT !.req = "Rejected"]
<1>3. Request(o, rejected, lat)
  BY <1>1 DEF Cancel
<1>4. old \in Plain /\ old.status \notin Terminal
  BY <1>1, MayTouchWorking
<1>5. cur_ts \in Nat
  BY BusFacts
<1> HIDE DEF old
<1>6. o \in Plain /\ o.local_timestamp = cur_ts /\ o.status \notin Terminal
  BY <1>4, <1>5 DEF Plain, Order, Statuses
<1> HIDE DEF o
<1>7. rejected \in Plain /\ rejected.req = "Rejected"
  BY <1>6 DEF Plain, Order, Statuses
<1> HIDE DEF rejected
<1>8. QED
  BY <1>2, <1>3, <1>6, <1>7, RequestPrompt

\* So does modify.
LEMMA ModifyPrompt ==
    ASSUME Inv, Prompt, Careful, NEW id, MayTouch(id), NEW tick \in Ticks,
           NEW quantity \in Nat, NEW lat \in EntryLatencies,
           Modify(id, tick, quantity, cur_ts, lat), UNCHANGED <<cur_ts, receiving>>
    PROVE  Prompt'
<1> DEFINE old == local_orders[id]
           o == [old EXCEPT !.price_tick = tick, !.qty = quantity,
                            !.req = "Replaced", !.local_timestamp = cur_ts]
           rejected == [o EXCEPT !.req = "Rejected", !.price_tick = old.price_tick,
                                 !.qty = old.qty]
<1>1. Request(o, rejected, lat)
  BY DEF Modify
<1>2. old \in Plain /\ old.status \notin Terminal
  BY MayTouchWorking
<1>3. cur_ts \in Nat
  BY BusFacts
<1> HIDE DEF old
<1>4. old.price_tick \in Ticks /\ old.qty \in Nat
  BY <1>2 DEF Plain, Order
<1>5. o \in Plain /\ o.local_timestamp = cur_ts /\ o.status \notin Terminal
  BY <1>2, <1>3 DEF Plain, Order, Statuses
<1> HIDE DEF o
<1>6. rejected \in Plain /\ rejected.req = "Rejected"
  BY <1>4, <1>5 DEF Plain, Order, Statuses
<1> HIDE DEF rejected
<1>7. QED
  BY <1>1, <1>5, <1>6, RequestPrompt

\* Every request of such a strategy.
LEMMA BotPrompt ==
    ASSUME Inv, Prompt, Careful, BotSubmits \/ BotCancels \/ BotReprices \/ BotResizes
    PROVE  Prompt'
<1>1. UNCHANGED <<cur_ts, receiving>>
  BY DEF BotSubmits, BotCancels, BotReprices, BotResizes, Asks, engineVars
<1>2. CASE BotReprices
  <2>1. PICK id \in OrderIds, tick \in Ticks, lat \in EntryLatencies :
           MayTouch(id) /\ Modify(id, tick, local_orders[id].qty, cur_ts, lat)
    BY <1>2 DEF BotReprices
  <2>2. local_orders[id].qty \in Nat
    BY <2>1, MayTouchWorking DEF Plain, Order
  <2>3. QED
    BY <1>1, <2>1, <2>2, ModifyPrompt
<1>3. CASE BotResizes
  <2>1. PICK id \in OrderIds, quantity \in OrderQtys, lat \in EntryLatencies :
           MayTouch(id) /\ Modify(id, local_orders[id].price_tick, quantity, cur_ts, lat)
    BY <1>3 DEF BotResizes
  <2>2. local_orders[id].price_tick \in Ticks /\ quantity \in Nat
    BY <2>1, MayTouchWorking, TradingAssumption DEF Plain, Order
  <2>3. QED
    BY <1>1, <2>1, <2>2, ModifyPrompt
<1>4. QED
  BY <1>2, <1>3, SubmitPrompt, CancelPrompt

-----------------------------------------------------------------------------
(* The buses along the steps of the loop.                                   *)

\* Nothing up to a time is nothing before it.
LEMMA NoneUptoBefore ==
    ASSUME NEW bus \in Seq(Entry), NEW now \in Nat, Sorted(bus),
           NoneUpto(bus, now) \/ NoneBefore(bus, now)
    PROVE  Ahead(bus, now)
<1>1. bus # <<>> => Head(bus) \in Entry
  BY HeadTailProperties
<1>2. bus # <<>> => Head(bus).ts \in Nat
  BY <1>1 DEF Entry
<1>3. QED
  BY <1>2 DEF NoneUpto, NoneBefore, Ahead

\* The rest of a bus has what the bus has.
LEMMA TailEntries ==
    ASSUME NEW bus \in Seq(Entry), bus # <<>>
    PROVE  /\ AllHonour(bus) => AllHonour(Tail(bus))
           /\ Unfinished(bus) => Unfinished(Tail(bus)) /\ Head(bus).order.status \notin Terminal
<1>1. /\ Len(bus) \in Nat /\ Len(Tail(bus)) = Len(bus) - 1 /\ Head(bus) = bus[1]
      /\ 1 \in 1..Len(bus)
      /\ \A i \in 1..Len(Tail(bus)) : Tail(bus)[i] = bus[i + 1] /\ i + 1 \in 1..Len(bus)
  BY EmptySeq, LenProperties
<1>2. QED
  BY <1>1 DEF AllHonour, Unfinished

\* A response is taken.
LEMMA LocalPrompt ==
    ASSUME Inv, Prompt, LocalReceives
    PROVE  Prompt'
<1>1. /\ to_local # <<>> /\ ~receiving /\ receiving' = receiving
      /\ cur_ts' = Head(to_local).ts /\ NoneBefore(to_exch, cur_ts')
      /\ to_local' = Tail(to_local) /\ to_exch' = to_exch
  BY DEF LocalReceives, ProcessResponse
<1>2. to_exch \in Seq(Entry) /\ to_local \in Seq(Entry)
  BY BusFacts
<1>3. cur_ts' \in Nat
  <2>1. Head(to_local) \in Entry
    BY <1>1, <1>2, HeadTailProperties
  <2>2. QED
    BY <1>1, <2>1 DEF Entry
<1>4. Ahead(to_exch', cur_ts')
  BY <1>1, <1>2, <1>3, NoneUptoBefore DEF Prompt, Ahead
<1>5. Ahead(to_local', cur_ts') /\ AllHonour(to_local')
  BY <1>1, <1>2, TailAhead, TailEntries DEF Prompt, Ahead
<1>6. Unfinished(to_exch')
  BY <1>1 DEF Prompt
<1>7. QED
  BY <1>1, <1>4, <1>5, <1>6 DEF Prompt, Unfinished, Ahead, Sorted, NoneBefore, AllHonour

\* A request is taken: its answer carries the time of now.
LEMMA ExchangePrompt ==
    ASSUME Inv, Resting, Prompt, ExchangeReceives
    PROVE  Prompt'
<1> DEFINE o == Head(to_exch).order
           ack == Acknowledge(book, o, cur_ts')
<1>1. /\ to_exch # <<>> /\ cur_ts' = Head(to_exch).ts
      /\ receiving \/ NoneUpto(to_local, cur_ts')
      /\ to_exch' = Tail(to_exch)
      /\ receiving' = DueAt(to_exch', cur_ts')
  BY DEF ExchangeReceives, ProcessRequest
<1>2. PICK lat \in ResponseLatencies :
         Respond(<<ack.order>>, ack.order.exch_timestamp, lat)
  BY DEF ExchangeReceives, ProcessRequest
<1>3. to_exch \in Seq(Entry) /\ to_local \in Seq(Entry) /\ to_exch \in Seq(RequestEntry)
  BY BusFacts DEF Inv, BusTyped
<1>4. Head(to_exch) \in RequestEntry
  BY <1>1, <1>3, HeadTailProperties
<1>5. o \in Order /\ o.req \in Requested /\ cur_ts' \in Nat
  BY <1>1, <1>4 DEF RequestEntry, Entry
<1>6. o.status \notin Terminal /\ Unfinished(to_exch') /\ Ahead(to_exch', cur_ts')
  BY <1>1, <1>3, TailEntries, TailAhead DEF Prompt, Ahead
<1>7. BookOK(book) /\ exch_depth \in Depth /\ WorkingIn(book)
  BY DEF Inv, ExchTyped, Resting, WorkingIn
<1> HIDE DEF o
<1>8. ack.order.exch_timestamp = cur_ts' /\ Honours(ack.order)
  BY <1>5, <1>6, <1>7, AcknowledgeBook
<1>9. AckOK(ack)
  <2>1. CASE o.req = "New"
    BY <1>5, <1>7, <2>1, AckNewOK DEF Acknowledge
  <2>2. CASE o.req = "Canceled"
    BY <1>5, <1>7, <2>2, AckCancelOK DEF Acknowledge
  <2>3. CASE o.req = "Replaced"
    BY <1>5, <1>7, <2>3, AckModifyOK DEF Acknowledge
  <2>4. QED
    BY <1>5, <2>1, <2>2, <2>3 DEF Requested
<1> HIDE DEF ack
<1>10. ack.order \in Order
  BY <1>9 DEF AckOK
<1>11. <<ack.order>> \in Seq(Order) /\ \A i \in 1..Len(<<ack.order>>) : Honours(<<ack.order>>[i])
  BY <1>8, <1>10
<1>12. Ahead(to_local, cur_ts')
  <2>1. CASE receiving
    BY <1>1, <2>1 DEF Prompt, DueAt
  <2>2. CASE ~receiving
    BY <1>1, <1>3, <1>5, <2>2, NoneUptoBefore DEF Prompt, Ahead
  <2>3. QED
    BY <2>1, <2>2
<1>13. Respond(<<ack.order>>, cur_ts', lat)
  BY <1>2, <1>8
<1>14. Ahead(to_local', cur_ts') /\ AllHonour(to_local')
  BY <1>3, <1>5, <1>11, <1>12, <1>13, RespondAhead DEF Prompt
<1>15. QED
  BY <1>1, <1>6, <1>14 DEF Prompt, Unfinished, Ahead, Sorted, NoneBefore, AllHonour, DueAt

\* Nothing happens to the buses up to a later time.
LEMMA LaterPrompt ==
    ASSUME Prompt, Ahead(to_exch, cur_ts'), Ahead(to_local', cur_ts'), AllHonour(to_local'),
           to_exch' = to_exch, ~receiving, receiving' = receiving
    PROVE  Prompt'
<1>1. Unfinished(to_exch') /\ Ahead(to_exch', cur_ts')
  BY DEF Prompt
<1>2. QED
  BY <1>1 DEF Prompt, Unfinished, Ahead, Sorted, NoneBefore, AllHonour

\* A feed event.
LEMMA FeedPrompt ==
    ASSUME Inv, Resting, Prompt, FeedDepth \/ FeedTrade \/ FeedClear
    PROVE  Prompt'
<1>1. FeedTurn
  BY DEF FeedDepth, FeedTrade, FeedClear
<1>2. /\ ~receiving /\ receiving' = receiving
      /\ NoneUpto(to_local, cur_ts') /\ NoneBefore(to_exch, cur_ts')
  BY <1>1 DEF FeedTurn
<1>3. cur_ts' \in Nat /\ to_exch \in Seq(Entry) /\ to_local \in Seq(Entry)
  BY <1>1, FeedTurnTyped, BusFacts
<1>4. Ahead(to_exch, cur_ts') /\ Ahead(to_local, cur_ts') /\ AllHonour(to_local)
  BY <1>2, <1>3, NoneUptoBefore DEF Prompt, Ahead
<1>5. ExchTyped /\ WorkingIn(book)
  BY DEF Inv, Resting, WorkingIn
<1>6. Ahead(to_local', cur_ts') /\ AllHonour(to_local') /\ to_exch' = to_exch
  <2>1. CASE FeedDepth
    <3>1. PICK s \in Sides, tick \in Ticks, quantity \in FeedQtys \cup {0} :
             ProcessDepth(s, tick, quantity, cur_ts')
      BY <2>1 DEF FeedDepth
    <3>2. quantity \in Nat
      BY TradingAssumption
    <3>3. QED
      BY <1>3, <1>4, <1>5, <3>1, <3>2, DepthAhead
  <2>2. CASE FeedTrade
    <3>1. PICK s \in Sides, tick \in Ticks, quantity \in FeedQtys :
             ProcessTrade(s, tick, quantity, cur_ts')
      BY <2>2 DEF FeedTrade
    <3>2. quantity \in Nat
      BY TradingAssumption
    <3>3. QED
      BY <1>3, <1>4, <1>5, <3>1, <3>2, TradeAhead
  <2>3. CASE FeedClear
    <3>1. to_local' = to_local /\ to_exch' = to_exch
      BY <2>3 DEF FeedClear, ProcessClear
    <3>2. QED
      BY <1>4, <3>1
  <2>4. QED
    BY <2>1, <2>2, <2>3
<1>7. QED
  BY <1>2, <1>4, <1>6, LaterPrompt

\* Every step of a strategy that asks first, and of the loop.
LEMMA PromptStep ==
    ASSUME Inv, Resting, Prompt, Careful, [Next]_vars
    PROVE  Prompt'
<1>1. CASE BotSubmits \/ BotCancels \/ BotReprices \/ BotResizes
  BY <1>1, BotPrompt
<1>2. CASE LocalReceives
  BY <1>2, LocalPrompt
<1>3. CASE ExchangeReceives
  BY <1>3, ExchangePrompt
<1>4. CASE FeedDepth \/ FeedTrade \/ FeedClear
  BY <1>4, FeedPrompt
<1>5. CASE Returns
  <2>1. /\ ~receiving /\ receiving' = receiving
        /\ NoneUpto(to_local, cur_ts') /\ NoneUpto(to_exch, cur_ts')
        /\ to_local' = to_local /\ to_exch' = to_exch
    BY <1>5 DEF Returns, busVars
  <2>2. cur_ts' \in Nat
    BY <1>5, ReturnsTyped DEF Inv, EngineTyped
  <2>3. Ahead(to_exch, cur_ts') /\ Ahead(to_local, cur_ts') /\ AllHonour(to_local)
    BY <2>1, <2>2, BusFacts, NoneUptoBefore DEF Prompt, Ahead
  <2>4. QED
    BY <2>1, <2>3, LaterPrompt
<1>6. CASE BotClears \/ Waits \/ Closes \/ Ended \/ UNCHANGED vars
  <2>1. UNCHANGED <<cur_ts, receiving, to_exch, to_local>>
    BY <1>6 DEF BotClears, ClearInactiveOrders, Waits, Closes, Ended, vars, busVars, engineVars
  <2>2. QED
    BY <2>1 DEF Prompt, Unfinished, Ahead, Sorted, NoneBefore, AllHonour, DueAt
<1>7. QED
  BY <1>1, <1>2, <1>3, <1>4, <1>5, <1>6 DEF Next

\* For ever.
LEMMA PromptHolds == ASSUME Careful PROVE Spec => []Prompt
<1>1. Init => Prompt
  BY EmptySeq DEF Init, Prompt, Unfinished, Ahead, Sorted, NoneBefore, AllHonour
<1>2. Inv /\ Resting /\ Prompt /\ [Next]_vars => Prompt'
  BY PromptStep
<1>3. QED
  BY <1>1, <1>2, InvHolds, RestingHolds, PTL DEF Spec

\* The asserts of the buses' receive: with a strategy that asks cancellable() first,
\* the loop never passes the time of an order on a bus, whatever the latencies.
THEOREM LoopNeverLate == ASSUME Careful PROVE Spec => []BusesAhead
<1>1. Prompt => BusesAhead
  BY DEF Prompt, Ahead, BusesAhead
<1>2. QED
  BY <1>1, PromptHolds, PTL

\* fill_maker and the fills on arrival: such a strategy's limit orders are never
\* executed at a price worse than their limit, whatever was modified before.
THEOREM LimitAlwaysHonoured == ASSUME Careful PROVE Spec => []LimitHonoured
<1>1. Prompt => LimitHonoured
  BY DEF Prompt, AllHonour, Honours, LimitHonoured
<1>2. QED
  BY <1>1, PromptHolds, PTL

=============================================================================
