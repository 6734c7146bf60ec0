------------------------------ MODULE Exchange ------------------------------
(***************************************************************************)
(* The exchange processor (include/hbt/backtest/exchange.hpp) with its own *)
(* copy of the market depth, the strategy's resting orders, and the        *)
(* accounting of fills (include/hbt/backtest/state.hpp).                   *)
(*                                                                         *)
(* Handlers are written once for both sides.  Quantities taken from the    *)
(* queue are those of RiskAdverseQueueModel (include/hbt/models/queue.hpp).*)
(***************************************************************************)
EXTENDS OrderBus, HashMapDepth, SequencesExt

CONSTANTS
    PartialFill    \* the template flag: PartialFillExchange or the default

ASSUME ExchangeAssumption == PartialFill \in BOOLEAN

VARIABLES
    exch_depth,    \* depth_
    book,          \* orders_, and buy_orders_ / sell_orders_
    exch_pos       \* state_: what was executed, signed by side, per order id

exchVars == <<exch_depth, book, exch_pos>>

\* orders_ maps the ids of resting orders to orders; index[s][t] is the set of
\* ids that buy_orders_ or sell_orders_ hold at tick t.
IsBook(b) ==
    /\ b = [orders |-> b.orders, index |-> b.index]
    /\ IsOrderMap(b.orders)
    /\ b.index \in [Sides -> [Ticks -> SUBSET OrderIds]]

\* Every order is in the index at its own side and price and nowhere else.
Indexed(b) ==
    \A s \in Sides, t \in Ticks :
        b.index[s][t] = {id \in DOMAIN b.orders : /\ b.orders[id].side = s
                                                 /\ b.orders[id].price_tick = t}

EmptyBook ==
    [orders |-> [id \in {} |-> MakeOrder(id, "Buy", 1, 0, "Limit", "GTC")],
     index |-> [s \in Sides |-> [t \in Ticks |-> {}]]]

Ids(b) == DOMAIN b.orders

\* orders_.emplace with the insertion into the side's index.
Insert(b, o) ==
    [orders |-> [id \in Ids(b) \cup {o.order_id} |->
                   IF id \in Ids(b) THEN b.orders[id] ELSE o],
     index |-> [b.index EXCEPT ![o.side][o.price_tick] = @ \cup {o.order_id}]]

\* Mutant of Withdraw: the index keeps the order.
Withdraw_KeepsIndex(b, ids) ==
    [b EXCEPT !.orders = [id \in Ids(b) \ ids |-> b.orders[id]]]

\* remove_filled_orders and the removal in ack_cancel: each order leaves orders_
\* and the index at its own side and price.
Withdraw(b, ids) ==
    [orders |-> [id \in Ids(b) \ ids |-> b.orders[id]],
     index |-> [s \in Sides |-> [t \in Ticks |->
                  b.index[s][t] \ {id \in ids \cap Ids(b) :
                                     b.orders[id].side = s /\ b.orders[id].price_tick = t}]]]

Replace(b, os) ==
    [b EXCEPT !.orders = [id \in Ids(b) |-> IF id \in DOMAIN os THEN os[id] ELSE b.orders[id]]]

\* Mutant of Fill: what is left is counted from the original quantity.
Fill_FromQty(o, ts, tick, quantity) ==
    LET leaves == Larger(0, o.qty - quantity)
    IN  IF o.status \in Terminal THEN o
        ELSE [o EXCEPT !.exec_price_tick = tick, !.exec_qty = quantity,
                       !.leaves_qty = leaves,
                       !.status = IF Lots(leaves) > 0 THEN "PartiallyFilled" ELSE "Filled",
                       !.exch_timestamp = ts]

\* Mutant of Fill: a rest below a whole lot is dropped, not one below half a lot.
Fill_WholeLots(o, ts, tick, quantity) ==
    LET leaves == Larger(0, o.leaves_qty - quantity)
    IN  IF o.status \in Terminal THEN o
        ELSE [o EXCEPT !.exec_price_tick = tick, !.exec_qty = quantity,
                       !.leaves_qty = leaves,
                       !.status = IF leaves >= LotSize THEN "PartiallyFilled" ELSE "Filled",
                       !.exch_timestamp = ts]

\* fill: nothing happens to an order that is already done.
Fill(o, ts, tick, quantity) ==
    LET leaves == Larger(0, o.leaves_qty - quantity)
    IN  IF o.status \in Terminal THEN o
        ELSE [o EXCEPT !.exec_price_tick = tick,
                       !.exec_qty = quantity,
                       !.leaves_qty = leaves,
                       !.status = IF Lots(leaves) > 0 THEN "PartiallyFilled" ELSE "Filled",
                       !.exch_timestamp = ts]

\* fill_maker: the rest of the order, at its own price.
FillMaker(o, ts) == Fill(o, ts, o.price_tick, o.leaves_qty)

\* What a fill that answers no request leads to: the position moves and one
\* response per filled order is sent.  The code walks hash tables, so the order
\* of the responses of one event is any order.
Publish(fills, ts) ==
    /\ exch_pos' = ApplyFills(exch_pos, fills)
    /\ \E ids \in SetToSeqs(DOMAIN fills), lat \in ResponseLatencies :
          Respond([i \in 1..Len(ids) |-> fills[ids[i]]], ts, lat)
    /\ UNCHANGED to_exch

-----------------------------------------------------------------------------
(* Feed events.  s is the side of the strategy's orders that the event can  *)
(* fill: a buy trade, or a bid that improves, reaches the sell orders.      *)

\* Mutant of Scanned: the range scan starts one tick too far.
Scanned_SkipsFirst(s, from, to) ==
    LET distance == IF s = "Sell" THEN to - from ELSE from - to
        first == IF s = "Sell" THEN from + 1 ELSE from - 1
        between == {t \in Ticks : Better(s, first, t) /\ ~Better(s, to, t)}
    IN  IF from = NoBest(Opposite(s)) \/ Cardinality(Ids(book)) < distance
        THEN {id \in Ids(book) : book.orders[id].side = s}
        ELSE UNION {book.index[s][t] : t \in between}

\* The orders a price moving from `from` to `to` is compared with.  The code
\* visits every order of the side when there was no price before or when the
\* book is smaller than the distance, else the index between the two prices.
Scanned(s, from, to) ==
    LET distance == IF s = "Sell" THEN to - from ELSE from - to
        between == {t \in Ticks : Better(s, from, t) /\ ~Better(s, to, t)}
    IN  IF from = NoBest(Opposite(s)) \/ Cardinality(Ids(book)) < distance
        THEN {id \in Ids(book) : book.orders[id].side = s}
        ELSE UNION {book.index[s][t] : t \in between}

\* RiskAdverseQueueModel: trade and depth move the quantity in front of the
\* order; is_filled turns a negative one into whole lots the order receives.
Advance(o, quantity) == [o EXCEPT !.q = @ - quantity]
Executable(o) == IF o.q < 0 THEN Lots(-o.q) * LotSize ELSE 0

Through(o, tick) == Better(o.side, o.price_tick, tick)
AtFront(o, tick, quantity) ==
    o.price_tick = tick /\ Executable(Advance(o, quantity)) > 0

\* Mutant of AfterTrade: the executable quantity is not capped by what is left.
AfterTrade_Uncapped(o, tick, quantity, ts) ==
    LET moved == Advance(o, quantity)
        portion == IF PartialFill THEN Executable(moved) ELSE o.leaves_qty
    IN  IF Through(o, tick) THEN FillMaker(o, ts)
        ELSE IF AtFront(o, tick, quantity)
             THEN Fill([moved EXCEPT !.q = 0], ts, o.price_tick, portion)
        ELSE IF o.price_tick = tick THEN moved
        ELSE o

\* check_if_sell_filled / check_if_buy_filled.
AfterTrade(o, tick, quantity, ts) ==
    LET moved == Advance(o, quantity)
        portion == IF PartialFill THEN Smaller(Executable(moved), o.leaves_qty)
                                  ELSE o.leaves_qty
    IN  IF Through(o, tick) THEN FillMaker(o, ts)
        ELSE IF AtFront(o, tick, quantity)
             THEN Fill([moved EXCEPT !.q = 0], ts, o.price_tick, portion)
        ELSE IF o.price_tick = tick THEN moved
        ELSE o

ProcessTrade(s, tick, quantity, ts) ==
    LET reached == Scanned(s, exch_depth.best[Opposite(s)], tick)
        after == [id \in reached |-> AfterTrade(book.orders[id], tick, quantity, ts)]
        hit == {id \in reached : \/ Through(book.orders[id], tick)
                                 \/ AtFront(book.orders[id], tick, quantity)}
    IN  /\ book' = Withdraw(Replace(book, after),
                          {id \in hit : after[id].status = "Filled"})
        /\ Publish([id \in hit |-> after[id]], ts)
        /\ UNCHANGED exch_depth

\* Mutant of ProcessDepth: an order exactly at the new best price is left alone.
ProcessDepth_MissesTouch(s, tick, quantity, ts) ==
    LET d == UpdateDepth(exch_depth, s, tick, quantity)
        o == Opposite(s)
        met == IF Better(s, d.best[s], exch_depth.best[s])
               THEN {id \in Scanned(o, exch_depth.best[s], d.best[s]) :
                        Better(o, book.orders[id].price_tick, d.best[s])}
               ELSE {}
    IN  /\ exch_depth' = d
        /\ book' = Withdraw(book, met)
        /\ Publish([id \in met |-> FillMaker(book.orders[id], ts)], ts)

\* A depth or snapshot event of side s: the strategy's orders at that level move
\* up the queue when the level shrinks below what is in front of them, and an
\* improved best price fills the opposite orders it meets.
ProcessDepth(s, tick, quantity, ts) ==
    LET d == UpdateDepth(exch_depth, s, tick, quantity)
        o == Opposite(s)
        requeued == [id \in book.index[s][tick] |->
                       [book.orders[id] EXCEPT !.q = Smaller(@, quantity)]]
        met == IF Better(s, d.best[s], exch_depth.best[s])
               THEN {id \in Scanned(o, exch_depth.best[s], d.best[s]) :
                        Crosses(o, book.orders[id].price_tick, d.best[s])}
               ELSE {}
        fills == [id \in met |-> FillMaker(book.orders[id], ts)]
    IN  /\ exch_depth' = d
        /\ book' = Withdraw(Replace(book, requeued), met)
        /\ Publish(fills, ts)

\* A clear event changes the depth only: no order is checked against it.
ProcessClear(d) ==
    /\ exch_depth' = d
    /\ UNCHANGED <<book, exch_pos, to_exch, to_local>>

-----------------------------------------------------------------------------
(* Order requests.  An acknowledgement is the book afterwards, the order to *)
(* respond with, and whether it was executed on arrival.                    *)

Ack(b, o, executed) == [book |-> b, order |-> o, executed |-> executed]

Reject(b, o, ts) == Ack(b, [o EXCEPT !.req = "Rejected", !.exch_timestamp = ts], FALSE)

\* Mutants of AckNew: an execution on arrival is not accounted; the request is
\* not marked as done; IOC and FOK orders take whatever price there is.
AckNew_NoAccounting(b, o, ts) ==
    LET accepted == [o EXCEPT !.req = "None"]
        best == exch_depth.best[Opposite(o.side)]
        meets == Crosses(o.side, o.price_tick, best)
        resting == [accepted EXCEPT !.status = "New", !.exch_timestamp = ts]
    IN  IF o.order_id \in Ids(b) THEN Reject(b, o, ts)
        ELSE IF meets THEN Ack(b, Fill(accepted, ts, best, o.leaves_qty), FALSE)
        ELSE Ack(Insert(b, resting), resting, FALSE)

AckNew_KeepsRequest(b, o, ts) ==
    LET best == exch_depth.best[Opposite(o.side)]
        meets == Crosses(o.side, o.price_tick, best)
        resting == [o EXCEPT !.status = "New", !.exch_timestamp = ts]
    IN  IF o.order_id \in Ids(b) THEN Reject(b, o, ts)
        ELSE IF meets THEN Ack(b, Fill(o, ts, best, o.leaves_qty), TRUE)
        ELSE Ack(Insert(b, resting), resting, FALSE)

AckNew_TakesAnyPrice(b, o, ts) ==
    LET accepted == [o EXCEPT !.req = "None"]
        best == exch_depth.best[Opposite(o.side)]
    IN  IF o.order_id \in Ids(b) THEN Reject(b, o, ts)
        ELSE IF o.time_in_force \in {"IOC", "FOK"} \/ Crosses(o.side, o.price_tick, best)
        THEN Ack(b, Fill(accepted, ts, best, o.leaves_qty), TRUE)
        ELSE Ack(Insert(b, [accepted EXCEPT !.status = "New"]),
                 [accepted EXCEPT !.status = "New", !.exch_timestamp = ts], FALSE)

AckNew(b, o, ts) ==
    LET accepted == [o EXCEPT !.req = "None"]
        best == exch_depth.best[Opposite(o.side)]
        market == o.order_type = "Market"
        meets == Crosses(o.side, o.price_tick, best)
        takes == market \/ (meets /\ o.time_in_force # "GTX")
        rests == ~market /\ ~meets /\ o.time_in_force \in {"GTC", "GTX"}
        resting == [accepted EXCEPT !.status = "New", !.exch_timestamp = ts,
                                    !.q = exch_depth.qty[o.side][o.price_tick]]
    IN  IF o.order_id \in Ids(b) THEN Reject(b, o, ts)
        ELSE IF takes THEN Ack(b, Fill(accepted, ts, best, o.leaves_qty),
                               o.status \notin Terminal)
        ELSE IF rests THEN Ack(Insert(b, resting), resting, FALSE)
        ELSE Ack(b, [accepted EXCEPT !.status = "Expired", !.exch_timestamp = ts], FALSE)

AckCancel(b, o, ts) ==
    IF o.order_id \notin Ids(b) THEN Reject(b, o, ts)
    ELSE Ack(Withdraw(b, {o.order_id}),
             [b.orders[o.order_id] EXCEPT !.req = "None", !.status = "Canceled",
                                          !.exch_timestamp = ts], FALSE)

\* A new price or a larger quantity cancels the order and enters it again; else
\* the resting order and the response are amended where they are.
AckModify(b, o, ts) ==
    LET resting == b.orders[o.order_id]
        amended == [resting EXCEPT !.qty = o.qty, !.leaves_qty = o.qty,
                                   !.exch_timestamp = ts, !.status = "New"]
    IN  IF o.order_id \notin Ids(b) THEN Reject(b, o, ts)
        ELSE IF resting.price_tick # o.price_tick \/ o.qty > resting.leaves_qty
             THEN AckNew(AckCancel(b, o, ts).book, o, ts)
        ELSE Ack(Replace(b, [id \in {o.order_id} |-> amended]),
                 [o EXCEPT !.leaves_qty = o.qty, !.exch_timestamp = ts,
                           !.status = "New"], FALSE)

Acknowledge(b, o, ts) ==
    CASE o.req = "New" -> AckNew(b, o, ts)
      [] o.req = "Canceled" -> AckCancel(b, o, ts)
      [] o.req = "Replaced" -> AckModify(b, o, ts)

\* One turn of the loop of process_recv_order; the loop itself is the caller's.
ProcessRequest(ts) ==
    LET ack == Acknowledge(book, Head(to_exch).order, ts)
    IN  /\ to_exch' = Tail(to_exch)
        /\ book' = ack.book
        /\ exch_pos' = IF ack.executed THEN ApplyFill(exch_pos, ack.order) ELSE exch_pos
        /\ \E lat \in ResponseLatencies :
              Respond(<<ack.order>>, ack.order.exch_timestamp, lat)
        /\ UNCHANGED exch_depth

-----------------------------------------------------------------------------
ExchInit(openings) ==
    /\ exch_depth \in openings
    /\ book = EmptyBook
    /\ exch_pos = [id \in OrderIds |-> 0]

=============================================================================
