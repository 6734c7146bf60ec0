------------------------------ MODULE Trading ------------------------------
(***************************************************************************)
(* One asset of the backtest: the strategy, its local processor, the two   *)
(* order buses and the exchange processor, driven by the dispatch loop of  *)
(* Backtest::do_goto (include/hbt/backtest/backtest.hpp).                  *)
(*                                                                         *)
(* The program is one thread.  The strategy has the turn (phase "bot") and *)
(* calls into its local processor at the current time; it then calls       *)
(* elapse, wait_* or close, and the loop handles what is scheduled in the  *)
(* order of timestamps, ties in the order of the EventSet's slots: order   *)
(* responses, exchange feed, order requests.  elapse and wait_* hand the   *)
(* turn back when everything up to their target time is handled (phase     *)
(* "run"), close when nothing is left (phase "close").  The local feed     *)
(* changes nothing that is modelled here.                                  *)
(*                                                                         *)
(* The feed is not fixed in advance: each of its events is chosen when it  *)
(* is handled, at a time the loop may still handle feed at.                *)
(***************************************************************************)
EXTENDS Exchange, Local

CONSTANTS
    OrderKinds,     \* <<order type, time in force>> of the orders submitted
    OrderQtys,      \* quantities of orders
    FeedQtys,       \* quantities of depth updates and trades
    FeedKinds,      \* subset of {"depth", "trade", "clear"}
    Openings,       \* books the exchange may have before the first request
    Requests,       \* subset of {"cancel", "reprice", "resize", "clear"}: what
                    \* the strategy does besides submitting orders
    Careful,        \* the strategy asks cancellable() before it cancels or modifies
    MaxTs,          \* bound: the time of the last feed event and of the last turn
    MaxRequests,    \* bound: requests made
    MaxEvents       \* bound: feed events

ASSUME TradingAssumption ==
    /\ OrderKinds \subseteq OrdTypes \X TimesInForce
    /\ OrderQtys \subseteq Nat
    /\ FeedQtys \subseteq Nat
    /\ Openings \subseteq Depth
    /\ Careful \in BOOLEAN
    /\ MaxTs \in Nat /\ MaxRequests \in Nat /\ MaxEvents \in Nat

VARIABLES
    phase,         \* "bot", "run", "close" or "closed"
    receiving,     \* the exchange is inside the loop of process_recv_order
    feed_ts,       \* the feed has nothing left before this time
    requests,      \* requests made so far
    events         \* feed events handled so far

engineVars == <<phase, receiving, feed_ts>>
vars == <<cur_ts, busVars, exchVars, localVars, engineVars, requests, events>>

Init ==
    /\ cur_ts = 1
    /\ to_exch = <<>> /\ to_local = <<>>
    /\ ExchInit(Openings)
    /\ LocalInit
    /\ phase = "bot" /\ receiving = FALSE /\ feed_ts = 2
    /\ requests = 0 /\ events = 0

-----------------------------------------------------------------------------
(* The strategy's turn.                                                     *)

Asks ==
    /\ phase = "bot"
    /\ requests < MaxRequests
    /\ requests' = requests + 1
    /\ UNCHANGED <<cur_ts, exchVars, engineVars, events>>

MayTouch(id) == id \in Known /\ (Careful => Cancellable(local_orders[id]))

BotSubmits ==
    /\ Asks
    /\ \E id \in OrderIds, s \in Sides, tick \in Ticks, quantity \in OrderQtys,
          kind \in OrderKinds, lat \in EntryLatencies :
          SubmitOrder(id, s, tick, quantity, kind[1], kind[2], cur_ts, lat)

BotCancels ==
    /\ "cancel" \in Requests
    /\ Asks
    /\ \E id \in OrderIds, lat \in EntryLatencies :
          MayTouch(id) /\ Cancel(id, cur_ts, lat)

BotReprices ==
    /\ "reprice" \in Requests
    /\ Asks
    /\ \E id \in OrderIds, tick \in Ticks, lat \in EntryLatencies :
          /\ MayTouch(id)
          /\ tick # local_orders[id].price_tick
          /\ Modify(id, tick, local_orders[id].qty, cur_ts, lat)

BotResizes ==
    /\ "resize" \in Requests
    /\ Asks
    /\ \E id \in OrderIds, quantity \in OrderQtys, lat \in EntryLatencies :
          /\ MayTouch(id)
          /\ Modify(id, local_orders[id].price_tick, quantity, cur_ts, lat)

BotClears ==
    /\ "clear" \in Requests
    /\ phase = "bot"
    /\ ClearInactiveOrders
    /\ UNCHANGED <<cur_ts, exchVars, engineVars, requests, events>>

Waits ==
    /\ phase = "bot"
    /\ phase' \in {"run", "close"}
    /\ UNCHANGED <<cur_ts, busVars, exchVars, localVars, receiving, feed_ts,
                   requests, events>>

-----------------------------------------------------------------------------
(* The dispatch loop.                                                       *)

Running == phase \in {"run", "close"}

\* LocalOrder slot.
LocalReceives ==
    /\ Running /\ ~receiving
    /\ to_local # <<>>
    /\ NoneBefore(to_exch, Head(to_local).ts)
    /\ cur_ts' = Head(to_local).ts
    /\ feed_ts' = Larger(feed_ts, cur_ts')
    /\ ProcessResponse
    /\ UNCHANGED <<exchVars, phase, receiving, requests, events>>

\* ExchOrder slot.  process_recv_order takes all the requests due at one time
\* before anything else runs; each is a step, with `receiving` set in between.
ExchangeReceives ==
    /\ Running
    /\ to_exch # <<>>
    /\ receiving \/ NoneUpto(to_local, Head(to_exch).ts)
    /\ cur_ts' = Head(to_exch).ts
    /\ feed_ts' = cur_ts' + 1
    /\ ProcessRequest(cur_ts')
    /\ receiving' = DueAt(to_exch', cur_ts')
    /\ UNCHANGED <<localVars, phase, requests, events>>

\* ExchData slot.
FeedTurn ==
    /\ Running /\ ~receiving
    /\ events < MaxEvents
    /\ events' = events + 1
    /\ cur_ts' \in feed_ts..MaxTs
    /\ NoneUpto(to_local, cur_ts')
    /\ NoneBefore(to_exch, cur_ts')
    /\ feed_ts' = cur_ts'
    /\ UNCHANGED <<localVars, phase, receiving, requests>>

FeedDepth ==
    /\ "depth" \in FeedKinds
    /\ FeedTurn
    /\ \E s \in Sides, tick \in Ticks, quantity \in FeedQtys \cup {0} :
          ProcessDepth(s, tick, quantity, cur_ts')

FeedTrade ==
    /\ "trade" \in FeedKinds
    /\ FeedTurn
    /\ \E s \in Sides, tick \in Ticks, quantity \in FeedQtys :
          ProcessTrade(s, tick, quantity, cur_ts')

FeedClear ==
    /\ "clear" \in FeedKinds
    /\ FeedTurn
    /\ \/ \E s \in Sides, cut \in Ticks : ProcessClear(ClearUpto(exch_depth, s, cut))
       \/ \E s \in Sides : ProcessClear(ClearSide(exch_depth, s))
       \/ ProcessClear(EmptyDepth)

\* elapse and wait_* return at their target time, with nothing due up to it.
Returns ==
    /\ phase = "run" /\ ~receiving
    /\ phase' = "bot"
    /\ cur_ts' \in {cur_ts} \cup cur_ts..MaxTs
    /\ NoneUpto(to_local, cur_ts')
    /\ NoneUpto(to_exch, cur_ts')
    /\ feed_ts' = cur_ts' + 1
    /\ UNCHANGED <<busVars, exchVars, localVars, receiving, requests, events>>

\* Mutant of Closes: the responses still on their way are not waited for.
Closes_LosesResponses ==
    /\ phase = "close" /\ to_exch = <<>>
    /\ phase' = "closed"
    /\ UNCHANGED <<cur_ts, busVars, exchVars, localVars, receiving, feed_ts,
                   requests, events>>

\* close returns when every slot of the EventSet is empty; the program ends.
Closes ==
    /\ phase = "close" /\ to_exch = <<>> /\ to_local = <<>>
    /\ phase' = "closed"
    /\ UNCHANGED <<cur_ts, busVars, exchVars, localVars, receiving, feed_ts,
                   requests, events>>

Ended == phase = "closed" /\ UNCHANGED vars

-----------------------------------------------------------------------------
Next ==
    \/ BotSubmits \/ BotCancels \/ BotReprices \/ BotResizes \/ BotClears
    \/ Waits
    \/ LocalReceives \/ ExchangeReceives
    \/ FeedDepth \/ FeedTrade \/ FeedClear
    \/ Returns \/ Closes \/ Ended

Spec == Init /\ [][Next]_vars

\* close() runs the loop to its end: what is scheduled is handled.
Fairness == WF_vars(LocalReceives) /\ WF_vars(ExchangeReceives) /\ WF_vars(Closes)
FairSpec == Spec /\ Fairness

-----------------------------------------------------------------------------
(* Properties.                                                              *)

\* Types of the whole state.
TypeOK ==
    /\ cur_ts \in Nat
    /\ to_exch \in Seq(Entry) /\ to_local \in Seq(Entry)
    /\ exch_depth \in Depth
    /\ IsBook(book)
    /\ exch_pos \in [OrderIds -> Int]
    /\ IsOrderMap(local_orders)
    /\ local_pos \in [OrderIds -> Int]
    /\ phase \in {"bot", "run", "close", "closed"}
    /\ receiving \in BOOLEAN
    /\ feed_ts \in Nat
    /\ requests \in 0..MaxRequests /\ events \in 0..MaxEvents

Sorted(bus) == \A i, j \in 1..Len(bus) : i <= j => bus[i].ts <= bus[j].ts

\* The asserts of ExchToLocal::receive and LocalToExch::receive: the loop never
\* passes the time of an order that is still on a bus, whatever the latencies.
BusesAhead ==
    /\ Sorted(to_exch) /\ Sorted(to_local)
    /\ NoneBefore(to_exch, cur_ts) /\ NoneBefore(to_local, cur_ts)

\* orders_ and the two price indexes of the exchange hold the same orders, so
\* that orders_.at in the handlers finds what an index names, and a range scan
\* misses no order.
IndexConsistent == Indexed(book)

\* No resting order meets the best price of the other side: such an order was
\* filled on arrival, or when the price came to it ("price >= best_ask -> taker
\* fill").  The range scans of the trade handlers start behind the best price
\* and rely on it.
NoRestingCross ==
    \A id \in Ids(book) :
        LET o == book.orders[id]
        IN  ~Crosses(o.side, o.price_tick, exch_depth.best[Opposite(o.side)])

\* What a response on its way will add to the position in order id.
FillOf(o, id) ==
    IF o.order_id = id /\ o.req # "Rejected" /\ o.status \in {"Filled", "PartiallyFilled"}
    THEN Sign(o.side) * o.exec_qty ELSE 0

\* What the first n entries of a bus will add, n from 0 to its length.
FillsUpto(bus, id) ==
    LET total[n \in 0..Len(bus)] ==
          IF n = 0 THEN 0 ELSE total[n - 1] + FillOf(bus[n].order, id)
    IN  total

FillsInFlight(id) == FillsUpto(to_local, id)[Len(to_local)]

\* The strategy's position is the exchange's, once the fills on their way are
\* counted: every execution is applied to the local State exactly once.
PositionsAgree ==
    \A id \in OrderIds : exch_pos[id] = local_pos[id] + FillsInFlight(id)

\* An order the strategy sees as expired, filled or canceled does not rest at the
\* exchange: clear_inactive_orders forgets no order that can still be executed.
NoZombie ==
    \A id \in Known :
        local_orders[id].status \in Terminal => id \notin Ids(book)

\* A response that is not a rejection names an order the strategy knows and does
\* not see as done, so that a done order never comes back to life.
NoOrphanResponse ==
    \A i \in 1..Len(to_local) :
        LET o == to_local[i].order
        IN  o.req # "Rejected" =>
              o.order_id \in Known /\ local_orders[o.order_id].status \notin Terminal

Concerns(bus, id) == \E i \in 1..Len(bus) : bus[i].order.order_id = id

\* When nothing about an order is on a bus, both sides agree on it: it works at
\* the strategy exactly when it rests, at the same price and quantities.
ViewsAgree ==
    \A id \in OrderIds :
        Concerns(to_exch, id) \/ Concerns(to_local, id) \/
        IF id \in Ids(book)
        THEN /\ id \in Known
             /\ \A field \in {"side", "price_tick", "qty", "leaves_qty", "status"} :
                   local_orders[id][field] = book.orders[id][field]
        ELSE id \in Known => ~Active(local_orders[id])

\* An order the strategy sees as pending ("order request in process") has its
\* request on the way, or a response that ends the wait.
PendingHasReply ==
    \A id \in Known : Pending(local_orders[id]) =>
        \/ \E i \in 1..Len(to_exch) :
              /\ to_exch[i].order.order_id = id
              /\ to_exch[i].order.local_timestamp = local_orders[id].local_timestamp
        \/ \E i \in 1..Len(to_local) :
              LET o == to_local[i].order
              IN  /\ o.order_id = id
                  /\ o.req = "Rejected" =>
                        o.local_timestamp = local_orders[id].local_timestamp

\* What was executed and what is left of a resting order make up its quantity
\* (for ids that are not used twice).
FillsConserved ==
    \A id \in Ids(book) :
        LET o == book.orders[id]
        IN  Sign(o.side) * exch_pos[id] + o.leaves_qty = o.qty

\* No order is executed for more than its quantity (same proviso).
NoOverfill ==
    \A id \in Known :
        Sign(local_orders[id].side) * exch_pos[id] <= local_orders[id].qty

\* An order that the strategy sees as filled was executed for its quantity, up to
\* a rest that is not worth a lot: partial fills, which are in whole lots as long as
\* the order has so much left, neither end it early nor are lost (same proviso).
FilledUpToHalfALot ==
    \A id \in Known :
        LET o == local_orders[id]
        IN  o.status = "Filled" => 2 * (o.qty - Sign(o.side) * exch_pos[id]) < LotSize

\* A limit order is executed at its limit or better, whatever its price was
\* changed to before.
LimitHonoured ==
    \A i \in 1..Len(to_local) :
        LET o == to_local[i].order
        IN  /\ o.req # "Rejected"
            /\ o.order_type = "Limit"
            /\ o.status \in {"Filled", "PartiallyFilled"}
            => ~Better(o.side, o.exec_price_tick, o.price_tick)

\* A trade fills every order it goes through, whether the handler visits all the
\* orders of the side or only the ticks behind the best price.
TradesSweep ==
    [][events' # events /\ exch_depth' = exch_depth =>
         \A s \in Sides, tick \in Ticks, quantity \in FeedQtys :
            ProcessTrade(s, tick, quantity, cur_ts') =>
               \A id \in Ids(book') :
                  book'.orders[id].side = s => ~Through(book'.orders[id], tick)]_vars

\* close() comes to its end, and then no order waits for an answer.
CloseSettles ==
    phase = "close" ~>
        (phase = "closed" /\ \A id \in Known : ~Pending(local_orders[id]))

=============================================================================
