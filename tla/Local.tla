------------------------------- MODULE Local -------------------------------
(***************************************************************************)
(* The order side of the local processor (include/hbt/backtest/local.hpp): *)
(* the strategy's own view of its orders and of its position.  A request   *)
(* that the code refuses with an exception changes nothing and is a guard  *)
(* here.                                                                   *)
(***************************************************************************)
EXTENDS OrderBus

VARIABLES
    local_orders,    \* orders_, from the ids the strategy knows to its orders
    local_pos        \* state_, per order id

localVars == <<local_orders, local_pos>>

Known == DOMAIN local_orders

Put(orders, o) ==
    [id \in DOMAIN orders \cup {o.order_id} |->
       IF id = o.order_id THEN o ELSE orders[id]]

SubmitOrder(id, s, tick, quantity, type, tif, ts, lat) ==
    LET o == [MakeOrder(id, s, tick, quantity, type, tif) EXCEPT
                !.req = "New", !.local_timestamp = ts]
    IN  /\ id \notin Known
        /\ local_orders' = Put(local_orders, o)
        /\ Request(o, [o EXCEPT !.req = "Rejected"], lat)
        /\ UNCHANGED local_pos

\* The local order takes the new price and quantity at once; a rejection on the
\* way carries the old ones.
Modify(id, tick, quantity, ts, lat) ==
    LET old == local_orders[id]
        o == [old EXCEPT !.price_tick = tick, !.qty = quantity,
                         !.req = "Replaced", !.local_timestamp = ts]
    IN  /\ id \in Known
        /\ old.req = "None"
        /\ local_orders' = Put(local_orders, o)
        /\ Request(o, [o EXCEPT !.req = "Rejected", !.price_tick = old.price_tick,
                                !.qty = old.qty], lat)
        /\ UNCHANGED local_pos

Cancel(id, ts, lat) ==
    LET o == [local_orders[id] EXCEPT !.req = "Canceled", !.local_timestamp = ts]
    IN  /\ id \in Known
        /\ local_orders[id].req = "None"
        /\ local_orders' = Put(local_orders, o)
        /\ Request(o, [o EXCEPT !.req = "Rejected"], lat)
        /\ UNCHANGED local_pos

\* Mutant of ClearInactiveOrders: everything that is not working is forgotten.
ClearInactiveOrders_Unacknowledged ==
    /\ local_orders' = [id \in {i \in Known : Active(local_orders[i])} |->
                          local_orders[id]]
    /\ UNCHANGED <<local_pos, to_exch, to_local>>

ClearInactiveOrders ==
    /\ local_orders' = [id \in {i \in Known : local_orders[i].status \notin Terminal} |->
                          local_orders[id]]
    /\ UNCHANGED <<local_pos, to_exch, to_local>>

\* Mutant of Receive: a rejection counts for whatever request is open.
Receive_AnyRejection(mine, resp) ==
    IF resp.req # "Rejected" THEN Update(mine, resp)
    ELSE [mine EXCEPT !.req = "None",
                      !.status = IF mine.req = "New" THEN "Expired" ELSE @]

\* What a response does to the order it names.  A rejection counts only for the
\* request it answers, told by the request's local timestamp.
Receive(mine, resp) ==
    IF resp.req # "Rejected" THEN Update(mine, resp)
    ELSE IF resp.local_timestamp # mine.local_timestamp THEN mine
    ELSE [mine EXCEPT !.req = "None",
                      !.status = IF mine.req = "New" THEN "Expired" ELSE @]

\* process_recv_order for the response at the front of the bus.
ProcessResponse ==
    LET resp == Head(to_local).order
        id == resp.order_id
    IN  /\ to_local' = Tail(to_local)
        /\ local_pos' = IF resp.status \in {"Filled", "PartiallyFilled"}
                        THEN ApplyFill(local_pos, resp) ELSE local_pos
        /\ local_orders' =
              IF id \in Known THEN Put(local_orders, Receive(local_orders[id], resp))
              ELSE IF resp.req # "Rejected" THEN Put(local_orders, resp)
              ELSE local_orders
        /\ UNCHANGED to_exch

LocalInit ==
    /\ local_orders = [id \in {} |-> MakeOrder(id, "Buy", 1, 0, "Limit", "GTC")]
    /\ local_pos = [id \in OrderIds |-> 0]

=============================================================================
