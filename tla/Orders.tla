------------------------------- MODULE Orders -------------------------------
(***************************************************************************)
(* The vocabulary of include/hbt/types.hpp and of                          *)
(* include/hbt/depth/market_depth.hpp: sides, statuses, the Order record   *)
(* and the tick sentinels.                                                 *)
(*                                                                         *)
(* Prices are ticks 1..NTicks; the sentinels INT64_MIN and INT64_MAX are   *)
(* the two integers just outside that range, which keeps every comparison  *)
(* the code makes with them.  Quantities are naturals in some unit of      *)
(* which a lot holds LotSize, so that a quantity below half a lot, which   *)
(* the code rounds to zero lots, can be represented.                       *)
(***************************************************************************)
EXTENDS Integers, FiniteSets

CONSTANTS
    OrderIds,     \* the order ids a strategy uses
    NTicks,       \* prices are 1..NTicks
    LotSize       \* units of quantity in one lot

ASSUME OrdersAssumption ==
    /\ IsFiniteSet(OrderIds)
    /\ NTicks \in Nat \ {0}
    /\ LotSize \in Nat \ {0}

Ticks == 1..NTicks
INVALID_MIN == 0
INVALID_MAX == NTicks + 1

\* round(q / lot_size) for q >= 0, halves away from zero as std::round does.
Lots(q) == (2 * q + LotSize) \div (2 * LotSize)

(***************************************************************************)
(* The two sides of the book are mirror images in the code, which spells   *)
(* each of them out.  Here every definition takes the side: a is a better  *)
(* price than b for side s when it comes first in that side's book.        *)
(***************************************************************************)
Sides == {"Buy", "Sell"}
Opposite(s) == IF s = "Buy" THEN "Sell" ELSE "Buy"
Sign(s) == IF s = "Buy" THEN 1 ELSE -1
Better(s, a, b) == IF s = "Buy" THEN a > b ELSE a < b

\* "No best price" of side s: INVALID_MIN for bids, INVALID_MAX for asks.
NoBest(s) == IF s = "Buy" THEN INVALID_MIN ELSE INVALID_MAX

\* A price p of side s meets the best price b of the opposite side.
Crosses(s, p, b) == p = b \/ Better(s, p, b)

Smaller(a, b) == IF a < b THEN a ELSE b
Larger(a, b) == IF a > b THEN a ELSE b

(***************************************************************************)
(* Orders.                                                                 *)
(***************************************************************************)
Statuses == {"None", "New", "Expired", "Filled", "Canceled",
             "PartiallyFilled", "Rejected", "Replaced"}

\* The statuses clear_inactive_orders forgets and fill refuses to touch.
Terminal == {"Expired", "Filled", "Canceled"}
Working == {"New", "PartiallyFilled"}

OrdTypes == {"Limit", "Market"}
TimesInForce == {"GTC", "GTX", "FOK", "IOC"}

\* Order<Q>.  The field q is the queue model's scratch; it is 0 in every order
\* that the code declares as Order<std::monostate>.
Order == [order_id : OrderIds,
          side : Sides,
          order_type : OrdTypes,
          time_in_force : TimesInForce,
          price_tick : Ticks,
          qty : Nat,
          leaves_qty : Nat,
          exec_qty : Nat,
          exec_price_tick : INVALID_MIN..INVALID_MAX,
          status : Statuses,
          req : Statuses,
          local_timestamp : Nat,
          exch_timestamp : Nat,
          q : Int]

\* A map from some of the order ids to their orders.
IsOrderMap(orders) ==
    /\ DOMAIN orders \subseteq OrderIds
    /\ orders = [id \in DOMAIN orders |-> orders[id]]
    /\ \A id \in DOMAIN orders : orders[id] \in Order /\ orders[id].order_id = id

\* The constructor of an order the strategy submits, with nothing executed.
MakeOrder(id, s, tick, quantity, type, tif) ==
    [order_id |-> id, side |-> s, order_type |-> type, time_in_force |-> tif,
     price_tick |-> tick, qty |-> quantity, leaves_qty |-> quantity,
     exec_qty |-> 0, exec_price_tick |-> 0, status |-> "None",
     req |-> "None", local_timestamp |-> 0, exch_timestamp |-> 0, q |-> 0]

Active(o) == o.status \in Working
Pending(o) == o.req # "None"
Cancellable(o) == Active(o) /\ ~Pending(o)

\* Mutant of Update: the status of the response is not taken over.
Update_KeepsStatus(o, resp) ==
    [resp EXCEPT !.local_timestamp = o.local_timestamp,
                 !.status = o.status]

\* Order::update: the local order takes every field of the response except its
\* own local timestamp, and the exchange timestamp only when there is one.
Update(o, resp) ==
    [resp EXCEPT !.local_timestamp = o.local_timestamp,
                 !.exch_timestamp = IF resp.exch_timestamp > 0
                                    THEN resp.exch_timestamp
                                    ELSE o.exch_timestamp]

\* State::apply_fill.  The code accumulates the position over all orders; pos
\* keeps it per order id, and the position is the sum.  ApplyFills is apply_fill
\* called for every order of the function `fills` from ids to orders.
ApplyFill(pos, o) == [pos EXCEPT ![o.order_id] = @ + Sign(o.side) * o.exec_qty]
ApplyFills(pos, fills) ==
    [id \in DOMAIN pos |->
       IF id \in DOMAIN fills THEN pos[id] + Sign(fills[id].side) * fills[id].exec_qty
                              ELSE pos[id]]

\* Mutant of ToPlain: the scratch stays in the order.
ToPlain_KeepsScratch(o) == o

\* Order::to_plain: the order without the queue model's scratch.
ToPlain(o) == [o EXCEPT !.q = 0]

=============================================================================
