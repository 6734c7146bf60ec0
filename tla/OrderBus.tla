------------------------------ MODULE OrderBus ------------------------------
(***************************************************************************)
(* The pair of order buses between a local processor and its exchange      *)
(* (include/hbt/backtest/order_bus.hpp): two FIFO queues of orders with    *)
(* the timestamp at which the other end receives them.  The latency model  *)
(* is a parameter of the code; here each use of it draws a value from      *)
(* EntryLatencies or ResponseLatencies.                                    *)
(***************************************************************************)
EXTENDS Orders, Sequences

CONSTANTS
    EntryLatencies,      \* a negative one means the request is rejected
    ResponseLatencies

ASSUME LatencyAssumption ==
    /\ EntryLatencies \subseteq Int
    /\ ResponseLatencies \subseteq Nat

VARIABLES
    cur_ts,     \* Backtest::cur_ts_
    to_exch,    \* requests, local -> exchange
    to_local    \* responses, exchange -> local

busVars == <<to_exch, to_local>>

\* What travels is an Order<std::monostate>.
Entry == [order : {o \in Order : o.q = 0}, ts : Nat]

\* OrderBus::append: an entry is never scheduled before the one in front of it.
LatestTs(bus) == IF bus = <<>> THEN 0 ELSE bus[Len(bus)].ts

\* Mutant of Scheduled: the latency alone decides.
Scheduled_NoFloor(bus, o, ts) == [order |-> o, ts |-> ts]

Scheduled(bus, o, ts) == [order |-> o, ts |-> Larger(ts, LatestTs(bus))]

\* earliest_timestamp, as "the front of the bus is due at ts" and "the bus has
\* nothing scheduled before ts" or "up to ts".
DueAt(bus, ts) == bus # <<>> /\ Head(bus).ts = ts
NoneBefore(bus, ts) == bus # <<>> => Head(bus).ts >= ts
NoneUpto(bus, ts) == bus # <<>> => Head(bus).ts > ts

\* LocalToExch::request: the order travels to the exchange, or, when the entry
\* latency is negative, its rejected form travels back to the local side.
Request(o, rejected, lat) ==
    IF lat < 0
    THEN /\ to_local' = Append(to_local,
                               Scheduled(to_local, rejected, o.local_timestamp - lat))
         /\ UNCHANGED to_exch
    ELSE /\ to_exch' = Append(to_exch,
                              Scheduled(to_exch, o, o.local_timestamp + lat))
         /\ UNCHANGED to_local

\* ExchToLocal::respond for each order of the sequence os, all of which the
\* exchange stamped ts: they reach the bus in this order, at the same time.
Respond(os, ts, lat) ==
    to_local' = to_local \o
        [i \in 1..Len(os) |-> Scheduled(to_local, ToPlain(os[i]), ts + lat)]

=============================================================================
