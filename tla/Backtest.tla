------------------------------ MODULE Backtest ------------------------------
(***************************************************************************)
(* The engine (include/hbt/backtest/backtest.hpp) with the scheduler it    *)
(* reads (include/hbt/backtest/event_set.hpp): several assets, the array   *)
(* of slots, the calls of the strategy with their targets and results, and *)
(* the dispatch loop do_goto.                                              *)
(*                                                                         *)
(* Processors are reduced to what the loop sees of them: when their feed   *)
(* has its next row, and what is on the two order buses.  A message on a   *)
(* bus is an order id and the time it is received at.  The processors      *)
(* themselves are modelled in Exchange and Local.                          *)
(***************************************************************************)
EXTENDS Integers, Sequences

CONSTANTS
    NAssets,            \* assets are numbered from 0
    OrderIds,
    EntryLatencies,     \* a negative one means the request is rejected
    ResponseLatencies,
    Durations,          \* what elapse is called with
    INT64_MAX,          \* the time of an empty slot; UNTIL_END_OF_DATA
    Feeds,              \* how many rows each feed of each asset may have
    MaxTs,              \* bound: the time of the last row, and of the last request
    MaxRequests         \* bound: requests made

ASSUME BacktestAssumption ==
    /\ NAssets \in Nat \ {0}
    /\ EntryLatencies \subseteq Int
    /\ ResponseLatencies \subseteq Nat
    /\ Durations \subseteq Nat
    /\ MaxTs \in Nat /\ MaxRequests \in Nat
    /\ INT64_MAX \in Nat

Assets == 0..(NAssets - 1)

(***************************************************************************)
(* EventSet: four slots for each asset in one flat array.                  *)
(***************************************************************************)
Slots == 0..(4 * NAssets - 1)
LocalData(a) == 4 * a
LocalOrder(a) == 4 * a + 1
ExchData(a) == 4 * a + 2
ExchOrder(a) == 4 * a + 3
DataSlots == {LocalData(a) : a \in Assets} \cup {ExchData(a) : a \in Assets}

ASSUME FeedsAssumption == Feeds \subseteq [DataSlots -> Nat]

VARIABLES
    evs,          \* EventSet::ts_
    rows,         \* rows of the feed in a data slot, the one in the slot included
    to_exch,      \* per asset: requests, local -> exchange
    to_local,     \* per asset: responses, exchange -> local
    resting,      \* per asset: the orders the exchange may still fill
    cur_ts,       \* cur_ts_
    phase,        \* "bot" when the strategy has the turn, "run" in do_goto
    call,         \* the call of do_goto: its mode, wait_resp and target_ts
    result,       \* what the call returns
    requests,     \* requests made so far
    fed,          \* history: when this call handled a local feed row, or 0
    answered,     \* history: when this call first handled a response it waits for, or 0
    expected      \* history: such a response was coming when this call began

busVars == <<to_exch, to_local, resting>>
historyVars == <<fed, answered, expected>>
vars == <<evs, rows, busVars, cur_ts, phase, call, result, requests, historyVars>>

Larger(a, b) == IF a > b THEN a ELSE b

\* OrderBus::append for the orders ids in turn, all of them to be received at ts or
\* when the last one before is; earliest_timestamp, INT64_MAX for an empty bus.
LatestTs(bus) == IF bus = <<>> THEN 0 ELSE bus[Len(bus)].ts
Scheduled(bus, id, ts) == [id |-> id, ts |-> Larger(ts, LatestTs(bus))]
Appended(bus, ids, ts) == bus \o [i \in 1..Len(ids) |-> Scheduled(bus, ids[i], ts)]
Earliest(bus) == IF bus = <<>> THEN INT64_MAX ELSE Head(bus).ts

\* The loop of process_recv_order takes the first n messages: those received at ts.
IsBatch(bus, ts, n) ==
    /\ n \in 0..Len(bus)
    /\ \A i \in 1..n : bus[i].ts = ts
    /\ n < Len(bus) => bus[n + 1].ts # ts

Without(bus, n) == SubSeq(bus, n + 1, Len(bus))

\* Mutant of IsNext: ties go to the last slot.
IsNext_LastOfTies(i) ==
    /\ evs[i] < INT64_MAX
    /\ \A j \in Slots : evs[i] < evs[j] \/ (evs[i] = evs[j] /\ j <= i)

\* EventSet::next gives slot i: the earliest, and the first of several.
IsNext(i) ==
    /\ evs[i] < INT64_MAX
    /\ \A j \in Slots : evs[i] < evs[j] \/ (evs[i] = evs[j] /\ i <= j)

NothingScheduled == \A i \in Slots : evs[i] >= INT64_MAX

\* Mutant of NextRowTimes: the end of the feed is seen one row late.
NextRowTimes_OneMore(i) == IF rows[i] = 0 THEN {INT64_MAX} ELSE evs[i]..MaxTs

\* ProcessorState::advance: when the row behind the one in slot i is due, which is
\* not earlier.  A feed is not fixed in advance; each row's time is chosen here.
NextRowTimes(i) == IF rows[i] <= 1 THEN {INT64_MAX} ELSE evs[i]..MaxTs

\* The state after ensure_initialized: both feeds of every asset have advanced to
\* their first row, and time is that of the first event.
Init ==
    /\ rows \in Feeds
    /\ evs \in [Slots -> 1..MaxTs \cup {INT64_MAX}]
    /\ \A i \in Slots : evs[i] = INT64_MAX <=> (i \in DataSlots => rows[i] = 0)
    /\ \E i \in Slots : IsNext(i) /\ cur_ts = evs[i]
    /\ to_exch = [a \in Assets |-> <<>>]
    /\ to_local = [a \in Assets |-> <<>>]
    /\ resting = [a \in Assets |-> {}]
    /\ phase = "bot"
    /\ call = [feed |-> FALSE, awaits |-> {}, target |-> 0]
    /\ result = "Ok"
    /\ requests = 0
    /\ fed = 0 /\ answered = 0 /\ expected = FALSE

-----------------------------------------------------------------------------
(* The strategy's turn.                                                     *)

\* A response the strategy waits for is on its way, or a request for it.
Coming(awaits) ==
    \E a \in Assets :
        \/ \E i \in 1..Len(to_exch'[a]) : <<a, to_exch'[a][i].id>> \in awaits
        \/ \E i \in 1..Len(to_local'[a]) : <<a, to_local'[a][i].id>> \in awaits

\* The slots of both buses of every asset are set when do_goto is entered.
Preloaded ==
    [i \in Slots |->
        CASE i % 4 = 1 -> Earliest(to_local'[i \div 4])
          [] i % 4 = 3 -> Earliest(to_exch'[i \div 4])
          [] OTHER -> evs[i]]

\* do_goto<feed>(target, wait_resp) is entered; `awaits` is what wait_resp stands
\* for: the responses, as pairs of asset and order, that end the wait.
Goto(feed, target, awaits) ==
    /\ phase' = "run"
    /\ call' = [feed |-> feed, awaits |-> awaits, target |-> target]
    /\ result' = "Ok"
    /\ evs' = Preloaded
    /\ fed' = 0 /\ answered' = 0
    /\ expected' = Coming(awaits)

NoOrder == {}
AnyOrder == Assets \X OrderIds

\* LocalToExch::request for any request, accepted or rejected on the way.
Requests(a, id, lat) ==
    /\ requests < MaxRequests
    /\ cur_ts <= MaxTs
    /\ requests' = requests + 1
    /\ IF lat < 0
       THEN /\ to_local' = [to_local EXCEPT ![a] = Appended(@, <<id>>, cur_ts - lat)]
            /\ UNCHANGED to_exch
       ELSE /\ to_exch' = [to_exch EXCEPT ![a] = Appended(@, <<id>>, cur_ts + lat)]
            /\ UNCHANGED to_local
    /\ UNCHANGED <<rows, resting, cur_ts>>

\* submit_buy_order, submit_sell_order, modify and cancel.
BotRequests ==
    /\ phase = "bot"
    /\ \E a \in Assets, id \in OrderIds, lat \in EntryLatencies : Requests(a, id, lat)
    /\ UNCHANGED <<evs, phase, call, result, historyVars>>

\* submit_buy_order and submit_sell_order with wait.
BotRequestsAndWaits ==
    /\ phase = "bot"
    /\ \E a \in Assets, id \in OrderIds, lat \in EntryLatencies :
          Requests(a, id, lat) /\ Goto(FALSE, INT64_MAX, {<<a, id>>})

Calls(feed, target, awaits) ==
    /\ phase = "bot"
    /\ UNCHANGED <<rows, busVars, cur_ts, requests>>
    /\ Goto(feed, target, awaits)

\* elapse and elapse_bt.
Elapse == \E duration \in Durations : Calls(FALSE, cur_ts + duration, NoOrder)

\* wait_next_feed: any_order counts only without any_data.
WaitNextFeed ==
    \E any_data, any_order \in BOOLEAN :
        Calls(any_data, INT64_MAX, IF any_order /\ ~any_data THEN AnyOrder ELSE NoOrder)

WaitOrderResponse ==
    \E a \in Assets, id \in OrderIds : Calls(FALSE, INT64_MAX, {<<a, id>>})

Close == Calls(FALSE, INT64_MAX, NoOrder)

-----------------------------------------------------------------------------
(* do_goto.                                                                 *)

\* The loop takes slot i.
Takes(i) ==
    /\ phase = "run"
    /\ IsNext(i)
    /\ evs[i] <= call.target
    /\ cur_ts' = evs[i]
    /\ UNCHANGED <<phase, requests>>

HandlesLocalData(a) ==
    /\ Takes(LocalData(a))
    /\ rows' = [rows EXCEPT ![LocalData(a)] = @ - 1]
    /\ \E ts \in NextRowTimes(LocalData(a)) : evs' = [evs EXCEPT ![LocalData(a)] = ts]
    /\ call' = IF call.feed THEN [call EXCEPT !.target = cur_ts'] ELSE call
    /\ result' = IF call.feed THEN "MarketFeed" ELSE result
    /\ fed' = IF fed = 0 THEN cur_ts' ELSE fed
    /\ UNCHANGED <<busVars, answered, expected>>

\* Mutant of Stops: the asset of the awaited order is not looked at.
Stops_AnyAsset(a, n) ==
    \E b \in Assets, i \in 1..n : <<b, to_local[a][i].id>> \in call.awaits

\* Among the first n responses of asset a is one the strategy waits for.
Stops(a, n) == \E i \in 1..n : <<a, to_local[a][i].id>> \in call.awaits

\* Mutant of HandlesLocalOrder: the slot keeps the time of the batch.
HandlesLocalOrder_KeepsSlot(a) ==
    /\ Takes(LocalOrder(a))
    /\ \E n \in 0..Len(to_local[a]) :
          /\ IsBatch(to_local[a], cur_ts', n)
          /\ to_local' = [to_local EXCEPT ![a] = Without(@, n)]
    /\ UNCHANGED <<evs, rows, to_exch, resting, call, result, historyVars>>

HandlesLocalOrder(a) ==
    /\ Takes(LocalOrder(a))
    /\ \E n \in 0..Len(to_local[a]) :
          /\ IsBatch(to_local[a], cur_ts', n)
          /\ to_local' = [to_local EXCEPT ![a] = Without(@, n)]
          /\ call' = IF Stops(a, n) THEN [call EXCEPT !.target = cur_ts'] ELSE call
          /\ result' = IF Stops(a, n) /\ call.feed THEN "OrderResponse" ELSE result
          /\ answered' = IF answered = 0 /\ \E i \in 1..n : <<a, to_local[a][i].id>> \in call.awaits
                         THEN cur_ts' ELSE answered
    /\ evs' = [evs EXCEPT ![LocalOrder(a)] = Earliest(to_local'[a])]
    /\ UNCHANGED <<rows, to_exch, resting, fed, expected>>

\* A feed event of the exchange may fill resting orders, each wholly or in part:
\* those in `done` stop resting.
HandlesExchData(a) ==
    /\ Takes(ExchData(a))
    /\ rows' = [rows EXCEPT ![ExchData(a)] = @ - 1]
    /\ \E n \in 0..requests, lat \in ResponseLatencies : \E ids \in [1..n -> resting[a]] :
          /\ \A i, j \in 1..n : ids[i] = ids[j] => i = j
          /\ to_local' = [to_local EXCEPT ![a] = Appended(@, ids, cur_ts' + lat)]
          /\ \E done \in SUBSET {ids[i] : i \in 1..n} :
                resting' = [resting EXCEPT ![a] = @ \ done]
    /\ \E ts \in NextRowTimes(ExchData(a)) :
          evs' = [evs EXCEPT ![ExchData(a)] = ts,
                             ![LocalOrder(a)] = Earliest(to_local'[a])]
    /\ UNCHANGED <<to_exch, call, result, historyVars>>

\* Mutant of HandlesExchOrder: the slot of the responses is not refreshed.
HandlesExchOrder_NoRefresh(a) ==
    /\ Takes(ExchOrder(a))
    /\ \E n \in 0..Len(to_exch[a]), lat \in ResponseLatencies :
          LET ids == [i \in 1..n |-> to_exch[a][i].id]
          IN  /\ IsBatch(to_exch[a], cur_ts', n)
              /\ to_exch' = [to_exch EXCEPT ![a] = Without(@, n)]
              /\ to_local' = [to_local EXCEPT ![a] = Appended(@, ids, cur_ts' + lat)]
    /\ evs' = [evs EXCEPT ![ExchOrder(a)] = Earliest(to_exch'[a])]
    /\ UNCHANGED <<rows, resting, call, result, historyVars>>

\* Every request of the batch is answered; the orders in `working` rest then.
HandlesExchOrder(a) ==
    /\ Takes(ExchOrder(a))
    /\ \E n \in 0..Len(to_exch[a]), lat \in ResponseLatencies :
          LET ids == [i \in 1..n |-> to_exch[a][i].id]
              asked == {ids[i] : i \in 1..n}
          IN  /\ IsBatch(to_exch[a], cur_ts', n)
              /\ to_exch' = [to_exch EXCEPT ![a] = Without(@, n)]
              /\ to_local' = [to_local EXCEPT ![a] = Appended(@, ids, cur_ts' + lat)]
              /\ \E working \in SUBSET asked :
                    resting' = [resting EXCEPT ![a] = (@ \ asked) \cup working]
    /\ evs' = [evs EXCEPT ![ExchOrder(a)] = Earliest(to_exch'[a]),
                          ![LocalOrder(a)] = Earliest(to_local'[a])]
    /\ UNCHANGED <<rows, call, result, historyVars>>

\* Mutant of Returns: the end of data hides a row that was handled.
Returns_AlwaysEndOfData ==
    /\ phase = "run"
    /\ phase' = "bot"
    /\ \/ /\ NothingScheduled
          /\ result' = "EndOfData"
          /\ UNCHANGED cur_ts
       \/ /\ \E i \in Slots : IsNext(i) /\ evs[i] > call.target
          /\ cur_ts' = call.target
          /\ UNCHANGED result
    /\ UNCHANGED <<evs, rows, busVars, call, requests, historyVars>>

\* do_goto returns: at its target, or with nothing scheduled at all.
Returns ==
    /\ phase = "run"
    /\ phase' = "bot"
    /\ \/ /\ NothingScheduled
          /\ result' = IF result = "Ok" THEN "EndOfData" ELSE result
          /\ UNCHANGED cur_ts
       \/ /\ \E i \in Slots : IsNext(i) /\ evs[i] > call.target
          /\ cur_ts' = call.target
          /\ UNCHANGED result
    /\ UNCHANGED <<evs, rows, busVars, call, requests, historyVars>>

Loop ==
    \/ \E a \in Assets : \/ HandlesLocalData(a) \/ HandlesLocalOrder(a)
                         \/ HandlesExchData(a) \/ HandlesExchOrder(a)
    \/ Returns

Next ==
    \/ BotRequests \/ BotRequestsAndWaits
    \/ Elapse \/ WaitNextFeed \/ WaitOrderResponse \/ Close
    \/ Loop

Spec == Init /\ [][Next]_vars

\* A call of do_goto is a loop of the calling thread: it is not left halfway.
Fairness == WF_vars(Loop)
FairSpec == Spec /\ Fairness

-----------------------------------------------------------------------------
(* Properties.                                                              *)

Message == [id : OrderIds, ts : Nat]

\* Types of the whole state.
TypeOK ==
    /\ evs \in [Slots -> Nat]
    /\ rows \in [DataSlots -> Nat]
    /\ to_exch \in [Assets -> Seq(Message)]
    /\ to_local \in [Assets -> Seq(Message)]
    /\ resting \in [Assets -> SUBSET OrderIds]
    /\ cur_ts \in Nat
    /\ phase \in {"bot", "run"}
    /\ call \in [feed : BOOLEAN, awaits : SUBSET AnyOrder, target : Nat]
    /\ result \in {"Ok", "EndOfData", "MarketFeed", "OrderResponse"}
    /\ requests \in 0..MaxRequests
    /\ fed \in Nat /\ answered \in Nat /\ expected \in BOOLEAN

\* While the loop runs, each order slot holds what is first on its bus, though
\* four handlers and the strategy put messages there and only some lines refresh
\* the slots ("Exch->Local responses may now be scheduled").
SlotsFresh ==
    phase = "run" => \A a \in Assets :
        /\ evs[LocalOrder(a)] = Earliest(to_local[a])
        /\ evs[ExchOrder(a)] = Earliest(to_exch[a])

\* The loop implements Timeline for what is really scheduled: the rows of the
\* feeds and the messages on the buses, not the slots that stand for them.
Due == [i \in Slots |-> CASE i % 4 = 1 -> Earliest(to_local[i \div 4])
                          [] i % 4 = 3 -> Earliest(to_exch[i \div 4])
                          [] OTHER -> evs[i]]
Time == INSTANCE Timeline WITH
    Sources <- Slots, Never <- INT64_MAX,
    clock <- cur_ts, due <- Due, running <- (phase = "run")
IsTimeline == Time!Spec

Idle == \A i \in Slots : Due[i] >= INT64_MAX
Returning == phase = "run" /\ phase' = "bot"

\* A wait for a response ends at the time of the first such response on the asset
\* it names, also when others come first or the response comes with others; only
\* when none was coming may it run to the end of data.
WaitEndsAtAnswer ==
    [][Returning /\ call.awaits # NoOrder =>
         IF answered # 0 THEN cur_ts' = answered ELSE Idle /\ ~expected]_vars

\* The result tells what happened: MarketFeed exactly when the strategy waited
\* for feed and is given its turn at the time of a row; EndOfData only when
\* nothing is left, and always then if no row is reported and no response that
\* the call waited for has come.
ResultTold ==
    [][Returning =>
         /\ result' = "MarketFeed" <=> (call.feed /\ fed # 0)
         /\ result' = "MarketFeed" => cur_ts' = fed
         /\ result' = "EndOfData" => Idle
         /\ Idle /\ answered = 0 /\ result' # "MarketFeed" => result' = "EndOfData"]_vars

\* What the comment where do_goto finds nothing scheduled says: not EndOfData if an
\* event the call waits for was handled, here the response.
AnswerReported == [][Returning /\ answered # 0 => result' # "EndOfData"]_vars

\* Every call returns: the loop handles each row and each message once, and a
\* response leads to no further messages.
CallsReturn == phase = "run" ~> phase = "bot"

=============================================================================
