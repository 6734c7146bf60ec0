# A TLA+ model of hftbacktest-cpp

TLA+ modules, TLC configurations and TLAPS proofs for the event-driven
backtesting core in `src/include/hbt`. Every definition is translated from the
code; `PROJECT.json` maps each of them to its lines.

## The system

A backtest is one thread. A strategy asks its *local processor* to submit,
modify or cancel orders; requests travel over an *order bus* to the *exchange
processor*, which answers over a second bus. Both processors are also fed with
the rows of a recording, each at its own timestamp. `Backtest::do_goto` looks at
four slots per asset (local feed, responses, exchange feed, requests), takes the
earliest, and hands it to the processor it belongs to. Nothing runs in parallel,
and yet the hard questions are those of a distributed system: two copies of every
order, kept in step by delayed messages that cross each other and the feed.

| Component | State | Operations | Interacts through | What makes it correct |
|---|---|---|---|---|
| Order vocabulary (`types.hpp`) | a record per order | `update`, `to_plain`, predicates | values in both maps and on the buses | an update takes over what the exchange says, and nothing else |
| Order buses (`order_bus.hpp`) | two queues of (order, time) | `request`, `respond`, `receive` | shared by local and exchange processor | FIFO in time for every latency model; the clock never passes an entry |
| Exchange processor (`exchange.hpp`) | book depth, resting orders, price index per side, fills | feed events; new, cancel, modify | feed in, requests in, responses out | index and orders agree; fills conserve quantity; nothing rests across the spread; limits are honoured |
| Local processor (`local.hpp`) | the strategy's orders and position | `submit_order`, `modify`, `cancel`, `clear_inactive_orders`, responses | strategy, buses | its view converges to the exchange's; no fill lost or counted twice; every wait has an end |
| Fill accounting (`state.hpp`) | position, balance, fee, volume | `apply_fill` | called by both processors | each execution once on each side |
| Market depths (`hashmap_depth.hpp`, `roi_vector_depth.hpp`) | levels and best price per side | update, clear, snapshot, apply snapshot | owned by a processor | best price is the best level; not crossed by an update, nor by any event of a clean feed; two classes, one behaviour |
| Engine (`backtest.hpp`, `event_set.hpp`) | time, slots, targets | `elapse`, `wait_*`, `close` | calls everything | time order, ties in slot order, end of data reached |
| Shard cache and readers (`reader.hpp`, `ProcessorState`) | resident shards with counts, a cursor per reader | `acquire`, `release`, `next_chunk`, `advance` | two readers share one cache | each row once and in order; each shard loaded once, dropped when both are done |
| Queue models (`queue.hpp`) | a position per order | `new_order`, `trade`, `depth`, `is_filled` | called by the exchange for orders at a traded or changed price | never fill before the market would (the conservative one); never count a trade twice; stay a number |
| Latency models (`latency.hpp`) | recorded round trips | `entry`, `response` | called by the buses | rejections stay rejections; within the recorded latencies; recorded moments replayed |
| Fees, asset types, recorder, NPY input | numbers, rows, bytes | | | (not modelled, see below) |

The hard behaviours: a fill crossing a cancel or a modify; a response that comes
after the order was forgotten or its id used again; requests rejected on the way;
several requests due at the same time as responses and feed; slots of the scheduler
that stand for a bus somebody else writes to; a wait whose answer was received
already, or comes with others; the end of the run with messages still on their way; levels of the depth that the feed crossed and
never deleted; one reader of a recording far ahead of the other. `PROJECT.json`
lists them as hazards at the lines where they bite.

## Modules

| Module | Models |
|---|---|
| `Orders` | vocabulary: sides, ticks with the two sentinels, order records, positions |
| `OrderBus` | both buses; the latency model is a set of possible latencies, a negative one rejects |
| `HashMapDepth` | the member functions of the hash-map book, as operators from book to book |
| `RoiVectorDepth` | the same for the ROI-vector book |
| `L2Book` | abstract specification of a depth: the levels the feed describes, the best of them, and what is left of both when the feed crosses its levels |
| `DepthReplay` | both books fed with the same events; implements `L2Book` |
| `Exchange` | the exchange processor, on `OrderBus` and `HashMapDepth` |
| `Local` | the order side of the local processor |
| `Trading` | one asset: strategy, `Local`, buses, `Exchange`, and the dispatch loop |
| `Backtest` | the engine for several assets: the slots of the `EventSet`, the calls of the strategy with targets and results, `do_goto`; implements `Timeline` |
| `Timeline` | abstract specification of the loop: what is scheduled happens in its turn |
| `EventReader` | shard cache, readers and row cursors; implements `FlatReplay` |
| `FlatReplay` | abstract specification of the input: every reader gets the rows it sees, in order |
| `QueueModels` | both queue models, as operators on positions |
| `QueueReplay` | one order under both models beside the market that was recorded |
| `IntpLatency` | `IntpOrderLatency`, as operators giving the latencies that may come out |
| `RoundTrips` | requests and responses on two buses with those latencies |
| `MCTrading`, `MCBacktest`, `MCReader`, `MCRoundTrips` | values of constants for TLC |
| `HashMapDepthProofs`, `DepthReplayProofs` | proofs: the depth |
| `TradingProofs`, `LifecycleProofs` | proofs: types, index and matching; what each side knows of an order that is done, and what both sides agree on. The second extends the first |
| `BacktestProofs`, `QueueProofs`, `ReaderProofs`, `RoundTripsProofs` | proofs: the engine, the queue models, the readers, the latencies and round trips |

Composition is by EXTENDS: `Trading` contains `Exchange` and `Local`, which share
the buses of `OrderBus`. `Trading` has the real processors and one asset, `Backtest`
the real scheduler, several assets and results, with processors reduced to when
their feed goes on and what they put on which bus. The refinements are by INSTANCE
(`Book` in `DepthReplay`, `Time` in `Backtest`, `Flat` in `EventReader`).

### How state and actions correspond to the code

* **Prices and quantities.** Ticks are `1..NTicks`; `INVALID_MIN` and `INVALID_MAX`
  are the integers next to that range, so comparisons with them are the code's.
  Quantities are naturals of which `LotSize` make a lot; `Lots` is the rounding.
  Every handler exists twice in the code, once per side; here the side is a
  parameter (`Better`, `Opposite`).
* **Strategy.** While `phase = "bot"` it may make any request the processor accepts
  (a request refused with an exception changes nothing). With `Careful` it asks
  `cancellable()` first, as the example program does. `Waits` is a call of `elapse`,
  `wait_*` or `close`.
* **Dispatch loop.** `LocalReceives`, `ExchangeReceives` and the `Feed...` actions
  are the slots LocalOrder, ExchOrder and ExchData. Their guards are
  `EventSet::next`: earliest first, ties in slot order. `process_recv_order` of the
  exchange loops over all requests due at one time; each turn is a step, with
  `receiving` set in between so that nothing else runs. `Returns` ends `elapse` and
  `wait_*` at any target time the loop may stop at, which covers every way of
  waiting; `Closes` ends `close()`.
* **Feed.** The recording is not fixed: each event is chosen when it is handled, at a
  time at or after the previous one (`feed_ts`). A depth, trade or clear event is
  handled as a whole, fills and responses included. The responses to the fills
  of one event are sent in any order, since the code walks hash tables.
* **Fills.** `exch_pos` and `local_pos` keep, per order id, the signed quantity that
  `apply_fill` was called with; the position of the code is their sum.
* **Depth.** A book is its levels, best prices and the far ends that bound the scans.
  `RoiVectorDepth` leaves out the far ends, which that class writes but never reads.
* **Engine.** `evs` is the flat array; `IsNext` is `EventSet::next` and `Goto` the entry
  of `do_goto` with its preloading. The four handlers are the four cases of the switch,
  with exactly the refreshes the code has. `call.awaits` is what `wait_resp` stands
  for: pairs of asset and order. `answered`, `fed` and `expected` are history. A
  feed's row times are chosen one by one, not before the row in front of it
  (the code asserts nothing and the readers require sorted files).
* **Queue.** `ahead`, `behind` and `earned` are the market as it was when it was recorded: what
  is in front of the place the order would have had, behind it, and what trades left
  for that place. The code sees trades and, now and then, the level's quantity (`Reports`); it
  is not told who cancelled. The probability functors are abstracted to `Behind`: everything when
  nothing is in front, nothing when nothing is behind, else any part; powers and logarithms
  of negative numbers may give anything, NaN included.
* **Latency.** Integers throughout; `Products` has the two results a product may have when the
  quotient in front of it was rounded. That is what doubles do while the change of latency times the
  distance from the row in front is below 2^51, such as a change of 1 ms over 2 s; beyond, a result next to a
  whole number may come out on its other side. A trip is one request with its times.
* **Readers.** A row is the set of readers that see it. `ReadsShard` is one turn of
  the loop in `advance()`, `Processes` the data slot that gives a processor its row.
  Which reader goes first depends on timestamps in the code and is open here.

Left out throughout: the maker flag, fees and balances, tick size, the latencies
kept for inspection, the trade buffer.

## Runs

Runs of `MCTrading` (specification `Trading`):

| Run | Instance | Shows |
|---|---|---|
| `Lifecycle` | 1 id, 3 ticks, entry latency 0 or 1, 3 requests, 2 events, with fairness | `TypeOK`; positions agree up to fills in flight; both views agree when nothing is on the way; every pending order has an answer coming; `close()` ends and no order waits |
| `Matching` | 2 ids, 4 ticks, orders of 5 in lots of 3, trades of 1 or 3, partial fills, latencies 0 or 1 both ways, careless strategy, 2 events | index and orders agree; no resting order across the spread; a trade leaves no order it went through; executed and open quantity add up; nothing overfilled; an order ends only when less than half a lot is left; the buses stay sorted, the clock never passes an entry (the asserts of `receive`) |
| `Rejections` | every order kind, rejected and slow requests, resizing, ids used again | no order seen as done still rests (also under an id used again); no answer for a forgotten order; limits honoured |

Runs of the other modules:

| Run | Instance | Shows |
|---|---|---|
| `Feed` | `DepthReplay`, 4 ticks, range 2..4, half a lot (which rounds to one); any feed, crossing ones included | nothing but a clear up to a price of crossed levels brings best prices together, in both classes, or makes the classes differ about a level they agreed on; snapshots of the hash-map book rebuild it; the book implements `L2Book`; while the feed is clean the two classes hold the same book, and snapshots rebuild the ROI-vector book |
| `Engine` | `MCBacktest`, 2 assets, 2 ids, requests accepted or rejected, feeds of one or two rows on any of the four data slots, with fairness | slots are fresh while the loop runs; `Timeline` is implemented; a wait ends at its answer; results tell which row was waited for and when the data ended; every call returns |
| `Queue` | `QueueReplay`, lots of 4, so that an estimate may be off by less than half a lot; an order of two lots, trades, cancels and joins of one or two lots | the conservative model is; the other is wrong by no more than was cancelled; it fills no later than the conservative one; it stays a number unless something was cancelled or cleared |
| `Latency` | `MCRoundTrips`, recordings of one to three rows, at equal moments too, offsets -1..1, two requests at any time | rejections are kept, latencies within the recorded ones, nothing overtakes, recorded moments are replayed |
| `Shards` | `MCReader`, every recording of up to three small shards, destroyed at any time, with fairness | each shard loaded once, held while in use, dropped in time; `FlatReplay` is implemented, liveness included |

**Bounds.** `MaxTs`, `MaxRequests` and `MaxEvents` bound time, requests and feed
events of `Trading`. Most disagreements need one order, two requests that cross one or two
events, and ids used again need a third request; three or four ticks are the least
at which a price can lie inside, at and beyond the spread, and at which a scan has
something to skip. `LotSize` is 1 in the runs of `Trading` but `Matching`, where an order is not a
number of lots, and 2 in `Feed`, where half a lot rounds to one.
`DepthReplay` explores every history over its ticks and quantities; any event may come at any
time, and `clean` (the feed has not crossed its own levels since the book was last empty or rebuilt)
appears in properties only. `Feed` tells states apart by the view `Books`, which leaves out the last
event: no action and no invariant reads it, and the action properties read only that of the next state.
`Backtest` bounds requests (`MaxRequests` 2) and row times (`MaxTs` 3); two requests are the least for a wait
to see another response first, in its batch or before it, and two assets the least for
a tie between them. Its feeds have at most two rows in all: a feed that
ends, a tie, and a row after another. A row may fill any of the resting orders, several at once, wholly
or in part. `QueueReplay` bounds the level (`MaxLevel`), the quantity
traded between two reports (`MaxTraded`) and what is cancelled on each side (`MaxCancelled`), all above the order and
the largest trade together, and `Behind` bounds what a power of a negative number may
give to twice the change. One named restriction: the order enters `QueueReplay` while the reported level is
that of the market. If it enters between a trade and the report of it, `queue.hpp:89-93` takes a
level that still has what was traded: an estimate too far back, by trades from before the order rather than by
cancels. Afterwards reports may be as late as they like. `RoundTrips` ends at `Horizon`, behind the last recorded row,
and therefore does not check for deadlock; two requests are enough to overtake.
A recording of `MCReader` has up to three shards, empty ones included: one behind,
one ahead and one prefetched. Each property has a mutant, a plausible mistake in the code that
makes TLC report it in the same run.

**Fairness.** `close()` calls `do_goto` without a target time, whose loop takes the
earliest slot until all are empty. So a response, a request, and then the return
itself are not put off for ever: weak fairness of `LocalReceives`,
`ExchangeReceives`, `Closes` in `Trading` and of `ReadsShard` and `Processes` in
`EventReader`. In `Backtest` the whole loop is one weakly fair action (`Loop`): `do_goto` runs in
the calling thread and is not left halfway. Nothing is assumed of the strategy or of the feed.

### Where the code disagrees with what it says

Each of these runs checks one property and finds it violated; `PROJECT.json`
quotes the lines.

| Run | What happens |
|---|---|
| `StuckModify` | a modify amended in place is answered with `req` still `Replaced`; the order can never be touched again |
| `DoubleCount` | a rejected cancel carries the order's last fill, which the local position counts again |
| `CrossedCut` | a bid at 1, an ask at 1 (the best bid is pushed away, its level stays in the map) and a clear of the bids up to 2: the scan from the cut (`hashmap_depth.hpp:176`) finds the bid at 1 again and makes it the best price beside the ask; both classes do it |
| `LostAnswer` | a wait for a response, with nothing scheduled behind it, returns `EndOfData` although the response came, since only a row of the feed sets `result` (`backtest.hpp:327`); for the same reason no call ever returns `OrderResponse` |

The passing runs stay clear of these paths by their constants: `Lifecycle` does not
resize, `Matching` does not reprice, `Rejections` has neither partial fills nor
reprices and resizes only as far as the id is not amended in place unanswered,
and `Matching` has no clear events at all. `Matching` is on the exchange that fills in part, `Lifecycle` and
`Rejections` on the one that does not; the handlers of both are the same code but for how much is executed at the order's own price.

More, which no run of their own shows:

* a reprice that crosses a partial fill on its way back enters the order again with the
  quantity left before that fill (`exchange.hpp:396` submits the request's copy), and
  the order can be executed for more than its quantity;
* when a clear up to a price brings a crossed level back (`CrossedCut`), a resting order
  meets the opposite best without being filled;
* a clear up to a price erases from the best price to there, and so leaves levels in front
  of it that were crossed, or all if the best price was pushed away altogether
  (`hashmap_depth.hpp:172`), while the ROI-vector book zeroes its cells
  (`roi_vector_depth.hpp:159`): after a bid at 3, an ask at 2 and a clear of the bids up to 3 only
  the hash-map book still has the bid. `L2Book` describes this (`After`), and
  `BooksAgree` names it as the one way the classes come to differ (`OutOfReach`);
* an order enlarged by a modify enters the book again with its old open quantity
  (`local.hpp:71` sets `qty` only, `exchange.hpp:396` submits the copy again);
* after a modify is rejected the strategy's view keeps the price that was refused
  (`local.hpp:176`; the rejection carries the old price, `local.hpp:77`);
* a market order against an empty side is executed at the sentinel price
  (`exchange.hpp:317`);
* the ROI-vector book keeps a quantity below half a lot as a level its scans may
  find, where the hash-map book erases it;
* the ROI-vector book's snapshot reports levels that were crossed;
* a request at exactly the time of a recorded, accepted one is rejected when the
  next recorded one was (`latency.hpp:94`);
* with a power or logarithm functor `ProbQueueModel` may turn a decrease of the level into a
  negative quantity in front, which the next trade executes without having been
  traded; the estimate may also grow again, or become NaN, and then the order is
  never filled by its queue. A level reported empty twice makes it NaN at once.

For the depth classes `Feed` uses quantities that round to a lot, asks for the best of the levels
and the ROI snapshot while the feed is clean, and of a feed that is not what a step may not do; for the queue the properties name the
state in which the estimate went below zero (`overtaken`) or stopped being a number.

## Proofs

TLAPS checks, for every value of the constants:

* `TradingProofs!TypeCorrect`: `Spec => []TypeOK`, and `IndexCorrect`:
  `Spec => []IndexConsistent`, for any set of order ids, number of ticks, latency
  model, feed, strategy and both kinds of exchange.
* `TradingProofs!NeverRestsCrossed`: `Spec => []NoRestingCross`, and
  `TradesAlwaysSweep`: `Spec => TradesSweep`, for any feed without clear events.
* `TradingProofs!LoopNeverLate`: `Spec => []BusesAhead`, and `LimitAlwaysHonoured`:
  `Spec => []LimitHonoured`, for any feed and all latencies, with a strategy that asks
  `cancellable()` before it cancels or modifies (`Careful`).
* `LifecycleProofs!DoneIsDone`: `Spec => []NoZombie`, and `NothingForTheDone`:
  `Spec => []NoOrphanResponse`, for a careful strategy, with all latencies, rejections
  included, every feed, both kinds of exchange, modifies, and ids forgotten and used again.
* `LifecycleProofs!BothSeeTheSame`: `Spec => []ViewsAgree`, for a careful strategy if it does not
  modify or no request is rejected on its way (`AmendmentsArrive`).
* `LifecycleProofs!EveryFillOnce`: `Spec => []PositionsAgree`, for a careful strategy on the
  exchange that fills orders whole, and on both for a strategy that only submits (`FillsAtOnce`).
* `LifecycleProofs!NobodyWaitsInVain`: `Spec => []PendingHasReply`, for a strategy, careful or
  not, that does not modify (`Unmodified`).
* `LifecycleProofs!NothingLost`: `Spec => []FillsConserved`, `NeverOverfilled`:
  `Spec => []NoOverfill`, and `FilledMeansFilled`: `Spec => []FilledUpToHalfALot`, for a strategy,
  careful or not, that submits and cancels (`OnlyCancels`).
* `DepthReplayProofs!UncrossedStays`: `Spec => StaysUncrossed`, and `ImplementsL2Book`:
  `Spec => IsL2Book`, for any number of ticks, lot size and feed; `BooksTyped`:
  `Spec => []TypeOK`, and `SnapshotRestores`: `Spec => []SnapshotRoundTrip`, likewise.
* `DepthReplayProofs!OneBehaviour`: `Spec => BooksAgree`, and `RoiSnapshotRestores`:
  `Spec => []RoiSnapshotRoundTrip`, for any range and feed, with quantities that round to a lot
  at least (`WholeLots`); `RoiUncrossedStays`: `Spec => RoiStaysUncrossed`, with such quantities or
  without clears up to a price.
* `BacktestProofs!SlotsNeverStale`: `Spec => []SlotsFresh`, `EngineTypeCorrect`:
  `Spec => []TypeOK`, `ImplementsTimeline`: `Spec => IsTimeline`, and `ResultsAreTold`:
  `Spec => ResultTold`, for any number of assets and orders, all latencies, feeds and calls;
  `WaitsEndAtAnswers`: `Spec => WaitEndsAtAnswer`, for latencies so short that nothing is
  scheduled as late as `INT64_MAX` (`LatenciesFit`), since the code takes that time for never.
* `QueueProofs!NeverOptimistic`: `Spec => []Conservative`, `NoTradeTwice`: `Spec => []WrongByCancels`,
  `NeverLater`: `Spec => []FillsNoLater`, and `NotZeroByZero`: `Spec => []StaysANumber`, for every lot
  size, order and market in whole lots, and for all functors of `ProbQueueModel`.
* `ReaderProofs!NeverReloaded`: `Spec => []LoadedOnce`,
  `ReaderProofs!NeverPulledAway`: `Spec => []HeldIsResident`, and
  `ReaderProofs!NothingLeftBehind`: `Spec => []ResidencyBounded`, for any number of
  readers and every recording; `RowsInOrder`: `Spec => Flat!Spec`, likewise: the readers
  implement `FlatReplay`, but for its fairness.
* `RoundTripsProofs!RejectedAsRecorded`: `Spec => []RejectionsKept`, `NoFasterNoSlower`:
  `Spec => []WithinRecorded`, `FirstComeFirstServed`: `Spec => []NoneOvertaken`, and
  `RecordingsReplayed`: `Spec => []ReplaysRecording`, for recordings of any length and any offset
  (`RecordingAssumption`: an answer is later than its request, and an accepted request is at the
  exchange in between), and any number of requests at any times.

The conditions leave out what the code gets wrong. A strategy that does
not ask first cancels what was executed already, and the rejection is counted as that fill
once more, as it is for an order filled in part (`DoubleCount`). If it also forgets the order and uses the
id again at the same moment, the rejection is taken for the answer to the new order, which then rests
while the strategy sees it as filled. A refused amendment stays in the strategy's
view; an amendment in place leaves its request open (`StuckModify`); a modify puts an order
back with an open quantity from before; and of an id used again the fills of all its
orders are added up. In the ROI-vector
book a quantity below half a lot is a cell that a clear up to a price may find, and make the best
price, although it is not a level to any other operation: the other book does not have it, a snapshot of it rebuilds
another book, and it may lie beyond the best price of the other side (TLC finds all three without
the condition). Two conditions are wider than they have to be: `ViewsAgree` for a careless strategy, of which
TLC finds no counterexample on small instances, and `PendingHasReply` for one that changes prices,
which `Lifecycle` checks.

They rest on the assumptions on the constants (`OrdersAssumption`,
`LatencyAssumption`, `ExchangeAssumption`, `TradingAssumption`, `RoiAssumption`,
`ReplayAssumption`, `BacktestAssumption`, `FeedsAssumption`,
`LotAssumption`, `QueueAssumption`, `ReaderAssumption`, `ConsumersAssumption`, `RecordingAssumption`), which TLC evaluates in the runs.

*The argument for `Trading`.* Neither property is inductive alone. A handler that
walks an index finds an order only when the index names nothing else, so the
types depend on `IndexConsistent`. A request is answered by a `CASE` over three
kinds of request, so the requests on the bus must be of those kinds; and an order
travels without queue scratch only when the strategy's map holds none. `Inv` in
`TradingProofs` is the conjunction of these facts: `BusTyped`, `ExchTyped`,
`LocalTyped`, `EngineTyped`. There is one lemma per way the book
changes (insert, withdraw, replace), one per handler, and one per action.

*The argument for the matching.* The second half of `TradingProofs` adds three facts to `Inv`.
`Resting`: an order in the book is working, so that `fill`, which ignores orders that are
done, executes what a handler picks. With it `NoRestingCross` is inductive: an update of one side moves the other side's
best price back or leaves it (`OtherBestMovesBack`), and when its own best improves, the
scan from the old best reaches every order that meets the new one, precisely because none met
the old (`ScanReaches`). A clear up to a price may bring the best price
forward without a look at the orders, so feeds with clears are excluded. `Prompt`: no request on its way is for an
order that was done when it was sent. `fill` does not stamp an order that is done, so an answer to such
a request could go back with the time and price of an earlier one; without it every answer carries the time
of now, and the floor in `append` keeps the buses sorted and ahead of the clock. While the
exchange is inside its receive loop the head of its bus is due now, which is why the
responses it has just sent cannot be overtaken. The same lemmas follow the
execution price of every answer, which gives `LimitHonoured`.

*The argument for the life of an order.* That no order the strategy sees as done still rests says
nothing of the messages that will change what it sees. `Lives` in `LifecycleProofs` follows each id
along both buses. `View`: what the exchange tells of an order ends with a final status exactly when the order does
not rest, and when nothing is on its way the strategy sees the order at work exactly when it rests. This alone breaks when
an id is used again: an old cancel, refused or still on its way, meets the new order. It does no harm, for
two reasons that the invariant names. The request that enters the order is the last one made for its id
(`Entering`), so an older one finds nothing at the exchange and comes back as a rejection, which the
strategy tells from its own by the time stamp. And two requests for one id are never made at the same moment (`Awaited`):
whoever asked waits, and what could end the wait comes later than now, because what was due now was handled before the
strategy's turn (`Clock`). A careless strategy may cancel what is done, so `Careful` is needed.

*The argument for the accounts.* `KindsOfSteps` in `LifecycleProofs` reduces the actions to six kinds of step, and each
of four invariants has a lemma per kind. `Waiting`: an answer leaves no request open, so what is on the
bus for an id ends the wait, and a rejection that does not end it is about an older request. `Tallies`: for each
id, what was executed and what rests make up the quantity, an order on its way in has its whole quantity and
nothing executed, and it is entered once (`EnteredOnce`); an order ends with less than half a lot left (`Whole`).
`Positions`: the fills on the response bus add up, entry by entry, to what the exchange's position is ahead of the
strategy's. The sum is a recursive function; the invariant says that there is a running total, which
steps can extend at one end and shorten at the other (`AddsJoin`, `AddsTail`), and `AddsUp` that the
function is the only one. `Unfilled` says that what is rejected carries no fill. `Mirrors`: the latest news of an order that rests is
how it rests. Without news it is what the strategy has, provided it has not asked for a change
(`Unasked`); `Lives` supplies that it has the order at all.

*The argument for the depth.* That best prices are apart is no invariant of a feed that crosses
its levels, so the proof goes by steps. A scan ends strictly behind where it starts (`NextLevelBehind`), so a new
best price leaves the other side behind itself (`SetApart`), and other steps
move a best price back (`MovesBack`), or replace the book (`KeepsApart`). A clear up to a price looks for the next level from
the cut, and takes a level in front of the best price if there is one. It is safe with the
invariant of a clean feed, `Ordered`: every level lies between the best price and the far end of its side,
and the best price is a level or the sentinel. `HashMapDepthProofs` shows that each operation
keeps it (`SetOrdered`, `RemoveOrdered`, `CutOrdered`, ...); it is what makes a scan bounded by the far
end find the next best, and with it the refinement follows event by event. `Twins` compares the two
classes while the feed is clean: cell for level within the range, and the best cells for best prices. `TwinStep` says of each event
of any feed which levels it leaves the same, and `TwinsHold` puts the two together. A snapshot of
the ROI-vector book is one update for each cell, bids from the highest down and then asks from the lowest up.
After any number of them the book is ordered and has just the cells up to there
(`Restored`), and each update adds the next cell, which is behind the best price of its side (`RestoresNext`).

*The argument for the engine.* Fresh slots are not inductive alone either: a slot is
refreshed from its bus, so the buses must be typed and sorted, with nothing on
them before the clock (`BusesOK`), the data slots must hold the time of a row exactly
while there is one (`FeedsOK`), and the clock must be behind all of them (`ClockOK`). `Inv` in `BacktestProofs` is the
conjunction with `TypeOK` and `SlotsFresh`; each handler then is a step of
`Timeline`, a request or a call a step of its strategy, and the return a step
that hands the turn back. The two action properties are about the step that returns, and what they say is decided earlier.
`Told`: the first row a wait for feed is given sets its result and its target, and
what else the loop handles is due at that very time. `Waits`: a wait for a response goes on to `INT64_MAX` until there is
one and to the time of the first then; until then what was coming is still on a bus (`StillComing`), though a request is
taken off one and its response put on the other. `Early` bounds every time on the buses, so that a wait that finds
nothing scheduled finds them empty.

*The argument for the queue.* Conservative alone is not inductive: with parts of a lot
`is_filled` rounds up and executes what was not traded. The invariant adds that the
quantity in front is a number of lots and never below zero. An estimate of `ProbQueueModel` need not be, and a trade may
leave it below zero by less than half a lot, which is not executed; the next depth event then computes with a
negative quantity (`overtaken`). Until then `Counted` bounds the decrease that the next depth event will find
by what was traded and cancelled since the last one, and the cap at the level (`Capped`) says
that the quantity behind the order, which the functors take, is not negative. As long as nothing was cancelled and the level was not
cleared the estimate is exact (`Exact`), so that 0/0 takes an empty level that is reported once more.

*The argument for the readers.* None of the three is inductive, since none knows the counts
in the cache. `Inv` in `ReaderProofs` says what the cache holds in terms of the cursors alone: a
shard was loaded if some reader got to it or to the one before it (`Loads`), it is
resident until all readers have passed it, and its count is the number of those that have
(`Resident`). `LastOne` is where the count of the cache must be the number of its readers
(`ConsumersAssumption`): with fewer a shard is dropped early, with more never. For the refinement
`InStep` adds what was given: at any time a reader was given just the rows it sees behind its cursor. A step to another
shard passes none of them, because what is left of the shard at hand was searched to its end, and so is a
stutter of `FlatReplay`; the row a processor is given is before all that are left (`NextRowFacts`).

*The argument for the round trips.* The lemmas go from integers to the code. What `interpolate` adds is a quotient
cut towards zero, of a product that may have come out below a whole number; it lies between 0 and the
whole rise and, where the rise is no more than the run, goes no faster than time (`QuotientBounds`). So a latency lies between its two values, and where the second arrival
is no earlier, what leaves between two recorded moments arrives between their arrivals, later ones no
earlier (`QuotientGrows`, `InterpolateInOrder`), though which products come out below is not known. From there to recordings of any
length by the least row that breaks the order (`NeverDown`, `RampInOrder`). `EntryCases` says between which rows `entry` goes:
those beside the moment, so that the sign of what it returns says whether one of them was rejected. The four properties are about
requests that arrived; `IInv` adds those on their way: in the order in which they were made and not overdue (`OnTheWay`), each
due after a recorded time or together with one in front (`LegsWithin`), and where nothing overtakes after just what `entry`
returned (`LegsInOrder`). For the other bus it is enough that what it remembers is the time of some answer (`LatestAnswers`).

*Only model-checked.* An answer for what is pending when the strategy changes prices (`Lifecycle`), `BusesAhead`
for a strategy that does not ask first (`Matching`); all at the bounds
above. Liveness (`CloseSettles`, `CallsReturn`, the fairness in `FlatReplay`) is out of the
prover's reach: that every reader gets to the end of its rows is checked by `Shards`, that it never gets another
row than the next is proved.

## Not modelled

* Balance, fees, volume, asset types: floating-point sums over the fills whose
  quantities are modelled.
* The values of the probability functors: a set they all stay in.
* A backtest without a single row, where the clock is `INT64_MAX`.
* `Recorder`, NPY and NPZ files, manifests: input and output.
* The trade buffer and the latencies kept for inspection: read by the strategy only.
* `OrderBus::reset` and L3 interfaces without a caller.

## Plan

1. Proofs, in this order: `PendingHasReply` for a strategy that changes prices, which takes `Mirrors`
   (a request to change the price is for another price than the order's); `BusesAhead`
   without `Careful`.
2. `ProbQueueModel` inside `Exchange`, in place of the conservative model, to see its
   estimates together with the book.
3. Accounts: balance and fees over the same fills, with integer prices.
