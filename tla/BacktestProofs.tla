--------------------------- MODULE BacktestProofs ---------------------------
(***************************************************************************)
(* The engine implements Timeline for any number of assets, any latencies  *)
(* and any feed, its slots never go stale, a wait ends at the answer it is *)
(* for, and results say what happened.                                     *)
(*                                                                         *)
(* The first part follows the slots.  The second follows a call from the   *)
(* step that enters do_goto to the one that returns: Told is about calls   *)
(* that wait for feed, Waits about those that wait for a response, and     *)
(* StillComing follows the messages of an order that is waited for across  *)
(* the buses.                                                              *)
(***************************************************************************)
EXTENDS Backtest, TLAPS

\* A bus on which nothing is out of order or due before `now`.
BusOK(bus, now) ==
    /\ bus \in Seq(Message)
    /\ \A i, j \in 1..Len(bus) : i <= j => bus[i].ts <= bus[j].ts
    /\ \A i \in 1..Len(bus) : now <= bus[i].ts

BusesOK == \A a \in Assets : BusOK(to_exch[a], cur_ts) /\ BusOK(to_local[a], cur_ts)

FeedsOK ==
    \A i \in DataSlots : cur_ts <= evs[i] /\ (rows[i] = 0 => evs[i] = INT64_MAX)

ClockOK == cur_ts < INT64_MAX /\ (phase = "run" => cur_ts <= call.target)

Inv == TypeOK /\ SlotsFresh /\ BusesOK /\ FeedsOK /\ ClockOK

-----------------------------------------------------------------------------
(* Slots.                                                                   *)

LEMMA SlotArithmetic ==
    ASSUME NEW a \in Assets
    PROVE  /\ LocalData(a) \in Slots /\ LocalData(a) % 4 = 0
           /\ LocalOrder(a) \in Slots /\ LocalOrder(a) % 4 = 1 /\ LocalOrder(a) \div 4 = a
           /\ ExchData(a) \in Slots /\ ExchData(a) % 4 = 2
           /\ ExchOrder(a) \in Slots /\ ExchOrder(a) % 4 = 3 /\ ExchOrder(a) \div 4 = a
           /\ LocalData(a) \in DataSlots /\ ExchData(a) \in DataSlots
    BY BacktestAssumption, SMT
    DEF Assets, Slots, LocalData, LocalOrder, ExchData, ExchOrder, DataSlots

LEMMA SlotKinds ==
    ASSUME NEW i \in Slots
    PROVE  /\ i \div 4 \in Assets
           /\ \/ i % 4 = 0 /\ i = LocalData(i \div 4)
              \/ i % 4 = 1 /\ i = LocalOrder(i \div 4)
              \/ i % 4 = 2 /\ i = ExchData(i \div 4)
              \/ i % 4 = 3 /\ i = ExchOrder(i \div 4)
    BY BacktestAssumption, SMT
    DEF Assets, Slots, LocalData, LocalOrder, ExchData, ExchOrder

\* A slot holds feed data exactly when it is no order slot.
LEMMA DataSlot ==
    ASSUME NEW i \in Slots
    PROVE  i \in DataSlots <=> i % 4 # 1 /\ i % 4 # 3
    <1>1. ASSUME i \in DataSlots PROVE i % 4 # 1 /\ i % 4 # 3
        BY <1>1, SlotArithmetic, SMT DEF DataSlots
    <1>2. ASSUME i % 4 # 1, i % 4 # 3 PROVE i \in DataSlots
        BY <1>2, SlotKinds, SlotArithmetic
    <1> QED BY <1>1, <1>2

-----------------------------------------------------------------------------
(* Buses.                                                                   *)

LEMMA MessageTimes ==
    ASSUME NEW bus \in Seq(Message)
    PROVE  \A i \in 1..Len(bus) : bus[i] \in Message /\ bus[i].id \in OrderIds /\ bus[i].ts \in Nat
    <1>1. \A i \in 1..Len(bus) : bus[i] \in Message
        OBVIOUS
    <1>2. \A m \in Message : m.id \in OrderIds /\ m.ts \in Nat
        BY DEF Message
    <1> QED BY <1>1, <1>2

LEMMA EarliestFirst ==
    ASSUME NEW bus, NEW now \in Nat, BusOK(bus, now)
    PROVE  /\ Earliest(bus) \in Nat
           /\ bus # <<>> => Earliest(bus) = bus[1].ts /\ 1 \in 1..Len(bus)
           /\ bus = <<>> => Earliest(bus) = INT64_MAX
           /\ now <= INT64_MAX => now <= Earliest(bus)
    <1> USE DEF BusOK
    <1>1. \A i \in 1..Len(bus) : bus[i] \in Message /\ bus[i].ts \in Nat
        BY MessageTimes
    <1>2. CASE bus = <<>>
        BY <1>2, BacktestAssumption DEF Earliest
    <1>3. CASE bus # <<>>
        <2>1. 1 \in 1..Len(bus) /\ Head(bus) = bus[1]
            BY <1>3
        <2> QED BY <1>1, <1>3, <2>1 DEF Earliest
    <1> QED BY <1>2, <1>3

LEMMA BusLater ==
    ASSUME NEW bus, NEW now \in Nat, NEW later \in Nat, BusOK(bus, now),
           later <= Earliest(bus)
    PROVE  BusOK(bus, later)
    <1>1. CASE bus = <<>>
        BY <1>1 DEF BusOK
    <1>2. CASE bus # <<>>
        <2>1. bus[1].ts = Earliest(bus) /\ 1 \in 1..Len(bus) /\ Earliest(bus) \in Nat
            BY <1>2, EarliestFirst
        <2>2. \A i \in 1..Len(bus) : bus[1].ts <= bus[i].ts
            BY <2>1 DEF BusOK
        <2>3. \A i \in 1..Len(bus) : bus[i] \in Message /\ bus[i].ts \in Nat
            BY MessageTimes DEF BusOK
        <2> QED BY <2>1, <2>2, <2>3 DEF BusOK
    <1> QED BY <1>1, <1>2

LEMMA BusAppended ==
    ASSUME NEW bus, NEW now \in Nat, BusOK(bus, now),
           NEW ids \in Seq(OrderIds), NEW ts \in Nat, now <= ts
    PROVE  /\ BusOK(Appended(bus, ids, ts), now)
           /\ bus # <<>> => Earliest(Appended(bus, ids, ts)) = Earliest(bus)
    <1> DEFINE late == Larger(ts, LatestTs(bus))
               more == [i \in 1..Len(ids) |-> Scheduled(bus, ids[i], ts)]
               all == Appended(bus, ids, ts)
    <1>1. late \in Nat /\ now <= late /\ \A i \in 1..Len(bus) : bus[i].ts <= late
        <2>1. \A i \in 1..Len(bus) : bus[i] \in Message /\ bus[i].ts \in Nat
            BY MessageTimes DEF BusOK
        <2>2. CASE bus = <<>>
            BY <2>2 DEF Larger, LatestTs
        <2>3. CASE bus # <<>>
            <3>1. Len(bus) \in 1..Len(bus) /\ LatestTs(bus) = bus[Len(bus)].ts
                BY <2>3 DEF BusOK, LatestTs
            <3> QED BY <2>1, <3>1 DEF BusOK, Larger
        <2> QED BY <2>2, <2>3
    <1>2. more \in Seq(Message) /\ Len(more) = Len(ids)
          /\ \A i \in 1..Len(ids) : more[i].ts = late
        <2>1. \A i \in 1..Len(ids) : Scheduled(bus, ids[i], ts) \in Message
                                      /\ Scheduled(bus, ids[i], ts).ts = late
            BY <1>1 DEF Scheduled, Message
        <2>2. Len(ids) \in Nat
            OBVIOUS
        <2>3. more \in Seq(Message) /\ Len(more) = Len(ids)
            BY <2>1, <2>2
        <2> QED BY <2>1, <2>3
    <1>3. /\ all = bus \o more /\ all \in Seq(Message)
          /\ Len(all) = Len(bus) + Len(ids)
          /\ \A i \in 1..Len(all) : all[i] = IF i <= Len(bus) THEN bus[i]
                                                              ELSE more[i - Len(bus)]
        BY <1>2 DEF Appended, BusOK
    <1>4. \A i \in 1..Len(all) : IF i <= Len(bus) THEN all[i] = bus[i] ELSE all[i].ts = late
        BY <1>2, <1>3 DEF BusOK
    <1>5. BusOK(all, now)
        <2>1. Len(bus) \in Nat /\ Len(ids) \in Nat
            BY DEF BusOK
        <2>2. \A i \in 1..Len(bus) : bus[i].ts \in Nat
            BY MessageTimes DEF BusOK
        <2> HIDE DEF late, more, all
        <2>3. \A i, j \in 1..Len(all) : i <= j => all[i].ts <= all[j].ts
            BY <1>1, <1>3, <1>4, <2>1, <2>2 DEF BusOK
        <2>4. \A i \in 1..Len(all) : now <= all[i].ts
            BY <1>1, <1>3, <1>4, <2>1, <2>2 DEF BusOK
        <2> QED BY <1>3, <2>3, <2>4 DEF BusOK
    <1>6. bus # <<>> => Earliest(all) = Earliest(bus)
        <2> SUFFICES ASSUME bus # <<>> PROVE Earliest(all) = Earliest(bus)
            OBVIOUS
        <2>1. Earliest(bus) = bus[1].ts /\ 1 \in 1..Len(bus)
            BY EarliestFirst
        <2> HIDE DEF all, more
        <2>2. 1 \in 1..Len(all) /\ all[1] = bus[1] /\ all # <<>>
            BY <1>3, <1>4, <2>1 DEF BusOK
        <2> QED BY <1>5, <2>1, <2>2, EarliestFirst
    <1> QED BY <1>5, <1>6

LEMMA BusWithout ==
    ASSUME NEW bus, NEW now \in Nat, BusOK(bus, now), NEW n \in 0..Len(bus)
    PROVE  BusOK(Without(bus, n), now)
    <1> DEFINE rest == Without(bus, n)
    <1>1. /\ rest \in Seq(Message) /\ Len(rest) = Len(bus) - n
          /\ \A i \in 1..(Len(bus) - n) : rest[i] = bus[i + n]
        BY DEF Without, BusOK
    <1>2. Len(bus) \in Nat /\ n \in Nat
          /\ \A i \in 1..(Len(bus) - n) : i + n \in 1..Len(bus)
        BY DEF BusOK
    <1> HIDE DEF rest
    <1>3. \A i \in 1..Len(rest) : rest[i] = bus[i + n] /\ i + n \in 1..Len(bus)
        BY <1>1, <1>2
    <1>4. \A i, j \in 1..Len(rest) : i <= j => rest[i].ts <= rest[j].ts
        <2> SUFFICES ASSUME NEW i \in 1..Len(rest), NEW j \in 1..Len(rest), i <= j
                     PROVE  rest[i].ts <= rest[j].ts
            OBVIOUS
        <2>1. i + n <= j + n
            BY <1>2
        <2> QED BY <1>3, <2>1 DEF BusOK
    <1>5. BusOK(rest, now)
        BY <1>1, <1>3, <1>4 DEF BusOK
    <1> QED BY <1>5 DEF rest

-----------------------------------------------------------------------------
(* What is due.                                                             *)

LEMMA DueValues ==
    /\ \A a \in Assets : /\ Due[LocalOrder(a)] = Earliest(to_local[a])
                         /\ Due[ExchOrder(a)] = Earliest(to_exch[a])
    /\ \A i \in DataSlots : i \in Slots => Due[i] = evs[i]
    <1>1. ASSUME NEW a \in Assets
          PROVE  /\ Due[LocalOrder(a)] = Earliest(to_local[a])
                 /\ Due[ExchOrder(a)] = Earliest(to_exch[a])
        BY SlotArithmetic DEF Due
    <1>2. ASSUME NEW i \in DataSlots, i \in Slots PROVE Due[i] = evs[i]
        BY <1>2, DataSlot DEF Due
    <1> QED BY <1>1, <1>2

\* While the loop runs the slots are what is due.
LEMMA SlotsAreDue ==
    ASSUME Inv, phase = "run", NEW i \in Slots
    PROVE  Due[i] = evs[i]
    <1>1. i \div 4 \in Assets
        BY SlotKinds
    <1>2. /\ evs[LocalOrder(i \div 4)] = Earliest(to_local[i \div 4])
          /\ evs[ExchOrder(i \div 4)] = Earliest(to_exch[i \div 4])
        BY <1>1 DEF Inv, SlotsFresh
    <1>3. CASE i = LocalOrder(i \div 4) \/ i = ExchOrder(i \div 4)
        BY <1>1, <1>2, <1>3, DueValues
    <1>4. CASE i % 4 # 1 /\ i % 4 # 3
        BY <1>4 DEF Due
    <1> QED BY <1>3, <1>4, SlotKinds

\* What a step does to the buses: nothing on them is out of order or in the past,
\* and, where it only adds to a bus, what is first there stays so.
BusesSound ==
    /\ to_exch' \in [Assets -> Seq(Message)] /\ to_local' \in [Assets -> Seq(Message)]
    /\ \A a \in Assets : BusOK(to_exch'[a], cur_ts') /\ BusOK(to_local'[a], cur_ts')

Kept(bus, after) == bus # <<>> => Earliest(after) = Earliest(bus)
AllKept == \A a \in Assets : Kept(to_exch[a], to_exch'[a]) /\ Kept(to_local[a], to_local'[a])

LEMMA SourceKept ==
    ASSUME NEW bus, NEW after, NEW now \in Nat, now <= INT64_MAX,
           BusOK(after, now), Kept(bus, after)
    PROVE  Earliest(after) = Earliest(bus) \/ (Earliest(bus) = INT64_MAX /\ now <= Earliest(after))
    BY EarliestFirst DEF Earliest, Kept

LEMMA DueTypeNext ==
    ASSUME BusesSound, cur_ts' \in Nat, evs' \in [Slots -> Nat]
    PROVE  Due' \in [Slots -> Nat]
    <1> SUFFICES ASSUME NEW i \in Slots PROVE Due'[i] \in Nat
        BY DEF Due
    <1>1. i \div 4 \in Assets /\ evs'[i] \in Nat
        BY SlotKinds
    <1>2. Earliest(to_local'[i \div 4]) \in Nat /\ Earliest(to_exch'[i \div 4]) \in Nat
        BY <1>1, EarliestFirst DEF BusesSound
    <1> QED BY <1>1, <1>2 DEF Due

LEMMA KeepsSlot ==
    ASSUME BusesSound, cur_ts' \in Nat, cur_ts' <= INT64_MAX, NEW i \in Slots,
           i \in DataSlots => evs'[i] = evs[i],
           \A a \in Assets : i = LocalOrder(a) => Kept(to_local[a], to_local'[a]),
           \A a \in Assets : i = ExchOrder(a) => Kept(to_exch[a], to_exch'[a])
    PROVE  Time!Keeps(i)
    <1>1. i \div 4 \in Assets
        BY SlotKinds
    <1>2. CASE i % 4 = 1
        <2>1. /\ Due[i] = Earliest(to_local[i \div 4])
              /\ Due'[i] = Earliest(to_local'[i \div 4])
              /\ i = LocalOrder(i \div 4)
            BY <1>2, SlotKinds DEF Due
        <2> QED BY <1>1, <2>1, SourceKept DEF BusesSound, Time!Keeps
    <1>3. CASE i % 4 = 3
        <2>1. /\ Due[i] = Earliest(to_exch[i \div 4])
              /\ Due'[i] = Earliest(to_exch'[i \div 4])
              /\ i = ExchOrder(i \div 4)
            BY <1>3, SlotKinds DEF Due
        <2> QED BY <1>1, <2>1, SourceKept DEF BusesSound, Time!Keeps
    <1>4. CASE i % 4 # 1 /\ i % 4 # 3
        BY <1>4, DataSlot DEF Due, Time!Keeps
    <1> QED BY <1>2, <1>3, <1>4

-----------------------------------------------------------------------------
(* The strategy's turn.                                                     *)

LEMMA InvFacts ==
    ASSUME Inv
    PROVE  /\ cur_ts \in Nat /\ cur_ts < INT64_MAX /\ INT64_MAX \in Nat
           /\ to_exch \in [Assets -> Seq(Message)] /\ to_local \in [Assets -> Seq(Message)]
           /\ evs \in [Slots -> Nat] /\ rows \in [DataSlots -> Nat]
           /\ \A a \in Assets : BusOK(to_exch[a], cur_ts) /\ BusOK(to_local[a], cur_ts)
    BY BacktestAssumption DEF Inv, TypeOK, BusesOK, ClockOK

LEMMA BusesStay ==
    ASSUME Inv, UNCHANGED <<to_exch, to_local, cur_ts>>
    PROVE  BusesSound /\ AllKept
    BY InvFacts DEF BusesSound, AllKept, Kept

LEMMA RequestGrows ==
    ASSUME Inv, NEW a \in Assets, NEW id \in OrderIds, NEW lat \in EntryLatencies,
           Requests(a, id, lat)
    PROVE  BusesSound /\ AllKept /\ requests' \in 0..MaxRequests /\ UNCHANGED <<rows, resting, cur_ts>>
    <1>1. requests' \in 0..MaxRequests /\ UNCHANGED <<rows, resting, cur_ts>>
        BY BacktestAssumption DEF Requests, Inv, TypeOK
    <1>2. lat \in Int /\ <<id>> \in Seq(OrderIds)
        BY BacktestAssumption
    <1>3. CASE lat < 0
        <2>1. cur_ts - lat \in Nat /\ cur_ts <= cur_ts - lat
            BY <1>2, <1>3, InvFacts
        <2>2. /\ BusOK(Appended(to_local[a], <<id>>, cur_ts - lat), cur_ts)
              /\ to_local[a] # <<>> => Earliest(Appended(to_local[a], <<id>>, cur_ts - lat))
                                       = Earliest(to_local[a])
            BY <1>2, <2>1, InvFacts, BusAppended
        <2>3. /\ to_local' = [to_local EXCEPT ![a] = Appended(to_local[a], <<id>>, cur_ts - lat)]
              /\ to_exch' = to_exch
            BY <1>3 DEF Requests
        <2> QED BY <1>1, <2>2, <2>3, InvFacts DEF BusesSound, AllKept, Kept, BusOK
    <1>4. CASE ~(lat < 0)
        <2>1. cur_ts + lat \in Nat /\ cur_ts <= cur_ts + lat
            BY <1>2, <1>4, InvFacts
        <2>2. /\ BusOK(Appended(to_exch[a], <<id>>, cur_ts + lat), cur_ts)
              /\ to_exch[a] # <<>> => Earliest(Appended(to_exch[a], <<id>>, cur_ts + lat))
                                       = Earliest(to_exch[a])
            BY <1>2, <2>1, InvFacts, BusAppended
        <2>3. /\ to_exch' = [to_exch EXCEPT ![a] = Appended(to_exch[a], <<id>>, cur_ts + lat)]
              /\ to_local' = to_local
            BY <1>4 DEF Requests
        <2> QED BY <1>1, <2>2, <2>3, InvFacts DEF BusesSound, AllKept, Kept, BusOK
    <1> QED BY <1>1, <1>3, <1>4

\* do_goto starts with slots that are what is due.
LEMMA PreloadedFresh ==
    ASSUME Inv, BusesSound, cur_ts' = cur_ts, evs' = Preloaded
    PROVE  /\ evs' \in [Slots -> Nat]
           /\ \A i \in DataSlots : evs'[i] = evs[i]
           /\ \A a \in Assets : /\ evs'[LocalOrder(a)] = Earliest(to_local'[a])
                                /\ evs'[ExchOrder(a)] = Earliest(to_exch'[a])
    <1>1. ASSUME NEW i \in Slots PROVE evs'[i] \in Nat
        <2>1. /\ Earliest(to_local'[i \div 4]) \in Nat
              /\ Earliest(to_exch'[i \div 4]) \in Nat
            BY SlotKinds, InvFacts, EarliestFirst DEF BusesSound
        <2> QED BY <2>1, InvFacts DEF Preloaded
    <1>2. ASSUME NEW i \in DataSlots PROVE i \in Slots /\ evs'[i] = evs[i]
        <2>1. i \in Slots
            BY SlotArithmetic DEF DataSlots
        <2> QED BY <2>1, DataSlot DEF Preloaded
    <1>3. ASSUME NEW a \in Assets
          PROVE  /\ evs'[LocalOrder(a)] = Earliest(to_local'[a])
                 /\ evs'[ExchOrder(a)] = Earliest(to_exch'[a])
        BY SlotArithmetic DEF Preloaded
    <1> QED BY <1>1, <1>2, <1>3 DEF Preloaded

\* A step in which the strategy keeps the turn or gives it to do_goto.
LEMMA StrategyStep ==
    ASSUME Inv, BusesSound, AllKept, phase = "bot", phase' \in {"bot", "run"},
           UNCHANGED <<rows, resting, cur_ts>>, requests' \in 0..MaxRequests,
           \/ phase' = "bot" /\ UNCHANGED <<evs, call, result, historyVars>>
           \/ \E feed \in BOOLEAN, target \in Nat, awaits \in SUBSET AnyOrder :
                 Goto(feed, target, awaits) /\ cur_ts <= target
    PROVE  Inv' /\ Time!StrategyActs
    <1>1. /\ evs' \in [Slots -> Nat]
          /\ \A i \in DataSlots : evs'[i] = evs[i]
          /\ SlotsFresh'
        <2>1. CASE phase' = "bot" /\ UNCHANGED evs
            BY <2>1, InvFacts DEF SlotsFresh
        <2>2. CASE evs' = Preloaded
            BY <2>2, PreloadedFresh DEF SlotsFresh
        <2> QED BY <2>1, <2>2 DEF Goto
    <1>2. /\ call' \in [feed : BOOLEAN, awaits : SUBSET AnyOrder, target : Nat]
          /\ result' \in {"Ok", "EndOfData", "MarketFeed", "OrderResponse"}
          /\ fed' \in Nat /\ answered' \in Nat /\ expected' \in BOOLEAN
          /\ phase' = "run" => cur_ts' <= call'.target
        <2>1. CASE phase' = "bot" /\ UNCHANGED <<evs, call, result, historyVars>>
            BY <2>1 DEF Inv, TypeOK, historyVars
        <2>2. CASE \E feed \in BOOLEAN, target \in Nat, awaits \in SUBSET AnyOrder :
                     Goto(feed, target, awaits) /\ cur_ts <= target
            <3> PICK feed \in BOOLEAN, target \in Nat, awaits \in SUBSET AnyOrder :
                     Goto(feed, target, awaits) /\ cur_ts <= target
                BY <2>2
            <3>1. call' = [feed |-> feed, awaits |-> awaits, target |-> target]
                  /\ result' = "Ok" /\ fed' = 0 /\ answered' = 0
                BY DEF Goto
            <3>2. expected' \in BOOLEAN
                BY DEF Goto, Coming
            <3> QED BY <3>1, <3>2
        <2> QED BY <2>1, <2>2
    <1>3. BusesOK' /\ FeedsOK' /\ ClockOK'
        BY <1>1, <1>2 DEF Inv, BusesSound, BusesOK, FeedsOK, ClockOK
    <1>4. TypeOK'
        BY <1>1, <1>2 DEF Inv, TypeOK, BusesSound
    <1>5. Inv'
        BY <1>1, <1>3, <1>4 DEF Inv
    <1>6. Due' \in [Slots -> Nat] /\ \A i \in Slots : Time!Keeps(i)
        <2>1. cur_ts' \in Nat /\ cur_ts' <= INT64_MAX
            BY InvFacts
        <2>2. ASSUME NEW i \in Slots PROVE Time!Keeps(i)
            <3>1. i \in DataSlots => evs'[i] = evs[i]
                BY <1>1
            <3>2. /\ \A a \in Assets : i = LocalOrder(a) => Kept(to_local[a], to_local'[a])
                  /\ \A a \in Assets : i = ExchOrder(a) => Kept(to_exch[a], to_exch'[a])
                BY DEF AllKept
            <3> QED BY <2>1, <3>1, <3>2, KeepsSlot
        <2> QED BY <1>1, <2>1, <2>2, DueTypeNext
    <1> QED BY <1>5, <1>6 DEF Time!StrategyActs

-----------------------------------------------------------------------------
(* The loop.                                                                *)

LEMMA Taken ==
    ASSUME Inv, NEW i \in Slots, Takes(i)
    PROVE  /\ phase = "run" /\ phase' = "run" /\ requests' = requests
           /\ cur_ts' = evs[i] /\ cur_ts' = Due[i]
           /\ cur_ts' \in Nat /\ cur_ts' < INT64_MAX /\ cur_ts' <= call.target
           /\ Time!First(i)
           /\ \A a \in Assets : BusOK(to_exch[a], cur_ts') /\ BusOK(to_local[a], cur_ts')
           /\ \A j \in DataSlots : cur_ts' <= evs[j]
    <1>1. /\ phase = "run" /\ phase' = "run" /\ requests' = requests
          /\ cur_ts' = evs[i] /\ evs[i] <= call.target
        BY DEF Takes
    <1>2. evs[i] < INT64_MAX /\ evs[i] \in Nat
        BY InvFacts DEF Takes, IsNext
    <1>3. \A j \in Slots : evs[j] \in Nat /\ evs[i] <= evs[j]
        <2>1. \A j \in Slots : evs[j] \in Nat
            BY InvFacts
        <2>2. \A j \in Slots : evs[i] < evs[j] \/ evs[i] = evs[j]
            BY DEF Takes, IsNext
        <2> QED BY <1>2, <2>1, <2>2
    <1>4. Due[i] = evs[i] /\ Time!First(i)
        <2>1. \A j \in Slots : Due[j] = evs[j]
            BY <1>1, SlotsAreDue
        <2> QED BY <2>1 DEF Takes, IsNext, Time!First
    <1>5. \A a \in Assets : BusOK(to_exch[a], cur_ts') /\ BusOK(to_local[a], cur_ts')
        <2> TAKE a \in Assets
        <2>1. /\ evs[LocalOrder(a)] = Earliest(to_local[a])
              /\ evs[ExchOrder(a)] = Earliest(to_exch[a])
            BY <1>1 DEF Inv, SlotsFresh
        <2>2. cur_ts' <= Earliest(to_local[a]) /\ cur_ts' <= Earliest(to_exch[a])
            BY <1>1, <1>3, <2>1, SlotArithmetic
        <2> QED BY <1>1, <1>2, <2>2, InvFacts, BusLater
    <1>6. \A j \in DataSlots : cur_ts' <= evs[j]
        BY <1>1, <1>3, SlotArithmetic DEF DataSlots
    <1> QED BY <1>1, <1>2, <1>4, <1>5, <1>6

\* What is left to show of a handler once the time is that of its slot.
LEMMA HandlerStep ==
    ASSUME Inv, NEW i \in Slots, Takes(i),
           BusesSound, evs' \in [Slots -> Nat], rows' \in [DataSlots -> Nat],
           resting' \in [Assets -> SUBSET OrderIds],
           SlotsFresh', FeedsOK', cur_ts' <= Due'[i],
           \A j \in Slots \ {i} : Time!Keeps(j),
           call' \in [feed : BOOLEAN, awaits : SUBSET AnyOrder, target : Nat],
           cur_ts' <= call'.target,
           result' \in {"Ok", "EndOfData", "MarketFeed", "OrderResponse"},
           fed' \in Nat, answered' \in Nat, expected' \in BOOLEAN
    PROVE  Inv' /\ Time!Happens(i)
    <1>1. BusesOK' /\ ClockOK'
        BY Taken DEF BusesSound, BusesOK, ClockOK
    <1>2. TypeOK'
        BY Taken DEF TypeOK, BusesSound, Inv
    <1>3. Inv'
        BY <1>1, <1>2 DEF Inv
    <1>4. Due' \in [Slots -> Nat]
        BY Taken, DueTypeNext
    <1> QED BY <1>3, <1>4, Taken DEF Time!Happens

\* Slots of different kinds or assets differ.
LEMMA SlotsDiffer ==
    ASSUME NEW a \in Assets, NEW b \in Assets
    PROVE  /\ LocalOrder(a) # ExchOrder(b)
           /\ LocalData(a) # LocalOrder(b) /\ LocalData(a) # ExchOrder(b)
           /\ ExchData(a) # LocalOrder(b) /\ ExchData(a) # ExchOrder(b)
           /\ LocalOrder(a) = LocalOrder(b) => a = b
           /\ ExchOrder(a) = ExchOrder(b) => a = b
    BY SlotArithmetic

LEMMA NextRow ==
    ASSUME Inv, NEW i \in DataSlots, evs[i] < INT64_MAX, NEW ts \in NextRowTimes(i)
    PROVE  /\ ts \in Nat /\ evs[i] <= ts
           /\ rows[i] - 1 \in Nat
           /\ rows[i] - 1 = 0 => ts = INT64_MAX
    <1>1. i \in Slots /\ evs[i] \in Nat /\ rows[i] \in Nat /\ rows[i] # 0
        BY SlotArithmetic, InvFacts DEF DataSlots, Inv, FeedsOK
    <1> QED BY <1>1, BacktestAssumption DEF NextRowTimes

LEMMA LocalDataStep ==
    ASSUME Inv, NEW a \in Assets, HandlesLocalData(a)
    PROVE  Inv' /\ Time!Happens(LocalData(a))
    <1> DEFINE i == LocalData(a)
    <1>1. i \in Slots /\ i \in DataSlots /\ Takes(i)
        BY SlotArithmetic DEF HandlesLocalData
    <1> PICK ts \in NextRowTimes(i) : evs' = [evs EXCEPT ![i] = ts]
        BY DEF HandlesLocalData
    <1>2. /\ ts \in Nat /\ cur_ts' <= ts /\ rows[i] - 1 \in Nat
          /\ rows[i] - 1 = 0 => ts = INT64_MAX
        BY <1>1, NextRow, Taken
    <1>3. UNCHANGED <<to_exch, to_local, resting>>
        BY DEF HandlesLocalData, busVars
    <1>4. BusesSound /\ AllKept
        BY <1>1, <1>3, Taken, InvFacts DEF BusesSound, AllKept, Kept
    <1>5. /\ evs' \in [Slots -> Nat] /\ evs'[i] = ts
          /\ \A j \in Slots \ {i} : evs'[j] = evs[j]
        BY <1>1, <1>2, InvFacts
    <1>6. rows' \in [DataSlots -> Nat] /\ FeedsOK'
        <2>1. rows' = [rows EXCEPT ![i] = rows[i] - 1]
            BY DEF HandlesLocalData
        <2>2. \A j \in DataSlots : j \in Slots
            BY SlotArithmetic DEF DataSlots
        <2>3. rows' \in [DataSlots -> Nat]
            BY <1>2, <2>1, InvFacts
        <2>4. ASSUME NEW j \in DataSlots
              PROVE  cur_ts' <= evs'[j] /\ (rows'[j] = 0 => evs'[j] = INT64_MAX)
            <3>1. CASE j = i
                BY <1>1, <1>2, <1>5, <2>1, <3>1, InvFacts
            <3>2. CASE j # i
                <4>1. evs'[j] = evs[j] /\ rows'[j] = rows[j]
                    BY <1>5, <2>1, <2>2, <3>2, InvFacts
                <4> QED BY <1>1, <4>1, Taken DEF Inv, FeedsOK
            <3> QED BY <3>1, <3>2
        <2> QED BY <2>3, <2>4 DEF FeedsOK
    <1>7. SlotsFresh'
        <2>1. \A b \in Assets : evs'[LocalOrder(b)] = evs[LocalOrder(b)]
                                /\ evs'[ExchOrder(b)] = evs[ExchOrder(b)]
            BY <1>5, SlotArithmetic, SlotsDiffer
        <2> QED BY <1>1, <1>3, <2>1, Taken DEF Inv, SlotsFresh
    <1>8. cur_ts' <= Due'[i]
        BY <1>1, <1>2, <1>5, SlotArithmetic DEF Due
    <1>9. ASSUME NEW j \in Slots \ {i} PROVE Time!Keeps(j)
        <2>1. /\ \A b \in Assets : j = LocalOrder(b) => Kept(to_local[b], to_local'[b])
              /\ \A b \in Assets : j = ExchOrder(b) => Kept(to_exch[b], to_exch'[b])
            BY <1>4 DEF AllKept
        <2>2. cur_ts' \in Nat /\ cur_ts' <= INT64_MAX
            BY <1>1, Taken, InvFacts
        <2> QED BY <1>4, <1>5, <2>1, <2>2, KeepsSlot
    <1>10. /\ call' \in [feed : BOOLEAN, awaits : SUBSET AnyOrder, target : Nat]
           /\ cur_ts' <= call'.target
        <2>1. call \in [feed : BOOLEAN, awaits : SUBSET AnyOrder, target : Nat]
            BY DEF Inv, TypeOK
        <2>2. call' = [call EXCEPT !.target = cur_ts'] \/ call' = call
            BY DEF HandlesLocalData
        <2> QED BY <1>1, <2>1, <2>2, Taken
    <1>11. /\ result' \in {"Ok", "EndOfData", "MarketFeed", "OrderResponse"}
           /\ fed' \in Nat /\ answered' \in Nat /\ expected' \in BOOLEAN
           /\ resting' \in [Assets -> SUBSET OrderIds]
        BY <1>1, <1>3, Taken DEF HandlesLocalData, Inv, TypeOK
    <1> HIDE DEF i
    <1>12. Inv' /\ Time!Happens(i)
        BY <1>1, <1>4, <1>5, <1>6, <1>7, <1>8, <1>9, <1>10, <1>11, HandlerStep
    <1> QED BY <1>12 DEF i

\* A handler that changes the slots of orders, refreshes them and leaves the feeds.
LEMMA OrderSlots ==
    ASSUME Inv, BusesSound, NEW a \in Assets, Takes(LocalOrder(a)) \/ Takes(ExchOrder(a)),
           UNCHANGED rows,
           evs' \in [Slots -> Nat],
           \A j \in DataSlots : evs'[j] = evs[j],
           \A b \in Assets : /\ evs'[LocalOrder(b)] = Earliest(to_local'[b])
                             /\ evs'[ExchOrder(b)] = Earliest(to_exch'[b])
    PROVE  SlotsFresh' /\ FeedsOK'
    <1>1. \A j \in DataSlots : cur_ts' <= evs[j]
        BY Taken, SlotArithmetic
    <1> QED BY <1>1 DEF SlotsFresh, FeedsOK, Inv

LEMMA LocalOrderStep ==
    ASSUME Inv, NEW a \in Assets, HandlesLocalOrder(a)
    PROVE  Inv' /\ Time!Happens(LocalOrder(a))
    <1> DEFINE i == LocalOrder(a)
    <1>1. i \in Slots /\ Takes(i)
        BY SlotArithmetic DEF HandlesLocalOrder
    <1> PICK n \in 0..Len(to_local[a]) :
          /\ to_local' = [to_local EXCEPT ![a] = Without(to_local[a], n)]
          /\ call' = [call EXCEPT !.target = cur_ts'] \/ call' = call
          /\ result' = "OrderResponse" \/ result' = result
          /\ answered' = cur_ts' \/ answered' = answered
        <2> PICK m \in 0..Len(to_local[a]) :
              /\ to_local' = [to_local EXCEPT ![a] = Without(to_local[a], m)]
              /\ call' = IF Stops(a, m) THEN [call EXCEPT !.target = cur_ts'] ELSE call
              /\ result' = IF Stops(a, m) /\ call.feed THEN "OrderResponse" ELSE result
              /\ answered' = IF answered = 0 /\ \E j \in 1..m : <<a, to_local[a][j].id>> \in call.awaits
                             THEN cur_ts' ELSE answered
            BY DEF HandlesLocalOrder
        <2> WITNESS m \in 0..Len(to_local[a])
        <2> QED OBVIOUS
    <1>2. UNCHANGED <<rows, to_exch, resting, fed, expected>>
          /\ evs' = [evs EXCEPT ![i] = Earliest(to_local'[a])]
        BY DEF HandlesLocalOrder
    <1>3. BusOK(Without(to_local[a], n), cur_ts')
        BY <1>1, Taken, BusWithout
    <1>4. BusesSound
        BY <1>1, <1>2, <1>3, Taken, InvFacts DEF BusesSound, BusOK
    <1>5. \A b \in Assets : /\ b # a => to_local'[b] = to_local[b]
                            /\ to_exch'[b] = to_exch[b]
        BY <1>2, InvFacts
    <1>6. Earliest(to_local'[a]) \in Nat /\ cur_ts' <= Earliest(to_local'[a])
        <2>1. cur_ts' \in Nat /\ cur_ts' <= INT64_MAX
            BY <1>1, Taken, InvFacts
        <2>2. BusOK(to_local'[a], cur_ts')
            BY <1>4 DEF BusesSound
        <2> QED BY <2>1, <2>2, EarliestFirst
    <1>7. /\ evs' \in [Slots -> Nat] /\ evs'[i] = Earliest(to_local'[a])
          /\ \A j \in Slots \ {i} : evs'[j] = evs[j]
        BY <1>1, <1>2, <1>6, InvFacts
    <1>8. \A j \in DataSlots : evs'[j] = evs[j]
        BY <1>7, SlotArithmetic, SlotsDiffer DEF DataSlots
    <1>9. \A b \in Assets : /\ evs'[LocalOrder(b)] = Earliest(to_local'[b])
                            /\ evs'[ExchOrder(b)] = Earliest(to_exch'[b])
        <2> TAKE b \in Assets
        <2>1. /\ evs[LocalOrder(b)] = Earliest(to_local[b])
              /\ evs[ExchOrder(b)] = Earliest(to_exch[b])
            BY <1>1, Taken DEF Inv, SlotsFresh
        <2>2. evs'[ExchOrder(b)] = Earliest(to_exch'[b])
            BY <1>5, <1>7, <2>1, SlotArithmetic, SlotsDiffer
        <2>3. CASE b = a
            BY <1>7, <2>2, <2>3
        <2>4. CASE b # a
            BY <1>5, <1>7, <2>1, <2>2, <2>4, SlotArithmetic, SlotsDiffer
        <2> QED BY <2>3, <2>4
    <1>10. SlotsFresh' /\ FeedsOK'
        BY <1>1, <1>2, <1>4, <1>7, <1>8, <1>9, OrderSlots
    <1>11. cur_ts' <= Due'[i]
        BY <1>6, SlotArithmetic DEF Due
    <1>12. ASSUME NEW j \in Slots \ {i} PROVE Time!Keeps(j)
        <2>1. \A b \in Assets : j = LocalOrder(b) => Kept(to_local[b], to_local'[b])
            BY <1>5 DEF Kept
        <2>2. \A b \in Assets : j = ExchOrder(b) => Kept(to_exch[b], to_exch'[b])
            BY <1>5 DEF Kept
        <2>3. cur_ts' \in Nat /\ cur_ts' <= INT64_MAX
            BY <1>1, Taken, InvFacts
        <2> QED BY <1>4, <1>7, <2>1, <2>2, <2>3, KeepsSlot
    <1>13. /\ call' \in [feed : BOOLEAN, awaits : SUBSET AnyOrder, target : Nat]
           /\ cur_ts' <= call'.target
        <2>1. call \in [feed : BOOLEAN, awaits : SUBSET AnyOrder, target : Nat]
            BY DEF Inv, TypeOK
        <2> QED BY <1>1, <2>1, Taken
    <1>14. /\ result' \in {"Ok", "EndOfData", "MarketFeed", "OrderResponse"}
           /\ fed' \in Nat /\ answered' \in Nat /\ expected' \in BOOLEAN
           /\ resting' \in [Assets -> SUBSET OrderIds] /\ rows' \in [DataSlots -> Nat]
        BY <1>1, <1>2, Taken DEF Inv, TypeOK
    <1> HIDE DEF i
    <1>15. Inv' /\ Time!Happens(i)
        BY <1>1, <1>4, <1>7, <1>10, <1>11, <1>12, <1>13, <1>14, HandlerStep
    <1> QED BY <1>15 DEF i

\* The answers of the exchange go behind what is on the bus.
LEMMA AnswerGrows ==
    ASSUME Inv, NEW i \in Slots, Takes(i), NEW a \in Assets,
           NEW ids \in Seq(OrderIds), NEW lat \in ResponseLatencies
    PROVE  /\ BusOK(Appended(to_local[a], ids, cur_ts' + lat), cur_ts')
           /\ Kept(to_local[a], Appended(to_local[a], ids, cur_ts' + lat))
    <1>1. cur_ts' \in Nat /\ cur_ts' + lat \in Nat /\ cur_ts' <= cur_ts' + lat
        BY Taken, BacktestAssumption
    <1>2. BusOK(to_local[a], cur_ts')
        BY Taken
    <1> QED BY <1>1, <1>2, BusAppended DEF Kept

\* A feed event of the exchange puts responses on the bus of its asset, if any.
LEMMA RowAnswered ==
    ASSUME Inv, NEW a \in Assets, HandlesExchData(a)
    PROVE  /\ resting' \in [Assets -> SUBSET OrderIds]
           /\ \E ids \in Seq(OrderIds), lat \in ResponseLatencies :
                to_local' = [to_local EXCEPT ![a] = Appended(to_local[a], ids, cur_ts' + lat)]
    <1>1. \E n \in 0..requests, lat \in ResponseLatencies : \E ids \in [1..n -> resting[a]] :
             /\ \A i, j \in 1..n : ids[i] = ids[j] => i = j
             /\ to_local' = [to_local EXCEPT ![a] = Appended(@, ids, cur_ts' + lat)]
             /\ \E done \in SUBSET {ids[i] : i \in 1..n} :
                   resting' = [resting EXCEPT ![a] = @ \ done]
        BY DEF HandlesExchData
    <1>2. PICK n \in 0..requests, lat \in ResponseLatencies : \E ids \in [1..n -> resting[a]] :
             /\ \A i, j \in 1..n : ids[i] = ids[j] => i = j
             /\ to_local' = [to_local EXCEPT ![a] = Appended(to_local[a], ids, cur_ts' + lat)]
             /\ \E done \in SUBSET {ids[i] : i \in 1..n} :
                   resting' = [resting EXCEPT ![a] = resting[a] \ done]
        BY <1>1
    <1>3. PICK ids \in [1..n -> resting[a]] :
             /\ to_local' = [to_local EXCEPT ![a] = Appended(to_local[a], ids, cur_ts' + lat)]
             /\ \E done \in SUBSET {ids[i] : i \in 1..n} :
                   resting' = [resting EXCEPT ![a] = resting[a] \ done]
        BY <1>2
    <1>4. resting \in [Assets -> SUBSET OrderIds] /\ n \in Nat
        BY BacktestAssumption DEF Inv, TypeOK
    <1>5. ids \in Seq(OrderIds)
        BY <1>4
    <1> QED BY <1>3, <1>4, <1>5

LEMMA ExchDataStep ==
    ASSUME Inv, NEW a \in Assets, HandlesExchData(a)
    PROVE  Inv' /\ Time!Happens(ExchData(a))
    <1> DEFINE i == ExchData(a)
    <1>1. i \in Slots /\ i \in DataSlots /\ Takes(i)
        BY SlotArithmetic DEF HandlesExchData
    <1>2. cur_ts' \in Nat /\ cur_ts' <= INT64_MAX
        BY <1>1, Taken, InvFacts
    <1> PICK ts \in NextRowTimes(i) :
          evs' = [evs EXCEPT ![i] = ts, ![LocalOrder(a)] = Earliest(to_local'[a])]
        BY DEF HandlesExchData
    <1>3. /\ ts \in Nat /\ cur_ts' <= ts /\ rows[i] - 1 \in Nat
          /\ rows[i] - 1 = 0 => ts = INT64_MAX
        BY <1>1, NextRow, Taken
    <1>4. /\ resting' \in [Assets -> SUBSET OrderIds]
          /\ to_local' \in [Assets -> Seq(Message)]
          /\ \A b \in Assets \ {a} : to_local'[b] = to_local[b]
          /\ BusOK(to_local'[a], cur_ts') /\ Kept(to_local[a], to_local'[a])
        <2>1. PICK ids \in Seq(OrderIds), lat \in ResponseLatencies :
                 to_local' = [to_local EXCEPT ![a] = Appended(to_local[a], ids, cur_ts' + lat)]
            BY RowAnswered
        <2>2. /\ BusOK(Appended(to_local[a], ids, cur_ts' + lat), cur_ts')
              /\ Kept(to_local[a], Appended(to_local[a], ids, cur_ts' + lat))
            BY <1>1, AnswerGrows
        <2> QED BY <2>1, <2>2, RowAnswered, InvFacts DEF BusOK
    <1>5. to_exch' = to_exch /\ rows' = [rows EXCEPT ![i] = rows[i] - 1]
        BY DEF HandlesExchData
    <1>6. BusesSound /\ AllKept
        <2> SUFFICES ASSUME NEW b \in Assets
                     PROVE  /\ BusOK(to_exch'[b], cur_ts') /\ BusOK(to_local'[b], cur_ts')
                            /\ Kept(to_exch[b], to_exch'[b]) /\ Kept(to_local[b], to_local'[b])
            BY <1>4, <1>5, InvFacts DEF BusesSound, AllKept
        <2>1. BusOK(to_exch'[b], cur_ts') /\ Kept(to_exch[b], to_exch'[b])
            BY <1>1, <1>5, Taken DEF Kept
        <2>2. CASE b = a
            BY <1>4, <2>1, <2>2
        <2>3. CASE b # a
            BY <1>1, <1>4, <2>1, <2>3, Taken DEF Kept
        <2> QED BY <2>2, <2>3
    <1>7. Earliest(to_local'[a]) \in Nat
        BY <1>2, <1>4, EarliestFirst
    <1>8. /\ evs' \in [Slots -> Nat] /\ evs'[i] = ts
          /\ evs'[LocalOrder(a)] = Earliest(to_local'[a])
          /\ \A j \in Slots \ {i, LocalOrder(a)} : evs'[j] = evs[j]
        BY <1>1, <1>3, <1>7, SlotArithmetic, SlotsDiffer, InvFacts
    <1>9. rows' \in [DataSlots -> Nat] /\ FeedsOK'
        <2>1. \A j \in DataSlots : j \in Slots /\ j # LocalOrder(a)
            BY SlotArithmetic, SlotsDiffer DEF DataSlots
        <2>2. rows' \in [DataSlots -> Nat]
            BY <1>1, <1>3, <1>5, InvFacts
        <2>3. ASSUME NEW j \in DataSlots
              PROVE  cur_ts' <= evs'[j] /\ (rows'[j] = 0 => evs'[j] = INT64_MAX)
            <3>1. CASE j = i
                BY <1>1, <1>3, <1>5, <1>8, <3>1, InvFacts
            <3>2. CASE j # i
                <4>1. evs'[j] = evs[j] /\ rows'[j] = rows[j]
                    BY <1>5, <1>8, <2>1, <3>2, InvFacts
                <4> QED BY <1>1, <4>1, Taken DEF Inv, FeedsOK
            <3> QED BY <3>1, <3>2
        <2> QED BY <2>2, <2>3 DEF FeedsOK
    <1>10. SlotsFresh'
        <2> SUFFICES ASSUME NEW b \in Assets
                     PROVE  /\ evs'[LocalOrder(b)] = Earliest(to_local'[b])
                            /\ evs'[ExchOrder(b)] = Earliest(to_exch'[b])
            BY DEF SlotsFresh
        <2>1. /\ evs[LocalOrder(b)] = Earliest(to_local[b])
              /\ evs[ExchOrder(b)] = Earliest(to_exch[b])
            BY <1>1, Taken DEF Inv, SlotsFresh
        <2>2. evs'[ExchOrder(b)] = Earliest(to_exch'[b])
            BY <1>5, <1>8, <2>1, SlotArithmetic, SlotsDiffer
        <2>3. CASE b = a
            BY <1>8, <2>2, <2>3
        <2>4. CASE b # a
            BY <1>4, <1>8, <2>1, <2>2, <2>4, SlotArithmetic, SlotsDiffer
        <2> QED BY <2>3, <2>4
    <1>11. cur_ts' <= Due'[i]
        BY <1>1, <1>3, <1>8, SlotArithmetic DEF Due
    <1>12. ASSUME NEW j \in Slots \ {i} PROVE Time!Keeps(j)
        <2>1. /\ \A b \in Assets : j = LocalOrder(b) => Kept(to_local[b], to_local'[b])
              /\ \A b \in Assets : j = ExchOrder(b) => Kept(to_exch[b], to_exch'[b])
            BY <1>6 DEF AllKept
        <2>2. j \in DataSlots => evs'[j] = evs[j]
            BY <1>8, SlotsDiffer DEF DataSlots
        <2> QED BY <1>2, <1>6, <2>1, <2>2, KeepsSlot
    <1>13. /\ call' \in [feed : BOOLEAN, awaits : SUBSET AnyOrder, target : Nat]
           /\ cur_ts' <= call'.target
           /\ result' \in {"Ok", "EndOfData", "MarketFeed", "OrderResponse"}
           /\ fed' \in Nat /\ answered' \in Nat /\ expected' \in BOOLEAN
        BY <1>1, Taken DEF HandlesExchData, historyVars, Inv, TypeOK
    <1> HIDE DEF i
    <1>14. Inv' /\ Time!Happens(i)
        BY <1>1, <1>4, <1>6, <1>8, <1>9, <1>10, <1>11, <1>12, <1>13, HandlerStep
    <1> QED BY <1>14 DEF i

LEMMA ExchOrderStep ==
    ASSUME Inv, NEW a \in Assets, HandlesExchOrder(a)
    PROVE  Inv' /\ Time!Happens(ExchOrder(a))
    <1> DEFINE i == ExchOrder(a)
    <1>1. i \in Slots /\ Takes(i)
        BY SlotArithmetic DEF HandlesExchOrder
    <1>2. cur_ts' \in Nat /\ cur_ts' <= INT64_MAX
        BY <1>1, Taken, InvFacts
    <1> PICK n \in 0..Len(to_exch[a]), lat \in ResponseLatencies :
          LET ids == [k \in 1..n |-> to_exch[a][k].id]
              asked == {ids[k] : k \in 1..n}
          IN  /\ to_exch' = [to_exch EXCEPT ![a] = Without(to_exch[a], n)]
              /\ to_local' = [to_local EXCEPT ![a] = Appended(to_local[a], ids, cur_ts' + lat)]
              /\ \E working \in SUBSET asked :
                    resting' = [resting EXCEPT ![a] = (resting[a] \ asked) \cup working]
        BY DEF HandlesExchOrder
    <1> DEFINE ids == [k \in 1..n |-> to_exch[a][k].id]
    <1>3. /\ UNCHANGED <<rows, call, result, historyVars>>
          /\ evs' = [evs EXCEPT ![i] = Earliest(to_exch'[a]),
                                ![LocalOrder(a)] = Earliest(to_local'[a])]
        BY DEF HandlesExchOrder
    <1>4. n \in Nat /\ ids \in Seq(OrderIds) /\ \A k \in 1..n : ids[k] \in OrderIds
        <2>1. to_exch[a] \in Seq(Message)
            BY InvFacts
        <2>2. n \in Nat /\ \A k \in 1..n : k \in 1..Len(to_exch[a])
            BY <2>1
        <2>3. \A k \in 1..n : to_exch[a][k].id \in OrderIds
            BY <2>1, <2>2, MessageTimes
        <2> QED BY <2>2, <2>3
    <1>5. resting' \in [Assets -> SUBSET OrderIds]
        <2>1. resting \in [Assets -> SUBSET OrderIds]
            BY DEF Inv, TypeOK
        <2>2. PICK working \in SUBSET {ids[k] : k \in 1..n} :
                resting' = [resting EXCEPT ![a] = (resting[a] \ {ids[k] : k \in 1..n}) \cup working]
            OBVIOUS
        <2>3. working \subseteq OrderIds
            BY <1>4
        <2> QED BY <2>1, <2>2, <2>3
    <1>6. /\ BusOK(Appended(to_local[a], ids, cur_ts' + lat), cur_ts')
          /\ Kept(to_local[a], Appended(to_local[a], ids, cur_ts' + lat))
        BY <1>1, <1>4, AnswerGrows
    <1>7. BusOK(Without(to_exch[a], n), cur_ts')
        BY <1>1, <1>2, Taken, BusWithout
    <1> HIDE DEF ids
    <1>8. /\ to_exch' \in [Assets -> Seq(Message)] /\ to_local' \in [Assets -> Seq(Message)]
          /\ \A b \in Assets \ {a} : to_exch'[b] = to_exch[b] /\ to_local'[b] = to_local[b]
          /\ BusOK(to_exch'[a], cur_ts') /\ BusOK(to_local'[a], cur_ts')
          /\ Kept(to_local[a], to_local'[a])
        BY <1>6, <1>7, InvFacts DEF BusOK, ids
    <1>9. BusesSound /\ \A b \in Assets : Kept(to_local[b], to_local'[b])
        <2> SUFFICES ASSUME NEW b \in Assets
                     PROVE  /\ BusOK(to_exch'[b], cur_ts') /\ BusOK(to_local'[b], cur_ts')
                            /\ Kept(to_local[b], to_local'[b])
            BY <1>8 DEF BusesSound
        <2>1. CASE b = a
            BY <1>8, <2>1
        <2>2. CASE b # a
            BY <1>1, <1>8, <2>2, Taken DEF Kept
        <2> QED BY <2>1, <2>2
    <1>10. /\ Earliest(to_exch'[a]) \in Nat /\ cur_ts' <= Earliest(to_exch'[a])
           /\ Earliest(to_local'[a]) \in Nat
        BY <1>2, <1>8, EarliestFirst
    <1>11. /\ evs' \in [Slots -> Nat] /\ evs'[i] = Earliest(to_exch'[a])
           /\ evs'[LocalOrder(a)] = Earliest(to_local'[a])
           /\ \A j \in Slots \ {i, LocalOrder(a)} : evs'[j] = evs[j]
        BY <1>1, <1>3, <1>10, SlotArithmetic, SlotsDiffer, InvFacts
    <1>12. \A j \in DataSlots : j \in Slots /\ evs'[j] = evs[j]
        BY <1>11, SlotArithmetic, SlotsDiffer DEF DataSlots
    <1>13. \A b \in Assets : /\ evs'[LocalOrder(b)] = Earliest(to_local'[b])
                             /\ evs'[ExchOrder(b)] = Earliest(to_exch'[b])
        <2> TAKE b \in Assets
        <2>1. /\ evs[LocalOrder(b)] = Earliest(to_local[b])
              /\ evs[ExchOrder(b)] = Earliest(to_exch[b])
            BY <1>1, Taken DEF Inv, SlotsFresh
        <2>2. CASE b = a
            BY <1>11, <2>2
        <2>3. CASE b # a
            BY <1>8, <1>11, <2>1, <2>3, SlotArithmetic, SlotsDiffer
        <2> QED BY <2>2, <2>3
    <1>14. SlotsFresh' /\ FeedsOK'
        BY <1>1, <1>3, <1>9, <1>11, <1>12, <1>13, OrderSlots
    <1>15. cur_ts' <= Due'[i]
        BY <1>10, SlotArithmetic DEF Due
    <1>16. ASSUME NEW j \in Slots \ {i} PROVE Time!Keeps(j)
        <2>1. \A b \in Assets : j = LocalOrder(b) => Kept(to_local[b], to_local'[b])
            BY <1>9
        <2>2. \A b \in Assets : j = ExchOrder(b) => Kept(to_exch[b], to_exch'[b])
            BY <1>8 DEF Kept
        <2> QED BY <1>2, <1>9, <1>12, <2>1, <2>2, KeepsSlot
    <1>17. /\ call' \in [feed : BOOLEAN, awaits : SUBSET AnyOrder, target : Nat]
           /\ cur_ts' <= call'.target
           /\ result' \in {"Ok", "EndOfData", "MarketFeed", "OrderResponse"}
           /\ fed' \in Nat /\ answered' \in Nat /\ expected' \in BOOLEAN
           /\ rows' \in [DataSlots -> Nat]
        BY <1>1, <1>3, Taken DEF historyVars, Inv, TypeOK
    <1> HIDE DEF i
    <1>18. Inv' /\ Time!Happens(i)
        BY <1>1, <1>5, <1>9, <1>11, <1>14, <1>15, <1>16, <1>17, HandlerStep
    <1> QED BY <1>18 DEF i

LEMMA ReturnsStep ==
    ASSUME Inv, Returns
    PROVE  Inv' /\ Time!HandsBack
    <1>1. /\ phase = "run" /\ phase' = "bot"
          /\ UNCHANGED <<evs, rows, busVars, call, requests, historyVars>>
        BY DEF Returns
    <1>2. \A i \in Slots : evs[i] \in Nat /\ Due[i] = evs[i]
        BY <1>1, SlotsAreDue, InvFacts
    <1>3. call.target \in Nat /\ cur_ts \in Nat /\ cur_ts <= call.target
        BY <1>1 DEF Inv, TypeOK, ClockOK
    <1>4. /\ cur_ts' \in Nat /\ cur_ts <= cur_ts' /\ cur_ts' < INT64_MAX
          /\ \A i \in Slots : evs[i] < INT64_MAX => cur_ts' < evs[i]
          /\ cur_ts' = cur_ts \/ \A i \in Slots : cur_ts' < evs[i]
        <2>1. CASE NothingScheduled /\ UNCHANGED cur_ts
            BY <1>2, <2>1, InvFacts DEF NothingScheduled
        <2>2. CASE (\E i \in Slots : IsNext(i) /\ evs[i] > call.target) /\ cur_ts' = call.target
            <3> PICK i \in Slots : IsNext(i) /\ evs[i] > call.target
                BY <2>2
            <3>1. \A j \in Slots : evs[i] <= evs[j]
                BY <1>2 DEF IsNext
            <3>2. \A j \in Slots : call.target < evs[j]
                BY <1>2, <1>3, <3>1
            <3> QED BY <1>2, <1>3, <2>2, <3>2, InvFacts DEF IsNext
        <2> QED BY <2>1, <2>2 DEF Returns
    <1>5. Due' = Due
        BY <1>1 DEF Due, busVars
    <1>6. \A a \in Assets : BusOK(to_exch[a], cur_ts') /\ BusOK(to_local[a], cur_ts')
        <2> TAKE a \in Assets
        <2>1. CASE cur_ts' = cur_ts
            BY <2>1, InvFacts
        <2>2. CASE \A i \in Slots : cur_ts' < evs[i]
            <3>1. /\ evs[LocalOrder(a)] = Earliest(to_local[a])
                  /\ evs[ExchOrder(a)] = Earliest(to_exch[a])
                BY <1>1 DEF Inv, SlotsFresh
            <3>2. cur_ts' <= Earliest(to_local[a]) /\ cur_ts' <= Earliest(to_exch[a])
                BY <1>2, <1>4, <2>2, <3>1, SlotArithmetic
            <3> QED BY <1>4, <3>2, InvFacts, BusLater
        <2> QED BY <1>4, <2>1, <2>2
    <1>7. BusesOK' /\ ClockOK' /\ SlotsFresh'
        BY <1>1, <1>4, <1>6 DEF BusesOK, ClockOK, SlotsFresh, busVars
    <1>8. FeedsOK'
        <2>1. \A i \in DataSlots : cur_ts' <= evs[i]
            BY <1>2, <1>4, SlotArithmetic DEF DataSlots, Inv, FeedsOK
        <2> QED BY <1>1, <2>1 DEF Inv, FeedsOK
    <1>9. TypeOK'
        BY <1>1, <1>4 DEF Returns, Inv, TypeOK, busVars, historyVars
    <1> QED BY <1>1, <1>2, <1>4, <1>5, <1>7, <1>8, <1>9 DEF Inv, Time!HandsBack

-----------------------------------------------------------------------------
(* The theorems.                                                            *)

LEMMA InitHolds == Init => Inv /\ Time!Init
    <1> SUFFICES ASSUME Init PROVE Inv /\ Time!Init
        OBVIOUS
    <1>1. evs \in [Slots -> Nat] /\ rows \in [DataSlots -> Nat]
        BY BacktestAssumption, FeedsAssumption DEF Init
    <1> PICK i \in Slots : IsNext(i) /\ cur_ts = evs[i]
        BY DEF Init
    <1>2. cur_ts \in Nat /\ cur_ts < INT64_MAX /\ \A j \in Slots : cur_ts <= evs[j]
        BY <1>1 DEF IsNext
    <1>3. \A a \in Assets : to_exch[a] = <<>> /\ to_local[a] = <<>>
        BY DEF Init
    <1>4. TypeOK
        <2>1. /\ to_exch \in [Assets -> Seq(Message)] /\ to_local \in [Assets -> Seq(Message)]
              /\ resting \in [Assets -> SUBSET OrderIds]
            BY DEF Init
        <2>2. call = [feed |-> FALSE, awaits |-> {}, target |-> 0]
            BY DEF Init
        <2>3. call \in [feed : BOOLEAN, awaits : SUBSET AnyOrder, target : Nat]
            BY <2>2
        <2>4. requests = 0 /\ fed = 0 /\ answered = 0
            BY DEF Init
        <2>5. requests \in 0..MaxRequests /\ fed \in Nat /\ answered \in Nat
            BY <2>4, BacktestAssumption
        <2>6. phase \in {"bot", "run"} /\ result = "Ok" /\ expected \in BOOLEAN
            BY DEF Init
        <2> QED BY <1>1, <1>2, <2>1, <2>3, <2>5, <2>6 DEF TypeOK
    <1>5. SlotsFresh /\ BusesOK /\ ClockOK
        BY <1>2, <1>3 DEF Init, SlotsFresh, BusesOK, ClockOK, BusOK
    <1>6. FeedsOK
        BY <1>2, SlotArithmetic DEF Init, FeedsOK, DataSlots
    <1>7. ASSUME NEW j \in Slots PROVE Due[j] \in Nat /\ cur_ts <= Due[j]
        <2>1. j \div 4 \in Assets /\ Earliest(<<>>) = INT64_MAX
            BY SlotKinds DEF Earliest
        <2> QED BY <1>1, <1>2, <1>3, <2>1, BacktestAssumption DEF Due
    <1>8. Due \in [Slots -> Nat]
        BY <1>7 DEF Due
    <1> QED BY <1>2, <1>4, <1>5, <1>6, <1>7, <1>8 DEF Inv, Time!Init, Init

LEMMA NextStep ==
    Inv /\ [Next]_vars => Inv' /\ [Time!Next]_(Time!vars)
    <1> SUFFICES ASSUME Inv, [Next]_vars PROVE Inv' /\ [Time!Next]_(Time!vars)
        OBVIOUS
    <1> USE DEF Time!Next
    <1>1. CASE BotRequests
        <2> PICK a \in Assets, id \in OrderIds, lat \in EntryLatencies : Requests(a, id, lat)
            BY <1>1 DEF BotRequests
        <2> QED BY <1>1, RequestGrows, StrategyStep DEF BotRequests
    <1>2. CASE BotRequestsAndWaits
        <2> PICK a \in Assets, id \in OrderIds, lat \in EntryLatencies :
                Requests(a, id, lat) /\ Goto(FALSE, INT64_MAX, {<<a, id>>})
            BY <1>2 DEF BotRequestsAndWaits
        <2>1. {<<a, id>>} \in SUBSET AnyOrder /\ INT64_MAX \in Nat /\ cur_ts <= INT64_MAX
            BY InvFacts DEF AnyOrder
        <2> QED BY <1>2, <2>1, RequestGrows, StrategyStep DEF BotRequestsAndWaits, Goto
    <1>3. ASSUME NEW feed \in BOOLEAN, NEW target \in Nat, NEW awaits \in SUBSET AnyOrder,
                 cur_ts <= target, Calls(feed, target, awaits)
          PROVE  Inv' /\ Time!StrategyActs
        <2>1. UNCHANGED <<rows, resting, cur_ts>> /\ requests' \in 0..MaxRequests
            BY <1>3 DEF Calls, busVars, Inv, TypeOK
        <2>2. BusesSound /\ AllKept
            BY <1>3, BusesStay DEF Calls, busVars
        <2> QED BY <1>3, <2>1, <2>2, StrategyStep DEF Calls, Goto
    <1>4. INT64_MAX \in Nat /\ cur_ts <= INT64_MAX /\ NoOrder \in SUBSET AnyOrder
          /\ AnyOrder \in SUBSET AnyOrder
        BY InvFacts DEF NoOrder
    <1>5. CASE Elapse
        <2> PICK duration \in Durations : Calls(FALSE, cur_ts + duration, NoOrder)
            BY <1>5 DEF Elapse
        <2>1. cur_ts + duration \in Nat /\ cur_ts <= cur_ts + duration
            BY InvFacts, BacktestAssumption
        <2> QED BY <1>3, <1>4, <2>1
    <1>6. CASE WaitNextFeed
        <2> PICK any_data \in BOOLEAN, any_order \in BOOLEAN :
                Calls(any_data, INT64_MAX, IF any_order /\ ~any_data THEN AnyOrder ELSE NoOrder)
            BY <1>6 DEF WaitNextFeed
        <2>1. (IF any_order /\ ~any_data THEN AnyOrder ELSE NoOrder) \in SUBSET AnyOrder
            BY <1>4
        <2> QED BY <1>3, <1>4, <2>1
    <1>7. CASE WaitOrderResponse
        <2> PICK a \in Assets, id \in OrderIds : Calls(FALSE, INT64_MAX, {<<a, id>>})
            BY <1>7 DEF WaitOrderResponse
        <2>1. {<<a, id>>} \in SUBSET AnyOrder
            BY DEF AnyOrder
        <2> QED BY <1>3, <1>4, <2>1
    <1>8. CASE Close
        BY <1>3, <1>4, <1>8 DEF Close
    <1>9. CASE Loop
        BY <1>9, LocalDataStep, LocalOrderStep, ExchDataStep, ExchOrderStep, ReturnsStep,
           SlotArithmetic DEF Loop
    <1>10. CASE UNCHANGED vars
        <2>1. Due' = Due
            BY <1>10 DEF vars, busVars, Due
        <2> QED BY <1>10, <2>1 DEF vars, busVars, historyVars, Inv, TypeOK, SlotsFresh,
                   BusesOK, FeedsOK, ClockOK, Time!vars
    <1> QED BY <1>1, <1>2, <1>5, <1>6, <1>7, <1>8, <1>9, <1>10 DEF Next

\* The slots of orders are what is first on the buses whenever the loop runs.
THEOREM SlotsNeverStale == Spec => []SlotsFresh
    <1>1. Inv => SlotsFresh
        BY DEF Inv
    <1> QED BY <1>1, InitHolds, NextStep, PTL DEF Spec

\* Every reachable state of the engine is of the declared types.
THEOREM EngineTypeCorrect == Spec => []TypeOK
    <1>1. Inv => TypeOK
        BY DEF Inv
    <1> QED BY <1>1, InitHolds, NextStep, PTL DEF Spec

\* The loop handles everything that is due in the order of time, ties in the order
\* of slots, and hands back with nothing due: it implements Timeline.
THEOREM ImplementsTimeline == Spec => IsTimeline
    <1> QED BY InitHolds, NextStep, PTL DEF Spec, IsTimeline, Time!Spec

-----------------------------------------------------------------------------
(* Calls and what they return.                                              *)

\* A call that waits for feed waits for nothing else; its result is decided by the
\* first row it handles, after which the loop goes no further than that row's time.
Told ==
    phase = "run" =>
        /\ call.feed => call.awaits = NoOrder
        /\ result = IF call.feed /\ fed # 0 THEN "MarketFeed" ELSE "Ok"
        /\ call.feed /\ fed # 0 => cur_ts = fed /\ call.target = fed

\* Zero, which stands for "not yet", is not the time of an event.
Started == cur_ts > 0

\* One of the orders the strategy waits for is on this bus of asset a, or on some bus.
Names(bus, a) == \E i \in 1..Len(bus) : <<a, bus[i].id>> \in call.awaits

StillComing == \E a \in Assets : Names(to_exch[a], a) \/ Names(to_local[a], a)

\* A wait for a response goes on to the end of data until there is one, and no
\* further than to its time then.
Waits ==
    phase = "run" /\ call.awaits # NoOrder =>
        /\ ~call.feed
        /\ IF answered = 0
           THEN call.target = INT64_MAX /\ (expected => StillComing)
           ELSE call.target = answered /\ cur_ts = answered

\* Every message on the bus is received by then.
Sooner(bus, last) == \A i \in 1..Len(bus) : bus[i].ts <= last

Early(longest) ==
    /\ \A i \in DataSlots : evs[i] < INT64_MAX => evs[i] <= MaxTs
    /\ \A a \in Assets : /\ Sooner(to_exch[a], MaxTs + longest)
                         /\ Sooner(to_local[a], MaxTs + 2 * longest)

\* A handler does not turn back time.
LEMMA NeverBack ==
    ASSUME Inv, NEW i \in Slots, Takes(i)
    PROVE  cur_ts <= cur_ts'
    <1>1. phase = "run" /\ cur_ts' = evs[i]
        BY Taken
    <1>2. CASE i \in DataSlots
        BY <1>1, <1>2 DEF Inv, FeedsOK
    <1>3. CASE i \notin DataSlots
        <2>1. i \div 4 \in Assets
              /\ (i = LocalOrder(i \div 4) \/ i = ExchOrder(i \div 4))
            BY <1>3, SlotKinds, DataSlot
        <2>2. /\ evs[LocalOrder(i \div 4)] = Earliest(to_local[i \div 4])
              /\ evs[ExchOrder(i \div 4)] = Earliest(to_exch[i \div 4])
            BY <1>1, <2>1 DEF Inv, SlotsFresh
        <2>3. /\ cur_ts <= Earliest(to_local[i \div 4])
              /\ cur_ts <= Earliest(to_exch[i \div 4])
            BY <2>1, InvFacts, EarliestFirst
        <2> QED BY <1>1, <2>1, <2>2, <2>3
    <1> QED BY <1>2, <1>3

\* The handlers of the loop, by the slot they take.
LEMMA LoopTakes ==
    ASSUME Loop
    PROVE  Returns \/ \E i \in Slots : Takes(i)
    BY SlotArithmetic DEF Loop, HandlesLocalData, HandlesLocalOrder, HandlesExchData,
       HandlesExchOrder

\* The strategy's turn ends with a call, or goes on.
LEMMA TurnOrCall ==
    ASSUME Inv, BotRequests \/ BotRequestsAndWaits \/ Elapse \/ WaitNextFeed
                \/ WaitOrderResponse \/ Close
    PROVE  /\ phase = "bot" /\ cur_ts' = cur_ts /\ rows' = rows
           /\ \/ phase' = "bot"
              \/ \E feed \in BOOLEAN, target \in Nat, awaits \in SUBSET AnyOrder :
                    /\ Goto(feed, target, awaits)
                    /\ feed => awaits = NoOrder
                    /\ awaits # NoOrder => target = INT64_MAX
    <1>1. /\ INT64_MAX \in Nat /\ cur_ts \in Nat /\ NoOrder \in SUBSET AnyOrder
          /\ AnyOrder \in SUBSET AnyOrder
          /\ \A a \in Assets, id \in OrderIds : {<<a, id>>} \in SUBSET AnyOrder
        BY InvFacts DEF NoOrder, AnyOrder
    <1>2. ASSUME NEW feed \in BOOLEAN, NEW target \in Nat, NEW awaits \in SUBSET AnyOrder,
                 feed => awaits = NoOrder, awaits # NoOrder => target = INT64_MAX,
                 Calls(feed, target, awaits)
          PROVE  /\ phase = "bot" /\ cur_ts' = cur_ts /\ rows' = rows
                 /\ \E f \in BOOLEAN, t \in Nat, o \in SUBSET AnyOrder :
                       /\ Goto(f, t, o)
                       /\ f => o = NoOrder
                       /\ o # NoOrder => t = INT64_MAX
        BY <1>2 DEF Calls
    <1>3. CASE BotRequests
        BY <1>3 DEF BotRequests, Requests
    <1>4. CASE BotRequestsAndWaits
        <2> PICK a \in Assets, id \in OrderIds, lat \in EntryLatencies :
                Requests(a, id, lat) /\ Goto(FALSE, INT64_MAX, {<<a, id>>})
            BY <1>4 DEF BotRequestsAndWaits
        <2> QED BY <1>1, <1>4 DEF BotRequestsAndWaits, Requests
    <1>5. CASE Elapse
        <2> PICK duration \in Durations : Calls(FALSE, cur_ts + duration, NoOrder)
            BY <1>5 DEF Elapse
        <2>1. cur_ts + duration \in Nat
            BY <1>1, BacktestAssumption
        <2> QED BY <1>1, <1>2, <2>1
    <1>6. CASE WaitNextFeed
        <2> PICK any_data \in BOOLEAN, any_order \in BOOLEAN :
                Calls(any_data, INT64_MAX, IF any_order /\ ~any_data THEN AnyOrder ELSE NoOrder)
            BY <1>6 DEF WaitNextFeed
        <2> DEFINE awaits == IF any_order /\ ~any_data THEN AnyOrder ELSE NoOrder
        <2>1. awaits \in SUBSET AnyOrder /\ (any_data => awaits = NoOrder)
            BY <1>1
        <2> QED BY <1>1, <1>2, <2>1
    <1>7. CASE WaitOrderResponse
        <2> PICK a \in Assets, id \in OrderIds : Calls(FALSE, INT64_MAX, {<<a, id>>})
            BY <1>7 DEF WaitOrderResponse
        <2> QED BY <1>1, <1>2
    <1>8. CASE Close
        BY <1>1, <1>2, <1>8 DEF Close
    <1> QED BY <1>3, <1>4, <1>5, <1>6, <1>7, <1>8

\* The clock starts at the time of a row.
LEMMA StartsLate ==
    ASSUME Init
    PROVE  Started
    <1> PICK i \in Slots : IsNext(i) /\ cur_ts = evs[i]
        BY DEF Init
    <1>1. evs[i] \in 1..MaxTs \cup {INT64_MAX} /\ evs[i] < INT64_MAX
        BY DEF Init, IsNext
    <1> QED BY <1>1, BacktestAssumption DEF Started

\* Time does not go back to zero.
LEMMA StaysStarted ==
    ASSUME Inv, Started, [Next]_vars
    PROVE  Started'
    <1>1. cur_ts \in Nat /\ cur_ts > 0
        BY InvFacts DEF Started
    <1>2. CASE Returns
        <2>1. call.target \in Nat /\ cur_ts <= call.target
            BY <1>2 DEF Returns, Inv, TypeOK, ClockOK
        <2> QED BY <1>1, <1>2, <2>1 DEF Returns, Started
    <1>3. CASE \E i \in Slots : Takes(i)
        BY <1>1, <1>3, NeverBack, Taken DEF Started
    <1>4. CASE UNCHANGED vars
        BY <1>1, <1>4 DEF vars, Started
    <1>5. CASE ~Loop /\ Next
        BY <1>1, <1>5, TurnOrCall DEF Next, Started
    <1> QED BY <1>2, <1>3, <1>4, <1>5, LoopTakes DEF Next

\* Where a call starts, nothing has happened.
LEMMA ToldAtStart ==
    ASSUME NEW feed \in BOOLEAN, NEW target \in Nat, NEW awaits \in SUBSET AnyOrder,
           Goto(feed, target, awaits), feed => awaits = NoOrder
    PROVE  Told'
    BY DEF Goto, Told

\* The first row of the feed that is waited for decides result and target; others come at its time.
LEMMA ToldByLocalData ==
    ASSUME Inv, Started, Told, NEW a \in Assets, HandlesLocalData(a)
    PROVE  Told'
    <1>1. LocalData(a) \in Slots /\ Takes(LocalData(a))
        BY SlotArithmetic DEF HandlesLocalData
    <1>2. /\ phase = "run" /\ cur_ts' \in Nat /\ cur_ts \in Nat /\ cur_ts <= cur_ts'
          /\ cur_ts' <= call.target /\ cur_ts > 0
          /\ call \in [feed : BOOLEAN, awaits : SUBSET AnyOrder, target : Nat]
        BY <1>1, Taken, NeverBack, InvFacts DEF Inv, TypeOK, Started
    <1>3. /\ call' = IF call.feed THEN [call EXCEPT !.target = cur_ts'] ELSE call
          /\ result' = IF call.feed THEN "MarketFeed" ELSE result
          /\ fed' = IF fed = 0 THEN cur_ts' ELSE fed
        BY DEF HandlesLocalData
    <1>4. CASE call.feed
        <2>1. /\ call'.feed /\ call'.awaits = call.awaits /\ call'.target = cur_ts'
              /\ result' = "MarketFeed"
            BY <1>2, <1>3, <1>4
        <2>2. fed' = cur_ts'
            BY <1>2, <1>3, <1>4 DEF Told
        <2> QED BY <1>2, <1>4, <2>1, <2>2 DEF Told
    <1>5. CASE ~call.feed
        BY <1>2, <1>3, <1>5 DEF Told
    <1> QED BY <1>4, <1>5

\* The other handlers do not change a call that waits for feed, nor a result.
LEMMA ToldByOthers ==
    ASSUME Inv, Told, NEW i \in Slots, Takes(i), result' = result, fed' = fed,
           call' = call \/ (~call.feed /\ call' = [call EXCEPT !.target = cur_ts'])
    PROVE  Told'
    <1>1. /\ phase = "run" /\ cur_ts' \in Nat /\ cur_ts \in Nat /\ cur_ts <= cur_ts'
          /\ cur_ts' <= call.target
          /\ call \in [feed : BOOLEAN, awaits : SUBSET AnyOrder, target : Nat]
        BY Taken, NeverBack, InvFacts DEF Inv, TypeOK
    <1>2. CASE call' = call
        <2>1. call.feed /\ fed # 0 => cur_ts' = fed
            BY <1>1 DEF Told
        <2> QED BY <1>1, <1>2, <2>1 DEF Told
    <1>3. CASE ~call.feed /\ call' = [call EXCEPT !.target = cur_ts']
        <2>1. ~call'.feed
            BY <1>1, <1>3
        <2> QED BY <1>1, <1>3, <2>1 DEF Told
    <1> QED BY <1>2, <1>3

\* No step changes the result of a call in another way.
LEMMA StaysTold ==
    ASSUME Inv, Started, Told, [Next]_vars
    PROVE  Told'
    <1>1. CASE UNCHANGED vars
        BY <1>1 DEF vars, historyVars, Told
    <1>2. CASE ~Loop /\ Next
        <2>1. CASE phase' = "bot"
            BY <2>1 DEF Told
        <2>2. CASE phase' # "bot"
            BY <1>2, <2>2, TurnOrCall, ToldAtStart DEF Next
        <2> QED BY <2>1, <2>2
    <1>3. CASE Returns
        BY <1>3 DEF Returns, Told
    <1>4. ASSUME NEW a \in Assets, HandlesLocalOrder(a)
          PROVE  Told'
        <2>1. LocalOrder(a) \in Slots /\ Takes(LocalOrder(a)) /\ phase = "run" /\ fed' = fed
            BY <1>4, SlotArithmetic, Taken DEF HandlesLocalOrder
        <2>2. PICK n \in 0..Len(to_local[a]) :
                /\ call' = IF Stops(a, n) THEN [call EXCEPT !.target = cur_ts'] ELSE call
                /\ result' = IF Stops(a, n) /\ call.feed THEN "OrderResponse" ELSE result
            BY <1>4 DEF HandlesLocalOrder
        <2>3. Stops(a, n) => ~call.feed
            BY <2>1 DEF Told, Stops, NoOrder
        <2> QED BY <2>1, <2>2, <2>3, ToldByOthers
    <1>5. ASSUME NEW a \in Assets, HandlesExchData(a) \/ HandlesExchOrder(a)
          PROVE  Told'
        <2>1. call' = call /\ result' = result /\ fed' = fed
            BY <1>5 DEF HandlesExchData, HandlesExchOrder, historyVars
        <2>2. \E i \in Slots : Takes(i)
            BY <1>5, SlotArithmetic DEF HandlesExchData, HandlesExchOrder
        <2> QED BY <2>1, <2>2, ToldByOthers
    <1> QED BY <1>1, <1>2, <1>3, <1>4, <1>5, ToldByLocalData DEF Next, Loop

\* Nothing is scheduled exactly when nothing is due.
LEMMA IdleLoop ==
    ASSUME Inv, phase = "run"
    PROVE  Idle <=> NothingScheduled
    BY SlotsAreDue DEF Idle, NothingScheduled

\* With a slot to take, something is scheduled.
LEMMA NotIdle ==
    ASSUME Inv, phase = "run", NEW i \in Slots, IsNext(i)
    PROVE  ~NothingScheduled
    BY InvFacts DEF IsNext, NothingScheduled

\* Only Returns gives the strategy its turn.
LEMMA ReturningIsReturns ==
    ASSUME Next, Returning
    PROVE  Returns
    <1>1. CASE ~Loop
        BY <1>1 DEF Next, Returning, BotRequests, BotRequestsAndWaits, Calls, Elapse,
           WaitNextFeed, WaitOrderResponse, Close
    <1>2. ASSUME NEW i \in Slots, Takes(i) PROVE FALSE
        BY <1>2 DEF Takes, Returning
    <1> QED BY <1>1, <1>2, LoopTakes

ToldAtReturn ==
    Returning =>
        /\ result' = "MarketFeed" <=> (call.feed /\ fed # 0)
        /\ result' = "MarketFeed" => cur_ts' = fed
        /\ result' = "EndOfData" => Idle
        /\ Idle /\ answered = 0 /\ result' # "MarketFeed" => result' = "EndOfData"

\* What do_goto returns is what happened.
LEMMA TellsResult ==
    ASSUME Inv, Told, [Next]_vars
    PROVE  ToldAtReturn
    <1> SUFFICES ASSUME Returning
                 PROVE  /\ result' = "MarketFeed" <=> (call.feed /\ fed # 0)
                        /\ result' = "MarketFeed" => cur_ts' = fed
                        /\ result' = "EndOfData" => Idle
                        /\ Idle /\ answered = 0 /\ result' # "MarketFeed" => result' = "EndOfData"
        BY DEF ToldAtReturn
    <1>1. Returns /\ phase = "run"
        <2>1. Next
            BY DEF Returning, vars
        <2> QED BY <2>1, ReturningIsReturns DEF Returning
    <1>2. /\ result = IF call.feed /\ fed # 0 THEN "MarketFeed" ELSE "Ok"
          /\ call.feed /\ fed # 0 => cur_ts = fed /\ call.target = fed
        BY <1>1 DEF Told
    <1>3. CASE NothingScheduled /\ cur_ts' = cur_ts
               /\ result' = IF result = "Ok" THEN "EndOfData" ELSE result
        BY <1>1, <1>2, <1>3, IdleLoop
    <1>4. CASE (\E i \in Slots : IsNext(i)) /\ cur_ts' = call.target /\ result' = result
        <2>1. ~Idle
            BY <1>1, <1>4, IdleLoop, NotIdle
        <2> QED BY <1>2, <1>4, <2>1
    <1> QED BY <1>1, <1>3, <1>4 DEF Returns

\* MarketFeed is returned exactly by a wait for feed that was given a row, at the time of that
\* row; EndOfData only when nothing is left, and always then if neither a row is reported nor a
\* response came that the call waited for.
THEOREM ResultsAreTold == Spec => ResultTold
    <1>1. Init => Inv /\ Started /\ Told
        <2> SUFFICES ASSUME Init PROVE Inv /\ Started /\ Told
            OBVIOUS
        <2>1. Inv
            BY InitHolds
        <2>2. Told
            BY DEF Init, Told
        <2>3. Started
            BY StartsLate
        <2> QED BY <2>1, <2>2, <2>3
    <1>2. Inv /\ Started /\ Told /\ [Next]_vars => (Inv /\ Started /\ Told)'
        BY NextStep, StaysStarted, StaysTold
    <1>3. Inv /\ Told /\ [Next]_vars => [ToldAtReturn]_vars
        BY TellsResult
    <1>4. ResultTold <=> [][ToldAtReturn]_vars
        BY DEF ResultTold, ToldAtReturn
    <1> QED BY <1>1, <1>2, <1>3, <1>4, PTL DEF Spec

-----------------------------------------------------------------------------
(* Waits.                                                                   *)

\* Nothing is scheduled as late as INT64_MAX: from the last row or request on there is
\* time left for two latencies, however long.
Fits(longest) ==
    /\ longest \in Nat
    /\ \A lat \in EntryLatencies : -lat <= longest /\ lat <= longest
    /\ \A lat \in ResponseLatencies : lat <= longest
    /\ MaxTs + 2 * longest < INT64_MAX

LatenciesFit == \E longest \in Nat : Fits(longest)

\* What is on a bus that is extended or shortened.
LEMMA AppendedAt ==
    ASSUME NEW bus \in Seq(Message), NEW ids \in Seq(OrderIds), NEW ts \in Nat,
           NEW all, all = Appended(bus, ids, ts)
    PROVE  /\ Len(all) = Len(bus) + Len(ids)
           /\ \A i \in 1..Len(bus) : i \in 1..Len(all) /\ all[i] = bus[i]
           /\ \A i \in 1..Len(ids) :
                 /\ Len(bus) + i \in 1..Len(all)
                 /\ all[Len(bus) + i] = [id |-> ids[i], ts |-> Larger(ts, LatestTs(bus))]
           /\ \A i \in 1..Len(all) : i \in 1..Len(bus) \/ \E j \in 1..Len(ids) : i = Len(bus) + j
    <1> DEFINE more == [i \in 1..Len(ids) |-> Scheduled(bus, ids[i], ts)]
    <1>1. Len(bus) \in Nat /\ Len(ids) \in Nat /\ \A i \in 1..Len(ids) : ids[i] \in OrderIds
        OBVIOUS
    <1>2. Larger(ts, LatestTs(bus)) \in Nat
        <2>1. CASE bus = <<>>
            BY <2>1 DEF Larger, LatestTs
        <2>2. CASE bus # <<>>
            <3>1. Len(bus) \in 1..Len(bus)
                BY <1>1, <2>2
            <3> QED BY <2>2, <3>1, MessageTimes DEF Larger, LatestTs
        <2> QED BY <2>1, <2>2
    <1>3. \A i \in 1..Len(ids) : more[i] = [id |-> ids[i], ts |-> Larger(ts, LatestTs(bus))]
        BY DEF Scheduled
    <1>4. more \in Seq(Message) /\ Len(more) = Len(ids)
        BY <1>1, <1>2 DEF Scheduled, Message
    <1>5. /\ Len(all) = Len(bus) + Len(ids)
          /\ \A i \in 1..Len(all) : all[i] = IF i <= Len(bus) THEN bus[i] ELSE more[i - Len(bus)]
        <2>1. all = bus \o more
            BY DEF Appended
        <2> HIDE DEF more
        <2> DEFINE joined == bus \o more
        <2>2. /\ joined \in Seq(Message) /\ Len(joined) = Len(bus) + Len(more)
              /\ \A i \in 1..Len(joined) :
                    joined[i] = IF i <= Len(bus) THEN bus[i] ELSE more[i - Len(bus)]
            BY <1>4
        <2> QED BY <1>4, <2>1, <2>2
    <1> HIDE DEF more
    <1>6. \A i \in 1..Len(bus) : i \in 1..Len(all) /\ all[i] = bus[i]
        BY <1>1, <1>5
    <1>7. ASSUME NEW i \in 1..Len(ids)
          PROVE  /\ Len(bus) + i \in 1..Len(all)
                 /\ all[Len(bus) + i] = [id |-> ids[i], ts |-> Larger(ts, LatestTs(bus))]
        <2>1. Len(bus) + i \in 1..Len(all) /\ ~(Len(bus) + i <= Len(bus))
              /\ (Len(bus) + i) - Len(bus) = i
            BY <1>1, <1>5
        <2> QED BY <1>3, <1>5, <2>1
    <1>8. ASSUME NEW i \in 1..Len(all), i \notin 1..Len(bus)
          PROVE  \E j \in 1..Len(ids) : i = Len(bus) + j
        <2>1. i - Len(bus) \in 1..Len(ids) /\ i = Len(bus) + (i - Len(bus))
            BY <1>1, <1>5, <1>8
        <2> QED BY <2>1
    <1> QED BY <1>5, <1>6, <1>7, <1>8

\* What is left on a bus whose first messages were taken.
LEMMA WithoutAt ==
    ASSUME NEW bus \in Seq(Message), NEW n \in 0..Len(bus)
    PROVE  /\ Len(Without(bus, n)) = Len(bus) - n
           /\ \A i \in 1..Len(Without(bus, n)) :
                 i + n \in 1..Len(bus) /\ Without(bus, n)[i] = bus[i + n]
           /\ \A i \in 1..Len(bus) :
                 i > n => i - n \in 1..Len(Without(bus, n)) /\ Without(bus, n)[i - n] = bus[i]
    <1>1. Len(bus) \in Nat /\ n \in Nat /\ n <= Len(bus)
        OBVIOUS
    <1>2. /\ Len(Without(bus, n)) = Len(bus) - n
          /\ \A i \in 1..(Len(bus) - n) : Without(bus, n)[i] = bus[i + n]
        BY <1>1 DEF Without
    <1> HIDE DEF Without
    <1> QED BY <1>1, <1>2

\* A message waits for those in front of it, and so is received by then too.
LEMMA SoonerAppended ==
    ASSUME NEW bus \in Seq(Message), NEW ids \in Seq(OrderIds), NEW ts \in Nat,
           NEW last \in Nat, Sooner(bus, last), ts <= last
    PROVE  Sooner(Appended(bus, ids, ts), last)
    <1>1. Larger(ts, LatestTs(bus)) <= last
        <2>1. CASE bus = <<>>
            BY <2>1 DEF Larger, LatestTs
        <2>2. CASE bus # <<>>
            <3>1. Len(bus) \in 1..Len(bus)
                BY <2>2
            <3> QED BY <2>2, <3>1 DEF Larger, LatestTs, Sooner
        <2> QED BY <2>1, <2>2
    <1> DEFINE all == Appended(bus, ids, ts)
    <1>2. ASSUME NEW i \in 1..Len(all) PROVE all[i].ts <= last
        <2>1. CASE i \in 1..Len(bus)
            BY <2>1, AppendedAt DEF Sooner
        <2>2. CASE \E j \in 1..Len(ids) : i = Len(bus) + j
            <3> PICK j \in 1..Len(ids) : i = Len(bus) + j
                BY <2>2
            <3>1. all[Len(bus) + j] = [id |-> ids[j], ts |-> Larger(ts, LatestTs(bus))]
                BY AppendedAt
            <3> QED BY <1>1, <3>1
        <2> QED BY <2>1, <2>2, AppendedAt
    <1> QED BY <1>2 DEF Sooner

\* Taking messages leaves the others in time.
LEMMA SoonerWithout ==
    ASSUME NEW bus \in Seq(Message), NEW n \in 0..Len(bus), NEW last \in Nat,
           Sooner(bus, last)
    PROVE  Sooner(Without(bus, n), last)
    BY WithoutAt DEF Sooner

\* What is first on a bus is received by then.
LEMMA EarliestSooner ==
    ASSUME NEW bus, NEW now \in Nat, BusOK(bus, now), NEW last \in Nat, Sooner(bus, last),
           Earliest(bus) < INT64_MAX
    PROVE  Earliest(bus) <= last
    <1>1. bus # <<>>
        BY EarliestFirst, BacktestAssumption
    <1> QED BY <1>1, EarliestFirst DEF Sooner

\* When the requests are taken, and the rows.
LEMMA TimesTaken ==
    ASSUME Inv, NEW longest, Fits(longest), Early(longest), NEW a \in Assets
    PROVE  /\ Takes(ExchOrder(a)) => cur_ts' <= MaxTs + longest
           /\ Takes(ExchData(a)) => cur_ts' <= MaxTs
    <1>1. MaxTs \in Nat /\ longest \in Nat /\ MaxTs + longest \in Nat
        BY BacktestAssumption DEF Fits
    <1>2. ASSUME Takes(ExchOrder(a)) PROVE cur_ts' <= MaxTs + longest
        <2>1. /\ cur_ts' = evs[ExchOrder(a)] /\ cur_ts' < INT64_MAX /\ phase = "run"
            BY <1>2, Taken, SlotArithmetic
        <2>2. evs[ExchOrder(a)] = Earliest(to_exch[a])
            BY <2>1 DEF Inv, SlotsFresh
        <2> QED BY <1>1, <2>1, <2>2, InvFacts, EarliestSooner DEF Early
    <1>3. ASSUME Takes(ExchData(a)) PROVE cur_ts' <= MaxTs
        BY <1>3, Taken, SlotArithmetic DEF Early
    <1> QED BY <1>2, <1>3

\* A request is not later than MaxTs and takes one latency, a rejection too.
LEMMA RequestsEarly ==
    ASSUME Inv, NEW longest, Fits(longest), Early(longest), NEW a \in Assets,
           NEW id \in OrderIds, NEW lat \in EntryLatencies, Requests(a, id, lat)
    PROVE  \A b \in Assets : /\ Sooner(to_exch'[b], MaxTs + longest)
                             /\ Sooner(to_local'[b], MaxTs + 2 * longest)
    <1>1. /\ MaxTs \in Nat /\ longest \in Nat /\ lat \in Int /\ cur_ts \in Nat
          /\ MaxTs + longest \in Nat /\ MaxTs + 2 * longest \in Nat
          /\ cur_ts <= MaxTs /\ <<id>> \in Seq(OrderIds)
          /\ -lat <= longest /\ lat <= longest
        BY BacktestAssumption, InvFacts DEF Fits, Requests
    <1>2. \A b \in Assets : /\ to_exch[b] \in Seq(Message) /\ to_local[b] \in Seq(Message)
                            /\ Sooner(to_exch[b], MaxTs + longest)
                            /\ Sooner(to_local[b], MaxTs + 2 * longest)
        BY InvFacts DEF Early
    <1>3. CASE lat < 0
        <2>1. /\ to_local' = [to_local EXCEPT ![a] = Appended(to_local[a], <<id>>, cur_ts - lat)]
              /\ to_exch' = to_exch
            BY <1>3 DEF Requests
        <2>2. cur_ts - lat \in Nat /\ cur_ts - lat <= MaxTs + 2 * longest
            BY <1>1, <1>3
        <2>3. Sooner(Appended(to_local[a], <<id>>, cur_ts - lat), MaxTs + 2 * longest)
            BY <1>1, <1>2, <2>2, SoonerAppended
        <2> QED BY <1>2, <2>1, <2>3, InvFacts
    <1>4. CASE ~(lat < 0)
        <2>1. /\ to_exch' = [to_exch EXCEPT ![a] = Appended(to_exch[a], <<id>>, cur_ts + lat)]
              /\ to_local' = to_local
            BY <1>4 DEF Requests
        <2>2. cur_ts + lat \in Nat /\ cur_ts + lat <= MaxTs + longest
            BY <1>1, <1>4
        <2>3. Sooner(Appended(to_exch[a], <<id>>, cur_ts + lat), MaxTs + longest)
            BY <1>1, <1>2, <2>2, SoonerAppended
        <2> QED BY <1>2, <2>1, <2>3, InvFacts
    <1> QED BY <1>3, <1>4

\* Rows are not later than MaxTs, the one behind a row that is taken included.
LEMMA RowsEarly ==
    ASSUME Inv, NEW longest, Early(longest), NEW i \in DataSlots, NEW ts \in NextRowTimes(i),
           NEW after, after[i] = ts, \A j \in DataSlots \ {i} : after[j] = evs[j]
    PROVE  \A j \in DataSlots : after[j] < INT64_MAX => after[j] <= MaxTs
    <1>1. ts < INT64_MAX => ts <= MaxTs
        <2>1. i \in Slots /\ evs[i] \in Nat
            BY SlotArithmetic, InvFacts DEF DataSlots
        <2> QED BY <2>1, BacktestAssumption DEF NextRowTimes
    <1> QED BY <1>1 DEF Early

\* The strategy's turn leaves the rows where they are.
LEMMA TurnKeepsRows ==
    ASSUME Inv, BotRequests \/ BotRequestsAndWaits \/ Elapse \/ WaitNextFeed
                \/ WaitOrderResponse \/ Close
    PROVE  /\ \A i \in DataSlots : evs'[i] = evs[i]
           /\ \/ \E a \in Assets, id \in OrderIds, lat \in EntryLatencies : Requests(a, id, lat)
              \/ UNCHANGED <<to_exch, to_local>>
    <1>1. ASSUME NEW i \in DataSlots PROVE Preloaded[i] = evs[i]
        <2>1. i \in Slots
            BY SlotArithmetic DEF DataSlots
        <2> QED BY <2>1, DataSlot DEF Preloaded
    <1> QED BY <1>1 DEF BotRequests, BotRequestsAndWaits, Elapse, WaitNextFeed,
               WaitOrderResponse, Close, Calls, Goto, busVars

\* Receiving responses leaves the others in time.
LEMMA LocalOrderEarly ==
    ASSUME Inv, NEW longest, Fits(longest), Early(longest), NEW a \in Assets,
           HandlesLocalOrder(a)
    PROVE  Early(longest)'
    <1>1. /\ to_exch' = to_exch /\ LocalOrder(a) \in Slots
          /\ evs' = [evs EXCEPT ![LocalOrder(a)] = Earliest(to_local'[a])]
        BY SlotArithmetic DEF HandlesLocalOrder
    <1>2. PICK n \in 0..Len(to_local[a]) :
             to_local' = [to_local EXCEPT ![a] = Without(to_local[a], n)]
        BY DEF HandlesLocalOrder
    <1>3. \A i \in DataSlots : evs'[i] = evs[i]
        BY <1>1, InvFacts, SlotArithmetic, SlotsDiffer DEF DataSlots
    <1>4. MaxTs + 2 * longest \in Nat
        BY BacktestAssumption DEF Fits
    <1>5. Sooner(Without(to_local[a], n), MaxTs + 2 * longest)
        BY <1>4, InvFacts, SoonerWithout DEF Early
    <1>6. \A b \in Assets : Sooner(to_local'[b], MaxTs + 2 * longest)
        BY <1>2, <1>5, InvFacts DEF Early
    <1> QED BY <1>1, <1>3, <1>6 DEF Early, Sooner

\* One latency more, where two fit.
LEMMA LatencyAdded ==
    ASSUME NEW now \in Nat, NEW lat \in Nat
    PROVE  /\ now + lat \in Nat
           /\ \A last, longest \in Nat :
                 now <= last /\ lat <= longest => now + lat <= last + 2 * longest
    OBVIOUS

\* A fill is not later than MaxTs and its response takes one latency.
LEMMA ExchDataEarly ==
    ASSUME Inv, NEW longest, Fits(longest), Early(longest), NEW a \in Assets,
           HandlesExchData(a)
    PROVE  Early(longest)'
    <1> DEFINE i == ExchData(a)
    <1>1. /\ to_exch' = to_exch /\ i \in Slots /\ i \in DataSlots /\ Takes(i)
          /\ LocalOrder(a) \in Slots /\ cur_ts' \in Nat /\ cur_ts' <= MaxTs
        BY SlotArithmetic, Taken, TimesTaken DEF HandlesExchData
    <1>2. MaxTs \in Nat /\ longest \in Nat /\ MaxTs + 2 * longest \in Nat
        BY BacktestAssumption DEF Fits
    <1>3. PICK ts \in NextRowTimes(i) :
             evs' = [evs EXCEPT ![i] = ts, ![LocalOrder(a)] = Earliest(to_local'[a])]
        BY DEF HandlesExchData
    <1>4. evs'[i] = ts /\ \A j \in DataSlots \ {i} : evs'[j] = evs[j]
        BY <1>1, <1>3, InvFacts, SlotArithmetic, SlotsDiffer DEF DataSlots
    <1>5. \A j \in DataSlots : evs'[j] < INT64_MAX => evs'[j] <= MaxTs
        BY <1>1, <1>4, RowsEarly
    <1>6. \A b \in Assets : Sooner(to_local'[b], MaxTs + 2 * longest)
        <2>1. PICK ids \in Seq(OrderIds), lat \in ResponseLatencies :
                 to_local' = [to_local EXCEPT ![a] = Appended(to_local[a], ids, cur_ts' + lat)]
            BY RowAnswered
        <2>2. lat \in Nat /\ lat <= longest
            BY BacktestAssumption DEF Fits
        <2>3. cur_ts' + lat \in Nat /\ cur_ts' + lat <= MaxTs + 2 * longest
            BY <1>1, <1>2, <2>2, LatencyAdded
        <2>4. Sooner(Appended(to_local[a], ids, cur_ts' + lat), MaxTs + 2 * longest)
            BY <1>2, <2>3, InvFacts, SoonerAppended DEF Early
        <2> QED BY <2>1, <2>4, InvFacts DEF Early
    <1> QED BY <1>1, <1>5, <1>6 DEF Early, Sooner

\* What the exchange does with a batch of requests, as far as messages go.
LEMMA BatchAnswered ==
    ASSUME Inv, NEW a \in Assets, HandlesExchOrder(a)
    PROVE  \E n \in 0..Len(to_exch[a]), lat \in ResponseLatencies, ids \in Seq(OrderIds) :
             /\ Len(ids) = n /\ \A i \in 1..n : ids[i] = to_exch[a][i].id
             /\ to_exch' = [to_exch EXCEPT ![a] = Without(to_exch[a], n)]
             /\ to_local' = [to_local EXCEPT ![a] = Appended(to_local[a], ids, cur_ts' + lat)]
    <1>1. PICK n \in 0..Len(to_exch[a]), lat \in ResponseLatencies :
             LET ids == [i \in 1..n |-> to_exch[a][i].id]
             IN  /\ to_exch' = [to_exch EXCEPT ![a] = Without(to_exch[a], n)]
                 /\ to_local' = [to_local EXCEPT ![a] = Appended(to_local[a], ids, cur_ts' + lat)]
        BY DEF HandlesExchOrder
    <1> DEFINE ids == [i \in 1..n |-> to_exch[a][i].id]
    <1>2. to_exch[a] \in Seq(Message) /\ n \in Nat /\ \A i \in 1..n : i \in 1..Len(to_exch[a])
        BY InvFacts
    <1>3. \A i \in 1..n : to_exch[a][i].id \in OrderIds
        BY <1>2, MessageTimes
    <1>4. ids \in Seq(OrderIds) /\ Len(ids) = n /\ \A i \in 1..n : ids[i] = to_exch[a][i].id
        BY <1>2, <1>3
    <1> QED BY <1>1, <1>4

\* A request that is answered took one latency, and its response takes another.
LEMMA ExchOrderEarly ==
    ASSUME Inv, NEW longest, Fits(longest), Early(longest), NEW a \in Assets,
           HandlesExchOrder(a)
    PROVE  Early(longest)'
    <1>1. /\ LocalOrder(a) \in Slots /\ ExchOrder(a) \in Slots /\ Takes(ExchOrder(a))
          /\ cur_ts' \in Nat /\ cur_ts' <= MaxTs + longest
          /\ evs' = [evs EXCEPT ![ExchOrder(a)] = Earliest(to_exch'[a]),
                                ![LocalOrder(a)] = Earliest(to_local'[a])]
        BY SlotArithmetic, Taken, TimesTaken DEF HandlesExchOrder
    <1>2. /\ MaxTs \in Nat /\ longest \in Nat
          /\ MaxTs + longest \in Nat /\ MaxTs + 2 * longest \in Nat
        BY BacktestAssumption DEF Fits
    <1>3. PICK n \in 0..Len(to_exch[a]), lat \in ResponseLatencies, ids \in Seq(OrderIds) :
             /\ to_exch' = [to_exch EXCEPT ![a] = Without(to_exch[a], n)]
             /\ to_local' = [to_local EXCEPT ![a] = Appended(to_local[a], ids, cur_ts' + lat)]
        BY BatchAnswered
    <1>4. \A i \in DataSlots : evs'[i] = evs[i]
        BY <1>1, InvFacts, SlotArithmetic, SlotsDiffer DEF DataSlots
    <1>5. Sooner(Without(to_exch[a], n), MaxTs + longest)
        BY <1>2, InvFacts, SoonerWithout DEF Early
    <1>6. Sooner(Appended(to_local[a], ids, cur_ts' + lat), MaxTs + 2 * longest)
        <2>1. lat \in Nat /\ lat <= longest
            BY BacktestAssumption DEF Fits
        <2>2. cur_ts' + lat \in Nat /\ cur_ts' + lat <= MaxTs + 2 * longest
            BY <1>1, <1>2, <2>1
        <2> QED BY <1>2, <2>2, InvFacts, SoonerAppended DEF Early
    <1>7. \A b \in Assets : /\ Sooner(to_exch'[b], MaxTs + longest)
                            /\ Sooner(to_local'[b], MaxTs + 2 * longest)
        BY <1>3, <1>5, <1>6, InvFacts DEF Early
    <1> QED BY <1>4, <1>7 DEF Early, Sooner

\* Nothing is ever scheduled later than that.
LEMMA StaysEarly ==
    ASSUME Inv, NEW longest, Fits(longest), Early(longest), [Next]_vars
    PROVE  Early(longest)'
    <1>1. CASE UNCHANGED vars
        BY <1>1 DEF vars, busVars, Early, Sooner
    <1>2. CASE ~Loop /\ Next
        <2>1. /\ \A i \in DataSlots : evs'[i] = evs[i]
              /\ \/ \E a \in Assets, id \in OrderIds, lat \in EntryLatencies : Requests(a, id, lat)
                 \/ UNCHANGED <<to_exch, to_local>>
            BY <1>2, TurnKeepsRows DEF Next
        <2>2. \A b \in Assets : /\ Sooner(to_exch'[b], MaxTs + longest)
                                /\ Sooner(to_local'[b], MaxTs + 2 * longest)
            BY <2>1, RequestsEarly DEF Early
        <2> QED BY <2>1, <2>2 DEF Early, Sooner
    <1>3. CASE Returns
        BY <1>3 DEF Returns, busVars, Early, Sooner
    <1>4. ASSUME NEW a \in Assets, HandlesLocalData(a)
          PROVE  Early(longest)'
        <2> DEFINE i == LocalData(a)
        <2>1. i \in Slots /\ i \in DataSlots /\ to_exch' = to_exch /\ to_local' = to_local
            BY <1>4, SlotArithmetic DEF HandlesLocalData, busVars
        <2>2. PICK ts \in NextRowTimes(i) : evs' = [evs EXCEPT ![i] = ts]
            BY <1>4 DEF HandlesLocalData
        <2>3. evs'[i] = ts /\ \A j \in DataSlots \ {i} : evs'[j] = evs[j]
            BY <2>1, <2>2, InvFacts, SlotArithmetic DEF DataSlots
        <2>4. \A j \in DataSlots : evs'[j] < INT64_MAX => evs'[j] <= MaxTs
            BY <2>1, <2>3, RowsEarly
        <2> QED BY <2>1, <2>4 DEF Early, Sooner
    <1> QED BY <1>1, <1>2, <1>3, <1>4, LocalOrderEarly, ExchDataEarly, ExchOrderEarly
            DEF Next, Loop

-----------------------------------------------------------------------------
(* What is waited for.                                                      *)

\* A handler that leaves the call alone and loses no message.
LEMMA GoesOn ==
    ASSUME Inv, Waits, NEW i \in Slots, Takes(i), call' = call, answered' = answered,
           expected' = expected, StillComing => StillComing'
    PROVE  Waits'
    <1>1. /\ phase = "run" /\ cur_ts' \in Nat /\ cur_ts \in Nat /\ cur_ts <= cur_ts'
          /\ cur_ts' <= call.target
        BY Taken, NeverBack, InvFacts
    <1>2. CASE call.awaits # NoOrder /\ answered # 0
        BY <1>1, <1>2 DEF Waits
    <1>3. CASE call.awaits # NoOrder /\ answered = 0
        BY <1>1, <1>3 DEF Waits
    <1> QED BY <1>2, <1>3 DEF Waits

\* A row of the feed does not end a wait for a response.
LEMMA WaitsByLocalData ==
    ASSUME Inv, Waits, NEW a \in Assets, HandlesLocalData(a)
    PROVE  Waits'
    <1>1. /\ LocalData(a) \in Slots /\ Takes(LocalData(a)) /\ phase = "run"
          /\ to_exch' = to_exch /\ to_local' = to_local
          /\ answered' = answered /\ expected' = expected
          /\ call' = IF call.feed THEN [call EXCEPT !.target = cur_ts'] ELSE call
          /\ call \in [feed : BOOLEAN, awaits : SUBSET AnyOrder, target : Nat]
        BY SlotArithmetic, Taken DEF HandlesLocalData, busVars, Inv, TypeOK
    <1>2. CASE call.awaits = NoOrder
        <2>1. call'.awaits = NoOrder
            BY <1>1, <1>2
        <2> QED BY <2>1 DEF Waits
    <1>3. CASE call.awaits # NoOrder
        <2>1. call' = call
            BY <1>1, <1>3 DEF Waits
        <2>2. StillComing => StillComing'
            BY <1>1, <2>1 DEF StillComing, Names
        <2> QED BY <1>1, <2>1, <2>2, GoesOn
    <1> QED BY <1>2, <1>3

\* The batch with the first response that is waited for sets the target to its time.
LEMMA WaitsByLocalOrder ==
    ASSUME Inv, Started, Waits, NEW a \in Assets, HandlesLocalOrder(a)
    PROVE  Waits'
    <1>1. /\ LocalOrder(a) \in Slots /\ Takes(LocalOrder(a)) /\ phase = "run"
          /\ to_exch' = to_exch /\ expected' = expected
          /\ cur_ts' \in Nat /\ cur_ts \in Nat /\ cur_ts <= cur_ts' /\ cur_ts > 0
          /\ cur_ts' <= call.target
          /\ call \in [feed : BOOLEAN, awaits : SUBSET AnyOrder, target : Nat]
        BY SlotArithmetic, Taken, NeverBack, InvFacts
        DEF HandlesLocalOrder, Inv, TypeOK, Started
    <1>2. PICK n \in 0..Len(to_local[a]) :
            /\ to_local' = [to_local EXCEPT ![a] = Without(to_local[a], n)]
            /\ call' = IF Stops(a, n) THEN [call EXCEPT !.target = cur_ts'] ELSE call
            /\ answered' = IF answered = 0 /\ Stops(a, n) THEN cur_ts' ELSE answered
        BY DEF HandlesLocalOrder, Stops
    <1>3. CASE Stops(a, n)
        <2>1. /\ call.awaits # NoOrder /\ call' = [call EXCEPT !.target = cur_ts']
              /\ call'.awaits = call.awaits /\ call'.feed = call.feed /\ call'.target = cur_ts'
            BY <1>1, <1>2, <1>3 DEF Stops, NoOrder
        <2>2. answered' = cur_ts'
            BY <1>1, <1>2, <1>3, <2>1 DEF Waits
        <2> QED BY <1>1, <2>1, <2>2 DEF Waits
    <1>4. CASE ~Stops(a, n)
        <2>1. call' = call /\ answered' = answered
            BY <1>2, <1>4
        <2>2. ASSUME NEW b \in Assets, Names(to_local[b], b)
              PROVE  Names(to_local'[b], b)
            <3>1. CASE b # a
                BY <1>2, <2>2, <3>1, InvFacts
            <3>2. CASE b = a
                <4>1. PICK i \in 1..Len(to_local[a]) : <<a, to_local[a][i].id>> \in call.awaits
                    BY <2>2, <3>2 DEF Names
                <4>2. i > n
                    BY <1>4, <4>1 DEF Stops
                <4>3. to_local[a] \in Seq(Message) /\ to_local'[a] = Without(to_local[a], n)
                    BY <1>2, InvFacts
                <4>4. i - n \in 1..Len(to_local'[a]) /\ to_local'[a][i - n] = to_local[a][i]
                    BY <4>2, <4>3, WithoutAt
                <4> QED BY <3>2, <4>1, <4>4 DEF Names
            <3> QED BY <3>1, <3>2
        <2>3. StillComing => StillComing'
            BY <1>1, <2>1, <2>2 DEF StillComing, Names
        <2> QED BY <1>1, <2>1, <2>3, GoesOn
    <1> QED BY <1>3, <1>4

\* A message stays on a bus that others are put on.
LEMMA NamesAppended ==
    ASSUME NEW bus \in Seq(Message), NEW ids \in Seq(OrderIds), NEW ts \in Nat,
           NEW a, Names(bus, a)
    PROVE  Names(Appended(bus, ids, ts), a)
    <1> DEFINE all == Appended(bus, ids, ts)
    <1>1. PICK i \in 1..Len(bus) : <<a, bus[i].id>> \in call.awaits
        BY DEF Names
    <1>2. i \in 1..Len(all) /\ all[i] = bus[i]
        BY AppendedAt
    <1> QED BY <1>1, <1>2 DEF Names

\* So does what is put there.
LEMMA AnswersNamed ==
    ASSUME NEW bus \in Seq(Message), NEW ids \in Seq(OrderIds), NEW ts \in Nat,
           NEW a, NEW i \in 1..Len(ids), <<a, ids[i]>> \in call.awaits
    PROVE  Names(Appended(bus, ids, ts), a)
    <1> DEFINE all == Appended(bus, ids, ts)
    <1>1. /\ Len(bus) + i \in 1..Len(all)
          /\ all[Len(bus) + i] = [id |-> ids[i], ts |-> Larger(ts, LatestTs(bus))]
        BY AppendedAt
    <1> HIDE DEF all
    <1>2. all[Len(bus) + i].id = ids[i]
        BY <1>1
    <1>3. Names(all, a)
        BY <1>1, <1>2 DEF Names
    <1> QED BY <1>3 DEF all

\* A fill puts a response behind the others.
LEMMA WaitsByExchData ==
    ASSUME Inv, Waits, NEW a \in Assets, HandlesExchData(a)
    PROVE  Waits'
    <1>1. /\ ExchData(a) \in Slots /\ Takes(ExchData(a)) /\ cur_ts' \in Nat
          /\ to_exch' = to_exch /\ call' = call
          /\ answered' = answered /\ expected' = expected
        BY SlotArithmetic, Taken DEF HandlesExchData, historyVars
    <1>2. ASSUME NEW b \in Assets, Names(to_local[b], b)
          PROVE  Names(to_local'[b], b)
        <2>1. PICK ids \in Seq(OrderIds), lat \in ResponseLatencies :
                 to_local' = [to_local EXCEPT ![a] = Appended(to_local[a], ids, cur_ts' + lat)]
            BY RowAnswered
        <2>2. lat \in Nat
            BY BacktestAssumption
        <2>3. cur_ts' + lat \in Nat
            BY <1>1, <2>2, LatencyAdded
        <2> QED BY <1>2, <2>1, <2>3, InvFacts, NamesAppended
    <1>3. StillComing => StillComing'
        BY <1>1, <1>2 DEF StillComing, Names
    <1> QED BY <1>1, <1>3, GoesOn

\* A request that is waited for is answered.
LEMMA WaitsByExchOrder ==
    ASSUME Inv, Waits, NEW a \in Assets, HandlesExchOrder(a)
    PROVE  Waits'
    <1>1. /\ ExchOrder(a) \in Slots /\ Takes(ExchOrder(a)) /\ cur_ts' \in Nat
          /\ call' = call /\ answered' = answered /\ expected' = expected
        BY SlotArithmetic, Taken DEF HandlesExchOrder, historyVars
    <1>2. PICK n \in 0..Len(to_exch[a]), lat \in ResponseLatencies, ids \in Seq(OrderIds) :
             /\ Len(ids) = n /\ \A i \in 1..n : ids[i] = to_exch[a][i].id
             /\ to_exch' = [to_exch EXCEPT ![a] = Without(to_exch[a], n)]
             /\ to_local' = [to_local EXCEPT ![a] = Appended(to_local[a], ids, cur_ts' + lat)]
        BY BatchAnswered
    <1>3. /\ to_exch[a] \in Seq(Message) /\ to_local[a] \in Seq(Message) /\ cur_ts' + lat \in Nat
          /\ to_exch'[a] = Without(to_exch[a], n)
          /\ to_local'[a] = Appended(to_local[a], ids, cur_ts' + lat)
          /\ \A b \in Assets \ {a} : to_exch'[b] = to_exch[b] /\ to_local'[b] = to_local[b]
        <2>1. lat \in Nat
            BY BacktestAssumption
        <2>2. to_exch \in [Assets -> Seq(Message)] /\ to_local \in [Assets -> Seq(Message)]
            BY InvFacts
        <2>3. /\ to_exch'[a] = Without(to_exch[a], n)
              /\ \A b \in Assets \ {a} : to_exch'[b] = to_exch[b]
            BY <1>2, <2>2
        <2>4. /\ to_local'[a] = Appended(to_local[a], ids, cur_ts' + lat)
              /\ \A b \in Assets \ {a} : to_local'[b] = to_local[b]
            BY <1>2, <2>2
        <2>5. cur_ts' + lat \in Nat
            BY <1>1, <2>1, LatencyAdded
        <2> QED BY <2>2, <2>3, <2>4, <2>5
    <1>4. ASSUME NEW i \in 1..Len(to_exch[a]), <<a, to_exch[a][i].id>> \in call.awaits
          PROVE  Names(to_exch'[a], a) \/ Names(to_local'[a], a)
        <2>1. CASE i > n
            <3>1. i - n \in 1..Len(to_exch'[a]) /\ to_exch'[a][i - n] = to_exch[a][i]
                BY <1>3, <2>1, WithoutAt
            <3> QED BY <1>4, <3>1 DEF Names
        <2>2. CASE ~(i > n)
            <3>1. i \in 1..Len(ids) /\ ids[i] = to_exch[a][i].id
                BY <1>2, <2>2
            <3>2. <<a, ids[i]>> \in call.awaits
                BY <1>4, <3>1
            <3> QED BY <1>3, <3>1, <3>2, AnswersNamed
        <2> QED BY <2>1, <2>2
    <1>5. Names(to_local[a], a) => Names(to_local'[a], a)
        BY <1>3, NamesAppended
    <1>6. StillComing => \E b \in Assets : Names(to_exch'[b], b) \/ Names(to_local'[b], b)
        <2> SUFFICES ASSUME NEW b \in Assets, Names(to_exch[b], b) \/ Names(to_local[b], b)
                     PROVE  Names(to_exch'[b], b) \/ Names(to_local'[b], b)
            BY DEF StillComing
        <2>1. CASE b # a
            BY <1>3, <2>1
        <2>2. CASE b = a /\ Names(to_exch[b], b)
            BY <1>4, <2>2 DEF Names
        <2>3. CASE b = a /\ Names(to_local[b], b)
            BY <1>5, <2>3
        <2> QED BY <2>1, <2>2, <2>3
    <1>7. StillComing => StillComing'
        BY <1>1, <1>6 DEF StillComing, Names
    <1> QED BY <1>1, <1>7, GoesOn

\* A wait starts with what is on the buses.
LEMMA WaitsAtStart ==
    ASSUME NEW feed \in BOOLEAN, NEW target \in Nat, NEW awaits \in SUBSET AnyOrder,
           Goto(feed, target, awaits), feed => awaits = NoOrder,
           awaits # NoOrder => target = INT64_MAX
    PROVE  Waits'
    <1>1. /\ call' = [feed |-> feed, awaits |-> awaits, target |-> target]
          /\ answered' = 0 /\ (expected' <=> Coming(awaits))
        BY DEF Goto
    <1>2. call'.feed = feed /\ call'.awaits = awaits /\ call'.target = target
        BY <1>1
    <1>3. Coming(awaits) => StillComing'
        BY <1>2 DEF Coming, StillComing, Names
    <1> QED BY <1>1, <1>2, <1>3 DEF Waits

\* No step disturbs a wait.
LEMMA StaysWaiting ==
    ASSUME Inv, Started, Waits, [Next]_vars
    PROVE  Waits'
    <1>1. CASE UNCHANGED vars
        BY <1>1 DEF vars, busVars, historyVars, Waits, StillComing, Names
    <1>2. CASE ~Loop /\ Next
        <2>1. CASE phase' = "bot"
            BY <2>1 DEF Waits
        <2>2. CASE phase' # "bot"
            BY <1>2, <2>2, TurnOrCall, WaitsAtStart DEF Next
        <2> QED BY <2>1, <2>2
    <1>3. CASE Returns
        BY <1>3 DEF Returns, Waits
    <1> QED BY <1>1, <1>2, <1>3, WaitsByLocalData, WaitsByLocalOrder, WaitsByExchData,
               WaitsByExchOrder DEF Next, Loop

EndsAtAnswer ==
    Returning /\ call.awaits # NoOrder =>
        IF answered # 0 THEN cur_ts' = answered ELSE Idle /\ ~expected

\* With nothing scheduled the buses are empty.
LEMMA IdleIsEmpty ==
    ASSUME Inv, NEW longest, Fits(longest), Early(longest), Idle, NEW a \in Assets
    PROVE  to_exch[a] = <<>> /\ to_local[a] = <<>>
    <1>1. /\ Due[LocalOrder(a)] = Earliest(to_local[a])
          /\ Due[ExchOrder(a)] = Earliest(to_exch[a])
        BY DueValues
    <1>2. Earliest(to_local[a]) >= INT64_MAX /\ Earliest(to_exch[a]) >= INT64_MAX
        BY <1>1, SlotArithmetic DEF Idle
    <1>3. /\ MaxTs \in Nat /\ longest \in Nat /\ MaxTs + longest < INT64_MAX
          /\ MaxTs + 2 * longest < INT64_MAX /\ INT64_MAX \in Nat
        BY BacktestAssumption DEF Fits
    <1>4. BusOK(to_exch[a], cur_ts) /\ BusOK(to_local[a], cur_ts) /\ cur_ts \in Nat
        BY InvFacts
    <1>5. ASSUME to_exch[a] # <<>> PROVE FALSE
        <2>1. Earliest(to_exch[a]) = to_exch[a][1].ts /\ 1 \in 1..Len(to_exch[a])
              /\ Earliest(to_exch[a]) \in Nat
            BY <1>4, <1>5, EarliestFirst
        <2>2. to_exch[a][1].ts <= MaxTs + longest
            BY <2>1 DEF Early, Sooner
        <2> QED BY <1>2, <1>3, <2>1, <2>2
    <1>6. ASSUME to_local[a] # <<>> PROVE FALSE
        <2>1. Earliest(to_local[a]) = to_local[a][1].ts /\ 1 \in 1..Len(to_local[a])
              /\ Earliest(to_local[a]) \in Nat
            BY <1>4, <1>6, EarliestFirst
        <2>2. to_local[a][1].ts <= MaxTs + 2 * longest
            BY <2>1 DEF Early, Sooner
        <2> QED BY <1>2, <1>3, <2>1, <2>2
    <1> QED BY <1>5, <1>6

\* A wait that returns has had its answer, or there was none to come.
LEMMA EndsWaits ==
    ASSUME Inv, NEW longest, Fits(longest), Early(longest), Waits, [Next]_vars
    PROVE  EndsAtAnswer
    <1> SUFFICES ASSUME Returning, call.awaits # NoOrder
                 PROVE  IF answered # 0 THEN cur_ts' = answered ELSE Idle /\ ~expected
        BY DEF EndsAtAnswer
    <1>1. Returns /\ phase = "run"
        <2>1. Next
            BY DEF Returning, vars
        <2> QED BY <2>1, ReturningIsReturns DEF Returning
    <1>2. CASE answered # 0
        <2>1. call.target = answered /\ cur_ts = answered
            BY <1>1, <1>2 DEF Waits
        <2> QED BY <1>1, <1>2, <2>1 DEF Returns
    <1>3. CASE answered = 0
        <2>1. call.target = INT64_MAX /\ (expected => StillComing)
            BY <1>1, <1>3 DEF Waits
        <2>2. NothingScheduled
            <3>1. \A i \in Slots : ~(IsNext(i) /\ evs[i] > call.target)
                BY <2>1, InvFacts DEF IsNext
            <3> QED BY <1>1, <3>1 DEF Returns
        <2>3. Idle
            BY <1>1, <2>2, IdleLoop
        <2>4. ~StillComing
            <3>1. \A a \in Assets : Len(to_exch[a]) = 0 /\ Len(to_local[a]) = 0
                BY <2>3, IdleIsEmpty
            <3>2. \A i \in 1..0 : FALSE
                OBVIOUS
            <3> QED BY <3>1, <3>2 DEF StillComing, Names
        <2> QED BY <1>3, <2>1, <2>3, <2>4
    <1> QED BY <1>2, <1>3

\* A wait for a response returns at the time of the first response to an order it waits for, on
\* its own asset, and runs to the end of data only when none was coming as it began: no
\* handler loses or overlooks the message, for any number of assets and all latencies that fit.
THEOREM WaitsEndAtAnswers ==
    ASSUME LatenciesFit
    PROVE  Spec => WaitEndsAtAnswer
    <1> PICK longest \in Nat : Fits(longest)
        BY DEF LatenciesFit
    <1>1. Init => Inv /\ Started /\ Waits /\ Early(longest)
        <2> SUFFICES ASSUME Init PROVE Inv /\ Started /\ Waits /\ Early(longest)
            OBVIOUS
        <2>1. Inv /\ Started
            BY InitHolds, StartsLate
        <2>2. Waits
            BY DEF Init, Waits
        <2>3. Early(longest)
            <3>1. \A i \in DataSlots : evs[i] < INT64_MAX => evs[i] <= MaxTs
                BY SlotArithmetic, BacktestAssumption DEF Init, DataSlots
            <3>2. \A a \in Assets : to_exch[a] = <<>> /\ to_local[a] = <<>>
                BY DEF Init
            <3> QED BY <3>1, <3>2 DEF Early, Sooner
        <2> QED BY <2>1, <2>2, <2>3
    <1>2. Inv /\ Started /\ Waits /\ Early(longest) /\ [Next]_vars
          => (Inv /\ Started /\ Waits /\ Early(longest))'
        BY NextStep, StaysStarted, StaysWaiting, StaysEarly
    <1>3. Inv /\ Waits /\ Early(longest) /\ [Next]_vars => [EndsAtAnswer]_vars
        BY EndsWaits
    <1>4. WaitEndsAtAnswer <=> [][EndsAtAnswer]_vars
        BY DEF WaitEndsAtAnswer, EndsAtAnswer
    <1> QED BY <1>1, <1>2, <1>3, <1>4, PTL DEF Spec

=============================================================================
