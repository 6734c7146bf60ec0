-------------------------- MODULE LifecycleProofs --------------------------
(***************************************************************************)
(* What each side knows of an order during its life: an order the strategy *)
(* sees as done does not rest at the exchange, and the exchange has        *)
(* nothing more to say about it, for a strategy that asks cancellable()    *)
(* before it cancels or modifies, and for all latencies, rejections        *)
(* included.                                                               *)
(*                                                                         *)
(* Neither is inductive.  What the strategy will believe next is decided   *)
(* by what is on its way to it, so the invariant, Lives, follows the order *)
(* along both buses.  View: what the exchange tells of an order ends with  *)
(* a final status exactly when the order no longer rests, and with nothing *)
(* on its way the strategy sees the order at work exactly when it rests.   *)
(* An id may be forgotten and entered again while an older request for it  *)
(* is still under way; Entering says that this request finds nothing to    *)
(* touch, since the request that enters the order is the last one made.    *)
(* Time stamps name requests, so two of them made at one moment would be   *)
(* taken for each other; Awaited says that an order which was asked for    *)
(* now has to wait until time goes on, and Clock that what is due is done  *)
(* before the strategy's turn.                                             *)
(*                                                                         *)
(* The lemmas come in this order: what an action does to the buses, what   *)
(* it does to an order, and for each action that it preserves the life of  *)
(* the order it is about and of the others.                                *)
(***************************************************************************)
EXTENDS TradingProofs

-----------------------------------------------------------------------------
(* Entries of a bus that is shortened at the front or extended at the end.  *)

\* The rest of a bus.
LEMMA TailAt ==
    ASSUME NEW bus \in Seq(Entry), bus # <<>>
    PROVE  /\ Tail(bus) \in Seq(Entry) /\ Head(bus) \in Entry
           /\ Len(bus) \in Nat /\ Len(Tail(bus)) = Len(bus) - 1
           /\ Head(bus) = bus[1] /\ 1 \in 1..Len(bus)
           /\ \A i \in 1..Len(Tail(bus)) : Tail(bus)[i] = bus[i + 1] /\ i + 1 \in 1..Len(bus)
           /\ \A i \in 1..Len(bus) : i # 1 =>
                 i - 1 \in 1..Len(Tail(bus)) /\ Tail(bus)[i - 1] = bus[i]
<1>1. /\ Len(bus) \in Nat /\ Len(Tail(bus)) = Len(bus) - 1 /\ Head(bus) = bus[1]
      /\ 1 \in 1..Len(bus)
      /\ \A i \in 1..Len(Tail(bus)) : Tail(bus)[i] = bus[i + 1] /\ i + 1 \in 1..Len(bus)
  BY EmptySeq, LenProperties
<1>2. Tail(bus) \in Seq(Entry) /\ Head(bus) \in Entry
  BY HeadTailProperties
<1>3. \A i \in 1..Len(bus) : i # 1 => i - 1 \in 1..Len(Tail(bus)) /\ (i - 1) + 1 = i
  BY <1>1
<1>4. QED
  BY <1>1, <1>2, <1>3

\* A bus with new entries behind.
Behind(all, bus, new) ==
    /\ all \in Seq(Entry)
    /\ Len(bus) \in Nat /\ Len(new) \in Nat /\ Len(all) = Len(bus) + Len(new)
    /\ \A i \in 1..Len(bus) : i \in 1..Len(all) /\ all[i] = bus[i]
    /\ \A i \in 1..Len(all) : i \notin 1..Len(bus) =>
          i - Len(bus) \in 1..Len(new) /\ all[i] = new[i - Len(bus)]
    /\ \A k \in 1..Len(new) : Len(bus) + k \in 1..Len(all) /\ all[Len(bus) + k] = new[k]

LEMMA JoinAt ==
    ASSUME NEW bus \in Seq(Entry), NEW new \in Seq(Entry)
    PROVE  Behind(bus \o new, bus, new)
<1> DEFINE all == bus \o new
<1>1. /\ all \in Seq(Entry) /\ Len(all) = Len(bus) + Len(new)
      /\ \A i \in 1..Len(all) : all[i] = IF i <= Len(bus) THEN bus[i] ELSE new[i - Len(bus)]
  BY ConcatProperties
<1>2. Len(bus) \in Nat /\ Len(new) \in Nat
  BY LenProperties
<1> HIDE DEF all
<1>3. \A i \in 1..Len(bus) : i \in 1..Len(all) /\ all[i] = bus[i]
  BY <1>1, <1>2
<1>4. \A i \in 1..Len(all) : i \notin 1..Len(bus) =>
         i - Len(bus) \in 1..Len(new) /\ all[i] = new[i - Len(bus)]
  BY <1>1, <1>2
<1>5. ASSUME NEW k \in 1..Len(new)
      PROVE  Len(bus) + k \in 1..Len(all) /\ all[Len(bus) + k] = new[k]
  <2>1. Len(bus) + k \in 1..Len(all) /\ ~(Len(bus) + k <= Len(bus))
        /\ (Len(bus) + k) - Len(bus) = k
    BY <1>1, <1>2
  <2>2. QED
    BY <1>1, <2>1
<1>6. QED
  BY <1>1, <1>2, <1>3, <1>4, <1>5 DEF all, Behind

\* One entry, scheduled at the end.
LEMMA OneAt ==
    ASSUME NEW bus \in Seq(Entry), NEW o \in Order, o.q = 0, NEW ts \in Nat
    PROVE  LET new == <<Scheduled(bus, o, ts)>>
           IN  /\ new \in Seq(Entry) /\ Append(bus, Scheduled(bus, o, ts)) = bus \o new
               /\ Len(new) = 1 /\ new[1].order = o /\ new[1].ts \in Nat /\ new[1].ts >= ts
<1> DEFINE e == Scheduled(bus, o, ts)
<1>1. e \in Entry /\ e.order = o /\ e.ts \in Nat /\ e.ts >= ts
  BY ScheduledType, ScheduledLate
<1> HIDE DEF e
<1>2. <<e>> \in Seq(Entry) /\ Append(bus, e) = bus \o <<e>> /\ Len(<<e>>) = 1 /\ <<e>>[1] = e
  BY <1>1
<1>3. QED
  BY <1>1, <1>2 DEF e

-----------------------------------------------------------------------------
(* What the exchange answers.                                               *)

\* The terms of an order: what no fill changes.
SameTerms(o1, o2) ==
    /\ Same(o1, o2)
    /\ o1.qty = o2.qty /\ o1.order_type = o2.order_type
    /\ o1.time_in_force = o2.time_in_force

\* What a fill with something executed makes of an order.
Executes(f, o, quantity) ==
    /\ SameTerms(f, o) /\ f.req = o.req /\ f.local_timestamp = o.local_timestamp
    /\ f.exec_qty = quantity /\ f.leaves_qty = Larger(0, o.leaves_qty - quantity)
    /\ f.status = IF Lots(f.leaves_qty) > 0 THEN "PartiallyFilled" ELSE "Filled"

\* fill on an order that is not done.
LEMMA FillExecutes ==
    ASSUME NEW o \in Order, o.status \notin Terminal, NEW ts \in Nat,
           NEW tick \in INVALID_MIN..INVALID_MAX, NEW quantity \in Nat
    PROVE  Executes(Fill(o, ts, tick, quantity), o, quantity)
<1> DEFINE leaves == Larger(0, o.leaves_qty - quantity)
           st == IF Lots(leaves) > 0 THEN "PartiallyFilled" ELSE "Filled"
           f == Fill(o, ts, tick, quantity)
<1>1. f = [o EXCEPT !.exec_price_tick = tick, !.exec_qty = quantity,
                    !.leaves_qty = leaves, !.status = st, !.exch_timestamp = ts]
  BY DEF Fill
<1> HIDE DEF leaves, st, f
<1>2. /\ f.exec_qty = quantity /\ f.leaves_qty = leaves /\ f.status = st
      /\ f.req = o.req /\ f.local_timestamp = o.local_timestamp
      /\ SameTerms(f, o)
  BY <1>1 DEF Order, SameTerms, Same
<1>3. QED
  BY <1>2 DEF Executes, f, leaves, st

\* The rest of an order is all of it.
LEMMA RestExecutes ==
    ASSUME NEW f, NEW o \in Order, Executes(f, o, o.leaves_qty)
    PROVE  f.leaves_qty = 0 /\ f.status = "Filled"
<1>1. o.leaves_qty \in Nat
  BY DEF Order
<1>2. \A n \in Nat : Larger(0, n - n) = 0
  BY DEF Larger
<1>3. f.leaves_qty = 0
  BY <1>1, <1>2 DEF Executes
<1>4. QED
  BY <1>3, NoLots DEF Executes

\* ack_new for an id that is not in the book: the request is accepted, and
\* the order is executed, enters the book, or expires.
Accepts(a, b, o) ==
    /\ SameTerms(a.order, o) /\ a.order.req = "None"
    /\ a.order.local_timestamp = o.local_timestamp
    /\ \/ /\ a.order.status = "Filled" /\ a.book = b /\ a.executed
          /\ a.order.exec_qty = o.leaves_qty /\ a.order.leaves_qty = 0
       \/ /\ a.order.status = "New" /\ a.book = Insert(b, a.order) /\ ~a.executed
          /\ a.order.leaves_qty = o.leaves_qty
       \/ a.order.status = "Expired" /\ a.book = b /\ ~a.executed

LEMMA AckNewAccepts ==
    ASSUME exch_depth \in Depth, NEW b, NEW o \in Order, o.order_id \notin Ids(b),
           o.status \notin Terminal, NEW ts \in Nat
    PROVE  Accepts(AckNew(b, o, ts), b, o)
<1> DEFINE accepted == [o EXCEPT !.req = "None"]
           best == exch_depth.best[Opposite(o.side)]
           market == o.order_type = "Market"
           meets == Crosses(o.side, o.price_tick, best)
           takes == market \/ (meets /\ o.time_in_force # "GTX")
           rests == ~market /\ ~meets /\ o.time_in_force \in {"GTC", "GTX"}
           ahead == exch_depth.qty[o.side][o.price_tick]
           resting == [accepted EXCEPT !.status = "New", !.exch_timestamp = ts, !.q = ahead]
           expired == [accepted EXCEPT !.status = "Expired", !.exch_timestamp = ts]
           filled == Fill(accepted, ts, best, o.leaves_qty)
<1>1. AckNew(b, o, ts) =
        IF takes THEN Ack(b, filled, TRUE)
        ELSE IF rests THEN Ack(Insert(b, resting), resting, FALSE)
        ELSE Ack(b, expired, FALSE)
  BY DEF AckNew
<1>2. best \in INVALID_MIN..INVALID_MAX /\ o.leaves_qty \in Nat
  BY SideFacts DEF Order, Depth
<1>3. /\ accepted \in Order /\ accepted.status = o.status /\ accepted.req = "None"
      /\ accepted.leaves_qty = o.leaves_qty
      /\ accepted.local_timestamp = o.local_timestamp /\ SameTerms(accepted, o)
  BY DEF Order, Statuses, SameTerms, Same
<1>4. /\ resting.status = "New" /\ resting.req = "None"
      /\ resting.leaves_qty = o.leaves_qty
      /\ resting.local_timestamp = o.local_timestamp /\ SameTerms(resting, o)
  BY DEF Order, SameTerms, Same
<1>5. /\ expired.status = "Expired" /\ expired.req = "None"
      /\ expired.local_timestamp = o.local_timestamp /\ SameTerms(expired, o)
  BY DEF Order, SameTerms, Same
<1> HIDE DEF accepted, resting, expired, best
<1>6. Executes(filled, accepted, accepted.leaves_qty)
  BY <1>2, <1>3, FillExecutes
<1> HIDE DEF filled
<1>7. /\ filled.status = "Filled" /\ filled.leaves_qty = 0
      /\ filled.exec_qty = o.leaves_qty /\ filled.req = "None"
      /\ filled.local_timestamp = o.local_timestamp /\ SameTerms(filled, o)
  BY <1>3, <1>6, RestExecutes DEF Executes, SameTerms, Same
<1>8. QED
  BY <1>1, <1>4, <1>5, <1>7 DEF Ack, Accepts

Refuses(a, b, o) ==
    /\ a.book = b /\ ~a.executed
    /\ SameTerms(a.order, o) /\ a.order.req = "Rejected" /\ a.order.status = o.status
    /\ a.order.local_timestamp = o.local_timestamp

Cancels(a, b, o) ==
    /\ a.book = Withdraw(b, {o.order_id}) /\ ~a.executed
    /\ SameTerms(a.order, b.orders[o.order_id])
    /\ a.order.req = "None" /\ a.order.status = "Canceled"

\* The order keeps its place; what it was amended to is in the answer too.
Amends(a, b, o) ==
    LET old == b.orders[o.order_id]
        new == a.book.orders[o.order_id]
    IN  /\ old.price_tick = o.price_tick /\ o.qty <= old.leaves_qty
        /\ SameTerms(a.order, o) /\ a.order.req = o.req
        /\ a.order.status = "New" /\ a.order.leaves_qty = o.qty /\ ~a.executed
        /\ Ids(a.book) = Ids(b)
        /\ \A id \in Ids(b) : id # o.order_id => a.book.orders[id] = b.orders[id]
        /\ Same(new, old) /\ new.qty = o.qty /\ new.leaves_qty = o.qty
        /\ new.status = "New" /\ new.req = old.req

\* What a request may be answered with.
Answers(a, b, o) ==
    \/ /\ Refuses(a, b, o)
       /\ IF o.req = "New" THEN o.order_id \in Ids(b) ELSE o.order_id \notin Ids(b)
    \/ o.req = "New" /\ o.order_id \notin Ids(b) /\ Accepts(a, b, o)
    \/ o.req = "Canceled" /\ o.order_id \in Ids(b) /\ Cancels(a, b, o)
    \/ o.req = "Replaced" /\ o.order_id \in Ids(b) /\ Amends(a, b, o)
    \/ /\ o.req = "Replaced" /\ o.order_id \in Ids(b)
       /\ b.orders[o.order_id].price_tick # o.price_tick
          \/ o.qty > b.orders[o.order_id].leaves_qty
       /\ Accepts(a, Withdraw(b, {o.order_id}), o)

\* A rejection.
LEMMA RejectRefuses ==
    ASSUME NEW b, NEW o \in Order, NEW ts \in Nat
    PROVE  Refuses(Reject(b, o, ts), b, o)
<1> DEFINE r == [o EXCEPT !.req = "Rejected", !.exch_timestamp = ts]
<1>1. /\ r.req = "Rejected" /\ r.status = o.status /\ r.local_timestamp = o.local_timestamp
      /\ SameTerms(r, o)
  BY DEF Order, SameTerms, Same
<1>2. Reject(b, o, ts) = Ack(b, r, FALSE)
  BY DEF Reject
<1> HIDE DEF r
<1>3. QED
  BY <1>1, <1>2 DEF Ack, Refuses

\* ack_cancel of an order in the book.
LEMMA AckCancelCancels ==
    ASSUME NEW b, BookOK(b), NEW o \in Order, o.order_id \in Ids(b), NEW ts \in Nat
    PROVE  Cancels(AckCancel(b, o, ts), b, o)
<1> DEFINE old == b.orders[o.order_id]
           canceled == [old EXCEPT !.req = "None", !.status = "Canceled",
                                   !.exch_timestamp = ts]
<1>1. old \in Order
  BY BookOrders
<1> HIDE DEF old
<1>2. canceled.req = "None" /\ canceled.status = "Canceled" /\ SameTerms(canceled, old)
  BY <1>1 DEF Order, SameTerms, Same
<1>3. AckCancel(b, o, ts) = Ack(Withdraw(b, {o.order_id}), canceled, FALSE)
  BY DEF AckCancel, old
<1> HIDE DEF canceled
<1>4. QED
  BY <1>2, <1>3 DEF Ack, Cancels, old

\* What is left of a book when orders leave it.
LEMMA WithdrawLeaves ==
    ASSUME NEW b, NEW ids
    PROVE  /\ Ids(Withdraw(b, ids)) = Ids(b) \ ids
           /\ \A id \in Ids(b) \ ids : Withdraw(b, ids).orders[id] = b.orders[id]
  BY DEF Withdraw, Ids

\* What a book has when an order enters it.
LEMMA InsertAdds ==
    ASSUME NEW b, NEW o, o.order_id \notin Ids(b)
    PROVE  /\ Ids(Insert(b, o)) = Ids(b) \cup {o.order_id}
           /\ \A id \in Ids(b) : Insert(b, o).orders[id] = b.orders[id]
           /\ Insert(b, o).orders[o.order_id] = o
  BY DEF Insert, Ids

\* ack_modify of an order in the book.
LEMMA AckModifyAnswers ==
    ASSUME exch_depth \in Depth, NEW b, BookOK(b), NEW o \in Order,
           o.status \notin Terminal, o.req = "Replaced", NEW ts \in Nat
    PROVE  Answers(AckModify(b, o, ts), b, o)
<1> DEFINE old == b.orders[o.order_id]
           amended == [old EXCEPT !.qty = o.qty, !.leaves_qty = o.qty,
                                  !.exch_timestamp = ts, !.status = "New"]
           reply == [o EXCEPT !.leaves_qty = o.qty, !.exch_timestamp = ts, !.status = "New"]
           reenter == old.price_tick # o.price_tick \/ o.qty > old.leaves_qty
           inplace == [id \in {o.order_id} |-> amended]
           a == AckModify(b, o, ts)
<1>1. CASE o.order_id \notin Ids(b)
  <2>1. a = Reject(b, o, ts)
    BY <1>1 DEF AckModify
  <2>2. QED
    BY <1>1, <2>1, RejectRefuses DEF Answers
<1>2. CASE o.order_id \in Ids(b) /\ reenter
  <2>1. a = AckNew(AckCancel(b, o, ts).book, o, ts)
    BY <1>2 DEF AckModify
  <2>2. AckCancel(b, o, ts).book = Withdraw(b, {o.order_id})
    BY <1>2, AckCancelCancels DEF Cancels
  <2>3. o.order_id \notin Ids(Withdraw(b, {o.order_id}))
    BY WithdrawLeaves
  <2>4. Accepts(a, Withdraw(b, {o.order_id}), o)
    BY <2>1, <2>2, <2>3, AckNewAccepts
  <2>5. QED
    BY <1>2, <2>4 DEF Answers
<1>3. CASE o.order_id \in Ids(b) /\ ~reenter
  <2>1. a = Ack(Replace(b, inplace), reply, FALSE)
    BY <1>3 DEF AckModify
  <2>2. old \in Order
    BY <1>3, BookOrders
  <2>3. old.price_tick = o.price_tick /\ o.qty <= old.leaves_qty
    BY <1>3, <2>2 DEF Order
  <2> HIDE DEF old
  <2>4. /\ Same(amended, old) /\ amended.qty = o.qty /\ amended.leaves_qty = o.qty
        /\ amended.status = "New" /\ amended.req = old.req
    BY <2>2 DEF Order, Same
  <2>5. /\ SameTerms(reply, o) /\ reply.req = o.req
        /\ reply.status = "New" /\ reply.leaves_qty = o.qty
    BY DEF Order, SameTerms, Same
  <2> HIDE DEF amended, reply
  <2>6. /\ Ids(Replace(b, inplace)) = Ids(b)
        /\ \A id \in Ids(b) : Replace(b, inplace).orders[id] =
                               IF id = o.order_id THEN amended ELSE b.orders[id]
    BY DEF Replace, Ids, BookOK, IsBook
  <2>7. a.book = Replace(b, inplace) /\ a.order = reply /\ ~a.executed
    BY <2>1 DEF Ack
  <2> HIDE DEF inplace, a
  <2>8. Amends(a, b, o)
    BY <1>3, <2>3, <2>4, <2>5, <2>6, <2>7 DEF Amends, old
  <2>9. QED
    BY <1>3, <2>8 DEF Answers, a
<1>4. QED
  BY <1>1, <1>2, <1>3

\* Every request, except to enter or amend an order that is done.
LEMMA AcknowledgeAnswers ==
    ASSUME exch_depth \in Depth, BookOK(book), NEW o \in Order, o.req \in Requested,
           o.req = "Canceled" \/ o.status \notin Terminal, NEW ts \in Nat
    PROVE  Answers(Acknowledge(book, o, ts), book, o)
<1>1. CASE o.req = "New"
  <2>1. Acknowledge(book, o, ts) = AckNew(book, o, ts)
    BY <1>1 DEF Acknowledge
  <2>2. CASE o.order_id \in Ids(book)
    <3>1. AckNew(book, o, ts) = Reject(book, o, ts)
      BY <2>2 DEF AckNew
    <3>2. QED
      BY <1>1, <2>1, <2>2, <3>1, RejectRefuses DEF Answers
  <2>3. CASE o.order_id \notin Ids(book)
    BY <1>1, <2>1, <2>3, AckNewAccepts DEF Answers
  <2>4. QED
    BY <2>2, <2>3
<1>2. CASE o.req = "Canceled"
  <2>1. Acknowledge(book, o, ts) = AckCancel(book, o, ts)
    BY <1>2 DEF Acknowledge
  <2>2. CASE o.order_id \notin Ids(book)
    <3>1. AckCancel(book, o, ts) = Reject(book, o, ts)
      BY <2>2 DEF AckCancel
    <3>2. QED
      BY <1>2, <2>1, <2>2, <3>1, RejectRefuses DEF Answers
  <2>3. CASE o.order_id \in Ids(book)
    BY <1>2, <2>1, <2>3, AckCancelCancels DEF Answers
  <2>4. QED
    BY <2>2, <2>3
<1>3. CASE o.req = "Replaced"
  BY <1>3, AckModifyAnswers DEF Acknowledge
<1>4. QED
  BY <1>1, <1>2, <1>3 DEF Requested

-----------------------------------------------------------------------------
(* What a feed event executes.                                              *)

\* What the event leaves of an order it does not execute.
SameButQueue(n, o) ==
    /\ SameTerms(n, o) /\ n.req = o.req /\ n.status = o.status
    /\ n.leaves_qty = o.leaves_qty

\* A part of what is left of an order, or, without partial fills, all of it.
Takes(f, o) ==
    /\ f \in Order
    /\ \E quantity \in 0..o.leaves_qty :
          Executes(f, o, quantity) /\ (PartialFill \/ quantity = o.leaves_qty)

\* An event executes the orders `fills` names, takes those out of the book that are
\* filled, and publishes them all.
Event(fills, ts) ==
    /\ DOMAIN fills \subseteq Ids(book)
    /\ \A id \in DOMAIN fills : Takes(fills[id], book.orders[id])
    /\ Ids(book') = Ids(book) \ {id \in DOMAIN fills : fills[id].status = "Filled"}
    /\ \A id \in Ids(book') :
          IF id \in DOMAIN fills THEN book'.orders[id] = fills[id]
          ELSE SameButQueue(book'.orders[id], book.orders[id])
    /\ Publish(fills, ts)

\* fill_maker takes all that is left.
LEMMA FillMakerTakes ==
    ASSUME NEW o \in Order, o.status \notin Terminal, NEW ts \in Nat
    PROVE  Takes(FillMaker(o, ts), o) /\ FillMaker(o, ts).status = "Filled"
<1>1. o.leaves_qty \in Nat /\ o.price_tick \in INVALID_MIN..INVALID_MAX
  BY TicksAreInt DEF Order
<1>2. Executes(FillMaker(o, ts), o, o.leaves_qty)
  BY <1>1, FillExecutes DEF FillMaker
<1>3. \A n \in Nat : n \in 0..n
  OBVIOUS
<1>4. o.leaves_qty \in 0..o.leaves_qty
  BY <1>1, <1>3, Zenon
<1>5. QED
  BY <1>2, <1>4, RestExecutes, FillMakerType DEF Takes

\* A trade takes from the orders it goes through or reaches.
LEMMA AfterTradeTakes ==
    ASSUME NEW o \in Order, o.status \notin Terminal, NEW tick \in Ticks,
           NEW quantity \in Nat, NEW ts \in Nat
    PROVE  LET f == AfterTrade(o, tick, quantity, ts)
           IN  IF Through(o, tick) \/ AtFront(o, tick, quantity) THEN Takes(f, o)
               ELSE SameButQueue(f, o)
<1> DEFINE moved == Advance(o, quantity)
           portion == IF PartialFill THEN Smaller(Executable(moved), o.leaves_qty)
                                     ELSE o.leaves_qty
           front == [moved EXCEPT !.q = 0]
           f == AfterTrade(o, tick, quantity, ts)
<1>1. moved \in Order /\ SameButQueue(moved, o) /\ moved.local_timestamp = o.local_timestamp
  BY DEF Advance, Order, SameButQueue, SameTerms, Same
<1>2. Executable(moved) \in Nat
  <2>1. CASE moved.q < 0
    <3>1. Lots(-moved.q) \in Nat
      BY <1>1, <2>1, LotsType DEF Order
    <3>2. QED
      BY <2>1, <3>1, OrdersAssumption DEF Executable
  <2>2. CASE ~(moved.q < 0)
    BY <2>2 DEF Executable
  <2>3. QED
    BY <2>1, <2>2
<1>3. portion \in 0..o.leaves_qty /\ (PartialFill \/ portion = o.leaves_qty)
  BY <1>2 DEF Smaller, Order
<1>4. front \in Order /\ SameButQueue(front, o) /\ front.local_timestamp = o.local_timestamp
  BY <1>1 DEF Order, SameButQueue, SameTerms, Same
<1>5. o.price_tick \in INVALID_MIN..INVALID_MAX /\ portion \in Nat
  <2>1. o.price_tick \in INVALID_MIN..INVALID_MAX
    BY TicksAreInt DEF Order
  <2>2. \A n \in Nat : 0..n \subseteq Nat
    OBVIOUS
  <2>3. o.leaves_qty \in Nat
    BY DEF Order
  <2> HIDE DEF portion
  <2>4. QED
    BY <1>3, <2>1, <2>2, <2>3
<1>6. f = IF Through(o, tick) THEN FillMaker(o, ts)
          ELSE IF AtFront(o, tick, quantity) THEN Fill(front, ts, o.price_tick, portion)
          ELSE IF o.price_tick = tick THEN moved
          ELSE o
  BY DEF AfterTrade
<1>7. f \in Order
  BY AfterTradeType
<1>8. SameButQueue(o, o)
  BY DEF SameButQueue, SameTerms, Same
<1> HIDE DEF moved, portion, front, f
<1>9. Executes(Fill(front, ts, o.price_tick, portion), front, portion)
  BY <1>4, <1>5, FillExecutes DEF SameButQueue
<1>10. Executes(Fill(front, ts, o.price_tick, portion), o, portion)
  BY <1>4, <1>9 DEF Executes, SameButQueue, SameTerms, Same
<1>11. AtFront(o, tick, quantity) /\ ~Through(o, tick) => Takes(f, o)
  BY <1>3, <1>6, <1>7, <1>10 DEF Takes
<1>12. Through(o, tick) => Takes(f, o)
  BY <1>6, FillMakerTakes
<1>13. ~Through(o, tick) /\ ~AtFront(o, tick, quantity) => SameButQueue(f, o)
  BY <1>1, <1>6, <1>8
<1>14. QED
  BY <1>11, <1>12, <1>13 DEF f

\* on_sell_trade and on_buy_trade.
LEMMA TradeIsEvent ==
    ASSUME ExchTyped, WorkingIn(book), NEW s \in Sides, NEW tick \in Ticks,
           NEW quantity \in Nat, NEW ts \in Nat, ProcessTrade(s, tick, quantity, ts)
    PROVE  \E fills : Event(fills, ts)
<1> DEFINE reached == Scanned(s, exch_depth.best[Opposite(s)], tick)
           after == [id \in reached |-> AfterTrade(book.orders[id], tick, quantity, ts)]
           hit == {id \in reached : \/ Through(book.orders[id], tick)
                                    \/ AtFront(book.orders[id], tick, quantity)}
           done == {id \in hit : after[id].status = "Filled"}
           fills == [id \in hit |-> after[id]]
<1>1. BookOK(book)
  BY DEF ExchTyped
<1>2. book' = Withdraw(Replace(book, after), done) /\ Publish(fills, ts)
  BY DEF ProcessTrade
<1>3. reached \subseteq Ids(book)
  BY <1>1, ScannedInBook
<1>4. ASSUME NEW id \in reached
      PROVE  /\ after[id] \in Order /\ Same(after[id], book.orders[id])
             /\ IF id \in hit THEN Takes(after[id], book.orders[id])
                ELSE SameButQueue(after[id], book.orders[id])
  <2>1. id \in Ids(book) /\ after[id] = AfterTrade(book.orders[id], tick, quantity, ts)
    BY <1>3
  <2>2. book.orders[id] \in Order /\ book.orders[id].status \notin Terminal
    BY <1>1, <2>1, BookOrders DEF WorkingIn, Working, Terminal
  <2>3. id \in hit <=> \/ Through(book.orders[id], tick)
                       \/ AtFront(book.orders[id], tick, quantity)
    OBVIOUS
  <2> HIDE DEF after, reached, hit
  <2>4. QED
    BY <2>1, <2>2, <2>3, AfterTradeType, AfterTradeTakes
<1>5. /\ DOMAIN after = reached /\ DOMAIN fills = hit /\ hit \subseteq reached
      /\ done = {id \in DOMAIN fills : fills[id].status = "Filled"}
      /\ \A id \in hit : fills[id] = after[id]
  OBVIOUS
<1> HIDE DEF reached, after, hit, done, fills
<1>6. /\ Ids(Replace(book, after)) = Ids(book)
      /\ \A id \in Ids(book) : Replace(book, after).orders[id] =
                                 IF id \in reached THEN after[id] ELSE book.orders[id]
  BY <1>5 DEF Replace, Ids, BookOK, IsBook
<1>7. /\ Ids(book') = Ids(book) \ done
      /\ \A id \in Ids(book') : book'.orders[id] =
                                 IF id \in reached THEN after[id] ELSE book.orders[id]
  BY <1>2, <1>6, WithdrawLeaves
<1>8. \A o : SameButQueue(o, o)
  BY DEF SameButQueue, SameTerms, Same
<1>9. QED
  BY <1>2, <1>3, <1>4, <1>5, <1>7, <1>8 DEF Event

\* A depth event.
LEMMA DepthIsEvent ==
    ASSUME ExchTyped, WorkingIn(book), NEW s \in Sides, NEW tick \in Ticks,
           NEW quantity \in Nat, NEW ts \in Nat, ProcessDepth(s, tick, quantity, ts)
    PROVE  \E fills : Event(fills, ts)
<1> DEFINE d == UpdateDepth(exch_depth, s, tick, quantity)
           o == Opposite(s)
           requeued == [id \in book.index[s][tick] |->
                          [book.orders[id] EXCEPT !.q = Smaller(@, quantity)]]
           met == IF Better(s, d.best[s], exch_depth.best[s])
                  THEN {id \in Scanned(o, exch_depth.best[s], d.best[s]) :
                           Crosses(o, book.orders[id].price_tick, d.best[s])}
                  ELSE {}
           fills == [id \in met |-> FillMaker(book.orders[id], ts)]
<1>1. BookOK(book)
  BY DEF ExchTyped
<1>2. book' = Withdraw(Replace(book, requeued), met) /\ Publish(fills, ts)
  BY DEF ProcessDepth
<1>3. met \subseteq Ids(book)
  BY <1>1, SideFacts, ScannedInBook
<1> HIDE DEF met
<1>4. \A id \in Ids(book) : book.orders[id] \in Order /\ book.orders[id].status \notin Terminal
  BY <1>1, BookOrders DEF WorkingIn, Working, Terminal
<1>5. \A id \in met : Takes(fills[id], book.orders[id]) /\ fills[id].status = "Filled"
  BY <1>3, <1>4, FillMakerTakes
<1>6. DOMAIN fills = met
  OBVIOUS
<1>7. \A id \in DOMAIN requeued \cap Ids(book) : SameButQueue(requeued[id], book.orders[id])
  <2>1. ASSUME NEW r \in Order
        PROVE  SameButQueue([r EXCEPT !.q = Smaller(@, quantity)], r)
    BY DEF Order, SameButQueue, SameTerms, Same
  <2>2. QED
    BY <1>4, <2>1
<1> HIDE DEF requeued, fills
<1>8. /\ Ids(Replace(book, requeued)) = Ids(book)
      /\ \A id \in Ids(book) : Replace(book, requeued).orders[id] =
            IF id \in DOMAIN requeued THEN requeued[id] ELSE book.orders[id]
  BY DEF Replace, Ids, BookOK, IsBook
<1>9. /\ Ids(book') = Ids(book) \ met
      /\ \A id \in Ids(book') : book'.orders[id] =
            IF id \in DOMAIN requeued THEN requeued[id] ELSE book.orders[id]
  BY <1>2, <1>8, WithdrawLeaves
<1>10. \A r : SameButQueue(r, r)
  BY DEF SameButQueue, SameTerms, Same
<1>11. {id \in DOMAIN fills : fills[id].status = "Filled"} = met
  BY <1>5, <1>6
<1>12. QED
  BY <1>2, <1>3, <1>5, <1>6, <1>7, <1>9, <1>10, <1>11 DEF Event

\* The answers to a set of fills: each of them once, in some order.
Tells(fills, new) ==
    /\ new \in Seq(Entry)
    /\ \A k \in 1..Len(new) : /\ new[k].order.order_id \in DOMAIN fills
                              /\ new[k].order = ToPlain(fills[new[k].order.order_id])
    /\ \A k, l \in 1..Len(new) : new[k].order.order_id = new[l].order.order_id => k = l
    /\ \A id \in DOMAIN fills : \E k \in 1..Len(new) : new[k].order.order_id = id

\* The sequences of a set's elements name each of them once.
LEMMA SeqsOf ==
    ASSUME NEW S, IsFiniteSet(S), NEW ids \in SetToSeqs(S)
    PROVE  /\ ids \in Seq(S) /\ Len(ids) = Cardinality(S) /\ Len(ids) \in Nat
           /\ \A k, l \in 1..Len(ids) : ids[k] = ids[l] => k = l
           /\ \A x \in S : \E k \in 1..Len(ids) : ids[k] = x
<1> DEFINE n == Cardinality(S)
<1>1. n \in Nat
  BY FS_CardinalityType
<1>2. ids \in [1..n -> S] /\ \A k, l \in 1..n : k # l => ids[k] # ids[l]
  BY DEF SetToSeqs
<1>3. IsFiniteSet(1..n) /\ Cardinality(1..n) = n
  <2>1. Cardinality(1..n) = IF 1 > n THEN 0 ELSE n - 1 + 1
    BY <1>1, FS_Interval
  <2>2. IsFiniteSet(1..n)
    BY <1>1, FS_Interval
  <2>3. QED
    BY <1>1, <2>1, <2>2
<1> HIDE DEF n
<1>4. ids \in Injection(1..n, S)
  BY <1>2 DEF Injection, IsInjective
<1>5. ids \in Surjection(1..n, S)
  BY <1>3, <1>4, FS_Injection DEF n
<1>6. \A x \in S : \E k \in 1..n : ids[k] = x
  BY <1>5 DEF Surjection
<1>7. ids \in Seq(S) /\ Len(ids) = n
  BY <1>1, <1>2, SeqDef
<1>8. QED
  BY <1>1, <1>2, <1>6, <1>7 DEF n

\* What Publish puts on the bus.
LEMMA PublishTells ==
    ASSUME to_local \in Seq(Entry), NEW fills, DOMAIN fills \subseteq OrderIds,
           \A id \in DOMAIN fills : fills[id] \in Order /\ fills[id].order_id = id,
           NEW ts \in Nat, Publish(fills, ts)
    PROVE  /\ \E new : Tells(fills, new) /\ to_local' = to_local \o new
           /\ to_exch' = to_exch /\ exch_pos' = ApplyFills(exch_pos, fills)
<1>1. PICK ids \in SetToSeqs(DOMAIN fills), lat \in ResponseLatencies :
         Respond([i \in 1..Len(ids) |-> fills[ids[i]]], ts, lat)
  BY Zenon DEF Publish
<1> DEFINE os == [i \in 1..Len(ids) |-> fills[ids[i]]]
           new == [i \in 1..Len(os) |-> Scheduled(to_local, ToPlain(os[i]), ts + lat)]
<1>2. IsFiniteSet(DOMAIN fills)
  BY OrdersAssumption, FS_Subset
<1>3. /\ ids \in Seq(DOMAIN fills) /\ Len(ids) \in Nat
      /\ \A k, l \in 1..Len(ids) : ids[k] = ids[l] => k = l
      /\ \A x \in DOMAIN fills : \E k \in 1..Len(ids) : ids[k] = x
  BY <1>2, SeqsOf
<1>4. \A i \in 1..Len(ids) : ids[i] \in DOMAIN fills
  BY <1>3, ElementOfSeq
<1>5. ts + lat \in Nat
  BY LatencyAssumption
<1>6. os \in Seq(Order) /\ Len(os) = Len(ids)
  <2>1. os \in [1..Len(ids) -> Order]
    BY <1>4
  <2>2. QED
    BY <1>3, <2>1, SeqDef
<1>7. \A i \in 1..Len(ids) : os[i] = fills[ids[i]]
  OBVIOUS
<1> HIDE DEF os
<1>8. ASSUME NEW i \in 1..Len(ids)
      PROVE  /\ new[i] \in Entry /\ new[i].order = ToPlain(fills[ids[i]])
             /\ new[i].order.order_id = ids[i]
  <2> DEFINE o == ToPlain(fills[ids[i]])
             e == Scheduled(to_local, o, ts + lat)
  <2>1. new[i] = e
    BY <1>6, <1>7
  <2>2. o \in Order /\ o.q = 0 /\ o.order_id = ids[i]
    BY <1>4, ToPlainType DEF Same
  <2> HIDE DEF o
  <2>3. e \in Entry /\ e.order = o
    BY <1>5, <2>2, ScheduledType, ScheduledLate
  <2> HIDE DEF e, new
  <2>4. QED
    BY <2>1, <2>2, <2>3 DEF o
<1>9. new \in [1..Len(ids) -> Entry]
  BY <1>6, <1>8
<1>10. new \in Seq(Entry) /\ Len(new) = Len(ids)
  <2> HIDE DEF new
  <2>1. \A n \in Nat : \A s \in [1..n -> Entry] : s \in Seq(Entry) /\ Len(s) = n
    BY SeqDef
  <2>2. QED
    BY <1>3, <1>9, <2>1
<1>11. to_local' = to_local \o new
  BY <1>1 DEF Respond, os
<1> HIDE DEF new
<1>12. Tells(fills, new)
  <2>1. \A k \in 1..Len(new) : /\ new[k].order.order_id \in DOMAIN fills
                               /\ new[k].order = ToPlain(fills[new[k].order.order_id])
    BY <1>4, <1>8, <1>10
  <2>2. \A k, l \in 1..Len(new) : new[k].order.order_id = new[l].order.order_id => k = l
    BY <1>3, <1>8, <1>10
  <2>3. ASSUME NEW id \in DOMAIN fills
        PROVE  \E k \in 1..Len(new) : new[k].order.order_id = id
    <3>1. PICK k \in 1..Len(ids) : ids[k] = id
      BY <1>3
    <3>2. QED
      BY <1>8, <1>10, <3>1
  <2>4. QED
    BY <1>10, <2>1, <2>2, <2>3 DEF Tells
<1>13. QED
  BY <1>11, <1>12 DEF Publish

-----------------------------------------------------------------------------
(* The life of an order id, at the strategy, on both buses and in the book. *)

\* Positions on the bus to the strategy: of what the exchange did to the order, and
\* of the refusals of the request made at t.
News(bus, id) == {i \in 1..Len(bus) : /\ bus[i].order.order_id = id
                                      /\ bus[i].order.req # "Rejected"}
Refusals(bus, id, t) == {i \in 1..Len(bus) : /\ bus[i].order.order_id = id
                                             /\ bus[i].order.req = "Rejected"
                                             /\ bus[i].order.local_timestamp = t}

\* Positions on the bus to the exchange: of the requests for the order, and of those
\* made at t.
Asked(bus, id) == {i \in 1..Len(bus) : bus[i].order.order_id = id}
AskedAt(bus, id, t) == {i \in Asked(bus, id) : bus[i].order.local_timestamp = t}

\* The last word on an order says whether it rests: its latest news, or, when there
\* is none, what the strategy has.  A word that ends the order is the last.
View(id, orders, bus, b) ==
    /\ id \in DOMAIN orders =>
          /\ orders[id].status \in {"None"} \cup Working \cup Terminal
          /\ orders[id].status = "None" <=> orders[id].req = "New"
    /\ \A i \in News(bus, id) :
          /\ id \in DOMAIN orders /\ orders[id].status \notin Terminal
          /\ bus[i].order.status \in Working \cup Terminal
          /\ bus[i].order.req # "New"
          /\ id \in Ids(b) => bus[i].order.status \in Working
          /\ \A j \in News(bus, id) : i < j => bus[i].order.status \in Working
          /\ (\A j \in News(bus, id) : j <= i) /\ id \notin Ids(b) =>
                bus[i].order.status \in Terminal
    /\ News(bus, id) = {} =>
          (id \in Ids(b) <=> id \in DOMAIN orders /\ orders[id].status \in Working)

\* Until the exchange has answered a new order, its request is the last one made for
\* the id, and is under way, or refused, or answered and then alone.
Entering(id, orders, reqs, bus) ==
    /\ id \in DOMAIN orders /\ orders[id].status = "None" =>
          LET t == orders[id].local_timestamp
          IN  /\ \A i \in Asked(reqs, id) : reqs[i].order.local_timestamp <= t
              /\ \A i, j \in AskedAt(reqs, id, t) : i = j
              /\ AskedAt(reqs, id, t) = {} \/ Refusals(bus, id, t) = {}
              /\ News(bus, id) = {} \/ (Asked(reqs, id) = {} /\ Refusals(bus, id, t) = {})
    /\ \A i \in Asked(reqs, id) : reqs[i].order.req = "New" =>
          /\ id \in DOMAIN orders /\ orders[id].status = "None"
          /\ reqs[i].order.local_timestamp = orders[id].local_timestamp

\* An order that was asked for now waits for its answer, and nothing else happens to
\* it now.
Awaited(id, now, feed, orders, reqs, bus) ==
    AskedAt(reqs, id, now) # {} \/ Refusals(bus, id, now) # {} =>
       /\ id \in DOMAIN orders
       /\ orders[id].local_timestamp = now
       /\ orders[id].req # "None" /\ orders[id].status \notin Terminal
       /\ feed > now
       /\ \A i \in News(bus, id) : bus[i].ts > now
       /\ \A i \in Asked(reqs, id) : reqs[i].ts > now \/ i \in AskedAt(reqs, id, now)
       /\ \A i, j \in AskedAt(reqs, id, now) : i = j
       /\ \A i, j \in Refusals(bus, id, now) : i = j
       /\ AskedAt(reqs, id, now) = {} \/ Refusals(bus, id, now) = {}

\* Requests are made in order and not in the future; on the strategy's turn all that
\* was due is done, except for requests made just now.
Clock ==
    /\ feed_ts >= cur_ts
    /\ \A i \in 1..Len(to_exch) : to_exch[i].order.local_timestamp <= cur_ts
    /\ \A i, j \in 1..Len(to_exch) : i <= j =>
          to_exch[i].order.local_timestamp <= to_exch[j].order.local_timestamp
    /\ \A i \in 1..Len(to_local) : to_local[i].order.req = "Rejected" =>
          to_local[i].order.local_timestamp <= cur_ts
    /\ phase = "bot" =>
          /\ ~receiving /\ feed_ts > cur_ts
          /\ \A i \in 1..Len(to_local) : to_local[i].ts > cur_ts
          /\ \A i \in 1..Len(to_exch) :
                to_exch[i].ts > cur_ts \/ to_exch[i].order.local_timestamp = cur_ts

\* What rests has no open request.
Settled(b) == \A id \in Ids(b) : b.orders[id].req = "None"

LifeOf(id, now, feed, orders, reqs, bus, b) ==
    /\ View(id, orders, bus, b)
    /\ Entering(id, orders, reqs, bus)
    /\ Awaited(id, now, feed, orders, reqs, bus)

Lives ==
    /\ Clock /\ Settled(book)
    /\ \A id \in OrderIds :
          LifeOf(id, cur_ts, feed_ts, local_orders, to_exch, to_local, book)

-----------------------------------------------------------------------------
(* Positions move when a bus does.                                          *)

\* Taking the front moves every other position by one.
LEMMA TailMoves ==
    ASSUME NEW bus \in Seq(Entry), bus # <<>>, NEW id
    PROVE  LET rest == Tail(bus)
               h == Head(bus).order
           IN  /\ \A i \in News(rest, id) :
                     i \in Int /\ i + 1 \in News(bus, id) /\ rest[i] = bus[i + 1]
               /\ \A i \in News(bus, id) :
                     i \in Int /\ (i # 1 => i - 1 \in News(rest, id) /\ rest[i - 1] = bus[i])
               /\ 1 \in News(bus, id) <=> h.order_id = id /\ h.req # "Rejected"
               /\ \A i \in Asked(rest, id) :
                     i \in Int /\ i + 1 \in Asked(bus, id) /\ rest[i] = bus[i + 1]
               /\ \A i \in Asked(bus, id) :
                     i \in Int /\ (i # 1 => i - 1 \in Asked(rest, id) /\ rest[i - 1] = bus[i])
               /\ 1 \in Asked(bus, id) <=> h.order_id = id
<1> DEFINE rest == Tail(bus)
<1>1. /\ Len(bus) \in Nat /\ Len(rest) \in Int /\ Head(bus) = bus[1] /\ 1 \in 1..Len(bus)
      /\ \A i \in 1..Len(rest) : rest[i] = bus[i + 1] /\ i + 1 \in 1..Len(bus)
      /\ \A i \in 1..Len(bus) : i # 1 => i - 1 \in 1..Len(rest) /\ rest[i - 1] = bus[i]
  BY TailAt
<1>2. (\A i \in 1..Len(rest) : i \in Int) /\ (\A i \in 1..Len(bus) : i \in Int)
  BY <1>1
<1> HIDE DEF rest
<1>3. /\ \A i \in News(rest, id) :
            i \in Int /\ i + 1 \in News(bus, id) /\ rest[i] = bus[i + 1]
      /\ \A i \in News(bus, id) :
            i \in Int /\ (i # 1 => i - 1 \in News(rest, id) /\ rest[i - 1] = bus[i])
      /\ 1 \in News(bus, id) <=> Head(bus).order.order_id = id /\ Head(bus).order.req # "Rejected"
  BY <1>1, <1>2, Zenon DEF News
<1>4. /\ \A i \in Asked(rest, id) :
            i \in Int /\ i + 1 \in Asked(bus, id) /\ rest[i] = bus[i + 1]
      /\ \A i \in Asked(bus, id) :
            i \in Int /\ (i # 1 => i - 1 \in Asked(rest, id) /\ rest[i - 1] = bus[i])
      /\ 1 \in Asked(bus, id) <=> Head(bus).order.order_id = id
  BY <1>1, <1>2, Zenon DEF Asked
<1>5. QED
  BY <1>3, <1>4 DEF rest

\* The same of the requests made at a time, and of their refusals.
LEMMA TailMovesAt ==
    ASSUME NEW bus \in Seq(Entry), bus # <<>>, NEW id, NEW t
    PROVE  LET rest == Tail(bus)
               h == Head(bus).order
           IN  /\ \A i \in Refusals(rest, id, t) : i \in Int /\ i + 1 \in Refusals(bus, id, t)
               /\ \A i \in Refusals(bus, id, t) : i \in Int /\ (i # 1 => i - 1 \in Refusals(rest, id, t))
               /\ 1 \in Refusals(bus, id, t) <=>
                     h.order_id = id /\ h.req = "Rejected" /\ h.local_timestamp = t
               /\ \A i \in AskedAt(rest, id, t) : i \in Int /\ i + 1 \in AskedAt(bus, id, t)
               /\ \A i \in AskedAt(bus, id, t) : i \in Int /\ (i # 1 => i - 1 \in AskedAt(rest, id, t))
               /\ 1 \in AskedAt(bus, id, t) <=> h.order_id = id /\ h.local_timestamp = t
<1> DEFINE rest == Tail(bus)
<1>1. /\ Len(bus) \in Nat /\ Len(rest) \in Int /\ Head(bus) = bus[1] /\ 1 \in 1..Len(bus)
      /\ \A i \in 1..Len(rest) : rest[i] = bus[i + 1] /\ i + 1 \in 1..Len(bus)
      /\ \A i \in 1..Len(bus) : i # 1 => i - 1 \in 1..Len(rest) /\ rest[i - 1] = bus[i]
  BY TailAt
<1>2. (\A i \in 1..Len(rest) : i \in Int) /\ (\A i \in 1..Len(bus) : i \in Int)
  BY <1>1
<1> HIDE DEF rest
<1>3. /\ \A i \in Refusals(rest, id, t) : i \in Int /\ i + 1 \in Refusals(bus, id, t)
      /\ \A i \in Refusals(bus, id, t) : i \in Int /\ (i # 1 => i - 1 \in Refusals(rest, id, t))
      /\ 1 \in Refusals(bus, id, t) <=>
            /\ Head(bus).order.order_id = id /\ Head(bus).order.req = "Rejected"
            /\ Head(bus).order.local_timestamp = t
  BY <1>1, <1>2, Zenon DEF Refusals
<1>4. /\ \A i \in AskedAt(rest, id, t) : i \in Int /\ i + 1 \in AskedAt(bus, id, t)
      /\ \A i \in AskedAt(bus, id, t) : i \in Int /\ (i # 1 => i - 1 \in AskedAt(rest, id, t))
      /\ 1 \in AskedAt(bus, id, t) <=>
            Head(bus).order.order_id = id /\ Head(bus).order.local_timestamp = t
  BY <1>1, <1>2, Zenon DEF AskedAt, Asked
<1>5. QED
  BY <1>3, <1>4 DEF rest

\* One bus is another with new entries behind: what they say of an order.
Joined(all, bus, new, id) ==
    /\ Len(bus) \in Nat
    /\ \A i \in News(all, id) : i \in Int /\
          IF i <= Len(bus) THEN i \in News(bus, id) /\ all[i] = bus[i]
          ELSE i - Len(bus) \in News(new, id) /\ all[i] = new[i - Len(bus)]
    /\ \A i \in News(bus, id) :
          i \in Int /\ i <= Len(bus) /\ i \in News(all, id) /\ all[i] = bus[i]
    /\ \A k \in News(new, id) :
          k \in Int /\ k > 0 /\ Len(bus) + k \in News(all, id) /\ all[Len(bus) + k] = new[k]
    /\ \A i \in Asked(all, id) : i \in Int /\
          IF i <= Len(bus) THEN i \in Asked(bus, id) /\ all[i] = bus[i]
          ELSE i - Len(bus) \in Asked(new, id) /\ all[i] = new[i - Len(bus)]
    /\ \A i \in Asked(bus, id) :
          i \in Int /\ i <= Len(bus) /\ i \in Asked(all, id) /\ all[i] = bus[i]

JoinedAt(all, bus, new, id, t) ==
    /\ Len(bus) \in Nat
    /\ \A i \in Refusals(all, id, t) : i \in Int /\
          IF i <= Len(bus) THEN i \in Refusals(bus, id, t)
          ELSE i - Len(bus) \in Refusals(new, id, t)
    /\ \A i \in AskedAt(all, id, t) : i \in Int /\
          IF i <= Len(bus) THEN i \in AskedAt(bus, id, t)
          ELSE i - Len(bus) \in AskedAt(new, id, t)
    /\ \A i \in AskedAt(bus, id, t) : i \in AskedAt(all, id, t)

\* What joins a bus comes behind.
LEMMA JoinMoves ==
    ASSUME NEW bus \in Seq(Entry), NEW new \in Seq(Entry), NEW id
    PROVE  Joined(bus \o new, bus, new, id)
<1> DEFINE all == bus \o new
<1>1. /\ Len(bus) \in Nat /\ Len(new) \in Nat /\ Len(all) = Len(bus) + Len(new)
      /\ \A i \in 1..Len(bus) : i \in 1..Len(all) /\ all[i] = bus[i]
      /\ \A i \in 1..Len(all) : i \notin 1..Len(bus) =>
            i - Len(bus) \in 1..Len(new) /\ all[i] = new[i - Len(bus)]
      /\ \A k \in 1..Len(new) : Len(bus) + k \in 1..Len(all) /\ all[Len(bus) + k] = new[k]
  BY JoinAt DEF Behind
<1> HIDE DEF all
<1>2. /\ \A i \in 1..Len(all) : i \in Int /\
            IF i <= Len(bus) THEN i \in 1..Len(bus) /\ all[i] = bus[i]
            ELSE i - Len(bus) \in 1..Len(new) /\ all[i] = new[i - Len(bus)]
      /\ \A i \in 1..Len(bus) : i \in Int /\ i <= Len(bus) /\ i \in 1..Len(all) /\ all[i] = bus[i]
      /\ \A k \in 1..Len(new) : /\ k \in Int /\ k > 0
                                /\ Len(bus) + k \in 1..Len(all) /\ all[Len(bus) + k] = new[k]
  BY <1>1
<1>3. \A i \in News(all, id) : i \in Int /\
         IF i <= Len(bus) THEN i \in News(bus, id) /\ all[i] = bus[i]
         ELSE i - Len(bus) \in News(new, id) /\ all[i] = new[i - Len(bus)]
  BY <1>2, Zenon DEF News
<1>4. /\ \A i \in News(bus, id) :
            i \in Int /\ i <= Len(bus) /\ i \in News(all, id) /\ all[i] = bus[i]
      /\ \A k \in News(new, id) :
            k \in Int /\ k > 0 /\ Len(bus) + k \in News(all, id) /\ all[Len(bus) + k] = new[k]
  BY <1>2, Zenon DEF News
<1>5. /\ \A i \in Asked(all, id) : i \in Int /\
            IF i <= Len(bus) THEN i \in Asked(bus, id) /\ all[i] = bus[i]
            ELSE i - Len(bus) \in Asked(new, id) /\ all[i] = new[i - Len(bus)]
      /\ \A i \in Asked(bus, id) :
            i \in Int /\ i <= Len(bus) /\ i \in Asked(all, id) /\ all[i] = bus[i]
  BY <1>2, Zenon DEF Asked
<1>6. QED
  BY <1>1, <1>3, <1>4, <1>5 DEF all, Joined

\* The same of the requests made at a time, and of their refusals.
LEMMA JoinMovesAt ==
    ASSUME NEW bus \in Seq(Entry), NEW new \in Seq(Entry), NEW id, NEW t
    PROVE  JoinedAt(bus \o new, bus, new, id, t)
<1> DEFINE all == bus \o new
<1>1. /\ Len(bus) \in Nat /\ Len(new) \in Nat /\ Len(all) = Len(bus) + Len(new)
      /\ \A i \in 1..Len(bus) : i \in 1..Len(all) /\ all[i] = bus[i]
      /\ \A i \in 1..Len(all) : i \notin 1..Len(bus) =>
            i - Len(bus) \in 1..Len(new) /\ all[i] = new[i - Len(bus)]
  BY JoinAt DEF Behind
<1> HIDE DEF all
<1>2. /\ \A i \in 1..Len(all) : i \in Int /\
            IF i <= Len(bus) THEN i \in 1..Len(bus) /\ all[i] = bus[i]
            ELSE i - Len(bus) \in 1..Len(new) /\ all[i] = new[i - Len(bus)]
      /\ \A i \in 1..Len(bus) : i \in 1..Len(all) /\ all[i] = bus[i]
  BY <1>1
<1>3. \A i \in Refusals(all, id, t) : i \in Int /\
         IF i <= Len(bus) THEN i \in Refusals(bus, id, t)
         ELSE i - Len(bus) \in Refusals(new, id, t)
  BY <1>2, Zenon DEF Refusals
<1>4. /\ \A i \in AskedAt(all, id, t) : i \in Int /\
            IF i <= Len(bus) THEN i \in AskedAt(bus, id, t)
            ELSE i - Len(bus) \in AskedAt(new, id, t)
      /\ \A i \in AskedAt(bus, id, t) : i \in AskedAt(all, id, t)
  BY <1>2, Zenon DEF AskedAt, Asked
<1>5. QED
  BY <1>1, <1>3, <1>4 DEF all, JoinedAt

-----------------------------------------------------------------------------
(* What keeps the last word right.                                          *)

\* A response about another order, or a refusal, says nothing about this one.
LEMMA ViewPasses ==
    ASSUME NEW id, NEW orders, NEW bus \in Seq(Entry), bus # <<>>, NEW b,
           View(id, orders, bus, b), 1 \notin News(bus, id)
    PROVE  View(id, orders, Tail(bus), b)
<1> DEFINE rest == Tail(bus)
<1>1. /\ \A i \in News(rest, id) :
            i \in Int /\ i + 1 \in News(bus, id) /\ rest[i] = bus[i + 1]
      /\ \A i \in News(bus, id) : i \in Int /\ i - 1 \in News(rest, id) /\ rest[i - 1] = bus[i]
  BY TailMoves
<1> HIDE DEF rest
<1>2. News(rest, id) = {} <=> News(bus, id) = {}
  BY <1>1
<1>3. ASSUME NEW i \in News(rest, id)
      PROVE  /\ \A j \in News(rest, id) : i < j => rest[i].order.status \in Working
             /\ (\A j \in News(rest, id) : j <= i) /\ id \notin Ids(b) =>
                   rest[i].order.status \in Terminal
  <2>1. i + 1 \in News(bus, id) /\ rest[i] = bus[i + 1] /\ i \in Int
    BY <1>1
  <2>2. ASSUME NEW j \in News(rest, id), i < j PROVE rest[i].order.status \in Working
    <3>1. j + 1 \in News(bus, id) /\ i + 1 < j + 1
      BY <1>1, <2>1, <2>2
    <3>2. QED
      BY <2>1, <3>1 DEF View
  <2>3. ASSUME \A j \in News(rest, id) : j <= i, id \notin Ids(b)
        PROVE  rest[i].order.status \in Terminal
    <3>1. \A j \in News(bus, id) : j <= i + 1
      <4> SUFFICES ASSUME NEW j \in News(bus, id) PROVE j <= i + 1
        OBVIOUS
      <4>1. j \in Int /\ j - 1 <= i
        BY <1>1, <2>3
      <4>2. QED
        BY <2>1, <4>1
    <3>2. QED
      BY <2>1, <2>3, <3>1 DEF View
  <2>4. QED
    BY <2>2, <2>3
<1>4. QED
  BY <1>1, <1>2, <1>3 DEF View, rest

\* The strategy takes the oldest news: what it has is now that, or was more.
LEMMA ViewTakes ==
    ASSUME NEW id, NEW orders, NEW bus \in Seq(Entry), bus # <<>>, NEW b,
           View(id, orders, bus, b), 1 \in News(bus, id),
           NEW after, id \in DOMAIN after,
           after[id].status = Head(bus).order.status, after[id].req = Head(bus).order.req
    PROVE  View(id, after, Tail(bus), b)
<1> DEFINE rest == Tail(bus)
<1>1. /\ \A i \in News(rest, id) :
            i \in Int /\ i + 1 \in News(bus, id) /\ rest[i] = bus[i + 1]
      /\ \A i \in News(bus, id) : i \in Int /\
            (i # 1 => i - 1 \in News(rest, id) /\ rest[i - 1] = bus[i])
      /\ Head(bus) = bus[1]
      /\ \A i \in News(rest, id) : i > 0
  BY TailMoves, TailAt DEF News
<1> HIDE DEF rest
<1>2. after[id].status \in Working \cup Terminal /\ after[id].req # "New"
  BY <1>1 DEF View
<1>3. after[id].status \in {"None"} \cup Working \cup Terminal /\ after[id].status # "None"
  BY <1>2 DEF Working, Terminal
<1>4. \A s : s \in Working => s \notin Terminal
  BY DEF Working, Terminal
<1>5. ASSUME NEW i \in News(rest, id)
      PROVE  /\ after[id].status \notin Terminal
             /\ rest[i].order.status \in Working \cup Terminal
             /\ rest[i].order.req # "New"
             /\ id \in Ids(b) => rest[i].order.status \in Working
             /\ \A j \in News(rest, id) : i < j => rest[i].order.status \in Working
             /\ (\A j \in News(rest, id) : j <= i) /\ id \notin Ids(b) =>
                   rest[i].order.status \in Terminal
  <2>1. i + 1 \in News(bus, id) /\ rest[i] = bus[i + 1] /\ i \in Int /\ 1 < i + 1
    BY <1>1
  <2>2. bus[1].order.status \in Working
    BY <2>1 DEF View
  <2>3. ASSUME NEW j \in News(rest, id), i < j PROVE rest[i].order.status \in Working
    <3>1. j + 1 \in News(bus, id) /\ i + 1 < j + 1
      BY <1>1, <2>1, <2>3
    <3>2. QED
      BY <2>1, <3>1 DEF View
  <2>4. ASSUME \A j \in News(rest, id) : j <= i, id \notin Ids(b)
        PROVE  rest[i].order.status \in Terminal
    <3>1. \A j \in News(bus, id) : j <= i + 1
      <4> SUFFICES ASSUME NEW j \in News(bus, id) PROVE j <= i + 1
        OBVIOUS
      <4>1. j \in Int /\ (j # 1 => j - 1 <= i)
        BY <1>1, <2>4
      <4>2. QED
        BY <2>1, <4>1
    <3>2. QED
      BY <2>1, <2>4, <3>1 DEF View
  <2>5. QED
    BY <1>1, <1>4, <2>1, <2>2, <2>3, <2>4 DEF View
<1>6. ASSUME News(rest, id) = {}
      PROVE  id \in Ids(b) <=> after[id].status \in Working
  <2>1. \A j \in News(bus, id) : j <= 1
    BY <1>1, <1>6
  <2>2. id \notin Ids(b) => bus[1].order.status \in Terminal
    BY <2>1 DEF View
  <2>3. id \in Ids(b) => bus[1].order.status \in Working
    BY DEF View
  <2>4. QED
    BY <1>1, <1>4, <2>2, <2>3
<1>7. QED
  BY <1>2, <1>3, <1>5, <1>6 DEF View, rest

\* Nothing new about the order.
LEMMA ViewStays ==
    ASSUME NEW id, NEW orders, NEW bus \in Seq(Entry), NEW new \in Seq(Entry), NEW b, NEW b2,
           View(id, orders, bus, b), News(new, id) = {}, id \in Ids(b2) <=> id \in Ids(b)
    PROVE  View(id, orders, bus \o new, b2)
<1> DEFINE all == bus \o new
<1>1. /\ \A i \in News(all, id) : i \in News(bus, id) /\ all[i] = bus[i]
      /\ \A i \in News(bus, id) : i \in News(all, id) /\ all[i] = bus[i]
  BY JoinMoves DEF Joined
<1> HIDE DEF all
<1>2. News(all, id) = News(bus, id)
  BY <1>1
<1>3. QED
  BY <1>1, <1>2 DEF View, all

\* The exchange did something to the order, and says so last.
LEMMA ViewHears ==
    ASSUME NEW id, NEW orders, NEW bus \in Seq(Entry), NEW new \in Seq(Entry), NEW b, NEW b2,
           View(id, orders, bus, b), id \in Ids(b) \/ News(bus, id) = {},
           id \in DOMAIN orders, orders[id].status \notin Terminal,
           NEW k \in News(new, id), News(new, id) = {k}, new[k].order.req # "New",
           new[k].order.status \in Working \cup Terminal,
           id \in Ids(b2) <=> new[k].order.status \in Working
    PROVE  View(id, orders, bus \o new, b2)
<1> DEFINE all == bus \o new
           last == Len(bus) + k
<1>1. /\ Len(bus) \in Nat
      /\ \A i \in News(all, id) : i \in Int /\
            IF i <= Len(bus) THEN i \in News(bus, id) /\ all[i] = bus[i]
            ELSE i - Len(bus) \in News(new, id) /\ all[i] = new[i - Len(bus)]
      /\ k \in Int /\ k > 0 /\ last \in News(all, id) /\ all[last] = new[k]
  BY JoinMoves DEF Joined
<1>2. last \in Int /\ last > Len(bus)
  BY <1>1
<1> HIDE DEF all
<1>3. \A i \in News(all, id) : i = last \/ (i \in News(bus, id) /\ all[i] = bus[i] /\ i < last)
  <2> SUFFICES ASSUME NEW i \in News(all, id), ~(i <= Len(bus)) PROVE i = last
    BY <1>1, <1>2
  <2>1. i - Len(bus) = k /\ i \in Int
    BY <1>1
  <2>2. QED
    BY <1>1, <2>1
<1>4. \A i \in News(bus, id) : bus[i].order.status \in Working /\ bus[i].order.req # "New"
  BY DEF View
<1>5. \A s : s \in Working => s \notin Terminal
  BY DEF Working, Terminal
<1> HIDE DEF last
<1>6. ASSUME NEW i \in News(all, id)
      PROVE  /\ all[i].order.status \in Working \cup Terminal
             /\ all[i].order.req # "New"
             /\ id \in Ids(b2) => all[i].order.status \in Working
             /\ \A j \in News(all, id) : i < j => all[i].order.status \in Working
             /\ (\A j \in News(all, id) : j <= i) /\ id \notin Ids(b2) =>
                   all[i].order.status \in Terminal
  <2>1. CASE i = last
    <3>1. all[i] = new[k]
      BY <1>1, <2>1
    <3>2. \A j \in News(all, id) : ~(i < j)
      BY <1>1, <1>2, <1>3, <2>1
    <3>3. QED
      BY <3>1, <3>2
  <2>2. CASE i # last
    <3>1. i \in News(bus, id) /\ all[i] = bus[i] /\ i < last /\ i \in Int
      BY <1>1, <1>3, <2>2
    <3>2. ~(last <= i)
      BY <1>2, <3>1
    <3>3. QED
      BY <1>1, <1>4, <3>1, <3>2
  <2>3. QED
    BY <2>1, <2>2
<1>7. News(all, id) # {}
  BY <1>1
<1>8. QED
  BY <1>6, <1>7 DEF View, all

\* What the strategy has counts by its status only.
LEMMA ViewSame ==
    ASSUME NEW id, NEW orders, NEW after, NEW bus, NEW b, View(id, orders, bus, b),
           id \in DOMAIN after <=> id \in DOMAIN orders,
           id \in DOMAIN orders => after[id].status = orders[id].status
                                   /\ (after[id].req = "New" <=> orders[id].req = "New")
    PROVE  View(id, after, bus, b)
  BY DEF View

-----------------------------------------------------------------------------
(* What keeps the other two.                                                *)

\* A request that is taken.
LEMMA AskedLess ==
    ASSUME NEW id, NEW now, NEW feed, NEW orders, NEW bus,
           NEW reqs \in Seq(Entry), reqs # <<>>
    PROVE  /\ Entering(id, orders, reqs, bus) => Entering(id, orders, Tail(reqs), bus)
           /\ Awaited(id, now, feed, orders, reqs, bus)
                => Awaited(id, now, feed, orders, Tail(reqs), bus)
<1> DEFINE rest == Tail(reqs)
           t == orders[id].local_timestamp
<1>1. \A i \in Asked(rest, id) : i \in Int /\ i + 1 \in Asked(reqs, id) /\ rest[i] = reqs[i + 1]
  BY TailMoves
<1>2. \A u : \A i \in AskedAt(rest, id, u) : i \in Int /\ i + 1 \in AskedAt(reqs, id, u)
  BY TailMovesAt
<1>3. \A u : \A i \in Asked(rest, id) : i + 1 \in AskedAt(reqs, id, u) => i \in AskedAt(rest, id, u)
  BY <1>1 DEF AskedAt
<1> HIDE DEF rest
<1>4. \A u : (\A i, j \in AskedAt(reqs, id, u) : i = j) => \A i, j \in AskedAt(rest, id, u) : i = j
  <2> SUFFICES ASSUME NEW u, \A i, j \in AskedAt(reqs, id, u) : i = j,
                      NEW i \in AskedAt(rest, id, u), NEW j \in AskedAt(rest, id, u)
               PROVE  i = j
    OBVIOUS
  <2>1. i + 1 = j + 1 /\ i \in Int /\ j \in Int
    BY <1>2
  <2>2. QED
    BY <2>1
<1>5. ASSUME Entering(id, orders, reqs, bus) PROVE Entering(id, orders, rest, bus)
  <2>1. ASSUME id \in DOMAIN orders, orders[id].status = "None"
        PROVE  /\ \A i \in Asked(rest, id) : rest[i].order.local_timestamp <= t
               /\ \A i, j \in AskedAt(rest, id, t) : i = j
               /\ AskedAt(rest, id, t) = {} \/ Refusals(bus, id, t) = {}
               /\ News(bus, id) = {} \/ (Asked(rest, id) = {} /\ Refusals(bus, id, t) = {})
    <3>1. \A i \in Asked(rest, id) : rest[i].order.local_timestamp <= t
      BY <1>1, <1>5, <2>1 DEF Entering
    <3>2. \A i, j \in AskedAt(rest, id, t) : i = j
      BY <1>4, <1>5, <2>1 DEF Entering
    <3>3. AskedAt(rest, id, t) = {} \/ Refusals(bus, id, t) = {}
      BY <1>2, <1>5, <2>1 DEF Entering
    <3>4. News(bus, id) = {} \/ (Asked(rest, id) = {} /\ Refusals(bus, id, t) = {})
      BY <1>1, <1>5, <2>1 DEF Entering
    <3>5. QED
      BY <3>1, <3>2, <3>3, <3>4
  <2>2. \A i \in Asked(rest, id) : rest[i].order.req = "New" =>
          /\ id \in DOMAIN orders /\ orders[id].status = "None"
          /\ rest[i].order.local_timestamp = t
    BY <1>1, <1>5 DEF Entering
  <2>3. QED
    BY <2>1, <2>2 DEF Entering
<1>6. ASSUME Awaited(id, now, feed, orders, reqs, bus)
      PROVE  Awaited(id, now, feed, orders, rest, bus)
  <2> SUFFICES ASSUME AskedAt(rest, id, now) # {} \/ Refusals(bus, id, now) # {}
               PROVE  /\ id \in DOMAIN orders
                      /\ orders[id].local_timestamp = now
                      /\ orders[id].req # "None" /\ orders[id].status \notin Terminal
                      /\ feed > now
                      /\ \A i \in News(bus, id) : bus[i].ts > now
                      /\ \A i \in Asked(rest, id) : rest[i].ts > now \/ i \in AskedAt(rest, id, now)
                      /\ \A i, j \in AskedAt(rest, id, now) : i = j
                      /\ \A i, j \in Refusals(bus, id, now) : i = j
                      /\ AskedAt(rest, id, now) = {} \/ Refusals(bus, id, now) = {}
    BY DEF Awaited
  <2>1. AskedAt(reqs, id, now) # {} \/ Refusals(bus, id, now) # {}
    BY <1>2
  <2>2. \A i \in Asked(rest, id) : rest[i].ts > now \/ i \in AskedAt(rest, id, now)
    BY <1>1, <1>3, <1>6, <2>1 DEF Awaited
  <2>3. \A i, j \in AskedAt(rest, id, now) : i = j
    BY <1>4, <1>6, <2>1 DEF Awaited
  <2>4. AskedAt(rest, id, now) = {} \/ Refusals(bus, id, now) = {}
    BY <1>2, <1>6, <2>1 DEF Awaited
  <2>5. QED
    BY <1>6, <2>1, <2>2, <2>3, <2>4 DEF Awaited
<1>7. QED
  BY <1>5, <1>6 DEF rest

\* A response that is taken.
LEMMA ToldLess ==
    ASSUME NEW id, NEW now, NEW feed, NEW orders, NEW reqs,
           NEW bus \in Seq(Entry), bus # <<>>
    PROVE  /\ Entering(id, orders, reqs, bus) => Entering(id, orders, reqs, Tail(bus))
           /\ Awaited(id, now, feed, orders, reqs, bus)
                => Awaited(id, now, feed, orders, reqs, Tail(bus))
<1> DEFINE rest == Tail(bus)
           t == orders[id].local_timestamp
<1>1. \A i \in News(rest, id) : i \in Int /\ i + 1 \in News(bus, id) /\ rest[i] = bus[i + 1]
  BY TailMoves
<1>2. \A u : \A i \in Refusals(rest, id, u) : i \in Int /\ i + 1 \in Refusals(bus, id, u)
  BY TailMovesAt
<1> HIDE DEF rest
<1>3. \A u : (\A i, j \in Refusals(bus, id, u) : i = j) => \A i, j \in Refusals(rest, id, u) : i = j
  <2> SUFFICES ASSUME NEW u, \A i, j \in Refusals(bus, id, u) : i = j,
                      NEW i \in Refusals(rest, id, u), NEW j \in Refusals(rest, id, u)
               PROVE  i = j
    OBVIOUS
  <2>1. i + 1 = j + 1 /\ i \in Int /\ j \in Int
    BY <1>2
  <2>2. QED
    BY <2>1
<1>4. ASSUME Entering(id, orders, reqs, bus) PROVE Entering(id, orders, reqs, rest)
  <2>1. (News(bus, id) = {} => News(rest, id) = {})
        /\ (Refusals(bus, id, t) = {} => Refusals(rest, id, t) = {})
    BY <1>1, <1>2
  <2>2. QED
    BY <1>4, <2>1 DEF Entering
<1>5. ASSUME Awaited(id, now, feed, orders, reqs, bus)
      PROVE  Awaited(id, now, feed, orders, reqs, rest)
  <2>1. Refusals(bus, id, now) = {} => Refusals(rest, id, now) = {}
    BY <1>2
  <2>2. \A i \in News(rest, id) : (\A j \in News(bus, id) : bus[j].ts > now) => rest[i].ts > now
    BY <1>1
  <2>3. (\A i, j \in Refusals(bus, id, now) : i = j) => \A i, j \in Refusals(rest, id, now) : i = j
    BY <1>3
  <2>4. QED
    BY <1>5, <2>1, <2>2, <2>3 DEF Awaited
<1>6. QED
  BY <1>4, <1>5 DEF rest

\* A bus that says of an order what another one says.
SaysSame(all, bus, id) ==
    /\ News(all, id) = News(bus, id) /\ Asked(all, id) = Asked(bus, id)
    /\ \A i \in News(bus, id) \cup Asked(bus, id) : all[i] = bus[i]
    /\ \A t : Refusals(all, id, t) = Refusals(bus, id, t)
    /\ \A t : AskedAt(all, id, t) = AskedAt(bus, id, t)

\* What joins the buses about other orders.
LEMMA JoinOther ==
    ASSUME NEW bus \in Seq(Entry), NEW new \in Seq(Entry), NEW id,
           \A k \in 1..Len(new) : new[k].order.order_id # id
    PROVE  SaysSame(bus \o new, bus, id)
<1> DEFINE all == bus \o new
<1>1. /\ \A i \in 1..Len(bus) : i \in 1..Len(all) /\ all[i] = bus[i]
      /\ \A i \in 1..Len(all) : i \notin 1..Len(bus) =>
            i - Len(bus) \in 1..Len(new) /\ all[i] = new[i - Len(bus)]
  BY JoinAt DEF Behind
<1> HIDE DEF all
<1>2. \A i \in 1..Len(all) : all[i].order.order_id = id => i \in 1..Len(bus) /\ all[i] = bus[i]
  BY <1>1
<1>3. News(all, id) = News(bus, id)
  BY <1>1, <1>2, Zenon DEF News
<1>4. Asked(all, id) = Asked(bus, id)
  BY <1>1, <1>2, Zenon DEF Asked
<1>5. \A i \in News(bus, id) \cup Asked(bus, id) : all[i] = bus[i]
  BY <1>1, Zenon DEF News, Asked
<1>6. ASSUME NEW t PROVE Refusals(all, id, t) = Refusals(bus, id, t)
  BY <1>1, <1>2, Zenon DEF Refusals
<1>7. ASSUME NEW t PROVE AskedAt(all, id, t) = AskedAt(bus, id, t)
  BY <1>4, <1>5 DEF AskedAt
<1>8. QED
  BY <1>3, <1>4, <1>5, <1>6, <1>7 DEF all, SaysSame

\* They leave this one as it was.
LEMMA OtherLives ==
    ASSUME NEW id, NEW now, NEW feed, NEW orders, NEW after, NEW b, NEW b2,
           NEW reqs \in Seq(Entry), NEW asks \in Seq(Entry),
           NEW bus \in Seq(Entry), NEW new \in Seq(Entry),
           \A k \in 1..Len(asks) : asks[k].order.order_id # id,
           \A k \in 1..Len(new) : new[k].order.order_id # id,
           id \in DOMAIN after <=> id \in DOMAIN orders,
           id \in DOMAIN orders => after[id] = orders[id],
           id \in Ids(b2) <=> id \in Ids(b),
           LifeOf(id, now, feed, orders, reqs, bus, b)
    PROVE  LifeOf(id, now, feed, after, reqs \o asks, bus \o new, b2)
<1> DEFINE allE == reqs \o asks
           allL == bus \o new
<1>1. SaysSame(allE, reqs, id)
  BY JoinOther
<1>2. SaysSame(allL, bus, id)
  BY JoinOther
<1> HIDE DEF allE, allL
<1>3. View(id, after, allL, b2)
  <2>1. View(id, orders, allL, b2)
    BY <1>2 DEF LifeOf, View, SaysSame
  <2>2. QED
    BY <2>1, ViewSame
<1>4. Entering(id, after, allE, allL)
  BY <1>1, <1>2 DEF LifeOf, Entering, SaysSame
<1>5. Awaited(id, now, feed, after, allE, allL)
  BY <1>1, <1>2 DEF LifeOf, Awaited, SaysSame
<1>6. QED
  BY <1>3, <1>4, <1>5 DEF LifeOf, allE, allL

\* As time goes on: at a later time nothing was asked for yet.
LEMMA AwaitedLater ==
    ASSUME NEW id, NEW now \in Nat, NEW later \in Nat, later >= now,
           NEW feed \in Nat, NEW feed2 \in Nat,
           NEW orders, NEW reqs \in Seq(Entry), NEW bus \in Seq(Entry),
           Awaited(id, now, feed, orders, reqs, bus),
           \A i \in 1..Len(reqs) : reqs[i].order.local_timestamp <= now,
           \A i \in 1..Len(bus) : bus[i].order.req = "Rejected" => bus[i].order.local_timestamp <= now,
           later = now => feed2 >= feed \/ feed2 > now
    PROVE  Awaited(id, later, feed2, orders, reqs, bus)
<1>1. CASE later = now
  BY <1>1 DEF Awaited
<1>2. CASE later # now
  <2>1. \A i \in 1..Len(reqs) : reqs[i].order.local_timestamp # later
    <3> SUFFICES ASSUME NEW i \in 1..Len(reqs) PROVE reqs[i].order.local_timestamp # later
      OBVIOUS
    <3>1. reqs[i].order.local_timestamp \in Nat
      BY EntryAt DEF Order
    <3>2. QED
      BY <1>2, <3>1
  <2>2. \A i \in 1..Len(bus) :
           bus[i].order.req = "Rejected" => bus[i].order.local_timestamp # later
    <3> SUFFICES ASSUME NEW i \in 1..Len(bus), bus[i].order.req = "Rejected"
                 PROVE  bus[i].order.local_timestamp # later
      OBVIOUS
    <3>1. bus[i].order.local_timestamp \in Nat
      BY EntryAt DEF Order
    <3>2. QED
      BY <1>2, <3>1
  <2>3. AskedAt(reqs, id, later) = {} /\ Refusals(bus, id, later) = {}
    BY <2>1, <2>2 DEF AskedAt, Asked, Refusals
  <2>4. QED
    BY <2>3 DEF Awaited
<1>3. QED
  BY <1>1, <1>2

\* The next state, part by part.
LEMMA LivesNext ==
    ASSUME Clock', Settled(book'),
           \A id \in OrderIds :
              LifeOf(id, cur_ts', feed_ts', local_orders', to_exch', to_local', book')
    PROVE  Lives'
  BY DEF Lives, Clock, Settled, LifeOf, View, Entering, Awaited, News, Refusals, Asked, AskedAt

-----------------------------------------------------------------------------
(* The strategy asks.                                                       *)

\* A request joins one of the buses: accepted, or rejected for a later time.
Sends(o, rejected, asks, new) ==
    /\ asks \in Seq(Entry) /\ new \in Seq(Entry)
    /\ Len(asks) \in 0..1 /\ Len(new) \in 0..1 /\ (Len(asks) = 0 \/ Len(new) = 0)
    /\ Len(asks) = 1 \/ (Len(new) = 1 /\ ~(EntryLatencies \subseteq Nat))
    /\ \A k \in 1..Len(asks) : asks[k].order = o
    /\ \A k \in 1..Len(new) : new[k].order = rejected /\ new[k].ts > cur_ts
    /\ to_exch' = to_exch \o asks /\ to_local' = to_local \o new

\* There is one position up to one, and none up to none.
LEMMA AtMostOne ==
    ASSUME NEW n \in 0..1
    PROVE  (\A k, l \in 1..n : k = l) /\ (n = 0 => 1..n = {})
  OBVIOUS

\* What request puts on the buses.
LEMMA RequestSends ==
    ASSUME Inv, NEW o \in Plain, o.local_timestamp = cur_ts, NEW rejected \in Plain,
           NEW lat \in EntryLatencies, Request(o, rejected, lat)
    PROVE  \E asks, new : Sends(o, rejected, asks, new)
<1>1. to_exch \in Seq(Entry) /\ to_local \in Seq(Entry) /\ cur_ts \in Nat /\ lat \in Int
  BY BusFacts, LatencyAssumption
<1>2. o \in Order /\ o.q = 0 /\ rejected \in Order /\ rejected.q = 0
  BY DEF Plain
<1>3. /\ <<>> \in Seq(Entry) /\ Len(<<>>) = 0
      /\ to_exch \o <<>> = to_exch /\ to_local \o <<>> = to_local
  BY <1>1
<1>4. CASE lat < 0
  <2> DEFINE new == <<Scheduled(to_local, rejected, cur_ts - lat)>>
  <2>1. cur_ts - lat \in Nat /\ cur_ts - lat > cur_ts
    BY <1>1, <1>4
  <2>2. to_local' = Append(to_local, Scheduled(to_local, rejected, cur_ts - lat)) /\ to_exch' = to_exch
    BY <1>4 DEF Request
  <2>3. /\ new \in Seq(Entry) /\ to_local' = to_local \o new
        /\ Len(new) = 1 /\ new[1].order = rejected /\ new[1].ts \in Nat /\ new[1].ts >= cur_ts - lat
    BY <1>1, <1>2, <2>1, <2>2, OneAt
  <2> HIDE DEF new
  <2>4. \A k \in 1..Len(new) : k = 1
    BY <2>3
  <2>5. new[1].ts > cur_ts
    BY <1>1, <2>1, <2>3
  <2>6. ~(EntryLatencies \subseteq Nat)
    BY <1>4
  <2>7. Sends(o, rejected, <<>>, new)
    BY <1>3, <2>2, <2>3, <2>4, <2>5, <2>6 DEF Sends
  <2>8. QED
    BY <2>7
<1>5. CASE ~(lat < 0)
  <2> DEFINE asks == <<Scheduled(to_exch, o, cur_ts + lat)>>
  <2>1. cur_ts + lat \in Nat
    BY <1>1, <1>5
  <2>2. to_exch' = Append(to_exch, Scheduled(to_exch, o, cur_ts + lat)) /\ to_local' = to_local
    BY <1>5 DEF Request
  <2>3. /\ asks \in Seq(Entry) /\ to_exch' = to_exch \o asks
        /\ Len(asks) = 1 /\ asks[1].order = o
    BY <1>1, <1>2, <2>1, <2>2, OneAt
  <2> HIDE DEF asks
  <2>4. \A k \in 1..Len(asks) : k = 1
    BY <2>3
  <2>5. Sends(o, rejected, asks, <<>>)
    BY <1>3, <2>2, <2>3, <2>4 DEF Sends
  <2>6. QED
    BY <2>5
<1>6. QED
  BY <1>4, <1>5

\* What a request is: for a new order, or for one that works and waits for nothing.
Asking(id, o, rejected) ==
    /\ o \in Plain /\ o.order_id = id /\ o.local_timestamp = cur_ts
    /\ o.req \in Requested /\ o.status \notin Terminal
    /\ rejected \in Plain /\ rejected.order_id = id /\ rejected.req = "Rejected"
    /\ rejected.local_timestamp = cur_ts
    /\ \/ id \notin DOMAIN local_orders /\ o.status = "None" /\ o.req = "New"
       \/ /\ id \in DOMAIN local_orders /\ local_orders[id].req = "None"
          /\ o.status = local_orders[id].status /\ o.status \in Working /\ o.req # "New"

\* The order it is for.
LEMMA AskedLives ==
    ASSUME Inv, Lives, phase = "bot", NEW id \in OrderIds, NEW o, NEW rejected,
           Asking(id, o, rejected), NEW asks, NEW new, Sends(o, rejected, asks, new)
    PROVE  LifeOf(id, cur_ts, feed_ts, Put(local_orders, o), to_exch \o asks, to_local \o new, book)
<1> DEFINE after == Put(local_orders, o)
           reqs == to_exch \o asks
           bus == to_local \o new
<1>1. /\ to_exch \in Seq(Entry) /\ to_local \in Seq(Entry) /\ cur_ts \in Nat
      /\ asks \in Seq(Entry) /\ new \in Seq(Entry)
  BY BusFacts DEF Sends
<1>2. /\ View(id, local_orders, to_local, book)
      /\ Entering(id, local_orders, to_exch, to_local)
      /\ Awaited(id, cur_ts, feed_ts, local_orders, to_exch, to_local)
      /\ Clock
  BY DEF Lives, LifeOf
<1>3. AskedAt(to_exch, id, cur_ts) = {} /\ Refusals(to_local, id, cur_ts) = {}
  BY <1>2 DEF Asking, Awaited
<1>4. id \in DOMAIN after /\ after[id] = o
  BY DEF Put, Asking
<1>5. o.req # "None" /\ o.req # "Rejected" /\ o.status \notin Terminal /\ o.local_timestamp = cur_ts
  BY DEF Asking, Requested
<1>6. /\ \A k \in 1..Len(asks) : asks[k].order = o
      /\ \A k \in 1..Len(new) : new[k].order.req = "Rejected" /\ new[k].order.local_timestamp = cur_ts
      /\ \A k, l \in 1..Len(asks) : k = l
      /\ \A k, l \in 1..Len(new) : k = l
      /\ (1..Len(asks) = {} \/ 1..Len(new) = {})
  BY AtMostOne DEF Sends, Asking
<1>7. News(new, id) = {}
  BY <1>6 DEF News
<1>8. News(bus, id) = News(to_local, id) /\ \A i \in News(to_local, id) : bus[i] = to_local[i]
  <2>1. /\ \A i \in News(bus, id) : i \in News(to_local, id)
        /\ \A i \in News(to_local, id) : i \in News(bus, id) /\ bus[i] = to_local[i]
    BY <1>1, <1>7, JoinMoves DEF Joined
  <2>2. QED
    BY <2>1
<1>9. \A i \in Asked(reqs, id) :
         \/ i \in Asked(to_exch, id) /\ reqs[i] = to_exch[i]
         \/ i - Len(to_exch) \in 1..Len(asks) /\ reqs[i].order = o
  <2> HIDE DEF reqs
  <2>1. Joined(reqs, to_exch, asks, id)
    BY <1>1, JoinMoves DEF reqs
  <2>2. Asked(asks, id) \subseteq 1..Len(asks)
    BY DEF Asked
  <2>3. QED
    BY <1>6, <2>1, <2>2 DEF Joined
<1>10. /\ \A i \in AskedAt(reqs, id, cur_ts) : i \in Int /\ i - Len(to_exch) \in 1..Len(asks)
       /\ \A i \in Refusals(bus, id, cur_ts) : i \in Int /\ i - Len(to_local) \in 1..Len(new)
  <2>1. /\ \A i \in Refusals(bus, id, cur_ts) : i \in Int /\
              IF i <= Len(to_local) THEN i \in Refusals(to_local, id, cur_ts)
              ELSE i - Len(to_local) \in Refusals(new, id, cur_ts)
        /\ \A i \in AskedAt(reqs, id, cur_ts) : i \in Int /\
              IF i <= Len(to_exch) THEN i \in AskedAt(to_exch, id, cur_ts)
              ELSE i - Len(to_exch) \in AskedAt(asks, id, cur_ts)
    BY <1>1, JoinMovesAt DEF JoinedAt
  <2>2. Refusals(new, id, cur_ts) \subseteq 1..Len(new) /\ AskedAt(asks, id, cur_ts) \subseteq 1..Len(asks)
    BY DEF Refusals, AskedAt, Asked
  <2>3. QED
    BY <1>3, <2>1, <2>2
<1>11. /\ \A i, j \in AskedAt(reqs, id, cur_ts) : i = j
       /\ \A i, j \in Refusals(bus, id, cur_ts) : i = j
       /\ AskedAt(reqs, id, cur_ts) = {} \/ Refusals(bus, id, cur_ts) = {}
  <2>1. Len(to_exch) \in Nat /\ Len(to_local) \in Nat
    BY <1>1, LenProperties
  <2>2. ASSUME NEW i \in AskedAt(reqs, id, cur_ts), NEW j \in AskedAt(reqs, id, cur_ts) PROVE i = j
    <3>1. i - Len(to_exch) = j - Len(to_exch) /\ i \in Int /\ j \in Int
      BY <1>6, <1>10
    <3>2. QED
      BY <2>1, <3>1
  <2>3. ASSUME NEW i \in Refusals(bus, id, cur_ts), NEW j \in Refusals(bus, id, cur_ts) PROVE i = j
    <3>1. i - Len(to_local) = j - Len(to_local) /\ i \in Int /\ j \in Int
      BY <1>6, <1>10
    <3>2. QED
      BY <2>1, <3>1
  <2>4. QED
    BY <1>6, <1>10, <2>2, <2>3
<1>12. \A i \in Asked(to_exch, id) : to_exch[i].order.local_timestamp <= cur_ts
  BY <1>2 DEF Clock, Asked
<1>13. View(id, local_orders, bus, book)
  BY <1>1, <1>2, <1>7, ViewStays
<1> HIDE DEF after, reqs, bus
<1>14. ASSUME id \notin DOMAIN local_orders
       PROVE  View(id, after, bus, book) /\ Entering(id, after, reqs, bus)
  <2>1. o.status = "None" /\ o.req = "New" /\ o.status \notin Working
    BY <1>14 DEF Asking, Working
  <2>2. News(bus, id) = {} /\ id \notin Ids(book)
    BY <1>13, <1>14 DEF View
  <2>3. View(id, after, bus, book)
    BY <1>4, <2>1, <2>2 DEF View
  <2>4. \A i \in Asked(to_exch, id) : to_exch[i].order.req # "New"
    BY <1>2, <1>14 DEF Entering
  <2>5. \A i \in Asked(reqs, id) : reqs[i].order.local_timestamp <= cur_ts
    BY <1>1, <1>5, <1>9, <1>12
  <2>6. \A i \in Asked(reqs, id) : reqs[i].order.req = "New" => reqs[i].order.local_timestamp = cur_ts
    BY <1>5, <1>9, <2>4
  <2>7. Entering(id, after, reqs, bus)
    BY <1>4, <1>5, <1>11, <2>1, <2>2, <2>5, <2>6 DEF Entering
  <2>8. QED
    BY <2>3, <2>7
<1>15. ASSUME id \in DOMAIN local_orders
       PROVE  View(id, after, bus, book) /\ Entering(id, after, reqs, bus)
  <2>1. /\ local_orders[id].req = "None" /\ o.status = local_orders[id].status
        /\ o.status \in Working /\ o.req # "New" /\ o.status # "None"
    BY <1>15 DEF Asking, Working
  <2>2. View(id, after, bus, book)
    BY <1>4, <1>13, <1>15, <2>1, ViewSame
  <2>3. \A i \in Asked(to_exch, id) : to_exch[i].order.req # "New"
    BY <1>2, <1>15, <2>1 DEF Entering
  <2>4. \A i \in Asked(reqs, id) : reqs[i].order.req # "New"
    BY <1>9, <2>1, <2>3
  <2>5. Entering(id, after, reqs, bus)
    BY <1>4, <2>1, <2>4 DEF Entering
  <2>6. QED
    BY <2>2, <2>5
<1>16. View(id, after, bus, book) /\ Entering(id, after, reqs, bus)
  BY <1>14, <1>15
<1>17. Awaited(id, cur_ts, feed_ts, after, reqs, bus)
  <2>1. feed_ts > cur_ts /\ \A i \in News(bus, id) : bus[i].ts > cur_ts
    BY <1>2, <1>8 DEF Clock, News
  <2>2. \A i \in Asked(to_exch, id) :
           to_exch[i].ts > cur_ts \/ to_exch[i].order.local_timestamp = cur_ts
    BY <1>2 DEF Clock, Asked
  <2>3. \A i \in Asked(reqs, id) : reqs[i].ts > cur_ts \/ i \in AskedAt(reqs, id, cur_ts)
    BY <1>5, <1>9, <2>2 DEF AskedAt
  <2>4. QED
    BY <1>4, <1>5, <1>11, <2>1, <2>3 DEF Awaited
<1>18. QED
  BY <1>16, <1>17 DEF LifeOf, after, reqs, bus

\* A request of the strategy.
LEMMA AskLives ==
    ASSUME Inv, Lives, phase = "bot", NEW id \in OrderIds, NEW o, NEW rejected,
           Asking(id, o, rejected), NEW lat \in EntryLatencies, Request(o, rejected, lat),
           local_orders' = Put(local_orders, o),
           UNCHANGED <<cur_ts, exchVars, engineVars>>
    PROVE  Lives'
<1>1. PICK asks, new : Sends(o, rejected, asks, new)
  BY RequestSends DEF Asking
<1>2. /\ to_exch \in Seq(Entry) /\ to_local \in Seq(Entry) /\ cur_ts \in Nat
      /\ asks \in Seq(Entry) /\ new \in Seq(Entry)
      /\ to_exch' = to_exch \o asks /\ to_local' = to_local \o new
      /\ \A k \in 1..Len(asks) : asks[k].order = o
      /\ \A k \in 1..Len(new) : new[k].order = rejected /\ new[k].ts > cur_ts
      /\ \A k, l \in 1..Len(asks) : k = l
  BY <1>1, BusFacts, AtMostOne DEF Sends
<1>3. /\ cur_ts' = cur_ts /\ book' = book /\ feed_ts' = feed_ts
      /\ phase' = phase /\ receiving' = receiving
  BY DEF exchVars, engineVars
<1>4. o.local_timestamp = cur_ts /\ rejected.local_timestamp = cur_ts /\ o.order_id = id
      /\ rejected.order_id = id
  BY DEF Asking
<1>5. Clock /\ Settled(book)
  BY DEF Lives
<1>6. /\ \A i \in 1..Len(to_exch') : \/ i \in 1..Len(to_exch) /\ to_exch'[i] = to_exch[i]
                                     \/ i \notin 1..Len(to_exch) /\ to_exch'[i].order = o
      /\ \A i \in 1..Len(to_local') : \/ i \in 1..Len(to_local) /\ to_local'[i] = to_local[i]
                                      \/ to_local'[i].order = rejected /\ to_local'[i].ts > cur_ts
  <2>1. Behind(to_exch', to_exch, asks) /\ Behind(to_local', to_local, new)
    BY <1>2, JoinAt
  <2>2. QED
    BY <1>2, <2>1 DEF Behind
<1>7. Len(to_exch) \in Nat /\ Len(to_exch') \in Nat
  <2>1. to_exch' \in Seq(Entry)
    BY <1>2, JoinAt DEF Behind
  <2>2. QED
    BY <1>2, <2>1, LenProperties
<1>8. \A i \in 1..Len(to_exch') : to_exch'[i].order.local_timestamp <= cur_ts
  BY <1>2, <1>4, <1>5, <1>6 DEF Clock
<1>9. \A i, j \in 1..Len(to_exch') : i <= j =>
         to_exch'[i].order.local_timestamp <= to_exch'[j].order.local_timestamp
  <2> SUFFICES ASSUME NEW i \in 1..Len(to_exch'), NEW j \in 1..Len(to_exch'), i <= j
               PROVE  to_exch'[i].order.local_timestamp <= to_exch'[j].order.local_timestamp
    OBVIOUS
  <2>1. CASE j \in 1..Len(to_exch)
    <3>1. i \in 1..Len(to_exch)
      BY <1>7, <2>1
    <3>2. to_exch'[i] = to_exch[i] /\ to_exch'[j] = to_exch[j]
      BY <1>6, <2>1, <3>1
    <3>3. QED
      BY <1>5, <2>1, <3>1, <3>2 DEF Clock
  <2>2. CASE j \notin 1..Len(to_exch)
    <3>1. to_exch'[j].order.local_timestamp = cur_ts
      BY <1>4, <1>6, <2>2
    <3>2. QED
      BY <1>8, <3>1
  <2>3. QED
    BY <2>1, <2>2
<1>10. \A i \in 1..Len(to_local') : to_local'[i].order.req = "Rejected" =>
          to_local'[i].order.local_timestamp <= cur_ts
  BY <1>2, <1>4, <1>5, <1>6 DEF Clock
<1>11. /\ ~receiving /\ feed_ts > cur_ts /\ feed_ts >= cur_ts
       /\ \A i \in 1..Len(to_local') : to_local'[i].ts > cur_ts
       /\ \A i \in 1..Len(to_exch') :
             to_exch'[i].ts > cur_ts \/ to_exch'[i].order.local_timestamp = cur_ts
  BY <1>4, <1>5, <1>6 DEF Clock
<1>12. Clock'
  BY <1>3, <1>8, <1>9, <1>10, <1>11 DEF Clock
<1>13. ASSUME NEW x \in OrderIds
       PROVE  LifeOf(x, cur_ts, feed_ts, Put(local_orders, o), to_exch \o asks, to_local \o new, book)
  <2>1. CASE x = id
    BY <1>1, <2>1, AskedLives
  <2>2. CASE x # id
    <3>1. LifeOf(x, cur_ts, feed_ts, local_orders, to_exch, to_local, book)
      BY DEF Lives
    <3>2. /\ x \in DOMAIN Put(local_orders, o) <=> x \in DOMAIN local_orders
          /\ x \in DOMAIN local_orders => Put(local_orders, o)[x] = local_orders[x]
      BY <1>4, <2>2 DEF Put
    <3>3. /\ \A k \in 1..Len(asks) : asks[k].order.order_id # x
          /\ \A k \in 1..Len(new) : new[k].order.order_id # x
      BY <1>2, <1>4, <2>2
    <3>4. QED
      BY <1>2, <3>1, <3>2, <3>3, OtherLives
  <2>3. QED
    BY <2>1, <2>2
<1>14. \A x \in OrderIds :
          LifeOf(x, cur_ts', feed_ts', local_orders', to_exch', to_local', book')
  BY <1>2, <1>3, <1>13
<1>15. Settled(book')
  BY <1>3, <1>5
<1>16. QED
  BY <1>12, <1>14, <1>15, LivesNext

\* submit_order, for an id the strategy does not know.
LEMMA SubmitLives ==
    ASSUME Inv, Lives, BotSubmits
    PROVE  Lives'
<1>1. PICK id \in OrderIds, s \in Sides, tick \in Ticks, quantity \in OrderQtys,
           kind \in OrderKinds, lat \in EntryLatencies :
              SubmitOrder(id, s, tick, quantity, kind[1], kind[2], cur_ts, lat)
  BY DEF BotSubmits
<1>2. quantity \in Nat /\ kind[1] \in OrdTypes /\ kind[2] \in TimesInForce /\ cur_ts \in Nat
  BY TradingAssumption, BusFacts
<1>3. UNCHANGED <<cur_ts, exchVars, engineVars>> /\ phase = "bot"
  BY DEF BotSubmits, Asks
<1> DEFINE fresh == MakeOrder(id, s, tick, quantity, kind[1], kind[2])
           o == [fresh EXCEPT !.req = "New", !.local_timestamp = cur_ts]
           rejected == [o EXCEPT !.req = "Rejected"]
<1>4. fresh \in Order /\ fresh.q = 0 /\ fresh.order_id = id
  BY <1>2, MakeOrderType
<1>5. fresh.status = "None"
  BY DEF MakeOrder
<1>6. /\ Request(o, rejected, lat) /\ id \notin DOMAIN local_orders
      /\ local_orders' = Put(local_orders, o)
  BY <1>1 DEF SubmitOrder, Known
<1> HIDE DEF fresh
<1>7. /\ o \in Plain /\ o.local_timestamp = cur_ts /\ o.status = "None"
      /\ o.req = "New" /\ o.order_id = id
  BY <1>2, <1>4, <1>5 DEF Plain, Order, Statuses
<1> HIDE DEF o
<1>8. /\ rejected \in Plain /\ rejected.req = "Rejected" /\ rejected.order_id = id
      /\ rejected.local_timestamp = cur_ts
  BY <1>7 DEF Plain, Order, Statuses
<1> HIDE DEF rejected
<1>9. Asking(id, o, rejected)
  BY <1>6, <1>7, <1>8 DEF Asking, Requested, Terminal
<1>10. QED
  BY <1>3, <1>6, <1>9, AskLives

\* What a strategy that asks first may touch.
LEMMA MayTouchSettled ==
    ASSUME Inv, Careful, NEW id, MayTouch(id)
    PROVE  /\ id \in OrderIds /\ id \in DOMAIN local_orders
           /\ local_orders[id] \in Plain /\ local_orders[id].order_id = id
           /\ local_orders[id].status \in Working /\ local_orders[id].req = "None"
<1>1. id \in DOMAIN local_orders /\ Cancellable(local_orders[id])
  BY DEF MayTouch, Known
<1>2. local_orders[id].status \in Working /\ local_orders[id].req = "None"
  BY <1>1 DEF Cancellable, Active, Pending
<1>3. IsPlainMap(local_orders)
  BY DEF Inv, LocalTyped
<1>4. QED
  BY <1>1, <1>2, <1>3 DEF IsPlainMap, IsOrderMap

\* cancel.
LEMMA CancelLives ==
    ASSUME Inv, Lives, Careful, BotCancels
    PROVE  Lives'
<1>1. PICK id \in OrderIds, lat \in EntryLatencies : MayTouch(id) /\ Cancel(id, cur_ts, lat)
  BY DEF BotCancels
<1>2. UNCHANGED <<cur_ts, exchVars, engineVars>> /\ phase = "bot" /\ cur_ts \in Nat
  BY BusFacts DEF BotCancels, Asks
<1> DEFINE old == local_orders[id]
           o == [old EXCEPT !.req = "Canceled", !.local_timestamp = cur_ts]
           rejected == [o EXCEPT !.req = "Rejected"]
<1>3. Request(o, rejected, lat) /\ local_orders' = Put(local_orders, o)
  BY <1>1 DEF Cancel
<1>4. /\ old \in Plain /\ old.order_id = id /\ old.status \in Working
      /\ id \in DOMAIN local_orders /\ local_orders[id].req = "None"
      /\ old.status = local_orders[id].status
  BY <1>1, MayTouchSettled
<1> HIDE DEF old
<1>5. /\ o \in Plain /\ o.local_timestamp = cur_ts /\ o.status = old.status
      /\ o.req = "Canceled" /\ o.order_id = id
  BY <1>2, <1>4 DEF Plain, Order, Statuses
<1> HIDE DEF o
<1>6. /\ rejected \in Plain /\ rejected.req = "Rejected" /\ rejected.order_id = id
      /\ rejected.local_timestamp = cur_ts
  BY <1>5 DEF Plain, Order, Statuses
<1> HIDE DEF rejected
<1>7. Asking(id, o, rejected)
  BY <1>4, <1>5, <1>6 DEF Asking, Requested, Terminal, Working
<1>8. QED
  BY <1>2, <1>3, <1>7, AskLives

\* modify.
LEMMA ModifyLives ==
    ASSUME Inv, Lives, Careful, NEW id, MayTouch(id), NEW tick \in Ticks,
           NEW quantity \in Nat, NEW lat \in EntryLatencies,
           Modify(id, tick, quantity, cur_ts, lat),
           UNCHANGED <<cur_ts, exchVars, engineVars>>, phase = "bot"
    PROVE  Lives'
<1> DEFINE old == local_orders[id]
           o == [old EXCEPT !.price_tick = tick, !.qty = quantity,
                            !.req = "Replaced", !.local_timestamp = cur_ts]
           rejected == [o EXCEPT !.req = "Rejected", !.price_tick = old.price_tick,
                                 !.qty = old.qty]
<1>1. Request(o, rejected, lat) /\ local_orders' = Put(local_orders, o)
  BY DEF Modify
<1>2. /\ old \in Plain /\ old.order_id = id /\ old.status \in Working
      /\ id \in OrderIds /\ id \in DOMAIN local_orders /\ local_orders[id].req = "None"
      /\ old.status = local_orders[id].status
  BY MayTouchSettled
<1>3. cur_ts \in Nat
  BY BusFacts
<1> HIDE DEF old
<1>4. old.price_tick \in Ticks /\ old.qty \in Nat
  BY <1>2 DEF Plain, Order
<1>5. /\ o \in Plain /\ o.local_timestamp = cur_ts /\ o.status = old.status
      /\ o.req = "Replaced" /\ o.order_id = id
  BY <1>2, <1>3 DEF Plain, Order, Statuses
<1> HIDE DEF o
<1>6. /\ rejected \in Plain /\ rejected.req = "Rejected" /\ rejected.order_id = id
      /\ rejected.local_timestamp = cur_ts
  BY <1>4, <1>5 DEF Plain, Order, Statuses
<1> HIDE DEF rejected
<1>7. Asking(id, o, rejected)
  BY <1>2, <1>5, <1>6 DEF Asking, Requested, Terminal, Working
<1>8. QED
  BY <1>1, <1>2, <1>7, AskLives

\* Every request of a strategy that asks first.
LEMMA BotLives ==
    ASSUME Inv, Lives, Careful, BotSubmits \/ BotCancels \/ BotReprices \/ BotResizes
    PROVE  Lives'
<1>1. CASE BotReprices
  <2>1. PICK id \in OrderIds, tick \in Ticks, lat \in EntryLatencies :
           MayTouch(id) /\ Modify(id, tick, local_orders[id].qty, cur_ts, lat)
    BY <1>1 DEF BotReprices
  <2>2. local_orders[id].qty \in Nat
    BY <2>1, MayTouchWorking DEF Plain, Order
  <2>3. UNCHANGED <<cur_ts, exchVars, engineVars>> /\ phase = "bot"
    BY <1>1 DEF BotReprices, Asks
  <2>4. QED
    BY <2>1, <2>2, <2>3, ModifyLives
<1>2. CASE BotResizes
  <2>1. PICK id \in OrderIds, quantity \in OrderQtys, lat \in EntryLatencies :
           MayTouch(id) /\ Modify(id, local_orders[id].price_tick, quantity, cur_ts, lat)
    BY <1>2 DEF BotResizes
  <2>2. local_orders[id].price_tick \in Ticks /\ quantity \in Nat
    BY <2>1, MayTouchWorking, TradingAssumption DEF Plain, Order
  <2>3. UNCHANGED <<cur_ts, exchVars, engineVars>> /\ phase = "bot"
    BY <1>2 DEF BotResizes, Asks
  <2>4. QED
    BY <2>1, <2>2, <2>3, ModifyLives
<1>3. QED
  BY <1>1, <1>2, SubmitLives, CancelLives

\* clear_inactive_orders forgets orders of which nothing will be heard.
LEMMA ClearsLives ==
    ASSUME Inv, Lives, BotClears
    PROVE  Lives'
<1>1. /\ UNCHANGED <<cur_ts, to_exch, to_local, exchVars, engineVars>>
      /\ local_orders' = [id \in {i \in DOMAIN local_orders :
                                    local_orders[i].status \notin Terminal} |-> local_orders[id]]
  BY DEF BotClears, ClearInactiveOrders, Known
<1>2. /\ cur_ts' = cur_ts /\ book' = book /\ feed_ts' = feed_ts
      /\ phase' = phase /\ receiving' = receiving /\ to_exch' = to_exch /\ to_local' = to_local
  BY <1>1 DEF exchVars, engineVars
<1> DEFINE after == [id \in {i \in DOMAIN local_orders :
                               local_orders[i].status \notin Terminal} |-> local_orders[id]]
<1>3. ASSUME NEW id \in OrderIds
      PROVE  LifeOf(id, cur_ts, feed_ts, after, to_exch, to_local, book)
  <2>1. /\ View(id, local_orders, to_local, book)
        /\ Entering(id, local_orders, to_exch, to_local)
        /\ Awaited(id, cur_ts, feed_ts, local_orders, to_exch, to_local)
    BY DEF Lives, LifeOf
  <2>2. /\ id \in DOMAIN after <=> id \in DOMAIN local_orders /\ local_orders[id].status \notin Terminal
        /\ id \in DOMAIN after => after[id] = local_orders[id]
    OBVIOUS
  <2> HIDE DEF after
  <2>3. \A s \in Terminal : s \notin Working /\ s # "None"
    BY DEF Terminal, Working
  <2>4. View(id, after, to_local, book)
    BY <2>1, <2>2, <2>3 DEF View
  <2>5. Entering(id, after, to_exch, to_local)
    BY <2>1, <2>2, <2>3 DEF Entering
  <2>6. Awaited(id, cur_ts, feed_ts, after, to_exch, to_local)
    BY <2>1, <2>2 DEF Awaited
  <2>7. QED
    BY <2>4, <2>5, <2>6 DEF LifeOf
<1>4. \A id \in OrderIds :
         LifeOf(id, cur_ts', feed_ts', local_orders', to_exch', to_local', book')
  BY <1>1, <1>2, <1>3
<1>5. Clock' /\ Settled(book')
  BY <1>2 DEF Lives, Clock
<1>6. QED
  BY <1>4, <1>5, LivesNext

-----------------------------------------------------------------------------
(* The strategy is told.                                                    *)

\* An order that nothing changes.
LEMMA SameOrder ==
    ASSUME NEW id, NEW now, NEW feed, NEW orders, NEW after, NEW reqs, NEW bus, NEW b,
           id \in DOMAIN after <=> id \in DOMAIN orders,
           id \in DOMAIN orders => after[id] = orders[id],
           LifeOf(id, now, feed, orders, reqs, bus, b)
    PROVE  LifeOf(id, now, feed, after, reqs, bus, b)
<1>1. View(id, after, bus, b)
  BY ViewSame DEF LifeOf
<1>2. Entering(id, after, reqs, bus) /\ Awaited(id, now, feed, after, reqs, bus)
  BY DEF LifeOf, Entering, Awaited
<1>3. QED
  BY <1>1, <1>2 DEF LifeOf

\* The response does not change the order.
LEMMA PassedLives ==
    ASSUME NEW id, NEW now, NEW feed, NEW orders, NEW after, NEW reqs, NEW b,
           NEW bus \in Seq(Entry), bus # <<>>, 1 \notin News(bus, id),
           id \in DOMAIN after <=> id \in DOMAIN orders,
           id \in DOMAIN orders => after[id] = orders[id],
           LifeOf(id, now, feed, orders, reqs, bus, b)
    PROVE  LifeOf(id, now, feed, after, reqs, Tail(bus), b)
<1>1. View(id, orders, Tail(bus), b)
  BY ViewPasses DEF LifeOf
<1>2. Entering(id, orders, reqs, Tail(bus)) /\ Awaited(id, now, feed, orders, reqs, Tail(bus))
  BY ToldLess DEF LifeOf
<1>3. LifeOf(id, now, feed, orders, reqs, Tail(bus), b)
  BY <1>1, <1>2 DEF LifeOf
<1>4. QED
  BY <1>3, SameOrder

\* The response says what the exchange did.
LEMMA NewsLives ==
    ASSUME NEW id, NEW now, NEW feed, NEW orders, NEW after, NEW reqs, NEW b,
           NEW bus \in Seq(Entry), bus # <<>>, 1 \in News(bus, id), Head(bus).ts <= now,
           now \in Nat,
           LifeOf(id, now, feed, orders, reqs, bus, b),
           id \in DOMAIN after, after[id].status = Head(bus).order.status,
           after[id].req = Head(bus).order.req
    PROVE  LifeOf(id, now, feed, after, reqs, Tail(bus), b)
<1>1. /\ View(id, orders, bus, b) /\ Entering(id, orders, reqs, bus)
      /\ Awaited(id, now, feed, orders, reqs, bus)
  BY DEF LifeOf
<1>2. View(id, after, Tail(bus), b)
  BY <1>1, ViewTakes
<1>3. Head(bus) = bus[1] /\ bus[1].ts \in Nat
  BY TailAt, EntryAt
<1>4. after[id].status # "None"
  BY <1>1, <1>3 DEF View, Working, Terminal
<1>5. \A i \in Asked(reqs, id) : reqs[i].order.req # "New"
  BY <1>1 DEF Entering
<1>6. Entering(id, after, reqs, Tail(bus))
  BY <1>4, <1>5 DEF Entering
<1>7. ~(bus[1].ts > now)
  BY <1>3
<1>8. AskedAt(reqs, id, now) = {} /\ Refusals(bus, id, now) = {}
  BY <1>1, <1>7 DEF Awaited
<1>9. Refusals(Tail(bus), id, now) = {}
  BY <1>8, TailMovesAt
<1>10. Awaited(id, now, feed, after, reqs, Tail(bus))
  BY <1>8, <1>9 DEF Awaited
<1>11. QED
  BY <1>2, <1>6, <1>10 DEF LifeOf

\* The response refuses the last request.
LEMMA RefusedLives ==
    ASSUME NEW id, NEW now, NEW feed, NEW orders, NEW after, NEW reqs, NEW b,
           NEW bus \in Seq(Entry), bus # <<>>, id \in DOMAIN orders,
           1 \in Refusals(bus, id, orders[id].local_timestamp),
           LifeOf(id, now, feed, orders, reqs, bus, b),
           id \in DOMAIN after, after[id].req = "None",
           after[id].status = IF orders[id].req = "New" THEN "Expired" ELSE orders[id].status
    PROVE  LifeOf(id, now, feed, after, reqs, Tail(bus), b)
<1> DEFINE t == orders[id].local_timestamp
<1>1. /\ View(id, orders, bus, b) /\ Entering(id, orders, reqs, bus)
      /\ Awaited(id, now, feed, orders, reqs, bus)
  BY DEF LifeOf
<1>2. 1 \notin News(bus, id)
  BY DEF News, Refusals
<1>3. View(id, orders, Tail(bus), b)
  BY <1>1, <1>2, ViewPasses
<1>4. \A i \in News(Tail(bus), id) : i + 1 \in News(bus, id)
  BY TailMoves
<1>5. /\ "Expired" \in Terminal /\ "Expired" \notin Working /\ "None" \notin Working
      /\ "None" \notin Terminal
  BY DEF Terminal, Working
<1>6. ASSUME orders[id].req = "New"
      PROVE  View(id, after, Tail(bus), b) /\ Entering(id, after, reqs, Tail(bus))
  <2>1. orders[id].status = "None" /\ after[id].status = "Expired"
    BY <1>1, <1>6 DEF View
  <2>2. News(bus, id) = {} /\ AskedAt(reqs, id, t) = {}
    BY <1>1, <2>1 DEF Entering
  <2>3. News(Tail(bus), id) = {} /\ id \notin Ids(b)
    BY <1>3, <1>4, <1>5, <2>1, <2>2 DEF View
  <2>4. View(id, after, Tail(bus), b)
    BY <1>5, <2>1, <2>3 DEF View
  <2>5. \A i \in Asked(reqs, id) : reqs[i].order.req # "New"
    BY <1>1, <2>2 DEF Entering, AskedAt
  <2>6. Entering(id, after, reqs, Tail(bus))
    BY <2>1, <2>5 DEF Entering
  <2>7. QED
    BY <2>4, <2>6
<1>7. ASSUME orders[id].req # "New"
      PROVE  View(id, after, Tail(bus), b) /\ Entering(id, after, reqs, Tail(bus))
  <2>1. orders[id].status # "None" /\ after[id].status = orders[id].status
    BY <1>1, <1>7 DEF View
  <2>2. View(id, after, Tail(bus), b)
    BY <1>3, <1>7, <2>1, ViewSame
  <2>3. \A i \in Asked(reqs, id) : reqs[i].order.req # "New"
    BY <1>1, <2>1 DEF Entering
  <2>4. Entering(id, after, reqs, Tail(bus))
    BY <2>1, <2>3 DEF Entering
  <2>5. QED
    BY <2>2, <2>4
<1>8. AskedAt(reqs, id, now) = {} /\ Refusals(Tail(bus), id, now) = {}
  <2>1. /\ \A i \in Refusals(Tail(bus), id, now) : i \in Int /\ i + 1 \in Refusals(bus, id, now)
        /\ \A i \in Refusals(Tail(bus), id, now) : i # 0
    BY TailMovesAt DEF Refusals
  <2>2. SUFFICES ASSUME AskedAt(reqs, id, now) # {} \/ Refusals(bus, id, now) # {}
                 PROVE  AskedAt(reqs, id, now) = {} /\ Refusals(Tail(bus), id, now) = {}
    BY <2>1
  <2>3. 1 \in Refusals(bus, id, now)
    BY <1>1, <2>2 DEF Awaited
  <2>4. AskedAt(reqs, id, now) = {} /\ \A i \in Refusals(bus, id, now) : i = 1
    BY <1>1, <2>2, <2>3 DEF Awaited
  <2>5. QED
    BY <2>1, <2>4
<1>9. Awaited(id, now, feed, after, reqs, Tail(bus))
  BY <1>8 DEF Awaited
<1>10. QED
  BY <1>6, <1>7, <1>9 DEF LifeOf

\* The LocalOrder slot.
LEMMA LocalLives ==
    ASSUME Inv, Prompt, Lives, LocalReceives
    PROVE  Lives'
<1> DEFINE resp == Head(to_local).order
           who == resp.order_id
<1>1. /\ to_local # <<>> /\ cur_ts' = Head(to_local).ts
      /\ to_local' = Tail(to_local) /\ to_exch' = to_exch /\ book' = book
      /\ feed_ts' = Larger(feed_ts, cur_ts') /\ phase' = phase /\ phase # "bot"
      /\ local_orders' =
            IF who \in DOMAIN local_orders
            THEN Put(local_orders, Receive(local_orders[who], resp))
            ELSE IF resp.req # "Rejected" THEN Put(local_orders, resp)
            ELSE local_orders
  BY DEF LocalReceives, ProcessResponse, Known, exchVars, Running
<1>2. to_exch \in Seq(Entry) /\ to_local \in Seq(Entry) /\ cur_ts \in Nat /\ feed_ts \in Nat
  BY BusFacts DEF Inv, EngineTyped
<1>3. Head(to_local) = to_local[1] /\ 1 \in 1..Len(to_local) /\ to_local[1].ts \in Nat
      /\ resp \in Order
  BY <1>1, <1>2, TailAt, EntryAt
<1>4. cur_ts' \in Nat /\ cur_ts' >= cur_ts
  BY <1>1, <1>3 DEF Prompt, Ahead, NoneBefore
<1>5. feed_ts' \in Nat /\ feed_ts' >= feed_ts /\ feed_ts' >= cur_ts'
  BY <1>1, <1>2, <1>4 DEF Larger
<1>6. Clock /\ Settled(book)
  BY DEF Lives
<1>7. /\ \A i \in 1..Len(to_exch) : to_exch[i].order.local_timestamp <= cur_ts
      /\ \A i \in 1..Len(to_local) : to_local[i].order.req = "Rejected" =>
            to_local[i].order.local_timestamp <= cur_ts
  BY <1>6 DEF Clock
<1>8. ASSUME NEW id \in OrderIds
      PROVE  LifeOf(id, cur_ts', feed_ts', local_orders', to_exch, Tail(to_local), book)
  <2>1. LifeOf(id, cur_ts, feed_ts, local_orders, to_exch, to_local, book)
    BY DEF Lives
  <2>2. Awaited(id, cur_ts', feed_ts', local_orders, to_exch, to_local)
    BY <1>2, <1>4, <1>5, <1>7, <2>1, AwaitedLater DEF LifeOf
  <2>3. LifeOf(id, cur_ts', feed_ts', local_orders, to_exch, to_local, book)
    BY <2>1, <2>2 DEF LifeOf
  <2>4. /\ 1 \in News(to_local, id) <=> who = id /\ resp.req # "Rejected"
        /\ id \in DOMAIN local_orders =>
              (1 \in Refusals(to_local, id, local_orders[id].local_timestamp) <=>
                 who = id /\ resp.req = "Rejected"
                 /\ resp.local_timestamp = local_orders[id].local_timestamp)
    BY <1>3 DEF News, Refusals
  <2>5. 1 \in News(to_local, id) => id \in DOMAIN local_orders
    BY <2>1 DEF LifeOf, View
  <2>6. who # id =>
           /\ id \in DOMAIN local_orders' <=> id \in DOMAIN local_orders
           /\ id \in DOMAIN local_orders => local_orders'[id] = local_orders[id]
    <3>1. who \in DOMAIN local_orders => Receive(local_orders[who], resp).order_id = who
      <4>1. SUFFICES ASSUME who \in DOMAIN local_orders
                     PROVE  Receive(local_orders[who], resp).order_id = who
        OBVIOUS
      <4>2. local_orders[who].order_id = who /\ local_orders[who] \in Order
        BY <4>1 DEF Inv, LocalTyped, IsPlainMap, IsOrderMap
      <4>3. QED
        BY <1>3, <4>2 DEF Receive, Update, Order
    <3>2. QED
      BY <1>1, <3>1 DEF Put
  <2>7. who = id /\ id \in DOMAIN local_orders =>
           /\ id \in DOMAIN local_orders'
           /\ local_orders'[id] = Receive(local_orders[id], resp)
    <3>1. SUFFICES ASSUME who = id, id \in DOMAIN local_orders
                   PROVE  /\ id \in DOMAIN local_orders'
                          /\ local_orders'[id] = Receive(local_orders[id], resp)
      OBVIOUS
    <3>2. local_orders[id].order_id = id /\ local_orders[id] \in Order
      BY <3>1 DEF Inv, LocalTyped, IsPlainMap, IsOrderMap
    <3>3. Receive(local_orders[id], resp).order_id = id
      BY <1>3, <3>1, <3>2 DEF Receive, Update, Order
    <3>4. QED
      BY <1>1, <3>1, <3>3 DEF Put
  <2>8. CASE who # id
    BY <1>1, <1>2, <2>3, <2>4, <2>6, <2>8, PassedLives
  <2>9. CASE who = id /\ resp.req # "Rejected"
    <3>1. local_orders'[id] = Update(local_orders[id], resp) /\ id \in DOMAIN local_orders'
      BY <2>4, <2>5, <2>7, <2>9 DEF Receive
    <3>2. local_orders'[id].status = resp.status /\ local_orders'[id].req = resp.req
      BY <1>3, <3>1 DEF Update, Order
    <3>3. Head(to_local).ts <= cur_ts'
      BY <1>1, <1>4
    <3>4. QED
      BY <1>1, <1>2, <1>4, <2>3, <2>4, <2>9, <3>1, <3>2, <3>3, NewsLives
  <2>10. CASE /\ who = id /\ resp.req = "Rejected"
              /\ id \in DOMAIN local_orders => resp.local_timestamp # local_orders[id].local_timestamp
    <3>1. /\ id \in DOMAIN local_orders' <=> id \in DOMAIN local_orders
          /\ id \in DOMAIN local_orders => local_orders'[id] = local_orders[id]
      BY <1>1, <2>7, <2>10 DEF Receive
    <3>2. QED
      BY <1>1, <1>2, <2>3, <2>4, <2>10, <3>1, PassedLives
  <2>11. CASE /\ who = id /\ resp.req = "Rejected" /\ id \in DOMAIN local_orders
              /\ resp.local_timestamp = local_orders[id].local_timestamp
    <3>1. local_orders[id] \in Order
      BY <2>11 DEF Inv, LocalTyped, IsPlainMap, IsOrderMap
    <3>2. /\ id \in DOMAIN local_orders'
          /\ local_orders'[id] = [local_orders[id] EXCEPT !.req = "None",
                !.status = IF local_orders[id].req = "New" THEN "Expired" ELSE @]
      BY <2>7, <2>11 DEF Receive
    <3>3. /\ local_orders'[id].req = "None"
          /\ local_orders'[id].status = IF local_orders[id].req = "New" THEN "Expired"
                                        ELSE local_orders[id].status
      BY <3>1, <3>2 DEF Order
    <3>4. QED
      BY <1>1, <1>2, <2>3, <2>4, <2>11, <3>2, <3>3, RefusedLives
  <2>12. QED
    BY <2>8, <2>9, <2>10, <2>11
<1>9. \A id \in OrderIds :
         LifeOf(id, cur_ts', feed_ts', local_orders', to_exch', to_local', book')
  BY <1>1, <1>8
<1>10. Clock'
  <2>1. \A i \in 1..Len(to_exch') : to_exch'[i].order.local_timestamp <= cur_ts'
    <3> SUFFICES ASSUME NEW i \in 1..Len(to_exch) PROVE to_exch[i].order.local_timestamp <= cur_ts'
      BY <1>1
    <3>1. to_exch[i].order.local_timestamp \in Nat /\ to_exch[i].order.local_timestamp <= cur_ts
      BY <1>2, <1>7, EntryAt DEF Order
    <3>2. QED
      BY <1>2, <1>4, <3>1
  <2>2. \A i, j \in 1..Len(to_exch') : i <= j =>
           to_exch'[i].order.local_timestamp <= to_exch'[j].order.local_timestamp
    BY <1>1, <1>6 DEF Clock
  <2>3. \A i \in 1..Len(to_local') : to_local'[i].order.req = "Rejected" =>
           to_local'[i].order.local_timestamp <= cur_ts'
    <3> SUFFICES ASSUME NEW i \in 1..Len(Tail(to_local)), Tail(to_local)[i].order.req = "Rejected"
                 PROVE  Tail(to_local)[i].order.local_timestamp <= cur_ts'
      BY <1>1
    <3>1. Tail(to_local)[i] = to_local[i + 1] /\ i + 1 \in 1..Len(to_local)
      BY <1>1, <1>2, TailAt
    <3>2. to_local[i + 1].order.local_timestamp \in Nat
          /\ to_local[i + 1].order.local_timestamp <= cur_ts
      BY <1>2, <1>7, <3>1, EntryAt DEF Order
    <3>3. QED
      BY <1>2, <1>4, <3>1, <3>2
  <2>4. QED
    BY <1>1, <1>5, <2>1, <2>2, <2>3 DEF Clock
<1>11. Settled(book')
  BY <1>1, <1>6
<1>12. QED
  BY <1>9, <1>10, <1>11, LivesNext

-----------------------------------------------------------------------------
(* The exchange takes a request.                                            *)

\* It refuses the request.
LEMMA RejectsLives ==
    ASSUME NEW id, NEW now \in Nat, NEW feed, NEW orders, NEW b, NEW b2,
           NEW reqs \in Seq(Entry), reqs # <<>>,
           NEW bus \in Seq(Entry), NEW new \in Seq(Entry),
           Head(reqs).order.order_id = id, Head(reqs).ts <= now,
           Len(new) = 1, new[1].order.order_id = id, new[1].order.req = "Rejected",
           new[1].order.local_timestamp = Head(reqs).order.local_timestamp,
           id \in Ids(b2) <=> id \in Ids(b),
           LifeOf(id, now, feed, orders, reqs, bus, b)
    PROVE  LifeOf(id, now, feed, orders, Tail(reqs), bus \o new, b2)
<1> DEFINE t == orders[id].local_timestamp
           rest == Tail(reqs)
           all == bus \o new
<1>1. /\ View(id, orders, bus, b) /\ Entering(id, orders, reqs, bus)
      /\ Awaited(id, now, feed, orders, reqs, bus)
  BY DEF LifeOf
<1>2. Head(reqs) = reqs[1] /\ 1 \in 1..Len(reqs) /\ reqs[1].ts \in Nat
  BY TailAt, EntryAt
<1>3. 1 \in Asked(reqs, id) /\ ~(reqs[1].ts > now)
  BY <1>2 DEF Asked
<1>4. News(new, id) = {}
  BY DEF News
<1>5. View(id, orders, all, b2)
  BY <1>1, <1>4, ViewStays
<1>6. Entering(id, orders, rest, bus) /\ Awaited(id, now, feed, orders, rest, bus)
  BY <1>1, AskedLess
<1>7. News(all, id) = News(bus, id) /\ \A i \in News(bus, id) : all[i] = bus[i]
  <2>1. Joined(all, bus, new, id)
    BY JoinMoves
  <2> HIDE DEF all
  <2>2. /\ \A i \in News(all, id) : i \in News(bus, id)
        /\ \A i \in News(bus, id) : i \in News(all, id) /\ all[i] = bus[i]
    BY <1>4, <2>1 DEF Joined
  <2>3. QED
    BY <2>2
<1>8. \A u : \A i \in Refusals(all, id, u) :
         \/ i \in Refusals(bus, id, u)
         \/ i = Len(bus) + 1 /\ 1 \in AskedAt(reqs, id, u)
  <2> SUFFICES ASSUME NEW u, NEW i \in Refusals(all, id, u), i \notin Refusals(bus, id, u)
               PROVE  i = Len(bus) + 1 /\ 1 \in AskedAt(reqs, id, u)
    OBVIOUS
  <2>1. JoinedAt(all, bus, new, id, u)
    BY JoinMovesAt
  <2> HIDE DEF all
  <2>2. i \in Int /\ Len(bus) \in Nat /\ i - Len(bus) \in Refusals(new, id, u)
    BY <2>1 DEF JoinedAt
  <2>3. i - Len(bus) \in 1..1 /\ new[i - Len(bus)].order.local_timestamp = u
    BY <2>2 DEF Refusals
  <2>4. i = Len(bus) + 1 /\ i - Len(bus) = 1
    BY <2>2, <2>3
  <2>5. new[1].order.local_timestamp = u
    BY <2>3, <2>4
  <2>6. 1 \in AskedAt(reqs, id, u)
    BY <1>2, <1>3, <2>5 DEF AskedAt
  <2>7. QED
    BY <2>4, <2>6
<1>9. \A u : /\ \A i \in AskedAt(rest, id, u) : i \in Int /\ i + 1 \in AskedAt(reqs, id, u)
             /\ \A i \in AskedAt(rest, id, u) : i # 0
  BY TailMovesAt DEF AskedAt, Asked
<1>10. \A u : 1 \in AskedAt(reqs, id, u) /\ (\A i, j \in AskedAt(reqs, id, u) : i = j)
                => AskedAt(rest, id, u) = {}
  <2> SUFFICES ASSUME NEW u, 1 \in AskedAt(reqs, id, u),
                      \A i, j \in AskedAt(reqs, id, u) : i = j,
                      NEW i \in AskedAt(rest, id, u)
               PROVE  FALSE
    OBVIOUS
  <2>1. i + 1 = 1 /\ i \in Int /\ i # 0
    BY <1>9
  <2>2. QED
    BY <2>1
<1> HIDE DEF all, rest
<1>11. Entering(id, orders, rest, all)
  <2>1. \A i \in Asked(rest, id) : rest[i].order.req = "New" =>
           /\ id \in DOMAIN orders /\ orders[id].status = "None"
           /\ rest[i].order.local_timestamp = t
    BY <1>6 DEF Entering
  <2>2. ASSUME id \in DOMAIN orders, orders[id].status = "None"
        PROVE  /\ \A i \in Asked(rest, id) : rest[i].order.local_timestamp <= t
               /\ \A i, j \in AskedAt(rest, id, t) : i = j
               /\ AskedAt(rest, id, t) = {} \/ Refusals(all, id, t) = {}
               /\ News(all, id) = {} \/ (Asked(rest, id) = {} /\ Refusals(all, id, t) = {})
    <3>1. News(bus, id) = {}
      BY <1>1, <1>3, <2>2 DEF Entering
    <3>2. \A i, j \in AskedAt(reqs, id, t) : i = j
      BY <1>1, <2>2 DEF Entering
    <3>3. /\ \A i \in Asked(rest, id) : rest[i].order.local_timestamp <= t
          /\ \A i, j \in AskedAt(rest, id, t) : i = j
          /\ AskedAt(rest, id, t) = {} \/ Refusals(bus, id, t) = {}
      BY <1>6, <2>2 DEF Entering
    <3>4. AskedAt(rest, id, t) = {} \/ Refusals(all, id, t) = {}
      BY <1>8, <1>10, <3>2, <3>3
    <3>5. QED
      BY <1>7, <3>1, <3>3, <3>4
  <2>3. QED
    BY <2>1, <2>2 DEF Entering
<1>12. Awaited(id, now, feed, orders, rest, all)
  <2>1. SUFFICES ASSUME AskedAt(rest, id, now) # {} \/ Refusals(all, id, now) # {}
                 PROVE  Awaited(id, now, feed, orders, rest, all)
    BY DEF Awaited
  <2>2. AskedAt(reqs, id, now) # {} \/ Refusals(bus, id, now) # {}
    BY <1>8, <1>9, <2>1
  <2>3. 1 \in AskedAt(reqs, id, now)
    BY <1>1, <1>3, <2>2 DEF Awaited
  <2>4. Refusals(bus, id, now) = {} /\ AskedAt(rest, id, now) = {}
    BY <1>1, <1>10, <2>2, <2>3 DEF Awaited
  <2>5. \A i, j \in Refusals(all, id, now) : i = j
    BY <1>8, <2>4
  <2>6. \A i \in News(all, id) : all[i].ts > now
    BY <1>1, <1>7, <2>2 DEF Awaited
  <2>7. \A i \in Asked(rest, id) : rest[i].ts > now \/ i \in AskedAt(rest, id, now)
    <3>1. \A i \in Asked(rest, id) : /\ i \in Int /\ i # 0 /\ i + 1 \in Asked(reqs, id)
                                     /\ rest[i] = reqs[i + 1]
      BY TailMoves DEF rest, Asked
    <3>2. \A i \in Asked(rest, id) : i + 1 # 1
      BY <3>1
    <3>3. \A i, j \in AskedAt(reqs, id, now) : i = j
      BY <1>1, <2>2 DEF Awaited
    <3>4. QED
      BY <1>1, <2>2, <2>3, <3>1, <3>2, <3>3 DEF Awaited
  <2>8. QED
    BY <1>1, <2>2, <2>4, <2>5, <2>6, <2>7 DEF Awaited
<1>13. QED
  BY <1>5, <1>11, <1>12 DEF LifeOf, all, rest

\* It grants the request: a new order, or one in the book.
LEMMA GrantsLives ==
    ASSUME NEW id, NEW now \in Nat, NEW feed, NEW orders, NEW b, NEW b2,
           NEW reqs \in Seq(Entry), reqs # <<>>,
           NEW bus \in Seq(Entry), NEW new \in Seq(Entry),
           Head(reqs).order.order_id = id, Head(reqs).ts <= now,
           \A i \in 1..Len(reqs) : reqs[1].order.local_timestamp <= reqs[i].order.local_timestamp,
           Head(reqs).order.req = "New" <=> id \notin Ids(b),
           Len(new) = 1, new[1].order.order_id = id,
           new[1].order.req \notin {"Rejected", "New"},
           new[1].order.status \in Working \cup Terminal,
           id \in Ids(b2) <=> new[1].order.status \in Working,
           LifeOf(id, now, feed, orders, reqs, bus, b)
    PROVE  LifeOf(id, now, feed, orders, Tail(reqs), bus \o new, b2)
<1> DEFINE t == orders[id].local_timestamp
           rest == Tail(reqs)
           all == bus \o new
<1>1. /\ View(id, orders, bus, b) /\ Entering(id, orders, reqs, bus)
      /\ Awaited(id, now, feed, orders, reqs, bus)
  BY DEF LifeOf
<1>2. Head(reqs) = reqs[1] /\ 1 \in 1..Len(reqs) /\ reqs[1].ts \in Nat
  BY TailAt, EntryAt
<1>3. 1 \in Asked(reqs, id) /\ ~(reqs[1].ts > now)
  BY <1>2 DEF Asked
<1>4. News(new, id) = {1} /\ \A u : Refusals(new, id, u) = {}
  <2>1. \A k \in 1..Len(new) : k = 1
    OBVIOUS
  <2>2. 1 \in 1..Len(new)
    OBVIOUS
  <2>3. QED
    BY <2>1, <2>2 DEF News, Refusals
<1>5. /\ "None" \notin Working /\ "None" \notin Terminal
      /\ \A s \in Working : s \notin Terminal
  BY DEF Working, Terminal
<1>6. /\ id \in DOMAIN orders /\ orders[id].status \notin Terminal
      /\ id \in Ids(b) \/ News(bus, id) = {}
  <2>1. CASE id \in Ids(b)
    BY <1>1, <1>5, <2>1 DEF View
  <2>2. CASE id \notin Ids(b)
    <3>1. id \in DOMAIN orders /\ orders[id].status = "None"
      BY <1>1, <1>2, <1>3, <2>2 DEF Entering
    <3>2. News(bus, id) = {}
      BY <1>1, <1>3, <3>1 DEF Entering
    <3>3. QED
      BY <1>5, <3>1, <3>2
  <2>3. QED
    BY <2>1, <2>2
<1>7. View(id, orders, all, b2)
  BY <1>1, <1>4, <1>6, ViewHears
<1>8. Entering(id, orders, rest, bus)
  BY <1>1, AskedLess
<1>9. \A u : Refusals(all, id, u) # {} => Refusals(bus, id, u) # {}
  <2> SUFFICES ASSUME NEW u, NEW i \in Refusals(all, id, u) PROVE Refusals(bus, id, u) # {}
    OBVIOUS
  <2>1. JoinedAt(all, bus, new, id, u)
    BY JoinMovesAt
  <2> HIDE DEF all
  <2>2. QED
    BY <1>4, <2>1 DEF JoinedAt
<1>10. \A i \in Asked(rest, id) : /\ i \in Int /\ i # 0 /\ i + 1 \in Asked(reqs, id)
                                  /\ rest[i] = reqs[i + 1]
  BY TailMoves DEF Asked
<1>11. \A i \in Asked(rest, id) : i + 1 # 1
  BY <1>10
<1> HIDE DEF all, rest
<1>12. Entering(id, orders, rest, all)
  <2>1. \A i \in Asked(rest, id) : rest[i].order.req = "New" =>
           /\ id \in DOMAIN orders /\ orders[id].status = "None"
           /\ rest[i].order.local_timestamp = t
    BY <1>8 DEF Entering
  <2>2. ASSUME orders[id].status = "None"
        PROVE  Asked(rest, id) = {} /\ Refusals(all, id, t) = {}
    <3>1. id \notin Ids(b)
      BY <1>1, <1>3, <1>5, <1>6, <2>2 DEF Entering, View
    <3>2. reqs[1].order.local_timestamp = t
      BY <1>1, <1>2, <1>3, <3>1 DEF Entering
    <3>3. 1 \in AskedAt(reqs, id, t)
      BY <1>3, <3>2 DEF AskedAt
    <3>4. Refusals(bus, id, t) = {} /\ \A i \in AskedAt(reqs, id, t) : i = 1
      BY <1>1, <1>6, <2>2, <3>3 DEF Entering
    <3>5. \A i \in Asked(reqs, id) : i = 1
      <4> SUFFICES ASSUME NEW i \in Asked(reqs, id) PROVE i = 1
        OBVIOUS
      <4>1. i \in 1..Len(reqs)
        BY DEF Asked
      <4>2. reqs[i].order.local_timestamp <= t /\ t <= reqs[i].order.local_timestamp
        BY <1>1, <1>6, <2>2, <3>2, <4>1 DEF Entering
      <4>3. reqs[i].order.local_timestamp \in Nat /\ t \in Nat
        BY <1>2, <3>2, <4>1, EntryAt DEF Order
      <4>4. reqs[i].order.local_timestamp = t
        BY <4>2, <4>3
      <4>5. QED
        BY <3>4, <4>4 DEF AskedAt
    <3>6. QED
      BY <1>9, <1>10, <1>11, <3>4, <3>5
  <2>3. (\A i \in Asked(rest, id) : rest[i].order.local_timestamp <= t) \/ orders[id].status # "None"
    BY <2>2
  <2>4. (\A i, j \in AskedAt(rest, id, t) : i = j) \/ orders[id].status # "None"
    BY <2>2 DEF AskedAt
  <2>5. AskedAt(rest, id, t) = {} \/ orders[id].status # "None"
    BY <2>2 DEF AskedAt
  <2>6. QED
    BY <2>1, <2>2, <2>3, <2>4, <2>5 DEF Entering
<1>13. Awaited(id, now, feed, orders, rest, all)
  <2>1. SUFFICES ASSUME AskedAt(rest, id, now) # {} \/ Refusals(all, id, now) # {} PROVE FALSE
    BY DEF Awaited
  <2>2. AskedAt(rest, id, now) # {} => \E i \in AskedAt(reqs, id, now) : i # 1
    BY <1>10, <1>11 DEF AskedAt
  <2>3. AskedAt(reqs, id, now) # {} \/ Refusals(bus, id, now) # {}
    BY <1>9, <2>1, <2>2
  <2>4. 1 \in AskedAt(reqs, id, now)
    BY <1>1, <1>3, <2>3 DEF Awaited
  <2>5. Refusals(bus, id, now) = {} /\ \A i \in AskedAt(reqs, id, now) : i = 1
    BY <1>1, <2>3, <2>4 DEF Awaited
  <2>6. QED
    BY <1>9, <2>1, <2>2, <2>5
<1>14. QED
  BY <1>7, <1>12, <1>13 DEF LifeOf, all, rest

\* The response to one order.
LEMMA RespondOne ==
    ASSUME to_local \in Seq(Entry), NEW r \in Order, NEW ts \in Nat,
           NEW lat \in ResponseLatencies, Respond(<<r>>, ts, lat)
    PROVE  \E new \in Seq(Entry) : /\ to_local' = to_local \o new /\ Len(new) = 1
                                   /\ new[1].order = ToPlain(r)
<1> DEFINE p == ToPlain(r)
           new == <<Scheduled(to_local, p, ts + lat)>>
<1>1. p \in Order /\ p.q = 0
  BY ToPlainType
<1>2. lat \in Nat /\ ts + lat \in Nat
  BY LatencyAssumption
<1>3. to_local' = to_local \o new
  BY DEF Respond
<1> HIDE DEF p
<1>4. new \in Seq(Entry) /\ Len(new) = 1 /\ new[1].order = p
  BY <1>1, <1>2, OneAt
<1>5. QED
  BY <1>3, <1>4 DEF p

\* What the answer to a request leaves in the book.
LEMMA AnswersSettled ==
    ASSUME NEW a, NEW o, Settled(book), Answers(a, book, o)
    PROVE  /\ Settled(a.book)
           /\ \A id : id # o.order_id => (id \in Ids(a.book) <=> id \in Ids(book))
<1> DEFINE out == Withdraw(book, {o.order_id})
<1>1. /\ Ids(out) = Ids(book) \ {o.order_id}
      /\ \A id \in Ids(book) \ {o.order_id} : out.orders[id] = book.orders[id]
  BY WithdrawLeaves
<1>2. Settled(out)
  BY <1>1 DEF Settled
<1> HIDE DEF out
<1>3. ASSUME NEW b, Settled(b), Accepts(a, b, o), o.order_id \notin Ids(b)
      PROVE  /\ Settled(a.book)
             /\ \A id : id # o.order_id => (id \in Ids(a.book) <=> id \in Ids(b))
  <2>1. a.order.order_id = o.order_id /\ a.order.req = "None"
    BY <1>3 DEF Accepts, SameTerms, Same
  <2>2. CASE a.book = b
    BY <1>3, <2>2
  <2>3. CASE a.book = Insert(b, a.order)
    <3>1. /\ Ids(a.book) = Ids(b) \cup {o.order_id}
          /\ \A id \in Ids(b) : a.book.orders[id] = b.orders[id]
          /\ a.book.orders[o.order_id] = a.order
      BY <1>3, <2>1, <2>3, InsertAdds
    <3>2. QED
      BY <1>3, <2>1, <3>1 DEF Settled
  <2>4. QED
    BY <1>3, <2>2, <2>3 DEF Accepts
<1>4. CASE Refuses(a, book, o)
  BY <1>4 DEF Refuses
<1>5. CASE o.order_id \notin Ids(book) /\ Accepts(a, book, o)
  BY <1>3, <1>5
<1>6. CASE Cancels(a, book, o)
  BY <1>1, <1>2, <1>6 DEF Cancels, out
<1>7. CASE o.order_id \in Ids(book) /\ Amends(a, book, o)
  BY <1>7 DEF Amends, Settled
<1>8. CASE Accepts(a, Withdraw(book, {o.order_id}), o)
  <2>1. o.order_id \notin Ids(out)
    BY <1>1
  <2>2. /\ Settled(a.book)
        /\ \A id : id # o.order_id => (id \in Ids(a.book) <=> id \in Ids(out))
    BY <1>2, <1>3, <1>8, <2>1 DEF out
  <2>3. QED
    BY <1>1, <2>2
<1>9. QED
  BY <1>4, <1>5, <1>6, <1>7, <1>8 DEF Answers

\* What it says of the order itself.
LEMMA AnswersSay ==
    ASSUME BookOK(book), NEW a, NEW o, o.req \in Requested, Answers(a, book, o),
           NEW id, id = o.order_id
    PROVE  /\ a.order.order_id = id
           /\ \/ /\ a.order.req = "Rejected" /\ a.order.local_timestamp = o.local_timestamp
                 /\ id \in Ids(a.book) <=> id \in Ids(book)
              \/ /\ o.req = "New" <=> id \notin Ids(book)
                 /\ a.order.req \notin {"Rejected", "New"}
                 /\ a.order.status \in Working \cup Terminal
                 /\ id \in Ids(a.book) <=> a.order.status \in Working
<1> DEFINE out == Withdraw(book, {o.order_id})
<1>1. Ids(out) = Ids(book) \ {o.order_id}
  BY WithdrawLeaves
<1> HIDE DEF out
<1>2. ASSUME NEW b, Accepts(a, b, o), id \notin Ids(b)
      PROVE  /\ a.order.order_id = id /\ a.order.req = "None"
             /\ a.order.status \in Working \cup Terminal
             /\ id \in Ids(a.book) <=> a.order.status \in Working
  <2>1. a.order.order_id = id /\ a.order.req = "None"
    BY <1>2 DEF Accepts, SameTerms, Same
  <2>2. a.book = Insert(b, a.order) => id \in Ids(a.book)
    BY <1>2, <2>1, InsertAdds
  <2>3. QED
    BY <1>2, <2>1, <2>2 DEF Accepts, Working, Terminal
<1>3. CASE Refuses(a, book, o)
  BY <1>3 DEF Refuses, SameTerms, Same
<1>4. CASE o.req = "New" /\ o.order_id \notin Ids(book) /\ Accepts(a, book, o)
  BY <1>2, <1>4
<1>5. CASE o.req = "Canceled" /\ o.order_id \in Ids(book) /\ Cancels(a, book, o)
  <2>1. a.order.order_id = book.orders[o.order_id].order_id
    BY <1>5 DEF Cancels, SameTerms, Same
  <2>2. book.orders[id].order_id = id
    BY <1>5 DEF BookOK, IsBook, IsOrderMap, Ids
  <2>3. QED
    BY <1>1, <1>5, <2>1, <2>2 DEF Cancels, out, Working, Terminal
<1>6. CASE o.req = "Replaced" /\ o.order_id \in Ids(book) /\ Amends(a, book, o)
  BY <1>6 DEF Amends, SameTerms, Same, Working, Terminal
<1>7. CASE /\ o.req = "Replaced" /\ o.order_id \in Ids(book)
           /\ Accepts(a, Withdraw(book, {o.order_id}), o)
  <2>1. id \notin Ids(out)
    BY <1>1
  <2>2. QED
    BY <1>2, <1>7, <2>1 DEF out
<1>8. QED
  BY <1>3, <1>4, <1>5, <1>6, <1>7 DEF Answers

\* The ExchOrder slot.
LEMMA ExchangeLives ==
    ASSUME Inv, Prompt, Lives, ExchangeReceives
    PROVE  Lives'
<1> DEFINE o == Head(to_exch).order
           ack == Acknowledge(book, o, cur_ts')
           who == o.order_id
<1>1. /\ to_exch # <<>> /\ cur_ts' = Head(to_exch).ts /\ feed_ts' = cur_ts' + 1
      /\ to_exch' = Tail(to_exch) /\ book' = ack.book
      /\ phase' = phase /\ phase # "bot" /\ local_orders' = local_orders
  BY DEF ExchangeReceives, ProcessRequest, localVars, Running
<1>2. PICK lat \in ResponseLatencies :
         Respond(<<ack.order>>, ack.order.exch_timestamp, lat)
  BY DEF ExchangeReceives, ProcessRequest
<1>3. /\ to_exch \in Seq(Entry) /\ to_local \in Seq(Entry) /\ to_exch \in Seq(RequestEntry)
      /\ cur_ts \in Nat /\ feed_ts \in Nat
  BY BusFacts DEF Inv, BusTyped, EngineTyped
<1>4. Head(to_exch) \in RequestEntry /\ Head(to_exch) = to_exch[1] /\ 1 \in 1..Len(to_exch)
  BY <1>1, <1>3, HeadTailProperties, TailAt
<1>5. o \in Order /\ o.req \in Requested /\ cur_ts' \in Nat
  BY <1>1, <1>4 DEF RequestEntry, Entry
<1>6. o.status \notin Terminal
  BY <1>1, <1>3, TailEntries DEF Prompt
<1>7. BookOK(book) /\ exch_depth \in Depth
  BY DEF Inv, ExchTyped
<1>8. cur_ts' >= cur_ts
  BY <1>1 DEF Prompt, Ahead, NoneBefore
<1> HIDE DEF o
<1>9. Answers(ack, book, o)
  BY <1>5, <1>6, <1>7, AcknowledgeAnswers
<1>10. AckOK(ack)
  <2>1. CASE o.req = "New"
    BY <1>5, <1>7, <2>1, AckNewOK DEF Acknowledge
  <2>2. CASE o.req = "Canceled"
    BY <1>5, <1>7, <2>2, AckCancelOK DEF Acknowledge
  <2>3. CASE o.req = "Replaced"
    BY <1>5, <1>7, <2>3, AckModifyOK DEF Acknowledge
  <2>4. QED
    BY <1>5, <2>1, <2>2, <2>3 DEF Requested
<1> HIDE DEF ack
<1>11. ack.order \in Order /\ ack.order.exch_timestamp \in Nat
  BY <1>10 DEF AckOK, Order
<1>12. PICK new \in Seq(Entry) : /\ to_local' = to_local \o new /\ Len(new) = 1
                                 /\ new[1].order = ToPlain(ack.order)
  BY <1>2, <1>3, <1>11, RespondOne
<1>13. /\ new[1].order.order_id = ack.order.order_id /\ new[1].order.req = ack.order.req
       /\ new[1].order.status = ack.order.status
       /\ new[1].order.local_timestamp = ack.order.local_timestamp
  BY <1>11, <1>12 DEF ToPlain, Order
<1>14. Clock /\ Settled(book)
  BY DEF Lives
<1>15. /\ \A i \in 1..Len(to_exch) : to_exch[i].order.local_timestamp <= cur_ts
       /\ \A i \in 1..Len(to_local) : to_local[i].order.req = "Rejected" =>
             to_local[i].order.local_timestamp <= cur_ts
       /\ \A i, j \in 1..Len(to_exch) : i <= j =>
             to_exch[i].order.local_timestamp <= to_exch[j].order.local_timestamp
  BY <1>14 DEF Clock
<1>16. /\ Settled(ack.book)
       /\ \A id : id # who => (id \in Ids(ack.book) <=> id \in Ids(book))
  BY <1>9, <1>14, AnswersSettled
<1>17. /\ ack.order.order_id = who
       /\ \/ /\ ack.order.req = "Rejected" /\ ack.order.local_timestamp = o.local_timestamp
             /\ who \in Ids(ack.book) <=> who \in Ids(book)
          \/ /\ o.req = "New" <=> who \notin Ids(book)
             /\ ack.order.req \notin {"Rejected", "New"}
             /\ ack.order.status \in Working \cup Terminal
             /\ who \in Ids(ack.book) <=> ack.order.status \in Working
  BY <1>5, <1>7, <1>9, AnswersSay
<1>18. feed_ts' \in Nat /\ feed_ts' > cur_ts' /\ (cur_ts' = cur_ts => feed_ts' > cur_ts)
  BY <1>1, <1>5
<1>19. ASSUME NEW id \in OrderIds
       PROVE  LifeOf(id, cur_ts', feed_ts', local_orders, Tail(to_exch), to_local \o new, ack.book)
  <2>1. LifeOf(id, cur_ts, feed_ts, local_orders, to_exch, to_local, book)
    BY DEF Lives
  <2>2. Awaited(id, cur_ts', feed_ts', local_orders, to_exch, to_local)
    BY <1>3, <1>5, <1>8, <1>15, <1>18, <2>1, AwaitedLater DEF LifeOf
  <2>3. LifeOf(id, cur_ts', feed_ts', local_orders, to_exch, to_local, book)
    BY <2>1, <2>2 DEF LifeOf
  <2>4. CASE id # who
    <3>1. LifeOf(id, cur_ts', feed_ts', local_orders, Tail(to_exch), to_local, book)
      BY <1>1, <1>3, <2>3, AskedLess DEF LifeOf
    <3>2. \A k \in 1..Len(new) : new[k].order.order_id # id
      BY <1>12, <1>13, <1>17, <2>4
    <3>3. /\ Tail(to_exch) \in Seq(Entry) /\ <<>> \in Seq(Entry)
          /\ Tail(to_exch) \o <<>> = Tail(to_exch)
          /\ \A k \in 1..Len(<<>>) : <<>>[k].order.order_id # id
      BY <1>1, <1>3, TailAt
    <3>4. LifeOf(id, cur_ts', feed_ts', local_orders, Tail(to_exch) \o <<>>, to_local \o new, ack.book)
      BY <1>3, <1>16, <2>4, <3>1, <3>2, <3>3, OtherLives
    <3>5. QED
      BY <3>3, <3>4
  <2>5. CASE id = who
    <3>1. /\ Head(to_exch).order.order_id = id /\ Head(to_exch).ts <= cur_ts'
          /\ Head(to_exch).order = o /\ new[1].order.order_id = id
      BY <1>1, <1>5, <1>13, <1>17, <2>5 DEF o
    <3>2. CASE ack.order.req = "Rejected"
      <4>1. /\ new[1].order.req = "Rejected"
            /\ new[1].order.local_timestamp = Head(to_exch).order.local_timestamp
            /\ id \in Ids(ack.book) <=> id \in Ids(book)
        BY <1>13, <1>17, <2>5, <3>1, <3>2
      <4>2. QED
        BY <1>1, <1>3, <1>5, <1>12, <2>3, <3>1, <4>1, RejectsLives
    <3>3. CASE ack.order.req # "Rejected"
      <4>1. /\ Head(to_exch).order.req = "New" <=> id \notin Ids(book)
            /\ new[1].order.req \notin {"Rejected", "New"}
            /\ new[1].order.status \in Working \cup Terminal
            /\ id \in Ids(ack.book) <=> new[1].order.status \in Working
        BY <1>13, <1>17, <2>5, <3>1, <3>3
      <4>2. \A i \in 1..Len(to_exch) :
               to_exch[1].order.local_timestamp <= to_exch[i].order.local_timestamp
        <5> SUFFICES ASSUME NEW i \in 1..Len(to_exch)
                     PROVE  to_exch[1].order.local_timestamp <= to_exch[i].order.local_timestamp
          OBVIOUS
        <5>1. 1 <= i
          OBVIOUS
        <5>2. QED
          BY <1>4, <1>15, <5>1
      <4>3. QED
        BY <1>1, <1>3, <1>5, <1>12, <2>3, <3>1, <4>1, <4>2, GrantsLives
    <3>4. QED
      BY <3>2, <3>3
  <2>6. QED
    BY <2>4, <2>5
<1>20. \A id \in OrderIds :
          LifeOf(id, cur_ts', feed_ts', local_orders', to_exch', to_local', book')
  BY <1>1, <1>12, <1>19
<1>21. /\ \A i \in 1..Len(Tail(to_exch)) :
             Tail(to_exch)[i] = to_exch[i + 1] /\ i + 1 \in 1..Len(to_exch) /\ i \in Int
  BY <1>1, <1>3, TailAt
<1>22. \A i \in 1..Len(to_exch') : to_exch'[i].order.local_timestamp <= cur_ts'
  <2> SUFFICES ASSUME NEW i \in 1..Len(Tail(to_exch))
               PROVE  Tail(to_exch)[i].order.local_timestamp <= cur_ts'
    BY <1>1
  <2>1. to_exch[i + 1].order.local_timestamp \in Nat
        /\ to_exch[i + 1].order.local_timestamp <= cur_ts
    BY <1>3, <1>15, <1>21, EntryAt DEF Order
  <2>2. QED
    BY <1>3, <1>5, <1>8, <1>21, <2>1
<1>23. \A i, j \in 1..Len(to_exch') : i <= j =>
          to_exch'[i].order.local_timestamp <= to_exch'[j].order.local_timestamp
  <2> SUFFICES ASSUME NEW i \in 1..Len(Tail(to_exch)), NEW j \in 1..Len(Tail(to_exch)), i <= j
               PROVE  Tail(to_exch)[i].order.local_timestamp <= Tail(to_exch)[j].order.local_timestamp
    BY <1>1
  <2>1. i + 1 <= j + 1
    BY <1>21
  <2>2. QED
    BY <1>15, <1>21, <2>1
<1>24. \A i \in 1..Len(to_local') : to_local'[i].order.req = "Rejected" =>
          to_local'[i].order.local_timestamp <= cur_ts'
  <2> SUFFICES ASSUME NEW i \in 1..Len(to_local'), to_local'[i].order.req = "Rejected"
               PROVE  to_local'[i].order.local_timestamp <= cur_ts'
    OBVIOUS
  <2>1. Behind(to_local', to_local, new)
    BY <1>3, <1>12, JoinAt
  <2>2. CASE i \in 1..Len(to_local)
    <3>1. to_local[i].order.local_timestamp \in Nat /\ to_local[i].order.local_timestamp <= cur_ts
          /\ to_local'[i] = to_local[i]
      BY <1>3, <1>15, <2>1, <2>2, EntryAt DEF Order, Behind
    <3>2. QED
      BY <1>3, <1>5, <1>8, <3>1
  <2>3. CASE i \notin 1..Len(to_local)
    <3>1. i - Len(to_local) \in 1..1 /\ to_local'[i] = new[i - Len(to_local)]
      BY <1>12, <2>1, <2>3 DEF Behind
    <3>2. i - Len(to_local) = 1
      BY <3>1
    <3>3. to_local'[i].order.local_timestamp = o.local_timestamp
      BY <1>13, <1>17, <3>1, <3>2
    <3>4. to_exch[1].order.local_timestamp \in Nat /\ to_exch[1].order.local_timestamp <= cur_ts
      BY <1>3, <1>4, <1>15, EntryAt DEF Order
    <3>5. QED
      BY <1>3, <1>4, <1>5, <1>8, <3>3, <3>4 DEF o
  <2>4. QED
    BY <2>2, <2>3
<1>25. feed_ts' >= cur_ts'
  BY <1>1, <1>5
<1>26. Clock'
  BY <1>1, <1>22, <1>23, <1>24, <1>25 DEF Clock
<1>27. Settled(book')
  BY <1>1, <1>16
<1>28. QED
  BY <1>20, <1>26, <1>27, LivesNext

-----------------------------------------------------------------------------
(* The feed executes orders.                                                *)

\* Nothing was asked for at a time the feed has come to.
LEMMA NothingAsked ==
    ASSUME NEW id, NEW now \in Nat, NEW later \in Nat, NEW feed \in Nat, feed >= now,
           later >= feed, NEW orders, NEW reqs \in Seq(Entry), NEW bus \in Seq(Entry),
           Awaited(id, now, feed, orders, reqs, bus),
           \A i \in 1..Len(reqs) : reqs[i].order.local_timestamp <= now,
           \A i \in 1..Len(bus) : bus[i].order.req = "Rejected" => bus[i].order.local_timestamp <= now
    PROVE  AskedAt(reqs, id, later) = {} /\ Refusals(bus, id, later) = {}
<1>1. CASE later = now
  <2>1. ~(feed > now)
    BY <1>1
  <2>2. QED
    BY <1>1, <2>1 DEF Awaited
<1>2. CASE later # now
  <2>1. ASSUME NEW i \in AskedAt(reqs, id, later) PROVE FALSE
    <3>1. i \in 1..Len(reqs) /\ reqs[i].order.local_timestamp = later
      BY DEF AskedAt, Asked
    <3>2. QED
      BY <1>2, <3>1
  <2>2. ASSUME NEW i \in Refusals(bus, id, later) PROVE FALSE
    <3>1. /\ i \in 1..Len(bus) /\ bus[i].order.local_timestamp = later
          /\ bus[i].order.req = "Rejected"
      BY DEF Refusals
    <3>2. QED
      BY <1>2, <3>1
  <2>3. QED
    BY <2>1, <2>2
<1>3. QED
  BY <1>1, <1>2

\* What an event executes, it says; the rest stays as it was.
LEMMA ToldLives ==
    ASSUME NEW id, NEW now, NEW feed2, NEW orders, NEW b, NEW b2,
           NEW reqs \in Seq(Entry), NEW bus \in Seq(Entry), NEW new \in Seq(Entry),
           View(id, orders, bus, b), Entering(id, orders, reqs, bus),
           AskedAt(reqs, id, now) = {}, Refusals(bus, id, now) = {},
           \A k \in 1..Len(new) : new[k].order.req = "None",
           \/ /\ \A k \in 1..Len(new) : new[k].order.order_id # id
              /\ id \in Ids(b2) <=> id \in Ids(b)
           \/ /\ id \in Ids(b)
              /\ \E k \in 1..Len(new) :
                    /\ new[k].order.order_id = id
                    /\ \A l \in 1..Len(new) : new[l].order.order_id = id => l = k
                    /\ new[k].order.status \in Working \cup Terminal
                    /\ id \in Ids(b2) <=> new[k].order.status \in Working
    PROVE  LifeOf(id, now, feed2, orders, reqs, bus \o new, b2)
<1> DEFINE all == bus \o new
           t == orders[id].local_timestamp
<1>1. "None" \notin Working /\ \A s \in Working : s \notin Terminal
  BY DEF Working, Terminal
<1>2. \A u : Refusals(all, id, u) # {} => Refusals(bus, id, u) # {}
  <2> SUFFICES ASSUME NEW u, NEW i \in Refusals(all, id, u) PROVE Refusals(bus, id, u) # {}
    OBVIOUS
  <2>1. JoinedAt(all, bus, new, id, u)
    BY JoinMovesAt
  <2>2. Refusals(new, id, u) = {}
    BY DEF Refusals
  <2> HIDE DEF all
  <2>3. QED
    BY <2>1, <2>2 DEF JoinedAt
<1>3. Awaited(id, now, feed2, orders, reqs, all)
  BY <1>2 DEF Awaited
<1>4. CASE /\ \A k \in 1..Len(new) : new[k].order.order_id # id
           /\ id \in Ids(b2) <=> id \in Ids(b)
  <2>1. News(new, id) = {}
    BY <1>4 DEF News
  <2>2. View(id, orders, all, b2)
    BY <1>4, <2>1, ViewStays
  <2>3. SaysSame(all, bus, id)
    BY <1>4, JoinOther
  <2> HIDE DEF all
  <2>4. Entering(id, orders, reqs, all)
    BY <2>3 DEF Entering, SaysSame
  <2>5. QED
    BY <1>3, <2>2, <2>4 DEF LifeOf, all
<1>5. ASSUME id \in Ids(b), NEW k \in 1..Len(new), new[k].order.order_id = id,
             \A l \in 1..Len(new) : new[l].order.order_id = id => l = k,
             new[k].order.status \in Working \cup Terminal,
             id \in Ids(b2) <=> new[k].order.status \in Working
      PROVE  LifeOf(id, now, feed2, orders, reqs, bus \o new, b2)
  <2>1. News(new, id) = {k} /\ new[k].order.req # "New"
    BY <1>5 DEF News
  <2>2. id \in DOMAIN orders /\ orders[id].status \notin Terminal
    BY <1>1, <1>5 DEF View
  <2>3. View(id, orders, all, b2)
    BY <1>5, <2>1, <2>2, ViewHears
  <2> HIDE DEF all
  <2>4. orders[id].status = "None" =>
           Asked(reqs, id) = {} /\ Refusals(bus, id, t) = {}
    BY <1>1, <1>5, <2>2 DEF View, Entering
  <2>5. Entering(id, orders, reqs, all)
    BY <1>2, <2>4 DEF Entering, AskedAt
  <2>6. QED
    BY <1>3, <2>3, <2>5 DEF LifeOf, all
<1>6. QED
  BY <1>4, <1>5

\* The time of a feed event.
LEMMA FeedClock ==
    ASSUME Inv, Prompt, Lives, FeedTurn
    PROVE  /\ cur_ts' \in Nat /\ cur_ts' >= cur_ts
           /\ \A id \in OrderIds : /\ AskedAt(to_exch, id, cur_ts') = {}
                                   /\ Refusals(to_local, id, cur_ts') = {}
           /\ \A i \in 1..Len(to_exch) : to_exch[i].order.local_timestamp <= cur_ts'
           /\ \A i \in 1..Len(to_local) : to_local[i].order.req = "Rejected" =>
                 to_local[i].order.local_timestamp <= cur_ts'
<1>1. to_exch \in Seq(Entry) /\ to_local \in Seq(Entry) /\ cur_ts \in Nat /\ feed_ts \in Nat
  BY BusFacts DEF Inv, EngineTyped
<1>2. cur_ts' \in Nat /\ cur_ts' >= feed_ts
  BY <1>1, TradingAssumption DEF FeedTurn
<1>3. Clock
  BY DEF Lives
<1>4. /\ feed_ts >= cur_ts
      /\ \A i \in 1..Len(to_exch) : to_exch[i].order.local_timestamp <= cur_ts
      /\ \A i \in 1..Len(to_local) : to_local[i].order.req = "Rejected" =>
            to_local[i].order.local_timestamp <= cur_ts
  BY <1>3 DEF Clock
<1>5. cur_ts' >= cur_ts
  BY <1>1, <1>2, <1>4
<1>6. ASSUME NEW id \in OrderIds
      PROVE  AskedAt(to_exch, id, cur_ts') = {} /\ Refusals(to_local, id, cur_ts') = {}
  <2>1. Awaited(id, cur_ts, feed_ts, local_orders, to_exch, to_local)
    BY DEF Lives, LifeOf
  <2>2. QED
    BY <1>1, <1>2, <1>4, <2>1, NothingAsked
<1>7. ASSUME NEW i \in 1..Len(to_exch) PROVE to_exch[i].order.local_timestamp <= cur_ts'
  <2>1. to_exch[i].order.local_timestamp \in Nat /\ to_exch[i].order.local_timestamp <= cur_ts
    BY <1>1, <1>4, EntryAt DEF Order
  <2>2. QED
    BY <1>1, <1>2, <1>5, <2>1
<1>8. ASSUME NEW i \in 1..Len(to_local), to_local[i].order.req = "Rejected"
      PROVE  to_local[i].order.local_timestamp <= cur_ts'
  <2>1. to_local[i].order.local_timestamp \in Nat /\ to_local[i].order.local_timestamp <= cur_ts
    BY <1>1, <1>4, <1>8, EntryAt DEF Order
  <2>2. QED
    BY <1>1, <1>2, <1>5, <2>1
<1>9. QED
  BY <1>2, <1>5, <1>6, <1>7, <1>8

\* A fill leaves what the order's request was, and says what is left.
LEMMA TakesSays ==
    ASSUME NEW f, NEW o, Takes(f, o)
    PROVE  /\ f \in Order /\ f.order_id = o.order_id /\ f.req = o.req
           /\ f.status \in {"PartiallyFilled", "Filled"}
  BY DEF Takes, Executes, SameTerms, Same

\* An event that executes orders.
LEMMA EventLives ==
    ASSUME Inv, Prompt, Lives, FeedTurn, NEW fills, Event(fills, cur_ts')
    PROVE  Lives'
<1>1. /\ to_exch \in Seq(Entry) /\ to_local \in Seq(Entry) /\ BookOK(book)
      /\ Clock /\ Settled(book)
  BY BusFacts DEF Inv, ExchTyped, Lives
<1>2. /\ feed_ts' = cur_ts' /\ local_orders' = local_orders
      /\ phase' = phase /\ phase # "bot"
  BY DEF FeedTurn, localVars, Running
<1>3. /\ cur_ts' \in Nat /\ cur_ts' >= cur_ts
      /\ \A id \in OrderIds : /\ AskedAt(to_exch, id, cur_ts') = {}
                              /\ Refusals(to_local, id, cur_ts') = {}
      /\ \A i \in 1..Len(to_exch) : to_exch[i].order.local_timestamp <= cur_ts'
      /\ \A i \in 1..Len(to_local) : to_local[i].order.req = "Rejected" =>
            to_local[i].order.local_timestamp <= cur_ts'
  BY FeedClock
<1>4. DOMAIN fills \subseteq Ids(book) /\ Ids(book) \subseteq OrderIds
  BY <1>1 DEF Event, BookOK, IsBook, IsOrderMap, Ids
<1>5. ASSUME NEW id \in DOMAIN fills
      PROVE  /\ fills[id] \in Order /\ fills[id].order_id = id /\ fills[id].req = "None"
             /\ fills[id].status \in {"PartiallyFilled", "Filled"}
             /\ id \in Ids(book') <=> fills[id].status # "Filled"
  <2>1. Takes(fills[id], book.orders[id])
    BY DEF Event
  <2>2. book.orders[id].order_id = id /\ book.orders[id].req = "None"
    BY <1>1, <1>4 DEF BookOK, IsBook, IsOrderMap, Ids, Settled
  <2>3. id \in Ids(book') <=> fills[id].status # "Filled"
    BY <1>4 DEF Event
  <2>4. QED
    BY <2>1, <2>2, <2>3, TakesSays
<1>6. PICK new : Tells(fills, new) /\ to_local' = to_local \o new /\ to_exch' = to_exch
  <2>1. Publish(fills, cur_ts') /\ DOMAIN fills \subseteq OrderIds
    BY <1>4 DEF Event
  <2>2. QED
    BY <1>1, <1>3, <1>5, <2>1, PublishTells
<1>7. new \in Seq(Entry)
  BY <1>6 DEF Tells
<1>8. ASSUME NEW k \in 1..Len(new)
      PROVE  /\ new[k].order.order_id \in DOMAIN fills
             /\ new[k].order.req = "None"
             /\ new[k].order.status = fills[new[k].order.order_id].status
  <2> DEFINE id == new[k].order.order_id
  <2>1. id \in DOMAIN fills /\ new[k].order = ToPlain(fills[id])
    BY <1>6 DEF Tells
  <2>2. fills[id] \in Order /\ fills[id].req = "None"
    BY <1>5, <2>1
  <2> HIDE DEF id
  <2>3. new[k].order.req = "None" /\ new[k].order.status = fills[id].status
    BY <2>1, <2>2 DEF ToPlain, Order
  <2>4. QED
    BY <2>1, <2>3 DEF id
<1>9. ASSUME NEW id \in OrderIds
      PROVE  LifeOf(id, cur_ts', feed_ts', local_orders, to_exch, to_local \o new, book')
  <2>1. View(id, local_orders, to_local, book) /\ Entering(id, local_orders, to_exch, to_local)
    BY DEF Lives, LifeOf
  <2>2. CASE id \notin DOMAIN fills
    <3>1. \A k \in 1..Len(new) : new[k].order.order_id # id
      BY <1>8, <2>2
    <3>2. id \in Ids(book') <=> id \in Ids(book)
      BY <2>2 DEF Event
    <3>3. QED
      BY <1>1, <1>3, <1>7, <1>8, <2>1, <3>1, <3>2, ToldLives
  <2>3. CASE id \in DOMAIN fills
    <3>1. PICK k \in 1..Len(new) : new[k].order.order_id = id
      BY <1>6, <2>3 DEF Tells
    <3>2. \A l \in 1..Len(new) : new[l].order.order_id = id => l = k
      BY <1>6, <3>1 DEF Tells
    <3>3. /\ new[k].order.status \in Working \cup Terminal
          /\ id \in Ids(book') <=> new[k].order.status \in Working
      BY <1>5, <1>8, <2>3, <3>1 DEF Working, Terminal
    <3>4. id \in Ids(book)
      BY <1>4, <2>3
    <3>5. \E j \in 1..Len(new) :
             /\ new[j].order.order_id = id
             /\ \A l \in 1..Len(new) : new[l].order.order_id = id => l = j
             /\ new[j].order.status \in Working \cup Terminal
             /\ id \in Ids(book') <=> new[j].order.status \in Working
      BY <3>1, <3>2, <3>3
    <3>6. QED
      BY <1>1, <1>3, <1>7, <1>8, <2>1, <3>4, <3>5, ToldLives
  <2>4. QED
    BY <2>2, <2>3
<1>10. \A id \in OrderIds :
          LifeOf(id, cur_ts', feed_ts', local_orders', to_exch', to_local', book')
  BY <1>2, <1>6, <1>9
<1>11. \A i \in 1..Len(to_local') : to_local'[i].order.req = "Rejected" =>
          to_local'[i].order.local_timestamp <= cur_ts'
  <2>1. Behind(to_local', to_local, new)
    BY <1>1, <1>6, <1>7, JoinAt
  <2>2. QED
    BY <1>3, <1>8, <2>1 DEF Behind
<1>12. \A i, j \in 1..Len(to_exch') : i <= j =>
          to_exch'[i].order.local_timestamp <= to_exch'[j].order.local_timestamp
  BY <1>1, <1>6 DEF Clock
<1>13. \A i \in 1..Len(to_exch') : to_exch'[i].order.local_timestamp <= cur_ts'
  BY <1>3, <1>6
<1>14. feed_ts' >= cur_ts'
  BY <1>2, <1>3
<1>15. Clock'
  BY <1>2, <1>11, <1>12, <1>13, <1>14 DEF Clock
<1>16. Settled(book')
  <2> SUFFICES ASSUME NEW id \in Ids(book') PROVE book'.orders[id].req = "None"
    BY DEF Settled
  <2>1. id \in Ids(book)
    BY DEF Event
  <2>2. CASE id \in DOMAIN fills
    BY <1>5, <2>2 DEF Event
  <2>3. CASE id \notin DOMAIN fills
    BY <1>1, <2>1, <2>3 DEF Event, SameButQueue, Settled
  <2>4. QED
    BY <2>2, <2>3
<1>17. QED
  BY <1>10, <1>15, <1>16, LivesNext

\* The ExchData slot.
LEMMA FeedLives ==
    ASSUME Inv, Resting, Prompt, Lives, FeedDepth \/ FeedTrade \/ FeedClear
    PROVE  Lives'
<1>1. FeedTurn /\ ExchTyped /\ WorkingIn(book)
  BY DEF FeedDepth, FeedTrade, FeedClear, Inv, Resting, WorkingIn
<1>2. cur_ts' \in Nat
  BY <1>1, FeedClock
<1>3. CASE FeedDepth
  <2>1. PICK s \in Sides, tick \in Ticks, quantity \in FeedQtys \cup {0} :
           ProcessDepth(s, tick, quantity, cur_ts')
    BY <1>3 DEF FeedDepth
  <2>2. quantity \in Nat
    BY TradingAssumption
  <2>3. \E fills : Event(fills, cur_ts')
    BY <1>1, <1>2, <2>1, <2>2, DepthIsEvent
  <2>4. QED
    BY <1>1, <2>3, EventLives
<1>4. CASE FeedTrade
  <2>1. PICK s \in Sides, tick \in Ticks, quantity \in FeedQtys :
           ProcessTrade(s, tick, quantity, cur_ts')
    BY <1>4 DEF FeedTrade
  <2>2. quantity \in Nat
    BY TradingAssumption
  <2>3. \E fills : Event(fills, cur_ts')
    BY <1>1, <1>2, <2>1, <2>2, TradeIsEvent
  <2>4. QED
    BY <1>1, <2>3, EventLives
<1>5. CASE FeedClear
  <2>1. /\ book' = book /\ to_exch' = to_exch /\ to_local' = to_local
        /\ feed_ts' = cur_ts' /\ local_orders' = local_orders
        /\ phase' = phase /\ phase # "bot"
    BY <1>1, <1>5 DEF FeedClear, ProcessClear, FeedTurn, localVars, Running
  <2>2. /\ cur_ts' >= cur_ts
        /\ \A id \in OrderIds : /\ AskedAt(to_exch, id, cur_ts') = {}
                                /\ Refusals(to_local, id, cur_ts') = {}
        /\ \A i \in 1..Len(to_exch) : to_exch[i].order.local_timestamp <= cur_ts'
        /\ \A i \in 1..Len(to_local) : to_local[i].order.req = "Rejected" =>
              to_local[i].order.local_timestamp <= cur_ts'
    BY <1>1, FeedClock
  <2>3. ASSUME NEW id \in OrderIds
        PROVE  LifeOf(id, cur_ts', feed_ts', local_orders, to_exch, to_local, book)
    <3>1. View(id, local_orders, to_local, book) /\ Entering(id, local_orders, to_exch, to_local)
      BY DEF Lives, LifeOf
    <3>2. Awaited(id, cur_ts', feed_ts', local_orders, to_exch, to_local)
      BY <2>2 DEF Awaited
    <3>3. QED
      BY <3>1, <3>2 DEF LifeOf
  <2>4. \A id \in OrderIds :
           LifeOf(id, cur_ts', feed_ts', local_orders', to_exch', to_local', book')
    BY <2>1, <2>3
  <2>5. Clock /\ Settled(book)
    BY DEF Lives
  <2>6. Settled(book')
    BY <2>1, <2>5
  <2>7. feed_ts' >= cur_ts'
    BY <1>2, <2>1
  <2>8. \A i, j \in 1..Len(to_exch) : i <= j =>
           to_exch[i].order.local_timestamp <= to_exch[j].order.local_timestamp
    BY <2>5 DEF Clock
  <2>9. Clock'
    BY <2>1, <2>2, <2>7, <2>8 DEF Clock
  <2>10. QED
    BY <2>4, <2>6, <2>9, LivesNext
<1>6. QED
  BY <1>3, <1>4, <1>5

-----------------------------------------------------------------------------
(* The turn of the strategy comes.                                          *)

\* Nothing is due up to a time when the front is not.
LEMMA NoneDue ==
    ASSUME NEW bus \in Seq(Entry), NEW now \in Nat, Sorted(bus), NoneUpto(bus, now)
    PROVE  \A i \in 1..Len(bus) : bus[i].ts > now
<1> SUFFICES ASSUME NEW i \in 1..Len(bus) PROVE bus[i].ts > now
  OBVIOUS
<1>1. bus # <<>> /\ 1 <= i
  BY EmptySeq, LenProperties
<1>2. Head(bus) = bus[1] /\ 1 \in 1..Len(bus) /\ bus[1].ts \in Nat /\ bus[i].ts \in Nat
  BY <1>1, TailAt, EntryAt
<1>3. bus[1].ts > now /\ bus[1].ts <= bus[i].ts
  BY <1>1, <1>2 DEF NoneUpto, Sorted
<1>4. QED
  BY <1>2, <1>3

\* The next moment is a later one.
LEMMA NextIsLater ==
    ASSUME NEW n \in Nat, NEW m, m = n + 1
    PROVE  m \in Nat /\ m > n /\ m >= n
OBVIOUS

\* elapse and wait_* return.
LEMMA ReturnsLives ==
    ASSUME Inv, Prompt, Lives, Returns
    PROVE  Lives'
<1>1. /\ NoneUpto(to_local, cur_ts') /\ NoneUpto(to_exch, cur_ts')
      /\ feed_ts' = cur_ts' + 1 /\ ~receiving /\ receiving' = receiving
      /\ to_local' = to_local /\ to_exch' = to_exch /\ book' = book
      /\ local_orders' = local_orders
  BY DEF Returns, busVars, exchVars, localVars
<1>2. to_exch \in Seq(Entry) /\ to_local \in Seq(Entry) /\ cur_ts \in Nat /\ feed_ts \in Nat
  BY BusFacts DEF Inv, EngineTyped
<1>3. cur_ts' \in Nat /\ cur_ts' >= cur_ts
  BY <1>2, TradingAssumption DEF Returns
<1>4. feed_ts' \in Nat /\ feed_ts' > cur_ts' /\ feed_ts' >= cur_ts'
  BY <1>1, <1>3, NextIsLater
<1>5. Clock /\ Settled(book)
  BY DEF Lives
<1>6. /\ \A i \in 1..Len(to_exch) : to_exch[i].order.local_timestamp <= cur_ts
      /\ \A i \in 1..Len(to_local) : to_local[i].order.req = "Rejected" =>
            to_local[i].order.local_timestamp <= cur_ts
      /\ \A i, j \in 1..Len(to_exch) : i <= j =>
           to_exch[i].order.local_timestamp <= to_exch[j].order.local_timestamp
  BY <1>5 DEF Clock
<1>7. /\ \A i \in 1..Len(to_local) : to_local[i].ts > cur_ts'
      /\ \A i \in 1..Len(to_exch) : to_exch[i].ts > cur_ts'
  BY <1>1, <1>2, <1>3, NoneDue DEF Prompt, Ahead
<1>8. ASSUME NEW id \in OrderIds
      PROVE  LifeOf(id, cur_ts', feed_ts', local_orders, to_exch, to_local, book)
  <2>1. LifeOf(id, cur_ts, feed_ts, local_orders, to_exch, to_local, book)
    BY DEF Lives
  <2>2. cur_ts' = cur_ts => feed_ts' > cur_ts
    BY <1>4
  <2>3. Awaited(id, cur_ts', feed_ts', local_orders, to_exch, to_local)
    BY <1>2, <1>3, <1>4, <1>6, <2>1, <2>2, AwaitedLater DEF LifeOf
  <2>4. QED
    BY <2>1, <2>3 DEF LifeOf
<1>9. \A id \in OrderIds :
         LifeOf(id, cur_ts', feed_ts', local_orders', to_exch', to_local', book')
  BY <1>1, <1>8
<1>10. \A i \in 1..Len(to_exch) : to_exch[i].order.local_timestamp <= cur_ts'
  <2> SUFFICES ASSUME NEW i \in 1..Len(to_exch) PROVE to_exch[i].order.local_timestamp <= cur_ts'
    OBVIOUS
  <2>1. to_exch[i].order.local_timestamp \in Nat /\ to_exch[i].order.local_timestamp <= cur_ts
    BY <1>2, <1>6, EntryAt DEF Order
  <2>2. QED
    BY <1>2, <1>3, <2>1
<1>11. \A i \in 1..Len(to_local) : to_local[i].order.req = "Rejected" =>
          to_local[i].order.local_timestamp <= cur_ts'
  <2> SUFFICES ASSUME NEW i \in 1..Len(to_local), to_local[i].order.req = "Rejected"
               PROVE  to_local[i].order.local_timestamp <= cur_ts'
    OBVIOUS
  <2>1. to_local[i].order.local_timestamp \in Nat /\ to_local[i].order.local_timestamp <= cur_ts
    BY <1>2, <1>6, EntryAt DEF Order
  <2>2. QED
    BY <1>2, <1>3, <2>1
<1>12. Clock'
  BY <1>1, <1>4, <1>6, <1>7, <1>10, <1>11 DEF Clock
<1>13. Settled(book')
  BY <1>1, <1>5
<1>14. QED
  BY <1>9, <1>12, <1>13, LivesNext

\* Every step.
LEMMA LivesStep ==
    ASSUME Inv, Resting, Prompt, Lives, Careful, [Next]_vars
    PROVE  Lives'
<1>1. CASE BotSubmits \/ BotCancels \/ BotReprices \/ BotResizes
  BY <1>1, BotLives
<1>2. CASE BotClears
  BY <1>2, ClearsLives
<1>3. CASE LocalReceives
  BY <1>3, LocalLives
<1>4. CASE ExchangeReceives
  BY <1>4, ExchangeLives
<1>5. CASE FeedDepth \/ FeedTrade \/ FeedClear
  BY <1>5, FeedLives
<1>6. CASE Returns
  BY <1>6, ReturnsLives
<1>7. CASE Waits \/ Closes \/ Ended \/ UNCHANGED vars
  <2>1. /\ UNCHANGED <<cur_ts, receiving, feed_ts, to_exch, to_local, book, local_orders>>
        /\ phase' # "bot" \/ phase' = phase
    BY <1>7 DEF Waits, Closes, Ended, vars, busVars, exchVars, localVars, engineVars
  <2>2. Clock'
    BY <2>1 DEF Lives, Clock
  <2>3. Settled(book')
    BY <2>1 DEF Lives
  <2>4. \A id \in OrderIds :
           LifeOf(id, cur_ts', feed_ts', local_orders', to_exch', to_local', book')
    BY <2>1 DEF Lives
  <2>5. QED
    BY <2>2, <2>3, <2>4, LivesNext
<1>8. QED
  BY <1>1, <1>2, <1>3, <1>4, <1>5, <1>6, <1>7 DEF Next

\* Nothing lives before the first request.
LEMMA LivesInit == Init => Lives
<1> SUFFICES ASSUME Init PROVE Lives
  OBVIOUS
<1>1. /\ cur_ts = 1 /\ feed_ts = 2 /\ ~receiving /\ to_exch = <<>> /\ to_local = <<>>
      /\ DOMAIN local_orders = {} /\ Ids(book) = {}
  BY DEF Init, LocalInit, ExchInit, EmptyBook, Ids
<1>2. \A bus : bus = <<>> => 1..Len(bus) = {}
  BY EmptySeq
<1>3. Clock
  BY <1>1, <1>2 DEF Clock
<1>4. Settled(book)
  BY <1>1 DEF Settled
<1>5. ASSUME NEW id \in OrderIds
      PROVE  LifeOf(id, cur_ts, feed_ts, local_orders, to_exch, to_local, book)
  <2>1. /\ News(to_local, id) = {} /\ Asked(to_exch, id) = {}
        /\ \A t : Refusals(to_local, id, t) = {} /\ AskedAt(to_exch, id, t) = {}
    BY <1>1, <1>2 DEF News, Asked, Refusals, AskedAt
  <2>2. QED
    BY <1>1, <2>1 DEF LifeOf, View, Entering, Awaited
<1>6. QED
  BY <1>3, <1>4, <1>5 DEF Lives

\* For ever.
LEMMA LivesHold == ASSUME Careful PROVE Spec => []Lives
<1>1. Inv /\ Resting /\ Prompt /\ Lives /\ [Next]_vars => Lives'
  BY LivesStep
<1>2. QED
  BY <1>1, LivesInit, InvHolds, RestingHolds, PromptHolds, PTL DEF Spec

\* clear_inactive_orders: what the strategy sees as expired, filled or canceled does
\* not rest at the exchange, whatever the latencies and the feed are.
THEOREM DoneIsDone == ASSUME Careful PROVE Spec => []NoZombie
<1>1. Inv /\ Lives => NoZombie
  <2> SUFFICES ASSUME Inv, Lives, NEW id \in Known, local_orders[id].status \in Terminal
               PROVE  id \notin Ids(book)
    BY DEF NoZombie
  <2>1. id \in OrderIds
    BY DEF Known, Inv, LocalTyped, IsPlainMap, IsOrderMap
  <2>2. View(id, local_orders, to_local, book)
    BY <2>1 DEF Lives, LifeOf
  <2>3. QED
    BY <2>2 DEF View, Terminal, Working
<1>2. QED
  BY <1>1, InvHolds, LivesHold, PTL

\* process_recv_order of the local processor: what the exchange did to an order is
\* heard while the strategy still knows the order and does not see it as done.
THEOREM NothingForTheDone == ASSUME Careful PROVE Spec => []NoOrphanResponse
<1>1. Inv /\ Lives => NoOrphanResponse
  <2> SUFFICES ASSUME Inv, Lives, NEW i \in 1..Len(to_local),
                      to_local[i].order.req # "Rejected"
               PROVE  LET id == to_local[i].order.order_id
                      IN  id \in Known /\ local_orders[id].status \notin Terminal
    BY DEF NoOrphanResponse
  <2> DEFINE id == to_local[i].order.order_id
  <2>1. id \in OrderIds
    BY BusFacts, EntryAt DEF Order
  <2>2. i \in News(to_local, id)
    BY DEF News
  <2>3. View(id, local_orders, to_local, book)
    BY <2>1 DEF Lives, LifeOf
  <2>4. QED
    BY <2>2, <2>3 DEF View, Known
<1>2. QED
  BY <1>1, InvHolds, LivesHold, PTL

-----------------------------------------------------------------------------
(***************************************************************************)
(* What the strategy and the exchange agree on: who waits for what, what   *)
(* was executed, and what an order is.                                     *)
(*                                                                         *)
(* Every action of Trading is one of six kinds of step (KindsOfSteps): the *)
(* strategy seeks something, hears an answer or forgets orders; the        *)
(* exchange has answered a request or executed orders; or none of these    *)
(* happens.  Each of the four invariants below has one lemma per kind.     *)
(*                                                                         *)
(* Waiting adds to PendingHasReply that the exchange leaves nothing open,  *)
(* and is about strategies that do not modify.  Tallies adds to what rests *)
(* what is true of orders on their way in and of orders that ended: of     *)
(* each id, what was executed and what is left make up the quantity.       *)
(* Positions adds to the fills in flight, entry by entry, what the         *)
(* exchange's position has more than the strategy's; a rejected request    *)
(* repeats the last fill of the order it was made for, so there must be    *)
(* none (Unfilled).  Mirrors says of an order that rests that the latest   *)
(* news of it is what it is, and rests on Lives for the orders of which    *)
(* there is none.                                                          *)
(*                                                                         *)
(* Each theorem has a condition on what the strategy and the exchange do   *)
(* (Unmodified, OnlyCancels, FillsAtOnce, AmendmentsArrive), to leave out  *)
(* what the code gets wrong.                                               *)
(***************************************************************************)

-----------------------------------------------------------------------------
(* What a step does to orders.                                              *)

\* A request about an order that is known and has none open.
Continues(o, rejected, mine) ==
    /\ mine.req = "None" /\ (Careful => mine.status \in Working)
    /\ o.side = mine.side /\ o.leaves_qty = mine.leaves_qty /\ o.status = mine.status
    /\ rejected.price_tick = mine.price_tick /\ rejected.qty = mine.qty
    /\ \/ /\ o.req = "Canceled" /\ "cancel" \in Requests
          /\ o.price_tick = mine.price_tick /\ o.qty = mine.qty
       \/ o.req = "Replaced" /\ {"reprice", "resize"} \cap Requests # {}

\* A request, and its rejected form.
Sought(id, o, rejected) ==
    /\ o \in Plain /\ o.order_id = id /\ o.local_timestamp = cur_ts
    /\ rejected \in Plain /\ rejected.order_id = id /\ rejected.req = "Rejected"
    /\ rejected.local_timestamp = cur_ts
    /\ rejected.side = o.side /\ rejected.status = o.status
    /\ \/ /\ id \notin DOMAIN local_orders /\ o.req = "New" /\ o.status = "None"
          /\ o.leaves_qty = o.qty /\ rejected.qty = o.qty
       \/ id \in DOMAIN local_orders /\ Continues(o, rejected, local_orders[id])

\* The strategy asks for something.
Seeks ==
    /\ \E id \in OrderIds : \E o, rejected, asks, new :
          /\ Sought(id, o, rejected) /\ Sends(o, rejected, asks, new)
          /\ local_orders' = Put(local_orders, o)
    /\ UNCHANGED <<book, exch_pos, local_pos>>

\* It is told something.
Hears ==
    /\ to_local # <<>> /\ ProcessResponse
    /\ UNCHANGED <<book, exch_pos>>

\* It forgets what is done.
Forgets ==
    /\ "clear" \in Requests /\ ClearInactiveOrders
    /\ UNCHANGED <<book, exch_pos>>

\* The exchange answers the request in front.
Replies(a, new) ==
    /\ Answers(a, book, Head(to_exch).order) /\ a.order \in Order
    /\ book' = a.book
    /\ exch_pos' = IF a.executed THEN ApplyFill(exch_pos, a.order) ELSE exch_pos
    /\ new \in Seq(Entry) /\ Len(new) = 1 /\ new[1].order = ToPlain(a.order)
    /\ to_local' = to_local \o new

Answered ==
    /\ to_exch # <<>> /\ to_exch' = Tail(to_exch)
    /\ \E a, new : Replies(a, new)
    /\ UNCHANGED <<local_orders, local_pos>>

\* It executes orders.
Executed ==
    /\ \E fills, new, ts :
          /\ Event(fills, ts) /\ Tells(fills, new) /\ to_local' = to_local \o new
          /\ exch_pos' = ApplyFills(exch_pos, fills)
    /\ UNCHANGED <<to_exch, local_orders, local_pos>>

\* None of this.
Rests == UNCHANGED <<to_exch, to_local, book, exch_pos, local_orders, local_pos>>

\* submit_order.
LEMMA SubmitSeeks == ASSUME Inv, BotSubmits PROVE Seeks
<1>1. PICK id \in OrderIds, s \in Sides, tick \in Ticks, quantity \in OrderQtys,
           kind \in OrderKinds, lat \in EntryLatencies :
              SubmitOrder(id, s, tick, quantity, kind[1], kind[2], cur_ts, lat)
  BY DEF BotSubmits
<1>2. quantity \in Nat /\ kind[1] \in OrdTypes /\ kind[2] \in TimesInForce /\ cur_ts \in Nat
  BY TradingAssumption, BusFacts
<1>3. UNCHANGED <<book, exch_pos, local_pos>>
  BY <1>1 DEF BotSubmits, Asks, exchVars, SubmitOrder
<1> DEFINE fresh == MakeOrder(id, s, tick, quantity, kind[1], kind[2])
           o == [fresh EXCEPT !.req = "New", !.local_timestamp = cur_ts]
           rejected == [o EXCEPT !.req = "Rejected"]
<1>4. fresh \in Order /\ fresh.q = 0 /\ fresh.order_id = id
  BY <1>2, MakeOrderType
<1>5. fresh.status = "None" /\ fresh.leaves_qty = fresh.qty
  BY DEF MakeOrder
<1>6. /\ Request(o, rejected, lat) /\ id \notin DOMAIN local_orders
      /\ local_orders' = Put(local_orders, o)
  BY <1>1 DEF SubmitOrder, Known
<1> HIDE DEF fresh
<1>7. /\ o \in Plain /\ o.local_timestamp = cur_ts /\ o.status = "None"
      /\ o.req = "New" /\ o.order_id = id /\ o.leaves_qty = o.qty
  BY <1>2, <1>4, <1>5 DEF Plain, Order, Statuses
<1> HIDE DEF o
<1>8. /\ rejected \in Plain /\ rejected.req = "Rejected" /\ rejected.order_id = id
      /\ rejected.local_timestamp = cur_ts /\ rejected.side = o.side
      /\ rejected.status = o.status /\ rejected.qty = o.qty
  BY <1>7 DEF Plain, Order, Statuses
<1> HIDE DEF rejected
<1>9. Sought(id, o, rejected)
  BY <1>6, <1>7, <1>8 DEF Sought
<1>10. \E asks, new : Sends(o, rejected, asks, new)
  BY <1>6, <1>7, <1>8, RequestSends
<1>11. QED
  BY <1>3, <1>6, <1>9, <1>10 DEF Seeks

\* What the strategy may touch.
LEMMA MayTouchKnown ==
    ASSUME Inv, NEW id, MayTouch(id)
    PROVE  /\ id \in OrderIds /\ id \in DOMAIN local_orders
           /\ local_orders[id] \in Plain /\ local_orders[id].order_id = id
           /\ Careful => local_orders[id].status \in Working
<1>1. id \in DOMAIN local_orders /\ (Careful => Cancellable(local_orders[id]))
  BY DEF MayTouch, Known
<1>2. IsPlainMap(local_orders)
  BY DEF Inv, LocalTyped
<1>3. QED
  BY <1>1, <1>2 DEF IsPlainMap, IsOrderMap, Cancellable, Active

\* cancel.
LEMMA CancelSeeks == ASSUME Inv, BotCancels PROVE Seeks
<1>1. PICK id \in OrderIds, lat \in EntryLatencies : MayTouch(id) /\ Cancel(id, cur_ts, lat)
  BY DEF BotCancels
<1>2. UNCHANGED <<book, exch_pos, local_pos>> /\ cur_ts \in Nat /\ "cancel" \in Requests
  BY <1>1, BusFacts DEF BotCancels, Asks, exchVars, Cancel
<1> DEFINE old == local_orders[id]
           o == [old EXCEPT !.req = "Canceled", !.local_timestamp = cur_ts]
           rejected == [o EXCEPT !.req = "Rejected"]
<1>3. Request(o, rejected, lat) /\ local_orders' = Put(local_orders, o) /\ old.req = "None"
  BY <1>1 DEF Cancel
<1>4. /\ old \in Plain /\ old.order_id = id /\ (Careful => old.status \in Working)
      /\ id \in DOMAIN local_orders /\ old = local_orders[id]
  BY <1>1, MayTouchKnown
<1> HIDE DEF old
<1>5. /\ o \in Plain /\ o.local_timestamp = cur_ts /\ o.status = old.status
      /\ o.req = "Canceled" /\ o.order_id = id /\ o.side = old.side
      /\ o.leaves_qty = old.leaves_qty /\ o.price_tick = old.price_tick /\ o.qty = old.qty
  BY <1>2, <1>4 DEF Plain, Order, Statuses
<1> HIDE DEF o
<1>6. /\ rejected \in Plain /\ rejected.req = "Rejected" /\ rejected.order_id = id
      /\ rejected.local_timestamp = cur_ts /\ rejected.side = o.side
      /\ rejected.status = o.status /\ rejected.qty = o.qty
      /\ rejected.price_tick = o.price_tick
  BY <1>5 DEF Plain, Order, Statuses
<1> HIDE DEF rejected
<1>7. Continues(o, rejected, old)
  BY <1>2, <1>3, <1>4, <1>5, <1>6 DEF Continues
<1>8. Sought(id, o, rejected)
  BY <1>4, <1>5, <1>6, <1>7 DEF Sought
<1>9. \E asks, new : Sends(o, rejected, asks, new)
  BY <1>3, <1>5, <1>6, RequestSends
<1>10. QED
  BY <1>2, <1>3, <1>8, <1>9 DEF Seeks

\* modify.
LEMMA ModifySeeks ==
    ASSUME Inv, NEW id, MayTouch(id), NEW tick \in Ticks,
           NEW quantity \in Nat, NEW lat \in EntryLatencies,
           Modify(id, tick, quantity, cur_ts, lat),
           {"reprice", "resize"} \cap Requests # {}, UNCHANGED exchVars
    PROVE  Seeks
<1> DEFINE old == local_orders[id]
           o == [old EXCEPT !.price_tick = tick, !.qty = quantity,
                            !.req = "Replaced", !.local_timestamp = cur_ts]
           rejected == [o EXCEPT !.req = "Rejected", !.price_tick = old.price_tick,
                                 !.qty = old.qty]
<1>1. /\ Request(o, rejected, lat) /\ local_orders' = Put(local_orders, o) /\ old.req = "None"
      /\ UNCHANGED <<book, exch_pos, local_pos>>
  BY DEF Modify, exchVars
<1>2. /\ old \in Plain /\ old.order_id = id /\ (Careful => old.status \in Working)
      /\ id \in OrderIds /\ id \in DOMAIN local_orders /\ old = local_orders[id]
  BY MayTouchKnown
<1>3. cur_ts \in Nat
  BY BusFacts
<1> HIDE DEF old
<1>4. old.price_tick \in Ticks /\ old.qty \in Nat
  BY <1>2 DEF Plain, Order
<1>5. /\ o \in Plain /\ o.local_timestamp = cur_ts /\ o.status = old.status
      /\ o.req = "Replaced" /\ o.order_id = id /\ o.side = old.side
      /\ o.leaves_qty = old.leaves_qty
  BY <1>2, <1>3 DEF Plain, Order, Statuses
<1> HIDE DEF o
<1>6. /\ rejected \in Plain /\ rejected.req = "Rejected" /\ rejected.order_id = id
      /\ rejected.local_timestamp = cur_ts /\ rejected.side = o.side
      /\ rejected.status = o.status /\ rejected.qty = old.qty
      /\ rejected.price_tick = old.price_tick
  BY <1>4, <1>5 DEF Plain, Order, Statuses
<1> HIDE DEF rejected
<1>7. Continues(o, rejected, old)
  BY <1>1, <1>2, <1>5, <1>6 DEF Continues
<1>8. Sought(id, o, rejected)
  BY <1>2, <1>5, <1>6, <1>7 DEF Sought
<1>9. \E asks, new : Sends(o, rejected, asks, new)
  BY <1>1, <1>5, <1>6, RequestSends
<1>10. QED
  BY <1>1, <1>2, <1>8, <1>9 DEF Seeks

\* Every request.
LEMMA BotSeeks ==
    ASSUME Inv, BotSubmits \/ BotCancels \/ BotReprices \/ BotResizes
    PROVE  Seeks
<1>1. CASE BotReprices
  <2>1. PICK id \in OrderIds, tick \in Ticks, lat \in EntryLatencies :
           MayTouch(id) /\ Modify(id, tick, local_orders[id].qty, cur_ts, lat)
    BY <1>1 DEF BotReprices
  <2>2. local_orders[id].qty \in Nat
    BY <2>1, MayTouchKnown DEF Plain, Order
  <2>3. UNCHANGED exchVars /\ {"reprice", "resize"} \cap Requests # {}
    BY <1>1 DEF BotReprices, Asks
  <2>4. QED
    BY <2>1, <2>2, <2>3, ModifySeeks
<1>2. CASE BotResizes
  <2>1. PICK id \in OrderIds, quantity \in OrderQtys, lat \in EntryLatencies :
           MayTouch(id) /\ Modify(id, local_orders[id].price_tick, quantity, cur_ts, lat)
    BY <1>2 DEF BotResizes
  <2>2. local_orders[id].price_tick \in Ticks /\ quantity \in Nat
    BY <2>1, MayTouchKnown, TradingAssumption DEF Plain, Order
  <2>3. UNCHANGED exchVars /\ {"reprice", "resize"} \cap Requests # {}
    BY <1>2 DEF BotResizes, Asks
  <2>4. QED
    BY <2>1, <2>2, <2>3, ModifySeeks
<1>3. QED
  BY <1>1, <1>2, SubmitSeeks, CancelSeeks

\* process_recv_order of the exchange, for a request that does not enter or amend an
\* order that is done.
LEMMA ExchangeAnswers ==
    ASSUME Inv, ExchangeReceives,
           LET o == Head(to_exch).order IN o.req = "Canceled" \/ o.status \notin Terminal
    PROVE  Answered
<1> DEFINE o == Head(to_exch).order
           ack == Acknowledge(book, o, cur_ts')
<1>1. /\ to_exch # <<>> /\ cur_ts' = Head(to_exch).ts
      /\ to_exch' = Tail(to_exch) /\ book' = ack.book
      /\ exch_pos' = IF ack.executed THEN ApplyFill(exch_pos, ack.order) ELSE exch_pos
      /\ UNCHANGED <<local_orders, local_pos>>
  BY DEF ExchangeReceives, ProcessRequest, localVars
<1>2. PICK lat \in ResponseLatencies :
         Respond(<<ack.order>>, ack.order.exch_timestamp, lat)
  BY DEF ExchangeReceives, ProcessRequest
<1>3. to_local \in Seq(Entry) /\ to_exch \in Seq(RequestEntry)
  BY BusFacts DEF Inv, BusTyped
<1>4. Head(to_exch) \in RequestEntry
  BY <1>1, <1>3, HeadTailProperties
<1>5. /\ o \in Order /\ o.req \in Requested /\ cur_ts' \in Nat
      /\ o.req = "Canceled" \/ o.status \notin Terminal
  BY <1>1, <1>4 DEF RequestEntry, Entry
<1>6. BookOK(book) /\ exch_depth \in Depth
  BY DEF Inv, ExchTyped
<1> HIDE DEF o
<1>7. Answers(ack, book, o)
  BY <1>5, <1>6, AcknowledgeAnswers
<1>8. AckOK(ack)
  <2>1. CASE o.req = "New"
    BY <1>5, <1>6, <2>1, AckNewOK DEF Acknowledge
  <2>2. CASE o.req = "Canceled"
    BY <1>5, <1>6, <2>2, AckCancelOK DEF Acknowledge
  <2>3. CASE o.req = "Replaced"
    BY <1>5, <1>6, <2>3, AckModifyOK DEF Acknowledge
  <2>4. QED
    BY <1>5, <2>1, <2>2, <2>3 DEF Requested
<1> HIDE DEF ack
<1>9. ack.order \in Order /\ ack.order.exch_timestamp \in Nat
  BY <1>8 DEF AckOK, Order
<1>10. PICK new \in Seq(Entry) : /\ to_local' = to_local \o new /\ Len(new) = 1
                                 /\ new[1].order = ToPlain(ack.order)
  BY <1>2, <1>3, <1>9, RespondOne
<1>11. Replies(ack, new)
  BY <1>1, <1>7, <1>9, <1>10 DEF Replies, o
<1>12. QED
  BY <1>1, <1>11 DEF Answered

\* A feed event.
LEMMA FeedExecutes ==
    ASSUME Inv, Resting, FeedDepth \/ FeedTrade \/ FeedClear
    PROVE  Executed \/ Rests
<1>1. /\ FeedTurn /\ ExchTyped /\ WorkingIn(book) /\ BookOK(book)
      /\ UNCHANGED <<local_orders, local_pos>>
  BY DEF FeedDepth, FeedTrade, FeedClear, FeedTurn, localVars, Inv, ExchTyped, Resting, WorkingIn
<1>2. cur_ts' \in Nat /\ to_local \in Seq(Entry)
  BY <1>1, TradingAssumption, BusFacts DEF FeedTurn, Inv, EngineTyped
<1>3. ASSUME NEW fills, Event(fills, cur_ts')
      PROVE  Executed
  <2>1. DOMAIN fills \subseteq Ids(book) /\ Ids(book) \subseteq OrderIds
    BY <1>1, <1>3 DEF Event, BookOK, IsBook, IsOrderMap, Ids
  <2>2. ASSUME NEW id \in DOMAIN fills
        PROVE  fills[id] \in Order /\ fills[id].order_id = id
    <3>1. Takes(fills[id], book.orders[id])
      BY <1>3 DEF Event
    <3>2. book.orders[id].order_id = id
      BY <1>1, <2>1 DEF BookOK, IsBook, IsOrderMap, Ids
    <3>3. QED
      BY <3>1, <3>2, TakesSays
  <2>3. Publish(fills, cur_ts') /\ DOMAIN fills \subseteq OrderIds
    BY <1>3, <2>1 DEF Event
  <2>4. /\ \E new : Tells(fills, new) /\ to_local' = to_local \o new
        /\ to_exch' = to_exch /\ exch_pos' = ApplyFills(exch_pos, fills)
    BY <1>2, <2>2, <2>3, PublishTells
  <2>5. QED
    BY <1>1, <1>3, <2>4 DEF Executed
<1>4. CASE FeedDepth
  <2>1. PICK s \in Sides, tick \in Ticks, quantity \in FeedQtys \cup {0} :
           ProcessDepth(s, tick, quantity, cur_ts')
    BY <1>4 DEF FeedDepth
  <2>2. quantity \in Nat
    BY TradingAssumption
  <2>3. \E fills : Event(fills, cur_ts')
    BY <1>1, <1>2, <2>1, <2>2, DepthIsEvent
  <2>4. QED
    BY <1>3, <2>3
<1>5. CASE FeedTrade
  <2>1. PICK s \in Sides, tick \in Ticks, quantity \in FeedQtys :
           ProcessTrade(s, tick, quantity, cur_ts')
    BY <1>5 DEF FeedTrade
  <2>2. quantity \in Nat
    BY TradingAssumption
  <2>3. \E fills : Event(fills, cur_ts')
    BY <1>1, <1>2, <2>1, <2>2, TradeIsEvent
  <2>4. QED
    BY <1>3, <2>3
<1>6. CASE FeedClear
  BY <1>1, <1>6 DEF FeedClear, ProcessClear, Rests
<1>7. QED
  BY <1>4, <1>5, <1>6

\* The request in front may be acknowledged.
Acknowledgeable ==
    to_exch # <<>> =>
       LET o == Head(to_exch).order IN o.req = "Canceled" \/ o.status \notin Terminal

\* Every step is one of these.
LEMMA KindsOfSteps ==
    ASSUME Inv, Resting, Acknowledgeable, [Next]_vars
    PROVE  Seeks \/ Hears \/ Forgets \/ Answered \/ Executed \/ Rests
<1>1. CASE BotSubmits \/ BotCancels \/ BotReprices \/ BotResizes
  BY <1>1, BotSeeks
<1>2. CASE BotClears
  BY <1>2 DEF BotClears, Forgets, exchVars
<1>3. CASE LocalReceives
  BY <1>3 DEF LocalReceives, Hears, exchVars
<1>4. CASE ExchangeReceives
  <2>1. to_exch # <<>>
    BY <1>4 DEF ExchangeReceives
  <2>2. QED
    BY <1>4, <2>1, ExchangeAnswers DEF Acknowledgeable
<1>5. CASE FeedDepth \/ FeedTrade \/ FeedClear
  BY <1>5, FeedExecutes
<1>6. CASE Waits \/ Returns \/ Closes \/ Ended \/ UNCHANGED vars
  BY <1>6 DEF Waits, Returns, Closes, Ended, vars, busVars, exchVars, localVars, Rests
<1>7. QED
  BY <1>1, <1>2, <1>3, <1>4, <1>5, <1>6 DEF Next

-----------------------------------------------------------------------------
(* What is on a bus.                                                        *)

On(bus) == {bus[i].order : i \in 1..Len(bus)}

\* What is on a bus is orders.
LEMMA OnOrders ==
    ASSUME NEW bus \in Seq(Entry)
    PROVE  On(bus) \subseteq Plain
<1>1. \A i \in 1..Len(bus) : bus[i] \in Entry
  BY ElementOfSeq
<1>2. QED
  BY <1>1 DEF On, Entry, Plain

\* Taking the front.
LEMMA OnTail ==
    ASSUME NEW bus \in Seq(Entry), bus # <<>>
    PROVE  On(bus) = On(Tail(bus)) \cup {Head(bus).order} /\ Head(bus).order \in Plain
<1>1. /\ Head(bus) = bus[1] /\ 1 \in 1..Len(bus)
      /\ \A i \in 1..Len(Tail(bus)) : Tail(bus)[i] = bus[i + 1] /\ i + 1 \in 1..Len(bus)
      /\ \A i \in 1..Len(bus) : i # 1 =>
            i - 1 \in 1..Len(Tail(bus)) /\ Tail(bus)[i - 1] = bus[i]
  BY TailAt
<1>2. On(Tail(bus)) \subseteq On(bus) /\ Head(bus).order \in On(bus)
  BY <1>1 DEF On
<1>3. ASSUME NEW o \in On(bus) PROVE o \in On(Tail(bus)) \cup {Head(bus).order}
  BY <1>1 DEF On
<1>4. QED
  BY <1>2, <1>3, OnOrders

\* Joining.
LEMMA OnJoin ==
    ASSUME NEW bus \in Seq(Entry), NEW new \in Seq(Entry)
    PROVE  On(bus \o new) = On(bus) \cup On(new)
<1> DEFINE all == bus \o new
<1>1. Behind(all, bus, new)
  BY JoinAt
<1> HIDE DEF all
<1>2. On(all) \subseteq On(bus) \cup On(new)
  BY <1>1 DEF On, Behind
<1>3. On(bus) \subseteq On(all)
  BY <1>1 DEF On, Behind
<1>4. On(new) \subseteq On(all)
  BY <1>1 DEF On, Behind
<1>5. QED
  BY <1>2, <1>3, <1>4 DEF all

\* A request puts one order on one bus.
LEMMA OnSends ==
    ASSUME Inv, NEW o, NEW rejected, NEW asks, NEW new, Sends(o, rejected, asks, new)
    PROVE  \/ On(to_exch') = On(to_exch) \cup {o} /\ On(to_local') = On(to_local)
           \/ On(to_exch') = On(to_exch) /\ On(to_local') = On(to_local) \cup {rejected}
<1>1. /\ On(to_exch') = On(to_exch) \cup On(asks)
      /\ On(to_local') = On(to_local) \cup On(new)
  BY BusFacts, OnJoin DEF Sends
<1>2. CASE Len(asks) = 1 /\ Len(new) = 0
  <2>1. 1..Len(new) = {} /\ 1..Len(asks) = {1}
    BY <1>2
  <2>2. On(new) = {} /\ On(asks) = {o}
    BY <2>1 DEF On, Sends
  <2>3. QED
    BY <1>1, <2>2
<1>3. CASE Len(asks) = 0 /\ Len(new) = 1
  <2>1. 1..Len(new) = {1} /\ 1..Len(asks) = {}
    BY <1>3
  <2>2. On(new) = {rejected} /\ On(asks) = {}
    BY <2>1 DEF On, Sends
  <2>3. QED
    BY <1>1, <2>2
<1>4. QED
  BY <1>2, <1>3 DEF Sends

\* A reply puts one order on the bus.
LEMMA OnReplies ==
    ASSUME Inv, NEW a, NEW new, Replies(a, new)
    PROVE  On(to_local') = On(to_local) \cup {ToPlain(a.order)}
<1>1. On(to_local') = On(to_local) \cup On(new)
  BY BusFacts, OnJoin DEF Replies
<1>2. 1..Len(new) = {1}
  BY DEF Replies
<1>3. On(new) = {ToPlain(a.order)}
  BY <1>2 DEF On, Replies
<1>4. QED
  BY <1>1, <1>3

\* Fills put one order each on the bus.
LEMMA OnTells ==
    ASSUME Inv, NEW fills, NEW new, Tells(fills, new), to_local' = to_local \o new
    PROVE  On(to_local') = On(to_local) \cup {ToPlain(fills[id]) : id \in DOMAIN fills}
<1>1. On(to_local') = On(to_local) \cup On(new)
  BY BusFacts, OnJoin DEF Tells
<1>2. ASSUME NEW o \in On(new) PROVE o \in {ToPlain(fills[id]) : id \in DOMAIN fills}
  <2>1. PICK k \in 1..Len(new) : o = new[k].order
    BY DEF On
  <2>2. /\ new[k].order.order_id \in DOMAIN fills
        /\ new[k].order = ToPlain(fills[new[k].order.order_id])
    BY DEF Tells
  <2>3. QED
    BY <2>1, <2>2
<1>3. ASSUME NEW id \in DOMAIN fills PROVE ToPlain(fills[id]) \in On(new)
  <2>1. PICK k \in 1..Len(new) : new[k].order.order_id = id
    BY DEF Tells
  <2>2. QED
    BY <2>1 DEF On, Tells
<1>4. QED
  BY <1>1, <1>2, <1>3

\* The plain form of an order says the same.
LEMMA PlainSays ==
    ASSUME NEW o \in Order
    PROVE  /\ ToPlain(o) \in Plain /\ SameTerms(ToPlain(o), o)
           /\ ToPlain(o).req = o.req /\ ToPlain(o).status = o.status
           /\ ToPlain(o).leaves_qty = o.leaves_qty /\ ToPlain(o).exec_qty = o.exec_qty
           /\ ToPlain(o).local_timestamp = o.local_timestamp
  BY DEF ToPlain, Plain, Order, SameTerms, Same

-----------------------------------------------------------------------------
(* Whoever waits gets an answer.  The strategy does not modify orders: the  *)
(* answer to an amendment leaves its request open.                          *)

Unmodified == {"reprice", "resize"} \cap Requests = {}

\* Something about the order is under way, that ends the wait for the request made
\* at t.
Awaits(id, t, reqs, bus) ==
    \/ \E o \in On(reqs) : o.order_id = id /\ o.local_timestamp = t
    \/ \E o \in On(bus) : o.order_id = id /\ (o.req = "Rejected" => o.local_timestamp = t)

\* Requests enter or cancel, and answers leave nothing open.
Answerable ==
    /\ \A o \in On(to_exch) : o.req \in {"New", "Canceled"} /\ (o.req = "New" => o.status = "None")
    /\ \A o \in On(to_local) : o.req \in {"None", "Rejected"}
    /\ Settled(book)

Waiting ==
    /\ Answerable
    /\ \A id \in Known : local_orders[id].req # "None" =>
          Awaits(id, local_orders[id].local_timestamp, to_exch, to_local)

LEMMA WaitingIs ==
    ASSUME Waiting
    PROVE  PendingHasReply
<1> SUFFICES ASSUME NEW id \in Known, Pending(local_orders[id])
             PROVE
        \/ \E i \in 1..Len(to_exch) :
              /\ to_exch[i].order.order_id = id
              /\ to_exch[i].order.local_timestamp = local_orders[id].local_timestamp
        \/ \E i \in 1..Len(to_local) :
              LET o == to_local[i].order
              IN  /\ o.order_id = id
                  /\ o.req = "Rejected" =>
                        o.local_timestamp = local_orders[id].local_timestamp
  BY DEF PendingHasReply
<1>1. Awaits(id, local_orders[id].local_timestamp, to_exch, to_local)
  BY DEF Waiting, Pending
<1>2. QED
  BY <1>1 DEF Awaits, On

LEMMA WaitingAcknowledged ==
    ASSUME Inv, Waiting
    PROVE  Acknowledgeable
<1>1. ASSUME to_exch # <<>>
      PROVE  Head(to_exch).order \in On(to_exch)
  BY <1>1, BusFacts, OnTail
<1>2. QED
  BY <1>1 DEF Waiting, Answerable, Acknowledgeable, Terminal

\* What is to be shown of a step.
LEMMA AnswerableNext ==
    ASSUME \A o \in On(to_exch') :
              o.req \in {"New", "Canceled"} /\ (o.req = "New" => o.status = "None"),
           \A o \in On(to_local') : o.req \in {"None", "Rejected"},
           Settled(book')
    PROVE  Answerable'
  BY DEF Answerable, Settled, Ids, On

LEMMA WaitingNext ==
    ASSUME Answerable',
           \A id \in DOMAIN local_orders' : local_orders'[id].req # "None" =>
              Awaits(id, local_orders'[id].local_timestamp, to_exch', to_local')
    PROVE  Waiting'
  BY DEF Waiting, Known, Awaits, On

\* The strategy asks.
LEMMA SeeksWaiting ==
    ASSUME Inv, Unmodified, Waiting, Seeks
    PROVE  Waiting'
<1>0. PICK id \in OrderIds : \E o, rejected, asks, new :
         /\ Sought(id, o, rejected) /\ Sends(o, rejected, asks, new)
         /\ local_orders' = Put(local_orders, o)
  BY DEF Seeks
<1>1. PICK o, rejected, asks, new :
         /\ Sought(id, o, rejected) /\ Sends(o, rejected, asks, new)
         /\ local_orders' = Put(local_orders, o)
  BY <1>0
<1>2. \/ On(to_exch') = On(to_exch) \cup {o} /\ On(to_local') = On(to_local)
      \/ On(to_exch') = On(to_exch) /\ On(to_local') = On(to_local) \cup {rejected}
  BY <1>1, OnSends
<1>3. /\ o.order_id = id /\ o.local_timestamp = cur_ts
      /\ o.req \in {"New", "Canceled"} /\ (o.req = "New" => o.status = "None")
      /\ rejected.order_id = id /\ rejected.req = "Rejected" /\ rejected.local_timestamp = cur_ts
  BY <1>1 DEF Sought, Continues, Unmodified
<1>4. /\ DOMAIN local_orders' = DOMAIN local_orders \cup {id} /\ local_orders'[id] = o
      /\ \A other \in DOMAIN local_orders : other # id => local_orders'[other] = local_orders[other]
  BY <1>1, <1>3 DEF Put
<1>5. book' = book
  BY DEF Seeks
<1>6. Answerable'
  BY <1>2, <1>3, <1>5, AnswerableNext DEF Waiting, Answerable
<1>7. ASSUME NEW other \in DOMAIN local_orders', local_orders'[other].req # "None"
      PROVE  Awaits(other, local_orders'[other].local_timestamp, to_exch', to_local')
  <2>1. CASE other = id
    BY <1>2, <1>3, <1>4, <2>1 DEF Awaits
  <2>2. CASE other # id
    <3>1. Awaits(other, local_orders[other].local_timestamp, to_exch, to_local)
      BY <1>4, <1>7, <2>2 DEF Waiting, Known
    <3>2. QED
      BY <1>2, <1>4, <2>2, <3>1 DEF Awaits
  <2>3. QED
    BY <2>1, <2>2
<1>8. QED
  BY <1>6, <1>7, WaitingNext


\* What a response does to the order it names: nothing, or what it says.
LEMMA ReceiveSays ==
    ASSUME NEW mine \in Order, NEW resp \in Order
    PROVE  LET r == Receive(mine, resp)
           IN  \/ /\ resp.req # "Rejected" /\ SameTerms(r, resp) /\ r.req = resp.req
                  /\ r.status = resp.status /\ r.leaves_qty = resp.leaves_qty
                  /\ r.local_timestamp = mine.local_timestamp
               \/ /\ resp.req = "Rejected" /\ resp.local_timestamp # mine.local_timestamp
                  /\ r = mine
               \/ /\ resp.req = "Rejected" /\ resp.local_timestamp = mine.local_timestamp
                  /\ SameTerms(r, mine) /\ r.req = "None"
                  /\ r.status = IF mine.req = "New" THEN "Expired" ELSE mine.status
                  /\ r.leaves_qty = mine.leaves_qty
                  /\ r.local_timestamp = mine.local_timestamp
<1> DEFINE stamp == IF resp.exch_timestamp > 0 THEN resp.exch_timestamp ELSE mine.exch_timestamp
           told == [resp EXCEPT !.local_timestamp = mine.local_timestamp, !.exch_timestamp = stamp]
           st == IF mine.req = "New" THEN "Expired" ELSE mine.status
           refused == [mine EXCEPT !.req = "None", !.status = st]
<1>1. Receive(mine, resp) =
         IF resp.req # "Rejected" THEN told
         ELSE IF resp.local_timestamp # mine.local_timestamp THEN mine
         ELSE refused
  BY DEF Receive, Update
<1> HIDE DEF stamp, st
<1>2. /\ SameTerms(told, resp) /\ told.req = resp.req /\ told.status = resp.status
      /\ told.leaves_qty = resp.leaves_qty /\ told.local_timestamp = mine.local_timestamp
  BY DEF Order, SameTerms, Same
<1>3. /\ SameTerms(refused, mine) /\ refused.req = "None" /\ refused.status = st
      /\ refused.leaves_qty = mine.leaves_qty /\ refused.local_timestamp = mine.local_timestamp
  BY DEF Order, SameTerms, Same
<1> HIDE DEF told, refused
<1>4. QED
  BY <1>1, <1>2, <1>3 DEF st

\* What the strategy has afterwards, of the order named and of any other.
Heard(resp) ==
    /\ \A id \in DOMAIN local_orders \cup DOMAIN local_orders' : id # resp.order_id =>
          /\ id \in DOMAIN local_orders <=> id \in DOMAIN local_orders'
          /\ local_orders'[id] = local_orders[id]
    /\ LET id == resp.order_id
       IN  IF id \in DOMAIN local_orders
           THEN id \in DOMAIN local_orders' /\ local_orders'[id] = Receive(local_orders[id], resp)
           ELSE IF resp.req # "Rejected"
                THEN id \in DOMAIN local_orders' /\ local_orders'[id] = resp
                ELSE id \notin DOMAIN local_orders'

LEMMA HearsHeard ==
    ASSUME Inv, Hears
    PROVE  LET resp == Head(to_local).order
           IN  /\ Heard(resp) /\ resp \in Order /\ On(to_local) = On(to_local') \cup {resp}
               /\ to_local' = Tail(to_local) /\ to_exch' = to_exch
               /\ \A id \in DOMAIN local_orders :
                     local_orders[id] \in Order /\ local_orders[id].order_id = id
<1> DEFINE resp == Head(to_local).order
           id == resp.order_id
<1>1. /\ to_local' = Tail(to_local) /\ to_local # <<>> /\ to_exch' = to_exch
      /\ local_orders' =
            IF id \in DOMAIN local_orders THEN Put(local_orders, Receive(local_orders[id], resp))
            ELSE IF resp.req # "Rejected" THEN Put(local_orders, resp)
            ELSE local_orders
  BY DEF Hears, ProcessResponse, Known
<1>2. On(to_local) = On(to_local') \cup {resp} /\ resp \in Plain
  BY <1>1, BusFacts, OnTail
<1>3. \A i \in DOMAIN local_orders : local_orders[i] \in Order /\ local_orders[i].order_id = i
  BY DEF Inv, LocalTyped, IsPlainMap, IsOrderMap
<1> HIDE DEF resp, id
<1>4. resp \in Order
  BY <1>2 DEF Plain
<1>5. ASSUME id \in DOMAIN local_orders
      PROVE  Receive(local_orders[id], resp).order_id = id
  BY <1>3, <1>4, <1>5, ReceiveSays DEF SameTerms, Same, id
<1>6. ASSUME NEW o, o.order_id = id, local_orders' = Put(local_orders, o)
      PROVE  /\ id \in DOMAIN local_orders' /\ local_orders'[id] = o
             /\ \A i \in DOMAIN local_orders \cup DOMAIN local_orders' : i # id =>
                   /\ i \in DOMAIN local_orders <=> i \in DOMAIN local_orders'
                   /\ local_orders'[i] = local_orders[i]
  BY <1>6 DEF Put
<1>7. CASE id \in DOMAIN local_orders
  <2>1. local_orders' = Put(local_orders, Receive(local_orders[id], resp))
    BY <1>1, <1>7
  <2>2. QED
    BY <1>1, <1>2, <1>3, <1>4, <1>5, <1>6, <1>7, <2>1 DEF Heard, id, resp
<1>8. CASE id \notin DOMAIN local_orders /\ resp.req # "Rejected"
  <2>1. local_orders' = Put(local_orders, resp) /\ resp.order_id = id
    BY <1>1, <1>8 DEF id
  <2>2. QED
    BY <1>1, <1>2, <1>3, <1>4, <1>6, <1>8, <2>1 DEF Heard, id, resp
<1>9. CASE id \notin DOMAIN local_orders /\ resp.req = "Rejected"
  <2>1. local_orders' = local_orders
    BY <1>1, <1>9
  <2>2. QED
    BY <1>1, <1>2, <1>3, <1>4, <1>9, <2>1 DEF Heard, id, resp
<1>10. QED
  BY <1>7, <1>8, <1>9

\* The strategy is told.
LEMMA HearsWaiting ==
    ASSUME Inv, Waiting, Hears
    PROVE  Waiting'
<1> DEFINE resp == Head(to_local).order
           who == resp.order_id
<1>1. /\ Heard(resp) /\ resp \in Order /\ On(to_local) = On(to_local') \cup {resp}
      /\ to_exch' = to_exch
      /\ \A id \in DOMAIN local_orders :
            local_orders[id] \in Order /\ local_orders[id].order_id = id
  BY HearsHeard
<1>2. book' = book
  BY DEF Hears
<1> HIDE DEF resp
<1>3. Answerable'
  BY <1>1, <1>2, AnswerableNext DEF Waiting, Answerable
<1>4. resp.req \in {"None", "Rejected"}
  BY <1>1 DEF Waiting, Answerable
<1>5. ASSUME NEW id \in DOMAIN local_orders', local_orders'[id].req # "None"
      PROVE  Awaits(id, local_orders'[id].local_timestamp, to_exch', to_local')
  <2>1. CASE id # who
    <3>1. id \in DOMAIN local_orders /\ local_orders'[id] = local_orders[id]
      BY <1>1, <2>1 DEF Heard
    <3>2. Awaits(id, local_orders[id].local_timestamp, to_exch, to_local)
      BY <1>5, <3>1 DEF Waiting, Known
    <3>3. QED
      BY <1>1, <2>1, <3>1, <3>2 DEF Awaits
  <2>2. CASE id = who
    <3>1. id \in DOMAIN local_orders
      BY <1>1, <1>4, <1>5, <2>2 DEF Heard
    <3>2. local_orders'[id] = Receive(local_orders[id], resp)
      BY <1>1, <2>2, <3>1 DEF Heard
    <3>3. /\ resp.req = "Rejected" /\ resp.local_timestamp # local_orders[id].local_timestamp
          /\ local_orders'[id] = local_orders[id]
      BY <1>1, <1>4, <1>5, <3>1, <3>2, ReceiveSays
    <3>4. Awaits(id, local_orders[id].local_timestamp, to_exch, to_local)
      BY <1>5, <3>1, <3>3 DEF Waiting, Known
    <3>5. QED
      BY <1>1, <2>2, <3>3, <3>4 DEF Awaits
  <2>3. QED
    BY <2>1, <2>2
<1>6. QED
  BY <1>3, <1>5, WaitingNext


\* What clear_inactive_orders leaves.
LEMMA ForgetsLess ==
    ASSUME Forgets
    PROVE  /\ to_exch' = to_exch /\ to_local' = to_local
           /\ book' = book /\ exch_pos' = exch_pos /\ local_pos' = local_pos
           /\ \A id : id \in DOMAIN local_orders' <=>
                 id \in DOMAIN local_orders /\ local_orders[id].status \notin Terminal
           /\ \A id \in DOMAIN local_orders' : local_orders'[id] = local_orders[id]
  BY DEF Forgets, ClearInactiveOrders, Known

\* The strategy forgets.
LEMMA ForgetsWaiting ==
    ASSUME Waiting, Forgets
    PROVE  Waiting'
<1>1. /\ to_exch' = to_exch /\ to_local' = to_local /\ book' = book
      /\ \A id \in DOMAIN local_orders' :
            id \in DOMAIN local_orders /\ local_orders'[id] = local_orders[id]
  BY ForgetsLess
<1>2. Answerable'
  BY <1>1, AnswerableNext DEF Waiting, Answerable
<1>3. QED
  BY <1>1, <1>2, WaitingNext DEF Waiting, Known

\* The exchange answers.
LEMMA AnsweredWaiting ==
    ASSUME Inv, Waiting, Answered
    PROVE  Waiting'
<1> DEFINE o == Head(to_exch).order
<1>1. /\ to_exch' = Tail(to_exch) /\ to_exch # <<>> /\ local_orders' = local_orders
  BY DEF Answered
<1>2. PICK a, new : Replies(a, new)
  BY DEF Answered
<1>3. On(to_exch) = On(to_exch') \cup {o} /\ o \in Order
  BY <1>1, BusFacts, OnTail DEF Plain
<1>4. On(to_local') = On(to_local) \cup {ToPlain(a.order)}
  BY <1>2, OnReplies
<1>5. /\ Answers(a, book, o) /\ book' = a.book /\ a.order \in Order
  BY <1>2 DEF Replies
<1> HIDE DEF o
<1>6. o.req \in {"New", "Canceled"} /\ o.req \in Requested
  BY <1>3 DEF Waiting, Answerable, Requested
<1>7. BookOK(book)
  BY DEF Inv, ExchTyped
<1>8. /\ a.order.order_id = o.order_id
      /\ a.order.req = "Rejected" => a.order.local_timestamp = o.local_timestamp
  BY <1>5, <1>6, <1>7, AnswersSay
<1>9. a.order.req \in {"None", "Rejected"}
  BY <1>5, <1>6 DEF Answers, Refuses, Accepts, Cancels
<1>10. Settled(book')
  BY <1>5, AnswersSettled DEF Waiting, Answerable
<1> DEFINE r == ToPlain(a.order)
<1>11. /\ r.order_id = o.order_id /\ r.req = a.order.req
       /\ r.local_timestamp = a.order.local_timestamp
  BY <1>5, <1>8, PlainSays DEF SameTerms, Same
<1> HIDE DEF r
<1>12. On(to_local') = On(to_local) \cup {r}
  BY <1>4 DEF r
<1>13. Answerable'
  BY <1>3, <1>9, <1>10, <1>11, <1>12, AnswerableNext DEF Waiting, Answerable
<1>14. ASSUME NEW id \in DOMAIN local_orders, local_orders[id].req # "None"
       PROVE  Awaits(id, local_orders[id].local_timestamp, to_exch', to_local')
  <2>1. Awaits(id, local_orders[id].local_timestamp, to_exch, to_local)
    BY <1>14 DEF Waiting, Known
  <2>2. QED
    BY <1>3, <1>8, <1>11, <1>12, <2>1 DEF Awaits
<1>15. QED
  BY <1>1, <1>13, <1>14, WaitingNext

\* The exchange executes orders.
LEMMA ExecutedWaiting ==
    ASSUME Inv, Waiting, Executed
    PROVE  Waiting'
<1>1. PICK fills, new, ts :
         Event(fills, ts) /\ Tells(fills, new) /\ to_local' = to_local \o new
  BY DEF Executed
<1>2. to_exch' = to_exch /\ local_orders' = local_orders
  BY DEF Executed
<1>3. On(to_local') = On(to_local) \cup {ToPlain(fills[id]) : id \in DOMAIN fills}
  BY <1>1, OnTells
<1>4. Settled(book)
  BY DEF Waiting, Answerable
<1>5. ASSUME NEW id \in DOMAIN fills
      PROVE  fills[id].req = "None" /\ ToPlain(fills[id]).req = "None"
  <2>1. Takes(fills[id], book.orders[id]) /\ id \in Ids(book)
    BY <1>1 DEF Event
  <2>2. fills[id] \in Order /\ fills[id].req = "None"
    BY <1>4, <2>1, TakesSays DEF Settled
  <2>3. QED
    BY <2>2, PlainSays
<1>6. ASSUME NEW id \in Ids(book') PROVE book'.orders[id].req = "None"
  <2>1. id \in Ids(book) /\ book.orders[id].req = "None"
    BY <1>1, <1>4 DEF Event, Settled
  <2>2. IF id \in DOMAIN fills THEN book'.orders[id] = fills[id]
        ELSE SameButQueue(book'.orders[id], book.orders[id])
    BY <1>1 DEF Event
  <2>3. QED
    BY <1>5, <2>1, <2>2 DEF SameButQueue
<1>7. Settled(book')
  BY <1>6 DEF Settled
<1>8. Answerable'
  BY <1>2, <1>3, <1>5, <1>7, AnswerableNext DEF Waiting, Answerable
<1>9. ASSUME NEW id \in DOMAIN local_orders, local_orders[id].req # "None"
      PROVE  Awaits(id, local_orders[id].local_timestamp, to_exch', to_local')
  <2>1. Awaits(id, local_orders[id].local_timestamp, to_exch, to_local)
    BY <1>9 DEF Waiting, Known
  <2>2. QED
    BY <1>2, <1>3, <2>1 DEF Awaits
<1>10. QED
  BY <1>2, <1>8, <1>9, WaitingNext

\* Every step.
LEMMA WaitingStep ==
    ASSUME Inv, Resting, Unmodified, Waiting, [Next]_vars
    PROVE  Waiting'
<1>1. Acknowledgeable
  BY WaitingAcknowledged
<1>2. ASSUME Rests PROVE Waiting'
  BY <1>2 DEF Rests, Waiting, Answerable, Settled, Ids, On, Known, Awaits
<1>3. QED
  BY <1>1, <1>2, KindsOfSteps, SeeksWaiting, HearsWaiting, ForgetsWaiting,
     AnsweredWaiting, ExecutedWaiting

\* Before anything was asked.
LEMMA WaitingInit == Init => Waiting
<1> SUFFICES ASSUME Init PROVE Waiting
  OBVIOUS
<1>1. to_exch = <<>> /\ to_local = <<>> /\ DOMAIN local_orders = {} /\ Ids(book) = {}
  BY DEF Init, LocalInit, ExchInit, EmptyBook, Ids
<1>2. 1..0 = {}
  OBVIOUS
<1>3. On(to_exch) = {} /\ On(to_local) = {}
  BY <1>1, <1>2 DEF On
<1>4. QED
  BY <1>1, <1>3 DEF Waiting, Answerable, Settled, Known

\* submit_order and cancel: an order that waits for an answer has its request, or a
\* response that ends the wait, under way; whether the strategy asks cancellable()
\* first or not, and whatever the latencies and the feed are.  The strategy does not
\* modify orders: run StuckModify shows how the answer to an amendment keeps the order
\* waiting for ever.
THEOREM NobodyWaitsInVain == ASSUME Unmodified PROVE Spec => []PendingHasReply
<1>1. Inv /\ Resting /\ Waiting /\ [Next]_vars => Waiting'
  BY WaitingStep
<1>2. Waiting => PendingHasReply
  BY WaitingIs
<1>3. QED
  BY <1>1, <1>2, WaitingInit, InvHolds, RestingHolds, PTL DEF Spec

-----------------------------------------------------------------------------
(* What was executed of an order and what is left of it.  The strategy only *)
(* submits and cancels orders, and never forgets an id, so that none is     *)
(* used twice.                                                              *)

OnlyCancels == Requests \subseteq {"cancel"}

\* What is left is not worth a lot.
Whole(s, q, pos) == 2 * (q - Sign(s) * pos) < LotSize

\* An order for q on side s of which pos was executed, on the sets of orders on their
\* way and in the book.
Counted(id, s, q, st, pos, reqs, bus, b) ==
    /\ s \in Sides /\ q \in Nat /\ pos \in Int
    /\ 0 <= Sign(s) * pos /\ Sign(s) * pos <= q
    /\ st = "Filled" => Whole(s, q, pos)
    /\ \A o \in reqs : o.order_id = id =>
          /\ o.side = s /\ o.qty = q /\ o.req \in {"New", "Canceled"}
          /\ o.req = "New" =>
                o.status = "None" /\ o.leaves_qty = q /\ Sign(s) * pos = 0 /\ id \notin Ids(b)
    /\ \A o \in bus : o.order_id = id =>
          /\ o.side = s /\ o.qty = q
          /\ o.req # "Rejected" /\ o.status = "Filled" => Whole(s, q, pos)
    /\ id \in Ids(b) =>
          /\ b.orders[id].side = s /\ b.orders[id].qty = q
          /\ Sign(s) * pos + b.orders[id].leaves_qty = q

\* An id that was not used yet.
Uncounted(id, pos, reqs, bus, b) ==
    pos = 0 /\ id \notin Ids(b) /\ \A o \in reqs \cup bus : o.order_id # id

Tally(id, orders, pos, reqs, bus, b) ==
    IF id \in DOMAIN orders
    THEN Counted(id, orders[id].side, orders[id].qty, orders[id].status, pos[id],
                 On(reqs), On(bus), b)
    ELSE Uncounted(id, pos[id], On(reqs), On(bus), b)

\* An id is entered once.
EnteredOnce(reqs) ==
    \A i, j \in 1..Len(reqs) :
        /\ reqs[i].order.order_id = reqs[j].order.order_id
        /\ reqs[i].order.req = "New" /\ reqs[j].order.req = "New"
        => i = j

Tallies ==
    /\ EnteredOnce(to_exch)
    /\ \A id \in OrderIds : Tally(id, local_orders, exch_pos, to_exch, to_local, book)

\* What the invariant is for.
LEMMA TalliesImply ==
    ASSUME Inv, Tallies
    PROVE  FillsConserved /\ NoOverfill /\ FilledUpToHalfALot
<1>1. DOMAIN local_orders \subseteq OrderIds /\ Ids(book) \subseteq OrderIds
  BY DEF Inv, ExchTyped, LocalTyped, BookOK, IsBook, IsPlainMap, IsOrderMap, Ids
<1>2. ASSUME NEW id \in Ids(book)
      PROVE  Sign(book.orders[id].side) * exch_pos[id] + book.orders[id].leaves_qty
                = book.orders[id].qty
  <2>1. Tally(id, local_orders, exch_pos, to_exch, to_local, book)
    BY <1>1 DEF Tallies
  <2>2. QED
    BY <2>1 DEF Tally, Counted, Uncounted
<1>3. ASSUME NEW id \in Known
      PROVE  LET o == local_orders[id]
             IN  /\ Sign(o.side) * exch_pos[id] <= o.qty
                 /\ o.status = "Filled" => 2 * (o.qty - Sign(o.side) * exch_pos[id]) < LotSize
  <2>1. Tally(id, local_orders, exch_pos, to_exch, to_local, book)
    BY <1>1 DEF Tallies, Known
  <2>2. QED
    BY <2>1 DEF Tally, Counted, Whole, Known
<1>4. QED
  BY <1>2, <1>3 DEF FillsConserved, NoOverfill, FilledUpToHalfALot

\* What is to be shown of a step.
LEMMA TalliesNext ==
    ASSUME EnteredOnce(to_exch'),
           \A id \in OrderIds : Tally(id, local_orders', exch_pos', to_exch', to_local', book')
    PROVE  Tallies'
  BY DEF Tallies, EnteredOnce, Tally, Counted, Uncounted, Whole, On, Ids

\* Fewer orders under way.
LEMMA CountedLess ==
    ASSUME NEW id, NEW s, NEW q, NEW st, NEW pos, NEW reqs, NEW bus, NEW b,
           Counted(id, s, q, st, pos, reqs, bus, b),
           NEW reqs2, \A o \in reqs2 : o.order_id = id => o \in reqs,
           NEW bus2, \A o \in bus2 : o.order_id = id => o \in bus
    PROVE  Counted(id, s, q, st, pos, reqs2, bus2, b)
  BY DEF Counted

\* A request that is not for a new order.
LEMMA CountedAsks ==
    ASSUME NEW id, NEW s, NEW q, NEW st, NEW pos, NEW reqs, NEW bus, NEW b,
           Counted(id, s, q, st, pos, reqs, bus, b),
           NEW o, o.side = s, o.qty = q, o.req = "Canceled"
    PROVE  Counted(id, s, q, st, pos, reqs \cup {o}, bus, b)
  BY DEF Counted

\* A response that tells of no fill.
LEMMA CountedTold ==
    ASSUME NEW id, NEW s, NEW q, NEW st, NEW pos, NEW reqs, NEW bus, NEW b,
           Counted(id, s, q, st, pos, reqs, bus, b),
           NEW r, r.side = s, r.qty = q, r.req = "Rejected" \/ r.status # "Filled"
    PROVE  Counted(id, s, q, st, pos, reqs, bus \cup {r}, b)
  BY DEF Counted

\* An order leaves the book.
LEMMA CountedLeaves ==
    ASSUME NEW id, NEW s, NEW q, NEW st, NEW pos, NEW reqs, NEW bus, NEW b,
           Counted(id, s, q, st, pos, reqs, bus, b), NEW b2, id \notin Ids(b2)
    PROVE  Counted(id, s, q, st, pos, reqs, bus, b2)
  BY DEF Counted

\* No lots.
LEMMA NoLotsLeft ==
    ASSUME NEW n \in Nat, ~(Lots(n) > 0)
    PROVE  2 * n < LotSize
<1> DEFINE a == 2 * n + LotSize
           d == 2 * LotSize
<1>1. LotSize \in Nat \ {0}
  BY OrdersAssumption
<1>2. a \in Nat /\ d \in Nat /\ d > 0
  BY <1>1
<1>3. Lots(n) = a \div d
  BY DEF Lots
<1>4. a < d
  <2> HIDE DEF a, d
  <2> SUFFICES ASSUME a >= d PROVE FALSE
    BY <1>2
  <2>1. a \div d > 0
    BY <1>2
  <2>2. QED
    BY <1>3, <2>1
<1>5. QED
  BY <1>1, <1>4

\* Executing a quantity moves what was executed by it.
LEMMA SignTimes ==
    ASSUME NEW s \in Sides, NEW pos \in Int, NEW n \in Int
    PROVE  /\ pos + Sign(s) * n \in Int /\ Sign(s) * pos \in Int
           /\ Sign(s) * (pos + Sign(s) * n) = Sign(s) * pos + n
           /\ pos = 0 => Sign(s) * pos = 0
<1>1. CASE s = "Buy"
  BY <1>1 DEF Sign
<1>2. CASE s # "Buy"
  BY <1>2 DEF Sign
<1>3. QED
  BY <1>1, <1>2

\* A part of what is left is executed.
LEMMA CountedFills ==
    ASSUME NEW id, NEW s, NEW q, NEW st, NEW pos, NEW reqs, NEW bus, NEW b,
           Counted(id, s, q, st, pos, reqs, bus, b), id \in Ids(b), b.orders[id].leaves_qty \in Nat,
           NEW f, Takes(f, b.orders[id]),
           NEW r, r.side = f.side, r.qty = f.qty, r.status = f.status,
           NEW b2, id \in Ids(b2) => f.status # "Filled" /\ b2.orders[id] = f
    PROVE  Counted(id, s, q, st, pos + Sign(s) * f.exec_qty, reqs, bus \cup {r}, b2)
<1> DEFINE leaves == b.orders[id].leaves_qty
           done == Sign(s) * pos
           more == pos + Sign(s) * f.exec_qty
<1>1. PICK n \in 0..leaves : Executes(f, b.orders[id], n)
  BY DEF Takes
<1>2. /\ f.side = s /\ f.qty = q /\ f.exec_qty = n
      /\ f.leaves_qty = Larger(0, leaves - n)
      /\ f.status = IF Lots(f.leaves_qty) > 0 THEN "PartiallyFilled" ELSE "Filled"
  BY <1>1 DEF Executes, SameTerms, Same, Counted
<1>3. s \in Sides /\ q \in Nat /\ pos \in Int /\ done \in Int /\ n \in Nat /\ leaves \in Nat
      /\ n <= leaves /\ done + leaves = q /\ 0 <= done
  <2>1. s \in Sides /\ q \in Nat /\ pos \in Int /\ done + leaves = q /\ 0 <= done
    BY DEF Counted
  <2>2. leaves \in Nat /\ n \in Nat /\ n <= leaves
    OBVIOUS
  <2>3. done \in Int
    BY <2>1, <2>2, SignTimes
  <2>4. QED
    BY <2>1, <2>2, <2>3
<1>4. more \in Int /\ Sign(s) * more = done + n
  <2>1. more = pos + Sign(s) * n
    BY <1>2
  <2>2. s \in Sides /\ pos \in Int /\ n \in Int
    BY <1>3
  <2> HIDE DEF more, leaves
  <2>3. /\ pos + Sign(s) * n \in Int
        /\ Sign(s) * (pos + Sign(s) * n) = Sign(s) * pos + n
    BY <2>2, SignTimes
  <2>4. QED
    BY <2>1, <2>3
<1> HIDE DEF leaves, done, more
<1>5. f.leaves_qty = leaves - n /\ leaves - n \in Nat
  BY <1>2, <1>3 DEF Larger
<1>6. 0 <= Sign(s) * more /\ Sign(s) * more <= q /\ Sign(s) * more + f.leaves_qty = q
      /\ q - Sign(s) * more = f.leaves_qty /\ Sign(s) * more >= done
  BY <1>3, <1>4, <1>5
<1>7. f.status = "Filled" => Whole(s, q, more)
  BY <1>2, <1>5, <1>6, NoLotsLeft DEF Whole
<1>8. Whole(s, q, pos) => Whole(s, q, more)
  <2>1. LotSize \in Nat
    BY OrdersAssumption
  <2>2. Sign(s) * pos = done
    BY DEF done
  <2>3. QED
    BY <1>3, <1>4, <2>1, <2>2 DEF Whole
<1>9. \A o \in reqs : o.order_id = id => o.req # "New"
  BY DEF Counted
<1>10. id \in Ids(b2) =>
          b2.orders[id].side = s /\ b2.orders[id].qty = q
          /\ Sign(s) * more + b2.orders[id].leaves_qty = q
  BY <1>2, <1>6
<1>11. \A o \in bus \cup {r} : o.order_id = id =>
          /\ o.side = s /\ o.qty = q
          /\ o.req # "Rejected" /\ o.status = "Filled" => Whole(s, q, more)
  BY <1>2, <1>7, <1>8 DEF Counted
<1>12. \A o \in reqs : o.order_id = id =>
          o.side = s /\ o.qty = q /\ o.req \in {"New", "Canceled"}
  BY DEF Counted
<1>13. st = "Filled" => Whole(s, q, more)
  BY <1>8 DEF Counted
<1>14. Counted(id, s, q, st, more, reqs, bus \cup {r}, b2)
  BY <1>3, <1>4, <1>6, <1>9, <1>10, <1>11, <1>12, <1>13 DEF Counted
<1>15. QED
  BY <1>14 DEF more


\* The entries of a shortened bus.
LEMMA EnteredLess ==
    ASSUME NEW bus \in Seq(Entry), bus # <<>>, EnteredOnce(bus)
    PROVE  /\ EnteredOnce(Tail(bus))
           /\ Head(bus).order.req = "New" =>
                 \A o \in On(Tail(bus)) : o.order_id = Head(bus).order.order_id => o.req # "New"
<1>1. /\ Head(bus) = bus[1] /\ 1 \in 1..Len(bus) /\ Len(bus) \in Nat /\ Len(Tail(bus)) = Len(bus) - 1
      /\ \A i \in 1..Len(Tail(bus)) : Tail(bus)[i] = bus[i + 1] /\ i + 1 \in 1..Len(bus)
  BY TailAt
<1>2. \A i, j \in 1..Len(Tail(bus)) : /\ i + 1 = j + 1 => i = j
                                      /\ i + 1 # 1
  BY <1>1
<1>3. EnteredOnce(Tail(bus))
  BY <1>1, <1>2 DEF EnteredOnce
<1>4. ASSUME Head(bus).order.req = "New", NEW o \in On(Tail(bus)),
             o.order_id = Head(bus).order.order_id, o.req = "New"
      PROVE  FALSE
  <2>1. PICK i \in 1..Len(Tail(bus)) : o = Tail(bus)[i].order
    BY DEF On
  <2>2. /\ i + 1 \in 1..Len(bus) /\ 1 \in 1..Len(bus) /\ bus[i + 1].order = o
        /\ bus[1].order = Head(bus).order
    BY <1>1, <2>1
  <2>3. i + 1 = 1
    BY <1>4, <2>2 DEF EnteredOnce
  <2>4. QED
    BY <1>2, <2>3
<1>5. QED
  BY <1>3, <1>4

\* A new request behind.
LEMMA EnteredMore ==
    ASSUME NEW bus \in Seq(Entry), EnteredOnce(bus), NEW asks \in Seq(Entry), Len(asks) \in 0..1,
           \A k \in 1..Len(asks) : asks[k].order.req = "New" =>
              \A o \in On(bus) : o.order_id # asks[k].order.order_id
    PROVE  EnteredOnce(bus \o asks)
<1> DEFINE all == bus \o asks
<1>1. Behind(all, bus, asks)
  BY JoinAt
<1> HIDE DEF all
<1>2. \A i \in 1..Len(bus) : bus[i].order \in On(bus)
  BY DEF On
<1>3. ASSUME NEW i \in 1..Len(all), NEW j \in 1..Len(all),
             all[i].order.order_id = all[j].order.order_id,
             all[i].order.req = "New", all[j].order.req = "New"
      PROVE  i = j
  <2>1. CASE i \in 1..Len(bus) /\ j \in 1..Len(bus)
    BY <1>1, <1>3, <2>1 DEF EnteredOnce, Behind
  <2>2. CASE i \notin 1..Len(bus) /\ j \in 1..Len(bus)
    BY <1>1, <1>2, <1>3, <2>2 DEF Behind
  <2>3. CASE i \in 1..Len(bus) /\ j \notin 1..Len(bus)
    BY <1>1, <1>2, <1>3, <2>3 DEF Behind
  <2>4. CASE i \notin 1..Len(bus) /\ j \notin 1..Len(bus)
    <3>1. i - Len(bus) \in 1..Len(asks) /\ j - Len(bus) \in 1..Len(asks)
      BY <1>1, <2>4 DEF Behind
    <3>2. i - Len(bus) = j - Len(bus)
      BY <3>1
    <3>3. Len(bus) \in Nat
      BY <1>1 DEF Behind
    <3>4. QED
      BY <3>2, <3>3
  <2>5. QED
    BY <2>1, <2>2, <2>3, <2>4
<1>4. EnteredOnce(all)
  BY <1>3 DEF EnteredOnce
<1>5. QED
  BY <1>4 DEF all

\* The strategy asks.
LEMMA SeeksTallies ==
    ASSUME Inv, OnlyCancels, Tallies, Seeks
    PROVE  Tallies'
<1>0. PICK id \in OrderIds : \E o, rejected, asks, new :
         /\ Sought(id, o, rejected) /\ Sends(o, rejected, asks, new)
         /\ local_orders' = Put(local_orders, o)
  BY DEF Seeks
<1>1. PICK o, rejected, asks, new :
         /\ Sought(id, o, rejected) /\ Sends(o, rejected, asks, new)
         /\ local_orders' = Put(local_orders, o)
  BY <1>0
<1>2. \/ On(to_exch') = On(to_exch) \cup {o} /\ On(to_local') = On(to_local)
      \/ On(to_exch') = On(to_exch) /\ On(to_local') = On(to_local) \cup {rejected}
  BY <1>1, OnSends
<1>3. /\ o.order_id = id /\ rejected.order_id = id /\ rejected.req = "Rejected"
      /\ rejected.side = o.side
      /\ o.side \in Sides /\ o.qty \in Nat
  BY <1>1 DEF Sought, Plain, Order
<1>4. /\ DOMAIN local_orders' = DOMAIN local_orders \cup {id} /\ local_orders'[id] = o
      /\ \A other \in DOMAIN local_orders : other # id => local_orders'[other] = local_orders[other]
  BY <1>1, <1>3 DEF Put
<1>5. book' = book /\ exch_pos' = exch_pos
  BY DEF Seeks
<1>6. Tally(id, local_orders, exch_pos, to_exch, to_local, book)
  BY DEF Tallies
<1>7. \/ /\ id \notin DOMAIN local_orders /\ o.req = "New" /\ o.status = "None"
         /\ o.leaves_qty = o.qty /\ rejected.qty = o.qty
      \/ /\ id \in DOMAIN local_orders /\ o.req = "Canceled"
         /\ o.side = local_orders[id].side /\ o.qty = local_orders[id].qty
         /\ o.status = local_orders[id].status /\ rejected.qty = o.qty
  BY <1>1 DEF Sought, Continues, OnlyCancels
<1>8. EnteredOnce(to_exch')
  <2>1. to_exch' = to_exch \o asks /\ asks \in Seq(Entry) /\ Len(asks) \in 0..1
        /\ \A k \in 1..Len(asks) : asks[k].order = o
    BY <1>1 DEF Sends
  <2>2. o.req = "New" => \A x \in On(to_exch) : x.order_id # o.order_id
    BY <1>3, <1>6, <1>7 DEF Tally, Uncounted
  <2>3. QED
    BY <2>1, <2>2, BusFacts, EnteredMore DEF Tallies
<1>9. Tally(id, local_orders', exch_pos, to_exch', to_local', book)
  <2>1. CASE id \notin DOMAIN local_orders
    <3>1. Uncounted(id, exch_pos[id], On(to_exch), On(to_local), book)
      BY <1>6, <2>1 DEF Tally
    <3>2. Sign(o.side) * exch_pos[id] = 0 /\ exch_pos[id] \in Int
      <4>1. exch_pos[id] \in Int /\ exch_pos[id] = 0
        BY <3>1 DEF Uncounted
      <4>2. QED
        BY <1>3, <4>1, SignTimes
    <3>3. Counted(id, o.side, o.qty, o.status, exch_pos[id], On(to_exch'), On(to_local'), book)
      BY <1>2, <1>3, <1>7, <2>1, <3>1, <3>2 DEF Counted, Uncounted
    <3>4. QED
      BY <1>4, <3>3 DEF Tally
  <2>2. CASE id \in DOMAIN local_orders
    <3>1. Counted(id, o.side, o.qty, o.status, exch_pos[id], On(to_exch), On(to_local), book)
      BY <1>6, <1>7, <2>2 DEF Tally
    <3>2. Counted(id, o.side, o.qty, o.status, exch_pos[id], On(to_exch'), On(to_local'), book)
      BY <1>2, <1>3, <1>7, <2>2, <3>1, CountedAsks, CountedTold
    <3>3. QED
      BY <1>4, <3>2 DEF Tally
  <2>3. QED
    BY <2>1, <2>2
<1>10. ASSUME NEW other \in OrderIds, other # id
       PROVE  Tally(other, local_orders', exch_pos, to_exch', to_local', book)
  <2>1. Tally(other, local_orders, exch_pos, to_exch, to_local, book)
    BY DEF Tallies
  <2>2. /\ \A x \in On(to_exch') : x.order_id = other => x \in On(to_exch)
        /\ \A x \in On(to_local') : x.order_id = other => x \in On(to_local)
    BY <1>2, <1>3, <1>10
  <2>3. CASE other \in DOMAIN local_orders
    <3>1. Counted(other, local_orders[other].side, local_orders[other].qty,
                  local_orders[other].status, exch_pos[other], On(to_exch), On(to_local), book)
      BY <2>1, <2>3 DEF Tally
    <3>2. Counted(other, local_orders[other].side, local_orders[other].qty,
                  local_orders[other].status, exch_pos[other], On(to_exch'), On(to_local'), book)
      BY <2>2, <3>1, CountedLess
    <3>3. QED
      BY <1>4, <1>10, <2>3, <3>2 DEF Tally
  <2>4. CASE other \notin DOMAIN local_orders
    BY <1>4, <1>10, <2>1, <2>2, <2>4 DEF Tally, Uncounted
  <2>5. QED
    BY <2>3, <2>4
<1>11. QED
  BY <1>5, <1>8, <1>9, <1>10, TalliesNext

\* The strategy is told.
LEMMA HearsTallies ==
    ASSUME Inv, Tallies, Hears
    PROVE  Tallies'
<1> DEFINE resp == Head(to_local).order
           who == resp.order_id
<1>1. /\ Heard(resp) /\ resp \in Order /\ On(to_local) = On(to_local') \cup {resp}
      /\ to_exch' = to_exch
      /\ \A id \in DOMAIN local_orders :
            local_orders[id] \in Order /\ local_orders[id].order_id = id
  BY HearsHeard
<1>2. book' = book /\ exch_pos' = exch_pos
  BY DEF Hears
<1> HIDE DEF resp
<1>3. \A x \in On(to_local') : x \in On(to_local)
  BY <1>1
<1>4. ASSUME NEW id \in OrderIds
      PROVE  Tally(id, local_orders', exch_pos, to_exch, to_local', book)
  <2>1. Tally(id, local_orders, exch_pos, to_exch, to_local, book)
    BY DEF Tallies
  <2>2. CASE id \notin DOMAIN local_orders
    <3>1. Uncounted(id, exch_pos[id], On(to_exch), On(to_local), book) /\ id # who
      BY <1>1, <2>1, <2>2 DEF Tally, Uncounted
    <3>2. id \notin DOMAIN local_orders'
      BY <1>1, <2>2, <3>1 DEF Heard
    <3>3. QED
      BY <1>3, <3>1, <3>2 DEF Tally, Uncounted
  <2>3. CASE id \in DOMAIN local_orders
    <3> DEFINE mine == local_orders[id]
    <3>1. Counted(id, mine.side, mine.qty, mine.status, exch_pos[id], On(to_exch), On(to_local), book)
      BY <2>1, <2>3 DEF Tally
    <3>2. Counted(id, mine.side, mine.qty, mine.status, exch_pos[id], On(to_exch), On(to_local'), book)
      BY <1>3, <3>1, CountedLess
    <3>3. CASE id # who
      <4>1. id \in DOMAIN local_orders' /\ local_orders'[id] = mine
        BY <1>1, <2>3, <3>3 DEF Heard
      <4>2. QED
        BY <3>2, <4>1 DEF Tally
    <3>4. CASE id = who
      <4>1. id \in DOMAIN local_orders' /\ local_orders'[id] = Receive(mine, resp)
        BY <1>1, <2>3, <3>4 DEF Heard
      <4> DEFINE r == Receive(mine, resp)
      <4>2. mine \in Order
        BY <1>1, <2>3
      <4>3. /\ resp.side = mine.side /\ resp.qty = mine.qty
            /\ resp.req # "Rejected" /\ resp.status = "Filled" =>
                  Whole(mine.side, mine.qty, exch_pos[id])
        BY <1>1, <3>1, <3>4 DEF Counted
      <4> HIDE DEF mine
      <4>4. /\ r.side = mine.side /\ r.qty = mine.qty
            /\ r.status = "Filled" => Whole(mine.side, mine.qty, exch_pos[id])
        <5>1. mine.status = "Filled" => Whole(mine.side, mine.qty, exch_pos[id])
          BY <3>1 DEF Counted
        <5>2. QED
          BY <1>1, <4>2, <4>3, <5>1, ReceiveSays DEF SameTerms, Same
      <4> HIDE DEF r
      <4>5. Counted(id, r.side, r.qty, r.status, exch_pos[id], On(to_exch), On(to_local'), book)
        BY <3>2, <4>4 DEF Counted
      <4>6. QED
        BY <4>1, <4>5 DEF Tally, r
    <3>5. QED
      BY <3>3, <3>4
  <2>4. QED
    BY <2>2, <2>3
<1>5. EnteredOnce(to_exch')
  BY <1>1 DEF Tallies
<1>6. QED
  BY <1>1, <1>2, <1>4, <1>5, TalliesNext


\* An answer is about one order.
LEMMA AnswersOthers ==
    ASSUME NEW a, NEW o, Answers(a, book, o), NEW id, id # o.order_id
    PROVE  /\ id \in Ids(a.book) <=> id \in Ids(book)
           /\ id \in Ids(book) => a.book.orders[id] = book.orders[id]
<1> DEFINE out == Withdraw(book, {o.order_id})
<1>1. /\ Ids(out) = Ids(book) \ {o.order_id}
      /\ \A i \in Ids(book) \ {o.order_id} : out.orders[i] = book.orders[i]
  BY WithdrawLeaves
<1> HIDE DEF out
<1>2. ASSUME NEW b, Accepts(a, b, o), o.order_id \notin Ids(b)
      PROVE  /\ id \in Ids(a.book) <=> id \in Ids(b)
             /\ id \in Ids(b) => a.book.orders[id] = b.orders[id]
  <2>1. a.order.order_id = o.order_id
    BY <1>2 DEF Accepts, SameTerms, Same
  <2>2. CASE a.book = b
    BY <2>2
  <2>3. CASE a.book = Insert(b, a.order)
    BY <1>2, <2>1, <2>3, InsertAdds
  <2>4. QED
    BY <1>2, <2>2, <2>3 DEF Accepts
<1>3. CASE Refuses(a, book, o)
  BY <1>3 DEF Refuses
<1>4. CASE o.order_id \notin Ids(book) /\ Accepts(a, book, o)
  BY <1>2, <1>4
<1>5. CASE Cancels(a, book, o)
  BY <1>1, <1>5 DEF Cancels, out
<1>6. CASE Amends(a, book, o)
  BY <1>6 DEF Amends
<1>7. CASE Accepts(a, Withdraw(book, {o.order_id}), o)
  <2>1. o.order_id \notin Ids(out)
    BY <1>1
  <2>2. /\ id \in Ids(a.book) <=> id \in Ids(out)
        /\ id \in Ids(out) => a.book.orders[id] = out.orders[id]
    BY <1>2, <1>7, <2>1 DEF out
  <2>3. QED
    BY <1>1, <2>2
<1>8. QED
  BY <1>3, <1>4, <1>5, <1>6, <1>7 DEF Answers

\* The order a request is for.
LEMMA CountedAnswer ==
    ASSUME Inv, NEW a, NEW o, a.order \in Order, Answers(a, book, o),
           NEW id \in OrderIds, id = o.order_id,
           NEW s, NEW q, NEW st, NEW pos, NEW reqs, NEW bus, o \in reqs,
           Counted(id, s, q, st, pos, reqs, bus, book),
           NEW rest, rest \subseteq reqs,
           o.req = "New" => \A x \in rest : x.order_id = id => x.req # "New"
    PROVE  Counted(id, s, q, st, IF a.executed THEN pos + Sign(s) * a.order.exec_qty ELSE pos,
                   rest, bus \cup {ToPlain(a.order)}, a.book)
<1> DEFINE r == ToPlain(a.order)
           out == Withdraw(book, {id})
<1>1. /\ r.side = a.order.side /\ r.qty = a.order.qty /\ r.status = a.order.status
      /\ r.req = a.order.req
  BY PlainSays DEF SameTerms, Same
<1>2. Counted(id, s, q, st, pos, rest, bus, book)
  BY CountedLess
<1>3. /\ s \in Sides /\ q \in Nat /\ pos \in Int
      /\ o.side = s /\ o.qty = q /\ o.req \in {"New", "Canceled"}
      /\ o.req = "New" => o.leaves_qty = q /\ Sign(s) * pos = 0
  BY DEF Counted
<1> HIDE DEF r
<1>4. CASE Refuses(a, book, o)
  <2>1. a.book = book /\ ~a.executed /\ r.req = "Rejected" /\ r.side = s /\ r.qty = q
    BY <1>1, <1>3, <1>4 DEF Refuses, SameTerms, Same
  <2>2. QED
    BY <1>2, <2>1, CountedTold DEF r
<1>5. CASE o.req = "New" /\ id \notin Ids(book) /\ Accepts(a, book, o)
  <2>1. /\ r.side = s /\ r.qty = q /\ a.order.order_id = id
        /\ a.order.side = s /\ a.order.qty = q
    BY <1>1, <1>3, <1>5 DEF Accepts, SameTerms, Same
  <2>2. CASE /\ a.order.status = "Filled" /\ a.book = book /\ a.executed
             /\ a.order.exec_qty = o.leaves_qty
    <3> DEFINE more == pos + Sign(s) * a.order.exec_qty
    <3>1. a.order.exec_qty = q
      BY <1>3, <1>5, <2>2
    <3>2. more \in Int /\ Sign(s) * more = Sign(s) * pos + q
      <4>1. more = pos + Sign(s) * q
        BY <3>1
      <4>2. s \in Sides /\ pos \in Int /\ q \in Int
        BY <1>3
      <4> HIDE DEF more
      <4>3. pos + Sign(s) * q \in Int /\ Sign(s) * (pos + Sign(s) * q) = Sign(s) * pos + q
        BY <4>2, SignTimes
      <4>4. QED
        BY <4>1, <4>3
    <3>3. Sign(s) * more = q
      BY <1>3, <1>5, <3>2
    <3> HIDE DEF more
    <3>4. LotSize \in Nat /\ LotSize > 0
      BY OrdersAssumption
    <3>5. Whole(s, q, more)
      BY <1>3, <3>3, <3>4 DEF Whole
    <3>6. 0 <= Sign(s) * more /\ Sign(s) * more <= q
      BY <1>3, <3>3
    <3>7. /\ \A x \in rest : x.order_id = id =>
                x.side = s /\ x.qty = q /\ x.req \in {"New", "Canceled"} /\ x.req # "New"
          /\ \A x \in bus : x.order_id = id => x.side = s /\ x.qty = q
      BY <1>2, <1>5 DEF Counted
    <3>8. Counted(id, s, q, st, more, rest, bus \cup {r}, book)
      BY <1>3, <1>5, <2>1, <3>2, <3>5, <3>6, <3>7 DEF Counted
    <3>9. QED
      BY <2>2, <3>8 DEF r, more
  <2>3. CASE /\ a.order.status = "New" /\ a.book = Insert(book, a.order) /\ ~a.executed
             /\ a.order.leaves_qty = o.leaves_qty
    <3>1. id \in Ids(a.book) /\ a.book.orders[id] = a.order
      BY <1>5, <2>1, <2>3, InsertAdds
    <3>2. Counted(id, s, q, st, pos, rest, bus \cup {r}, book)
      BY <1>1, <1>2, <2>1, <2>3, CountedTold
    <3>3. Sign(s) * pos + a.order.leaves_qty = q
      BY <1>3, <1>5, <2>3
    <3>4. \A x \in rest : x.order_id = id => x.req # "New"
      BY <1>5
    <3>5. Counted(id, s, q, st, pos, rest, bus \cup {r}, a.book)
      BY <2>1, <3>1, <3>2, <3>3, <3>4 DEF Counted
    <3>6. QED
      BY <2>3, <3>5 DEF r
  <2>4. CASE a.order.status = "Expired" /\ a.book = book /\ ~a.executed
    BY <1>1, <1>2, <2>1, <2>4, CountedTold DEF r
  <2>5. QED
    BY <1>5, <2>2, <2>3, <2>4 DEF Accepts
<1>6. CASE o.req = "Canceled" /\ id \in Ids(book) /\ Cancels(a, book, o)
  <2>1. /\ a.order.side = book.orders[id].side /\ a.order.qty = book.orders[id].qty
        /\ a.order.status = "Canceled" /\ ~a.executed /\ a.book = out
    BY <1>6 DEF Cancels, SameTerms, Same
  <2>2. book.orders[id].side = s /\ book.orders[id].qty = q
    BY <1>6 DEF Counted
  <2>3. id \notin Ids(a.book)
    BY <2>1, WithdrawLeaves
  <2>4. Counted(id, s, q, st, pos, rest, bus \cup {r}, book)
    BY <1>1, <1>2, <2>1, <2>2, CountedTold
  <2>5. Counted(id, s, q, st, pos, rest, bus \cup {r}, a.book)
    BY <2>3, <2>4, CountedLeaves
  <2>6. QED
    BY <2>1, <2>5 DEF r
<1>7. QED
  BY <1>3, <1>4, <1>5, <1>6 DEF Answers

\* Another order, of which nothing changes.
LEMMA TallyOther ==
    ASSUME NEW id, NEW orders, NEW pos, NEW reqs, NEW bus, NEW b,
           Tally(id, orders, pos, reqs, bus, b),
           NEW pos2, pos2[id] = pos[id],
           NEW reqs2, \A x \in On(reqs2) : x.order_id = id => x \in On(reqs),
           NEW bus2, \A x \in On(bus2) : x.order_id = id => x \in On(bus),
           NEW b2, id \in Ids(b2) <=> id \in Ids(b),
           id \in Ids(b) => /\ b2.orders[id].side = b.orders[id].side
                            /\ b2.orders[id].qty = b.orders[id].qty
                            /\ b2.orders[id].leaves_qty = b.orders[id].leaves_qty
    PROVE  Tally(id, orders, pos2, reqs2, bus2, b2)
<1>1. CASE id \in DOMAIN orders
  <2>1. Counted(id, orders[id].side, orders[id].qty, orders[id].status, pos[id],
                On(reqs2), On(bus2), b)
    BY <1>1, CountedLess DEF Tally
  <2>2. Counted(id, orders[id].side, orders[id].qty, orders[id].status, pos[id],
                On(reqs2), On(bus2), b2)
    BY <2>1 DEF Counted
  <2>3. QED
    BY <1>1, <2>2 DEF Tally
<1>2. CASE id \notin DOMAIN orders
  BY <1>2 DEF Tally, Uncounted
<1>3. QED
  BY <1>1, <1>2

\* The exchange answers.
LEMMA AnsweredTallies ==
    ASSUME Inv, Tallies, Answered
    PROVE  Tallies'
<1> DEFINE o == Head(to_exch).order
           who == o.order_id
<1>1. /\ to_exch' = Tail(to_exch) /\ to_exch # <<>> /\ local_orders' = local_orders
  BY DEF Answered
<1>2. PICK a, new : Replies(a, new)
  BY DEF Answered
<1>3. On(to_exch) = On(to_exch') \cup {o} /\ o \in Order
  BY <1>1, BusFacts, OnTail DEF Plain
<1>4. On(to_local') = On(to_local) \cup {ToPlain(a.order)}
  BY <1>2, OnReplies
<1>5. /\ Answers(a, book, o) /\ book' = a.book /\ a.order \in Order
      /\ exch_pos' = IF a.executed THEN ApplyFill(exch_pos, a.order) ELSE exch_pos
  BY <1>2 DEF Replies
<1>6. /\ EnteredOnce(to_exch')
      /\ o.req = "New" => \A x \in On(to_exch') : x.order_id = who => x.req # "New"
  BY <1>1, BusFacts, EnteredLess DEF Tallies
<1> HIDE DEF o
<1>7. /\ exch_pos \in [OrderIds -> Int] /\ who \in OrderIds /\ BookOK(book)
  BY <1>3 DEF Inv, ExchTyped, Order
<1>8. Tally(who, local_orders, exch_pos, to_exch, to_local, book)
  BY <1>7 DEF Tallies
<1>9. who \in DOMAIN local_orders
  BY <1>3, <1>8 DEF Tally, Uncounted
<1> DEFINE mine == local_orders[who]
<1>10. Counted(who, mine.side, mine.qty, mine.status, exch_pos[who], On(to_exch), On(to_local), book)
  BY <1>8, <1>9 DEF Tally
<1>11. a.order.order_id = who /\ (a.executed => a.order.side = mine.side)
  <2>1. o.req \in Requested /\ o.side = mine.side
    BY <1>3, <1>10 DEF Counted, Requested
  <2>2. a.order.order_id = who
    BY <1>5, <1>7, <2>1, AnswersSay
  <2>3. a.executed => SameTerms(a.order, o)
    BY <1>5 DEF Answers, Refuses, Accepts, Cancels, Amends
  <2>4. QED
    BY <2>1, <2>2, <2>3 DEF SameTerms, Same
<1>12. /\ exch_pos'[who] = IF a.executed THEN exch_pos[who] + Sign(mine.side) * a.order.exec_qty
                           ELSE exch_pos[who]
       /\ \A id \in OrderIds : id # who => exch_pos'[id] = exch_pos[id]
  BY <1>5, <1>7, <1>11 DEF ApplyFill
<1>13. Tally(who, local_orders, exch_pos', to_exch', to_local', book')
  <2>1. Counted(who, mine.side, mine.qty, mine.status,
                IF a.executed THEN exch_pos[who] + Sign(mine.side) * a.order.exec_qty
                ELSE exch_pos[who],
                On(to_exch'), On(to_local) \cup {ToPlain(a.order)}, a.book)
    BY <1>3, <1>5, <1>6, <1>7, <1>10, CountedAnswer
  <2>2. QED
    BY <1>4, <1>5, <1>9, <1>12, <2>1 DEF Tally
<1>14. ASSUME NEW id \in OrderIds, id # who
       PROVE  Tally(id, local_orders, exch_pos', to_exch', to_local', book')
  <2>1. Tally(id, local_orders, exch_pos, to_exch, to_local, book)
    BY DEF Tallies
  <2>2. /\ id \in Ids(book') <=> id \in Ids(book)
        /\ id \in Ids(book) => book'.orders[id] = book.orders[id]
    BY <1>5, <1>14, AnswersOthers
  <2>3. ToPlain(a.order).order_id = who
    BY <1>5, <1>11, PlainSays DEF SameTerms, Same
  <2>4. /\ \A x \in On(to_exch') : x.order_id = id => x \in On(to_exch)
        /\ \A x \in On(to_local') : x.order_id = id => x \in On(to_local)
    BY <1>3, <1>4, <1>14, <2>3
  <2>5. QED
    BY <1>12, <1>14, <2>1, <2>2, <2>4, TallyOther
<1>15. QED
  BY <1>1, <1>6, <1>13, <1>14, TalliesNext

\* The exchange executes orders.
LEMMA ExecutedTallies ==
    ASSUME Inv, Tallies, Executed
    PROVE  Tallies'
<1>1. PICK fills, new, ts :
         /\ Event(fills, ts) /\ Tells(fills, new) /\ to_local' = to_local \o new
         /\ exch_pos' = ApplyFills(exch_pos, fills)
  BY DEF Executed
<1>2. to_exch' = to_exch /\ local_orders' = local_orders
  BY DEF Executed
<1>3. On(to_local') = On(to_local) \cup {ToPlain(fills[id]) : id \in DOMAIN fills}
  BY <1>1, OnTells
<1>4. exch_pos \in [OrderIds -> Int] /\ BookOK(book) /\ Ids(book) \subseteq OrderIds
  BY DEF Inv, ExchTyped, BookOK, IsBook, IsOrderMap, Ids
<1>5. ASSUME NEW id \in DOMAIN fills
      PROVE  /\ id \in Ids(book) /\ Takes(fills[id], book.orders[id])
             /\ fills[id] \in Order /\ fills[id].order_id = id
             /\ ToPlain(fills[id]).order_id = id /\ book.orders[id] \in Order
             /\ id \in Ids(book') => fills[id].status # "Filled" /\ book'.orders[id] = fills[id]
  <2>1. Takes(fills[id], book.orders[id]) /\ id \in Ids(book)
    BY <1>1 DEF Event
  <2>2. book.orders[id].order_id = id /\ book.orders[id] \in Order
    BY <1>4, <2>1 DEF BookOK, IsBook, IsOrderMap, Ids
  <2>3. fills[id] \in Order /\ fills[id].order_id = id
    BY <2>1, <2>2, TakesSays
  <2>4. id \in Ids(book') => fills[id].status # "Filled" /\ book'.orders[id] = fills[id]
    BY <1>1 DEF Event
  <2>5. QED
    BY <2>1, <2>2, <2>3, <2>4, PlainSays DEF SameTerms, Same
<1>6. ASSUME NEW id \in OrderIds
      PROVE  Tally(id, local_orders, exch_pos', to_exch, to_local', book')
  <2>1. Tally(id, local_orders, exch_pos, to_exch, to_local, book)
    BY DEF Tallies
  <2>2. CASE id \notin DOMAIN fills
    <3>1. exch_pos'[id] = exch_pos[id]
      BY <1>1, <1>4, <2>2 DEF ApplyFills
    <3>2. \A x \in On(to_local') : x.order_id = id => x \in On(to_local)
      BY <1>3, <1>5, <2>2
    <3>3. /\ id \in Ids(book') <=> id \in Ids(book)
          /\ id \in Ids(book) => SameButQueue(book'.orders[id], book.orders[id])
      BY <1>1, <2>2 DEF Event
    <3>4. QED
      BY <2>1, <3>1, <3>2, <3>3, TallyOther DEF SameButQueue, SameTerms, Same
  <2>3. CASE id \in DOMAIN fills
    <3> DEFINE f == fills[id]
               r == ToPlain(f)
               mine == local_orders[id]
    <3>1. /\ id \in Ids(book) /\ Takes(f, book.orders[id]) /\ f \in Order
          /\ book.orders[id] \in Order
          /\ id \in Ids(book') => f.status # "Filled" /\ book'.orders[id] = f
      BY <1>5, <2>3
    <3>2. id \in DOMAIN local_orders
      BY <2>1, <3>1 DEF Tally, Uncounted
    <3>3. Counted(id, mine.side, mine.qty, mine.status, exch_pos[id], On(to_exch), On(to_local), book)
      BY <2>1, <3>2 DEF Tally
    <3>4. f.side = mine.side
      BY <3>1, <3>3 DEF Takes, Executes, SameTerms, Same, Counted
    <3>5. exch_pos'[id] = exch_pos[id] + Sign(mine.side) * f.exec_qty
      BY <1>1, <1>4, <2>3, <3>4 DEF ApplyFills
    <3>6. r.side = f.side /\ r.qty = f.qty /\ r.status = f.status
      BY <3>1, PlainSays DEF SameTerms, Same
    <3>7. book.orders[id].leaves_qty \in Nat
      BY <3>1 DEF Order
    <3> HIDE DEF f, mine, r
    <3>8. Counted(id, mine.side, mine.qty, mine.status, exch_pos'[id],
                  On(to_exch), On(to_local) \cup {r}, book')
      <4>1. /\ id \in Ids(book) /\ book.orders[id].leaves_qty \in Nat
            /\ Takes(f, book.orders[id])
            /\ r.side = f.side /\ r.qty = f.qty /\ r.status = f.status
        BY <3>1, <3>6, <3>7
      <4>2. id \in Ids(book') => f.status # "Filled" /\ book'.orders[id] = f
        BY <3>1
      <4>3. Counted(id, mine.side, mine.qty, mine.status,
                    exch_pos[id] + Sign(mine.side) * f.exec_qty,
                    On(to_exch), On(to_local) \cup {r}, book')
        BY <3>3, <4>1, <4>2, CountedFills
      <4>4. QED
        BY <3>5, <4>3
    <3>9. \A x \in On(to_local') : x.order_id = id => x \in On(to_local) \cup {r}
      BY <1>3, <1>5 DEF r, f
    <3>10. Counted(id, mine.side, mine.qty, mine.status, exch_pos'[id],
                   On(to_exch), On(to_local'), book')
      BY <3>8, <3>9, CountedLess
    <3>11. QED
      BY <3>2, <3>10 DEF Tally, mine
  <2>4. QED
    BY <2>2, <2>3
<1>7. QED
  BY <1>2, <1>6, TalliesNext DEF Tallies

LEMMA TalliesAcknowledged ==
    ASSUME Inv, Tallies
    PROVE  Acknowledgeable
<1> SUFFICES ASSUME to_exch # <<>>
             PROVE  LET o == Head(to_exch).order IN o.req = "Canceled" \/ o.status \notin Terminal
  BY DEF Acknowledgeable
<1> DEFINE o == Head(to_exch).order
           id == o.order_id
<1>1. o \in On(to_exch) /\ id \in OrderIds
  BY BusFacts, OnTail DEF Plain, Order
<1>2. Tally(id, local_orders, exch_pos, to_exch, to_local, book)
  BY <1>1 DEF Tallies
<1>3. QED
  BY <1>1, <1>2 DEF Tally, Counted, Uncounted, Terminal

\* Every step.
LEMMA TalliesStep ==
    ASSUME Inv, Resting, OnlyCancels, Tallies, [Next]_vars
    PROVE  Tallies'
<1>1. ~Forgets
  BY DEF Forgets, OnlyCancels
<1>2. ASSUME Rests PROVE Tallies'
  BY <1>2, TalliesNext DEF Rests, Tallies
<1>3. QED
  BY <1>1, <1>2, TalliesAcknowledged, KindsOfSteps, SeeksTallies, HearsTallies,
     AnsweredTallies, ExecutedTallies

LEMMA TalliesInit == Init => Tallies
<1> SUFFICES ASSUME Init PROVE Tallies
  OBVIOUS
<1>1. /\ to_exch = <<>> /\ to_local = <<>> /\ DOMAIN local_orders = {} /\ Ids(book) = {}
      /\ exch_pos = [id \in OrderIds |-> 0]
  BY DEF Init, LocalInit, ExchInit, EmptyBook, Ids
<1>2. 1..0 = {}
  OBVIOUS
<1>3. On(to_exch) = {} /\ On(to_local) = {}
  BY <1>1, <1>2 DEF On
<1>4. EnteredOnce(to_exch)
  BY <1>1, <1>2 DEF EnteredOnce
<1>5. QED
  BY <1>1, <1>3, <1>4 DEF Tallies, Tally, Uncounted

LEMMA TalliesHold == ASSUME OnlyCancels PROVE Spec => []Tallies
<1>1. Inv /\ Resting /\ Tallies /\ [Next]_vars => Tallies'
  BY TalliesStep
<1>2. QED
  BY <1>1, TalliesInit, InvHolds, RestingHolds, PTL DEF Spec

\* fill and apply_fill: what was executed of an order that rests and what is left of
\* it make up its quantity, after any sequence of partial fills.
THEOREM NothingLost == ASSUME OnlyCancels PROVE Spec => []FillsConserved
<1>1. Inv /\ Tallies => FillsConserved
  BY TalliesImply
<1>2. QED
  BY <1>1, InvHolds, TalliesHold, PTL

\* The same handlers never execute more of an order than was asked for, however its
\* fills and a cancel cross on the way.
THEOREM NeverOverfilled == ASSUME OnlyCancels PROVE Spec => []NoOverfill
<1>1. Inv /\ Tallies => NoOverfill
  BY TalliesImply
<1>2. QED
  BY <1>1, InvHolds, TalliesHold, PTL

\* An order the strategy sees as filled lacks less than half a lot of its quantity.
THEOREM FilledMeansFilled == ASSUME OnlyCancels PROVE Spec => []FilledUpToHalfALot
<1>1. Inv /\ Tallies => FilledUpToHalfALot
  BY TalliesImply
<1>2. QED
  BY <1>1, InvHolds, TalliesHold, PTL

-----------------------------------------------------------------------------
(* The strategy's position: what was executed, less what is on its way.     *)

\* What the entries of a bus add to the position in one order, entry by entry.
Adding(run, bus, id) ==
    /\ run \in [0..Len(bus) -> Int] /\ run[0] = 0
    /\ \A n \in 1..Len(bus) : run[n] = run[n - 1] + FillOf(bus[n].order, id)

Adds(bus, id, sum) == \E run : Adding(run, bus, id) /\ run[Len(bus)] = sum

LEMMA FillOfInt ==
    ASSUME NEW o \in Order, NEW id
    PROVE  FillOf(o, id) \in Int
<1>1. o.side \in Sides /\ o.exec_qty \in Int /\ 0 \in Int
  BY DEF Order
<1>2. Sign(o.side) * o.exec_qty \in Int
  <2>1. 0 + Sign(o.side) * o.exec_qty \in Int
    BY <1>1, SignTimes
  <2>2. CASE o.side = "Buy"
    BY <1>1, <2>2 DEF Sign
  <2>3. CASE o.side # "Buy"
    BY <1>1, <2>3 DEF Sign
  <2>4. QED
    BY <2>2, <2>3
<1>3. QED
  BY <1>2 DEF FillOf

\* FillsUpto is the only way of adding up: the first entry where another one differs
\* would differ from the one before it.
LEMMA AddsUp ==
    ASSUME NEW bus \in Seq(Entry), NEW id, NEW sum, Adds(bus, id, sum)
    PROVE  FillsUpto(bus, id)[Len(bus)] = sum
<1> DEFINE total == FillsUpto(bus, id)
<1>1. PICK run : Adding(run, bus, id) /\ run[Len(bus)] = sum
  BY DEF Adds
<1>2. Len(bus) \in Nat
  BY LenProperties
<1>3. run = [n \in 0..Len(bus) |-> IF n = 0 THEN 0 ELSE run[n - 1] + FillOf(bus[n].order, id)]
  BY <1>1, <1>2 DEF Adding
<1>4. total = [n \in 0..Len(bus) |-> IF n = 0 THEN 0 ELSE total[n - 1] + FillOf(bus[n].order, id)]
  <2>1. \E t : t = [n \in 0..Len(bus) |-> IF n = 0 THEN 0 ELSE t[n - 1] + FillOf(bus[n].order, id)]
    BY <1>3
  <2>2. total = CHOOSE t :
          t = [n \in 0..Len(bus) |-> IF n = 0 THEN 0 ELSE t[n - 1] + FillOf(bus[n].order, id)]
    BY DEF FillsUpto
  <2>3. QED
    BY <2>1, <2>2
<1> HIDE DEF total
<1>5. ASSUME NEW n \in 0..Len(bus), total[n] # run[n]
      PROVE  FALSE
  <2> DEFINE Wrong == {k \in 0..Len(bus) : total[k] # run[k]}
  <2>1. Wrong \in SUBSET Nat /\ Wrong # {}
    BY <1>2, <1>5
  <2>2. PICK k \in Wrong : \A l \in Wrong : k <= l
    BY <2>1, LeastElement
  <2>3. k \in 0..Len(bus) /\ total[k] # run[k]
    BY <2>2
  <2>4. k # 0
    BY <1>1, <1>2, <1>4, <2>3 DEF Adding
  <2>5. k - 1 \in 0..Len(bus) /\ k \in 1..Len(bus) /\ ~(k <= k - 1)
    BY <1>2, <2>3, <2>4
  <2>6. total[k - 1] = run[k - 1]
    BY <2>2, <2>5
  <2>7. total[k] = total[k - 1] + FillOf(bus[k].order, id)
    BY <1>4, <2>3, <2>4
  <2>8. run[k] = run[k - 1] + FillOf(bus[k].order, id)
    BY <1>1, <2>5 DEF Adding
  <2>9. QED
    BY <2>3, <2>6, <2>7, <2>8
<1>6. QED
  BY <1>1, <1>2, <1>5 DEF total

\* Taking the front.
LEMMA AddsTail ==
    ASSUME NEW bus \in Seq(Entry), bus # <<>>, NEW id, NEW sum \in Int, Adds(bus, id, sum)
    PROVE  Adds(Tail(bus), id, sum - FillOf(Head(bus).order, id))
<1> DEFINE rest == Tail(bus)
           front == FillOf(Head(bus).order, id)
           shifted(run) == [n \in 0..Len(rest) |-> run[n + 1] - front]
<1>1. PICK run : Adding(run, bus, id) /\ run[Len(bus)] = sum
  BY DEF Adds
<1>2. /\ Len(bus) \in Nat /\ Len(rest) = Len(bus) - 1 /\ Head(bus) = bus[1] /\ 1 \in 1..Len(bus)
      /\ \A i \in 1..Len(rest) : rest[i] = bus[i + 1] /\ i + 1 \in 1..Len(bus)
      /\ Head(bus) \in Entry
  BY TailAt
<1>3. front \in Int
  BY <1>2, FillOfInt DEF Entry
<1>4. run[0] = 0 /\ run[1] = run[1 - 1] + FillOf(bus[1].order, id)
  BY <1>1, <1>2 DEF Adding
<1>5. run[1] = front
  BY <1>2, <1>3, <1>4
<1>6. ASSUME NEW n \in 1..Len(rest)
      PROVE  run[n + 1] = run[n] + FillOf(rest[n].order, id)
  <2>1. n + 1 \in 1..Len(bus) /\ (n + 1) - 1 = n /\ rest[n] = bus[n + 1]
    BY <1>2
  <2>2. run[n + 1] = run[(n + 1) - 1] + FillOf(bus[n + 1].order, id)
    BY <1>1, <2>1 DEF Adding
  <2>3. QED
    BY <2>1, <2>2
<1> HIDE DEF front, rest
<1>7. \A n \in 0..Len(rest) : n + 1 \in 0..Len(bus) /\ run[n + 1] \in Int
  BY <1>1, <1>2 DEF Adding
<1>8. shifted(run) \in [0..Len(rest) -> Int] /\ shifted(run)[0] = 0
  BY <1>2, <1>3, <1>5, <1>7
<1>9. ASSUME NEW n \in 1..Len(rest)
      PROVE  shifted(run)[n] = shifted(run)[n - 1] + FillOf(rest[n].order, id)
  <2>1. n \in 0..Len(rest) /\ n - 1 \in 0..Len(rest) /\ (n - 1) + 1 = n
    BY <1>2
  <2>2. shifted(run)[n] = run[n + 1] - front /\ shifted(run)[n - 1] = run[n] - front
    BY <2>1
  <2>3. run[n] \in Int /\ rest[n] \in Entry
    BY <1>1, <1>2, <1>7, <2>1, ElementOfSeq DEF Adding
  <2>4. FillOf(rest[n].order, id) \in Int
    BY <2>3, FillOfInt DEF Entry
  <2>5. QED
    BY <1>3, <1>6, <2>2, <2>3, <2>4
<1>10. shifted(run)[Len(rest)] = sum - front
  BY <1>1, <1>2
<1>11. Adding(shifted(run), rest, id)
  BY <1>8, <1>9 DEF Adding
<1>12. QED
  BY <1>10, <1>11 DEF Adds, front, rest

\* Joining entries of which at most one, the k-th, is about the order.
LEMMA AddsJoin ==
    ASSUME NEW bus \in Seq(Entry), NEW new \in Seq(Entry), NEW id, NEW sum \in Int,
           Adds(bus, id, sum), NEW k \in Nat, NEW more \in Int,
           k = 0 => more = 0, k # 0 => k \in 1..Len(new) /\ FillOf(new[k].order, id) = more,
           \A l \in 1..Len(new) : l # k => FillOf(new[l].order, id) = 0
    PROVE  Adds(bus \o new, id, sum + more)
<1> DEFINE all == bus \o new
           further(run) == [n \in 0..Len(all) |->
              IF n <= Len(bus) THEN run[n] ELSE IF n < Len(bus) + k THEN sum ELSE sum + more]
<1>1. PICK run : Adding(run, bus, id) /\ run[Len(bus)] = sum
  BY DEF Adds
<1>2. Behind(all, bus, new)
  BY JoinAt
<1> HIDE DEF all
<1>3. /\ Len(bus) \in Nat /\ Len(new) \in Nat /\ Len(all) = Len(bus) + Len(new)
      /\ run \in [0..Len(bus) -> Int]
  BY <1>1, <1>2 DEF Adding, Behind
<1>4. further(run) \in [0..Len(all) -> Int]
  BY <1>3
<1>5. further(run)[0] = 0
  BY <1>1, <1>3 DEF Adding
<1>6. ASSUME NEW n \in 1..Len(all)
      PROVE  further(run)[n] = further(run)[n - 1] + FillOf(all[n].order, id)
  <2>1. n \in 0..Len(all) /\ n - 1 \in 0..Len(all)
    BY <1>3
  <2>2. CASE n <= Len(bus)
    <3>1. n \in 1..Len(bus) /\ n - 1 <= Len(bus)
      BY <1>3, <2>2
    <3>2. all[n] = bus[n] /\ run[n] = run[n - 1] + FillOf(bus[n].order, id)
      BY <1>1, <1>2, <3>1 DEF Adding, Behind
    <3>3. further(run)[n] = run[n] /\ further(run)[n - 1] = run[n - 1]
      BY <2>1, <2>2, <3>1
    <3>4. QED
      BY <3>2, <3>3
  <2>3. CASE ~(n <= Len(bus))
    <3> DEFINE l == n - Len(bus)
    <3>1. l \in 1..Len(new) /\ all[n] = new[l]
      BY <1>2, <1>3, <2>3 DEF Behind
    <3>2. further(run)[n] = IF n < Len(bus) + k THEN sum ELSE sum + more
      BY <2>1, <2>3
    <3>3. further(run)[n - 1] = IF n - 1 < Len(bus) + k /\ ~(k = 0 /\ n - 1 > Len(bus))
                                THEN sum ELSE sum + more
      <4>1. CASE n - 1 <= Len(bus)
        <5>1. n - 1 = Len(bus)
          <6>1. n \in Int /\ Len(bus) \in Int
            BY <1>3, <2>1
          <6>2. QED
            BY <2>3, <4>1, <6>1
        <5>2. further(run)[n - 1] = sum
          BY <1>1, <2>1, <4>1, <5>1
        <5>3. CASE k = 0
          BY <1>3, <5>1, <5>2, <5>3
        <5>4. CASE k # 0
          BY <1>3, <5>1, <5>2, <5>4
        <5>5. QED
          BY <5>3, <5>4
      <4>2. CASE ~(n - 1 <= Len(bus))
        BY <1>3, <2>1, <4>2
      <4>3. QED
        BY <4>1, <4>2
    <3>4. CASE l = k
      <4>1. FillOf(all[n].order, id) = more
        BY <3>1, <3>4, <1>3
      <4>2. further(run)[n] = sum + more /\ further(run)[n - 1] = sum
        BY <1>3, <3>1, <3>2, <3>3, <3>4
      <4>3. QED
        BY <4>1, <4>2
    <3>5. CASE l # k
      <4>1. FillOf(all[n].order, id) = 0
        BY <3>1, <3>5
      <4>2. /\ n \in Int /\ Len(bus) \in Int
            /\ k = 0 => ~(n < Len(bus) + k) /\ ~(n - 1 < Len(bus) + k)
            /\ k # 0 => (n < Len(bus) + k <=> n - 1 < Len(bus) + k)
        <5>1. n \in Int /\ Len(bus) \in Int /\ k \in Int /\ k >= 0
          BY <1>3, <2>1
        <5>2. n > Len(bus) /\ n - 1 >= Len(bus)
          BY <2>3, <5>1
        <5>3. n # Len(bus) + k
          BY <3>5, <5>1
        <5>4. QED
          BY <5>1, <5>2, <5>3
      <4>3. further(run)[n] = further(run)[n - 1] /\ further(run)[n] \in Int
        BY <3>2, <3>3, <4>2
      <4>4. QED
        BY <4>1, <4>3
    <3>6. QED
      BY <3>4, <3>5
  <2>4. QED
    BY <2>2, <2>3
<1>7. further(run)[Len(all)] = sum + more
  <2>1. CASE Len(new) = 0
    BY <1>1, <1>3, <2>1
  <2>2. CASE Len(new) # 0
    <3>1. Len(all) \in 0..Len(all) /\ ~(Len(all) <= Len(bus)) /\ ~(Len(all) < Len(bus) + k)
      BY <1>3, <2>2
    <3>2. QED
      BY <3>1
  <2>3. QED
    BY <2>1, <2>2
<1>8. Adding(further(run), all, id)
  BY <1>4, <1>5, <1>6 DEF Adding
<1>9. QED
  BY <1>7, <1>8 DEF Adds, all

\* The strategy never asks for anything about an order that has some of its fills
\* behind it: the exchange fills orders as a whole, or the strategy only submits.
\* A rejection of such a request would carry the order's last fill once more.
Touching == {"cancel", "reprice", "resize"} \cap Requests
FillsAtOnce == (Careful /\ ~PartialFill) \/ Touching = {}

\* Requests and their rejections are of orders that have no fill.
Unfilled ==
    /\ Settled(book)
    /\ \A o \in On(to_exch) : o.status \in {"None", "New"}
    /\ \A o \in On(to_local) : o.req = "Rejected" => o.status \in {"None", "New"}
    /\ Touching # {} =>
          /\ \A o \in On(to_local) : o.status # "PartiallyFilled"
          /\ \A id \in DOMAIN local_orders : local_orders[id].status # "PartiallyFilled"

Positions ==
    /\ Unfilled
    /\ \A id \in OrderIds : Adds(to_local, id, exch_pos[id] - local_pos[id])

LEMMA PositionsAre ==
    ASSUME Inv, Positions
    PROVE  PositionsAgree
<1> SUFFICES ASSUME NEW id \in OrderIds
             PROVE  exch_pos[id] = local_pos[id] + FillsInFlight(id)
  BY DEF PositionsAgree
<1>1. FillsInFlight(id) = exch_pos[id] - local_pos[id]
  BY BusFacts, AddsUp DEF Positions, FillsInFlight
<1>2. exch_pos[id] \in Int /\ local_pos[id] \in Int
  BY DEF Inv, ExchTyped, LocalTyped
<1>3. QED
  BY <1>1, <1>2

LEMMA UnfilledAcknowledged ==
    ASSUME Inv, Unfilled
    PROVE  Acknowledgeable
<1>1. ASSUME to_exch # <<>>
      PROVE  Head(to_exch).order \in On(to_exch)
  BY <1>1, BusFacts, OnTail
<1>2. QED
  BY <1>1 DEF Unfilled, Acknowledgeable, Terminal

LEMMA PositionsNext ==
    ASSUME Settled(book'),
           \A o \in On(to_exch') : o.status \in {"None", "New"},
           \A o \in On(to_local') : o.req = "Rejected" => o.status \in {"None", "New"},
           Touching # {} =>
              /\ \A o \in On(to_local') : o.status # "PartiallyFilled"
              /\ \A id \in DOMAIN local_orders' : local_orders'[id].status # "PartiallyFilled",
           \A id \in OrderIds : Adds(to_local', id, exch_pos'[id] - local_pos'[id])
    PROVE  Positions'
  BY DEF Positions, Unfilled, Settled, Ids, On, Adds, Adding, FillOf

\* The strategy asks.
LEMMA SeeksPositions ==
    ASSUME Inv, FillsAtOnce, Positions, Seeks
    PROVE  Positions'
<1>0. PICK id \in OrderIds : \E o, rejected, asks, new :
         /\ Sought(id, o, rejected) /\ Sends(o, rejected, asks, new)
         /\ local_orders' = Put(local_orders, o)
  BY DEF Seeks
<1>1. PICK o, rejected, asks, new :
         /\ Sought(id, o, rejected) /\ Sends(o, rejected, asks, new)
         /\ local_orders' = Put(local_orders, o)
  BY <1>0
<1>2. \/ On(to_exch') = On(to_exch) \cup {o} /\ On(to_local') = On(to_local)
      \/ On(to_exch') = On(to_exch) /\ On(to_local') = On(to_local) \cup {rejected}
  BY <1>1, OnSends
<1>3. UNCHANGED <<book, exch_pos, local_pos>>
  BY DEF Seeks
<1>4. o.order_id = id /\ rejected.req = "Rejected" /\ rejected.status = o.status
  BY <1>1 DEF Sought
<1>5. o.status \in {"None", "New"}
  <2>1. CASE o.status = "None"
    BY <2>1
  <2>2. CASE o.status # "None"
    <3>1. id \in DOMAIN local_orders /\ Continues(o, rejected, local_orders[id])
      BY <1>1, <2>2 DEF Sought
    <3>2. Touching # {} /\ o.status = local_orders[id].status
      BY <3>1 DEF Continues, Touching
    <3>3. Careful /\ local_orders[id].status # "PartiallyFilled"
      BY <3>1, <3>2 DEF FillsAtOnce, Positions, Unfilled
    <3>4. QED
      BY <3>1, <3>2, <3>3 DEF Continues, Working
  <2>3. QED
    BY <2>1, <2>2
<1>6. /\ DOMAIN local_orders' = DOMAIN local_orders \cup {id} /\ local_orders'[id] = o
      /\ \A other \in DOMAIN local_orders : other # id => local_orders'[other] = local_orders[other]
  BY <1>1, <1>4 DEF Put
<1>7. ASSUME NEW other \in OrderIds
      PROVE  Adds(to_local', other, exch_pos'[other] - local_pos'[other])
  <2> DEFINE sum == exch_pos[other] - local_pos[other]
  <2>1. sum \in Int /\ Adds(to_local, other, sum) /\ sum = sum + 0
    BY DEF Positions, Inv, ExchTyped, LocalTyped
  <2>2. /\ new \in Seq(Entry) /\ to_local' = to_local \o new
        /\ \A l \in 1..Len(new) : new[l].order = rejected
    BY <1>1 DEF Sends
  <2>3. \A l \in 1..Len(new) : l # 0 => FillOf(new[l].order, other) = 0
    BY <1>4, <2>2 DEF FillOf
  <2> HIDE DEF sum
  <2>4. Adds(to_local', other, sum + 0)
    BY <2>1, <2>2, <2>3, BusFacts, AddsJoin
  <2>5. QED
    BY <1>3, <2>1, <2>4 DEF sum
<1>8. Settled(book') /\ \A x \in On(to_exch') : x.status \in {"None", "New"}
  BY <1>2, <1>3, <1>5 DEF Positions, Unfilled
<1>9. \A x \in On(to_local') : x.req = "Rejected" => x.status \in {"None", "New"}
  BY <1>2, <1>4, <1>5 DEF Positions, Unfilled
<1>10. Touching # {} =>
          /\ \A x \in On(to_local') : x.status # "PartiallyFilled"
          /\ \A other \in DOMAIN local_orders' : local_orders'[other].status # "PartiallyFilled"
  BY <1>2, <1>4, <1>5, <1>6 DEF Positions, Unfilled
<1>11. QED
  BY <1>7, <1>8, <1>9, <1>10, PositionsNext

\* The strategy is told: what leaves the bus enters its position.
LEMMA HearsPositions ==
    ASSUME Inv, Positions, Hears
    PROVE  Positions'
<1> DEFINE resp == Head(to_local).order
           who == resp.order_id
<1>1. /\ Heard(resp) /\ resp \in Order /\ On(to_local) = On(to_local') \cup {resp}
      /\ to_local' = Tail(to_local) /\ to_exch' = to_exch
      /\ \A id \in DOMAIN local_orders :
            local_orders[id] \in Order /\ local_orders[id].order_id = id
  BY HearsHeard
<1>2. book' = book /\ exch_pos' = exch_pos /\ to_local # <<>>
  BY DEF Hears
<1>3. local_pos' = IF resp.status \in {"Filled", "PartiallyFilled"}
                   THEN ApplyFill(local_pos, resp) ELSE local_pos
  BY DEF Hears, ProcessResponse
<1>4. local_pos \in [OrderIds -> Int] /\ exch_pos \in [OrderIds -> Int] /\ who \in OrderIds
  BY <1>1 DEF Inv, ExchTyped, LocalTyped, Order
<1>5. resp.req = "Rejected" => resp.status \in {"None", "New"}
  BY <1>1 DEF Positions, Unfilled
<1>6. ASSUME NEW id \in OrderIds
      PROVE  Adds(to_local', id, exch_pos'[id] - local_pos'[id])
  <2> DEFINE sum == exch_pos[id] - local_pos[id]
             front == FillOf(resp, id)
  <2>1. sum \in Int /\ Adds(to_local, id, sum)
    BY <1>4 DEF Positions
  <2>2. front \in Int
    BY <1>1, FillOfInt
  <2>3. local_pos'[id] = local_pos[id] + front
    <3>1. CASE resp.status \in {"Filled", "PartiallyFilled"} /\ id = who
      <4>1. local_pos'[id] = local_pos[id] + Sign(resp.side) * resp.exec_qty
        BY <1>3, <1>4, <3>1 DEF ApplyFill
      <4>2. front = Sign(resp.side) * resp.exec_qty
        BY <1>5, <3>1 DEF FillOf
      <4>3. QED
        BY <4>1, <4>2
    <3>2. CASE ~(resp.status \in {"Filled", "PartiallyFilled"} /\ id = who)
      <4>1. front = 0
        BY <3>2 DEF FillOf
      <4>2. local_pos'[id] = local_pos[id] /\ local_pos[id] \in Int
        BY <1>3, <1>4, <3>2 DEF ApplyFill
      <4>3. QED
        BY <4>1, <4>2
    <3>3. QED
      BY <3>1, <3>2
  <2> HIDE DEF sum
  <2>4. Adds(Tail(to_local), id, sum - FillOf(Head(to_local).order, id))
    BY <1>2, <2>1, BusFacts, AddsTail
  <2> HIDE DEF front, resp
  <2>5. exch_pos'[id] - local_pos'[id] = sum - front
    BY <1>2, <1>4, <2>2, <2>3 DEF sum
  <2>6. QED
    BY <1>1, <2>4, <2>5 DEF front, resp
<1> HIDE DEF resp
<1>7. /\ Settled(book') /\ \A x \in On(to_exch') : x.status \in {"None", "New"}
      /\ \A x \in On(to_local') : x.req = "Rejected" => x.status \in {"None", "New"}
  BY <1>1, <1>2 DEF Positions, Unfilled
<1>8. ASSUME Touching # {}
      PROVE  /\ \A x \in On(to_local') : x.status # "PartiallyFilled"
             /\ \A id \in DOMAIN local_orders' : local_orders'[id].status # "PartiallyFilled"
  <2>1. /\ \A x \in On(to_local) : x.status # "PartiallyFilled"
        /\ \A id \in DOMAIN local_orders : local_orders[id].status # "PartiallyFilled"
    BY <1>8 DEF Positions, Unfilled
  <2>2. resp.status # "PartiallyFilled"
    BY <1>1, <2>1
  <2>3. ASSUME NEW id \in DOMAIN local_orders'
        PROVE  local_orders'[id].status # "PartiallyFilled"
    <3>1. CASE id # who
      BY <1>1, <2>1, <2>3, <3>1 DEF Heard
    <3>2. CASE id = who /\ id \in DOMAIN local_orders
      <4>1. local_orders'[id] = Receive(local_orders[id], resp) /\ local_orders[id] \in Order
        BY <1>1, <3>2 DEF Heard
      <4>2. Receive(local_orders[id], resp).status \in
               {resp.status, local_orders[id].status, "Expired"}
        BY <1>1, <4>1, ReceiveSays
      <4>3. QED
        BY <2>1, <2>2, <3>2, <4>1, <4>2
    <3>3. CASE id = who /\ id \notin DOMAIN local_orders
      <4>1. local_orders'[id] = resp
        BY <1>1, <2>3, <3>3 DEF Heard
      <4>2. QED
        BY <2>2, <4>1
    <3>4. QED
      BY <3>1, <3>2, <3>3
  <2>4. QED
    BY <1>1, <2>1, <2>3
<1>9. QED
  BY <1>6, <1>7, <1>8, PositionsNext

\* The strategy forgets.
LEMMA ForgetsPositions ==
    ASSUME Positions, Forgets
    PROVE  Positions'
<1>1. /\ to_exch' = to_exch /\ to_local' = to_local
      /\ book' = book /\ exch_pos' = exch_pos /\ local_pos' = local_pos
      /\ \A id \in DOMAIN local_orders' :
            id \in DOMAIN local_orders /\ local_orders'[id] = local_orders[id]
  BY ForgetsLess
<1>2. QED
  BY <1>1, PositionsNext DEF Positions, Unfilled

\* What an answer says of fills.
LEMMA AnswersFill ==
    ASSUME NEW a, NEW o, o.status \in {"None", "New"}, Answers(a, book, o)
    PROVE  /\ a.executed => a.order.status = "Filled" /\ a.order.req # "Rejected"
           /\ ~a.executed => a.order.status \notin {"Filled", "PartiallyFilled"}
           /\ a.order.status # "PartiallyFilled"
           /\ a.order.req = "Rejected" => a.order.status \in {"None", "New"}
<1>1. CASE Refuses(a, book, o)
  BY <1>1 DEF Refuses
<1>2. ASSUME NEW b, Accepts(a, b, o)
      PROVE  /\ a.executed => a.order.status = "Filled"
             /\ ~a.executed => a.order.status \notin {"Filled", "PartiallyFilled"}
             /\ a.order.status # "PartiallyFilled" /\ a.order.req = "None"
  BY <1>2 DEF Accepts
<1>3. CASE Cancels(a, book, o)
  BY <1>3 DEF Cancels
<1>4. CASE o.req = "Replaced" /\ Amends(a, book, o)
  BY <1>4 DEF Amends
<1>5. QED
  BY <1>1, <1>2, <1>3, <1>4 DEF Answers

\* The exchange answers: what it executes is on its way.
LEMMA AnsweredPositions ==
    ASSUME Inv, Positions, Answered
    PROVE  Positions'
<1> DEFINE o == Head(to_exch).order
<1>1. /\ to_exch' = Tail(to_exch) /\ to_exch # <<>>
      /\ local_orders' = local_orders /\ local_pos' = local_pos
  BY DEF Answered
<1>2. PICK a, new : Replies(a, new)
  BY DEF Answered
<1>3. On(to_exch) = On(to_exch') \cup {o} /\ o \in Order
  BY <1>1, BusFacts, OnTail DEF Plain
<1> DEFINE r == ToPlain(a.order)
<1>4. On(to_local') = On(to_local) \cup {r}
  BY <1>2, OnReplies
<1>5. /\ Answers(a, book, o) /\ book' = a.book /\ a.order \in Order
      /\ exch_pos' = IF a.executed THEN ApplyFill(exch_pos, a.order) ELSE exch_pos
      /\ new \in Seq(Entry) /\ Len(new) = 1 /\ new[1].order = r /\ to_local' = to_local \o new
  BY <1>2 DEF Replies
<1> HIDE DEF o
<1>6. o.status \in {"None", "New"}
  BY <1>3 DEF Positions, Unfilled
<1>7. /\ a.executed => a.order.status = "Filled" /\ a.order.req # "Rejected"
      /\ ~a.executed => a.order.status \notin {"Filled", "PartiallyFilled"}
      /\ a.order.status # "PartiallyFilled"
      /\ a.order.req = "Rejected" => a.order.status \in {"None", "New"}
  BY <1>5, <1>6, AnswersFill
<1>8. /\ r.order_id = a.order.order_id /\ r.status = a.order.status /\ r.req = a.order.req
      /\ r.side = a.order.side /\ r.exec_qty = a.order.exec_qty /\ r \in Order
  BY <1>5, PlainSays DEF SameTerms, Same, Plain
<1> HIDE DEF r
<1>9. ASSUME NEW id \in OrderIds
      PROVE  Adds(to_local', id, exch_pos'[id] - local_pos'[id])
  <2> DEFINE sum == exch_pos[id] - local_pos[id]
             more == FillOf(r, id)
  <2>1. exch_pos \in [OrderIds -> Int] /\ local_pos \in [OrderIds -> Int]
    BY DEF Inv, ExchTyped, LocalTyped
  <2>2. sum \in Int /\ Adds(to_local, id, sum)
    BY <2>1 DEF Positions
  <2>3. more \in Int
    BY <1>8, FillOfInt
  <2>4. exch_pos'[id] = exch_pos[id] + more
    <3>1. CASE a.executed /\ a.order.order_id = id
      <4>1. exch_pos'[id] = exch_pos[id] + Sign(a.order.side) * a.order.exec_qty
        BY <1>5, <2>1, <3>1 DEF ApplyFill
      <4>2. more = Sign(a.order.side) * a.order.exec_qty
        BY <1>7, <1>8, <3>1 DEF FillOf
      <4>3. QED
        BY <4>1, <4>2
    <3>2. CASE ~(a.executed /\ a.order.order_id = id)
      <4>1. more = 0
        BY <1>7, <1>8, <3>2 DEF FillOf
      <4>2. exch_pos'[id] = exch_pos[id] /\ exch_pos[id] \in Int
        BY <1>5, <2>1, <3>2 DEF ApplyFill
      <4>3. QED
        BY <4>1, <4>2
    <3>3. QED
      BY <3>1, <3>2
  <2>5. exch_pos'[id] - local_pos'[id] = sum + more
    BY <1>1, <2>1, <2>3, <2>4
  <2>6. 1 \in 1..Len(new) /\ FillOf(new[1].order, id) = more /\ 1 \in Nat /\ 1 # 0
        /\ \A l \in 1..Len(new) : l # 1 => FillOf(new[l].order, id) = 0
    BY <1>5
  <2> HIDE DEF sum, more
  <2>7. Adds(to_local \o new, id, sum + more)
    BY <1>5, <2>2, <2>3, <2>6, BusFacts, AddsJoin
  <2>8. QED
    BY <1>5, <2>5, <2>7
<1>10. Settled(book') /\ \A x \in On(to_exch') : x.status \in {"None", "New"}
  BY <1>3, <1>5, AnswersSettled DEF Positions, Unfilled
<1>11. \A x \in On(to_local') : x.req = "Rejected" => x.status \in {"None", "New"}
  BY <1>4, <1>7, <1>8 DEF Positions, Unfilled
<1>12. Touching # {} =>
          /\ \A x \in On(to_local') : x.status # "PartiallyFilled"
          /\ \A id \in DOMAIN local_orders' : local_orders'[id].status # "PartiallyFilled"
  BY <1>1, <1>4, <1>7, <1>8 DEF Positions, Unfilled
<1>13. QED
  BY <1>9, <1>10, <1>11, <1>12, PositionsNext

\* An order that is taken as a whole is filled.
LEMMA TakesWhole ==
    ASSUME NEW f, NEW o \in Order, Takes(f, o)
    PROVE  /\ f.status \in {"Filled", "PartiallyFilled"}
           /\ ~PartialFill => f.status = "Filled"
<1>1. PICK n \in 0..o.leaves_qty : Executes(f, o, n) /\ (PartialFill \/ n = o.leaves_qty)
  BY DEF Takes
<1>2. /\ f.leaves_qty = Larger(0, o.leaves_qty - n) /\ o.leaves_qty \in Nat
      /\ f.status = IF Lots(f.leaves_qty) > 0 THEN "PartiallyFilled" ELSE "Filled"
  BY <1>1 DEF Executes, Order
<1>3. ASSUME ~PartialFill
      PROVE  ~(Lots(f.leaves_qty) > 0)
  <2>1. f.leaves_qty = 0
    BY <1>1, <1>2, <1>3 DEF Larger
  <2>2. LotSize \in Nat \ {0}
    BY OrdersAssumption
  <2>3. Lots(0) = 0
    BY <2>2 DEF Lots
  <2>4. QED
    BY <2>1, <2>3
<1>4. QED
  BY <1>2, <1>3

\* The exchange executes orders.
LEMMA ExecutedPositions ==
    ASSUME Inv, FillsAtOnce, Positions, Executed
    PROVE  Positions'
<1>1. PICK fills, new, ts :
         /\ Event(fills, ts) /\ Tells(fills, new) /\ to_local' = to_local \o new
         /\ exch_pos' = ApplyFills(exch_pos, fills)
  BY DEF Executed
<1>2. to_exch' = to_exch /\ local_orders' = local_orders /\ local_pos' = local_pos
  BY DEF Executed
<1>3. On(to_local') = On(to_local) \cup {ToPlain(fills[id]) : id \in DOMAIN fills}
  BY <1>1, OnTells
<1>4. /\ exch_pos \in [OrderIds -> Int] /\ local_pos \in [OrderIds -> Int]
      /\ BookOK(book) /\ Ids(book) \subseteq OrderIds
  BY DEF Inv, ExchTyped, LocalTyped, BookOK, IsBook, IsOrderMap, Ids
<1>5. Settled(book)
  BY DEF Positions, Unfilled
<1>6. ASSUME NEW id \in DOMAIN fills
      PROVE  /\ id \in Ids(book) /\ fills[id].req = "None" /\ fills[id] \in Order
             /\ fills[id].status \in {"Filled", "PartiallyFilled"}
             /\ ~PartialFill => fills[id].status = "Filled"
             /\ LET r == ToPlain(fills[id])
                IN  /\ r \in Order /\ r.order_id = id /\ r.req = "None"
                    /\ r.side = fills[id].side /\ r.exec_qty = fills[id].exec_qty
                    /\ r.status = fills[id].status
  <2>1. Takes(fills[id], book.orders[id]) /\ id \in Ids(book)
    BY <1>1 DEF Event
  <2>2. book.orders[id].order_id = id /\ book.orders[id] \in Order
    BY <1>4, <2>1 DEF BookOK, IsBook, IsOrderMap, Ids
  <2>3. fills[id] \in Order /\ fills[id].order_id = id /\ fills[id].req = "None"
    BY <1>5, <2>1, <2>2, TakesSays DEF Settled
  <2>4. /\ fills[id].status \in {"Filled", "PartiallyFilled"}
        /\ ~PartialFill => fills[id].status = "Filled"
    BY <2>1, <2>2, TakesWhole
  <2>5. QED
    BY <2>1, <2>3, <2>4, PlainSays DEF SameTerms, Same, Plain
<1>7. ASSUME NEW id \in OrderIds
      PROVE  Adds(to_local', id, exch_pos'[id] - local_pos'[id])
  <2> DEFINE sum == exch_pos[id] - local_pos[id]
  <2>1. sum \in Int /\ Adds(to_local, id, sum)
    BY <1>4 DEF Positions
  <2>2. /\ new \in Seq(Entry)
        /\ \A l \in 1..Len(new) : /\ new[l].order.order_id \in DOMAIN fills
                                  /\ new[l].order = ToPlain(fills[new[l].order.order_id])
    BY <1>1 DEF Tells
  <2>3. CASE id \notin DOMAIN fills
    <3>1. exch_pos'[id] = exch_pos[id]
      BY <1>1, <1>4, <2>3 DEF ApplyFills
    <3>2. \A l \in 1..Len(new) : l # 0 => FillOf(new[l].order, id) = 0
      BY <2>2, <2>3 DEF FillOf
    <3>3. exch_pos'[id] - local_pos'[id] = sum + 0
      BY <1>2, <2>1, <3>1
    <3> HIDE DEF sum
    <3>4. Adds(to_local \o new, id, sum + 0)
      BY <2>1, <2>2, <3>2, BusFacts, AddsJoin
    <3>5. QED
      BY <1>1, <3>3, <3>4
  <2>4. CASE id \in DOMAIN fills
    <3> DEFINE more == Sign(fills[id].side) * fills[id].exec_qty
    <3>1. exch_pos'[id] = exch_pos[id] + more
      BY <1>1, <1>4, <2>4 DEF ApplyFills
    <3>2. PICK k \in 1..Len(new) : new[k].order.order_id = id
      BY <1>1, <2>4 DEF Tells
    <3>3. new[k].order = ToPlain(fills[id])
      BY <2>2, <3>2
    <3>4. FillOf(new[k].order, id) = more
      BY <1>6, <2>4, <3>3 DEF FillOf
    <3>5. new[k].order \in Order
      BY <1>6, <2>4, <3>3
    <3>6. more \in Int
      BY <3>4, <3>5, FillOfInt
    <3>7. \A l \in 1..Len(new) : l # k => FillOf(new[l].order, id) = 0
      BY <1>1, <3>2 DEF Tells, FillOf
    <3>8. exch_pos'[id] - local_pos'[id] = sum + more
      <4> HIDE DEF more
      <4>1. QED
        BY <1>2, <1>4, <3>1, <3>6
    <3>9. k \in Nat /\ k # 0
      BY <3>2
    <3> HIDE DEF sum, more
    <3>10. Adds(to_local \o new, id, sum + more)
      BY <2>1, <2>2, <3>2, <3>4, <3>6, <3>7, <3>9, BusFacts, AddsJoin
    <3>11. QED
      BY <1>1, <3>8, <3>10
  <2>5. QED
    BY <2>3, <2>4
<1>8. ASSUME NEW id \in Ids(book')
      PROVE  book'.orders[id].req = "None"
  <2>1. id \in Ids(book)
    BY <1>1 DEF Event
  <2>2. CASE id \in DOMAIN fills
    BY <1>1, <1>6, <2>2 DEF Event
  <2>3. CASE id \notin DOMAIN fills
    BY <1>1, <1>5, <2>1, <2>3 DEF Event, SameButQueue, Settled
  <2>4. QED
    BY <2>2, <2>3
<1>9. Settled(book')
  BY <1>8 DEF Settled
<1>10. \A x \in On(to_exch') : x.status \in {"None", "New"}
  BY <1>2 DEF Positions, Unfilled
<1>11. ASSUME NEW x \in On(to_local')
       PROVE  /\ x.req = "Rejected" => x.status \in {"None", "New"}
              /\ Touching # {} => x.status # "PartiallyFilled"
  <2>1. CASE x \in On(to_local)
    BY <2>1 DEF Positions, Unfilled
  <2>2. CASE x \notin On(to_local)
    <3>1. PICK id \in DOMAIN fills : x = ToPlain(fills[id])
      BY <1>3, <2>2
    <3>2. QED
      BY <1>6, <3>1 DEF FillsAtOnce
  <2>3. QED
    BY <2>1, <2>2
<1>12. Touching # {} =>
          \A id \in DOMAIN local_orders' : local_orders'[id].status # "PartiallyFilled"
  BY <1>2 DEF Positions, Unfilled
<1>13. QED
  BY <1>7, <1>9, <1>10, <1>11, <1>12, PositionsNext

\* Every step.
LEMMA PositionsStep ==
    ASSUME Inv, Resting, FillsAtOnce, Positions, [Next]_vars
    PROVE  Positions'
<1>1. Acknowledgeable
  BY UnfilledAcknowledged DEF Positions
<1>2. CASE Rests
  BY <1>2, PositionsNext DEF Rests, Positions, Unfilled
<1>3. QED
  BY <1>1, <1>2, KindsOfSteps, SeeksPositions, HearsPositions, ForgetsPositions,
     AnsweredPositions, ExecutedPositions

LEMMA PositionsInit == Init => Positions
<1> SUFFICES ASSUME Init PROVE Positions
  OBVIOUS
<1>1. /\ to_exch = <<>> /\ to_local = <<>> /\ DOMAIN local_orders = {} /\ Ids(book) = {}
      /\ exch_pos = [id \in OrderIds |-> 0] /\ local_pos = [id \in OrderIds |-> 0]
  BY DEF Init, LocalInit, ExchInit, EmptyBook, Ids
<1>2. 1..0 = {} /\ Len(<<>>) = 0
  OBVIOUS
<1>3. On(to_exch) = {} /\ On(to_local) = {}
  BY <1>1, <1>2 DEF On
<1>4. ASSUME NEW id \in OrderIds
      PROVE  Adds(to_local, id, exch_pos[id] - local_pos[id])
  <2> DEFINE run == [n \in 0..0 |-> 0]
  <2>1. run \in [0..0 -> Int] /\ run[0] = 0
    OBVIOUS
  <2>2. Adding(run, to_local, id) /\ run[Len(to_local)] = 0
    BY <1>1, <1>2, <2>1 DEF Adding
  <2>3. exch_pos[id] - local_pos[id] = 0
    BY <1>1
  <2>4. QED
    BY <2>2, <2>3 DEF Adds
<1>5. QED
  BY <1>1, <1>3, <1>4 DEF Positions, Unfilled, Settled

LEMMA PositionsHold == ASSUME FillsAtOnce PROVE Spec => []Positions
<1>1. Inv /\ Resting /\ Positions /\ [Next]_vars => Positions'
  BY PositionsStep
<1>2. QED
  BY <1>1, PositionsInit, InvHolds, RestingHolds, PTL DEF Spec

\* State::apply_fill on both sides: the strategy's position is the exchange's less the
\* fills on their way, each of which it applies once, whatever is rejected meanwhile.
THEOREM EveryFillOnce == ASSUME FillsAtOnce PROVE Spec => []PositionsAgree
<1>1. Inv /\ Positions => PositionsAgree
  BY PositionsAre
<1>2. QED
  BY <1>1, InvHolds, PositionsHold, PTL

-----------------------------------------------------------------------------
(* The strategy's view of an order.                                         *)

\* The entry latencies reject no request, or the strategy does not modify: it takes
\* the new price of an amendment at once and does not take it back when the request is
\* rejected on its way.
AmendmentsArrive == Careful /\ (EntryLatencies \subseteq Nat \/ Unmodified)

Agrees(x, y) ==
    /\ x.side = y.side /\ x.price_tick = y.price_tick /\ x.qty = y.qty
    /\ x.leaves_qty = y.leaves_qty /\ x.status = y.status

Silent(bus, id) == \A o \in On(bus) : o.order_id = id => o.req = "Rejected"
Unasked(reqs, id) == \A o \in On(reqs) : o.order_id # id

\* o is the latest news of the order.
Newest(bus, id, o) ==
    \E i \in News(bus, id) : bus[i].order = o /\ \A j \in News(bus, id) : j <= i

\* The last word on an order that rests says what it is: its latest news, or, when
\* there is none and nothing is asked, what the strategy has.  Its side is the same
\* wherever the order is named.
Mirror(id, orders, reqs, bus, b) ==
    /\ id \in Ids(b) =>
          /\ id \in DOMAIN orders /\ b.orders[id].side = orders[id].side
          /\ \A o \in On(reqs) : o.order_id = id => o.side = orders[id].side
          /\ \A o : Newest(bus, id, o) => Agrees(o, b.orders[id])
          /\ Silent(bus, id) /\ Unasked(reqs, id) => Agrees(orders[id], b.orders[id])
    /\ \A o \in On(bus) : o.order_id = id /\ o.req # "Rejected" =>
          id \in DOMAIN orders /\ o.side = orders[id].side
    /\ \A o \in On(reqs) : o.order_id = id /\ o.req = "New" =>
          id \in DOMAIN orders /\ o.side = orders[id].side

Mirrors == \A id \in OrderIds : Mirror(id, local_orders, to_exch, to_local, book)

LEMMA MirrorsNext ==
    ASSUME \A id \in OrderIds : Mirror(id, local_orders', to_exch', to_local', book')
    PROVE  Mirrors'
  BY DEF Mirrors, Mirror, Silent, Unasked, Newest, News, On, Ids, Agrees

\* No news, in terms of positions.
LEMMA SilentNews ==
    ASSUME NEW bus, NEW id
    PROVE  (Silent(bus, id) <=> News(bus, id) = {}) /\ (Unasked(bus, id) <=> Asked(bus, id) = {})
<1>1. Silent(bus, id) => News(bus, id) = {}
  BY Zenon DEF Silent, On, News
<1>2. News(bus, id) = {} => Silent(bus, id)
  BY Zenon DEF Silent, On, News
<1>3. Unasked(bus, id) => Asked(bus, id) = {}
  BY Zenon DEF Unasked, On, Asked
<1>4. Asked(bus, id) = {} => Unasked(bus, id)
  BY Zenon DEF Unasked, On, Asked
<1>5. QED
  BY <1>1, <1>2, <1>3, <1>4

LEMMA MirrorsShow ==
    ASSUME Inv, Lives, Mirrors
    PROVE  ViewsAgree
<1> SUFFICES ASSUME NEW id \in OrderIds, ~Concerns(to_exch, id), ~Concerns(to_local, id)
             PROVE
        IF id \in Ids(book)
        THEN /\ id \in Known
             /\ \A field \in {"side", "price_tick", "qty", "leaves_qty", "status"} :
                   local_orders[id][field] = book.orders[id][field]
        ELSE id \in Known => ~Active(local_orders[id])
  BY DEF ViewsAgree
<1>1. Mirror(id, local_orders, to_exch, to_local, book) /\ View(id, local_orders, to_local, book)
  BY DEF Mirrors, Lives, LifeOf
<1>2. Silent(to_local, id) /\ Unasked(to_exch, id)
  BY DEF Concerns, Silent, Unasked, On
<1>3. CASE id \in Ids(book)
  <2>1. id \in Known /\ Agrees(local_orders[id], book.orders[id])
    BY <1>1, <1>2, <1>3 DEF Mirror, Known
  <2>2. ASSUME NEW field \in {"side", "price_tick", "qty", "leaves_qty", "status"}
        PROVE  local_orders[id][field] = book.orders[id][field]
    BY <2>1 DEF Agrees
  <2>3. QED
    BY <1>3, <2>1, <2>2
<1>4. CASE id \notin Ids(book)
  BY <1>1, <1>2, <1>4, SilentNews DEF View, Known, Active
<1>5. QED
  BY <1>3, <1>4

\* What does not concern an order keeps its mirror.
LEMMA MirrorKept ==
    ASSUME NEW id, NEW orders, NEW after, NEW reqs, NEW reqs2, NEW bus, NEW bus2, NEW b, NEW b2,
           Mirror(id, orders, reqs, bus, b),
           id \in DOMAIN orders => id \in DOMAIN after /\ after[id] = orders[id],
           \A o \in On(reqs2) : o.order_id = id => o \in On(reqs),
           Unasked(reqs2, id) => Unasked(reqs, id),
           \A o \in On(bus2) : o.order_id = id /\ o.req # "Rejected" => o \in On(bus),
           Silent(bus2, id) => Silent(bus, id),
           \A o : Newest(bus2, id, o) => Newest(bus, id, o),
           id \in Ids(b2) => id \in Ids(b) /\ Agrees(b2.orders[id], b.orders[id])
    PROVE  Mirror(id, after, reqs2, bus2, b2)
<1>1. ASSUME id \in Ids(b2)
      PROVE  /\ id \in DOMAIN after /\ b2.orders[id].side = after[id].side
             /\ \A o \in On(reqs2) : o.order_id = id => o.side = after[id].side
             /\ \A o : Newest(bus2, id, o) => Agrees(o, b2.orders[id])
             /\ Silent(bus2, id) /\ Unasked(reqs2, id) => Agrees(after[id], b2.orders[id])
  BY <1>1 DEF Mirror, Agrees
<1>2. \A o \in On(bus2) : o.order_id = id /\ o.req # "Rejected" =>
         id \in DOMAIN after /\ o.side = after[id].side
  BY DEF Mirror
<1>3. \A o \in On(reqs2) : o.order_id = id /\ o.req = "New" =>
         id \in DOMAIN after /\ o.side = after[id].side
  BY DEF Mirror
<1>4. QED
  BY <1>1, <1>2, <1>3 DEF Mirror

\* Taking the front of the bus to the strategy.
LEMMA NewestTail ==
    ASSUME NEW bus \in Seq(Entry), bus # <<>>, NEW id, NEW h, h = Head(bus).order
    PROVE  /\ \A o : Newest(Tail(bus), id, o) => Newest(bus, id, o)
           /\ Silent(Tail(bus), id) =>
                 IF h.order_id = id /\ h.req # "Rejected" THEN Newest(bus, id, h)
                 ELSE Silent(bus, id)
<1> DEFINE rest == Tail(bus)
<1>1. /\ \A i \in News(rest, id) :
            i \in Int /\ i + 1 \in News(bus, id) /\ rest[i] = bus[i + 1]
      /\ \A i \in News(bus, id) :
            i \in Int /\ (i # 1 => i - 1 \in News(rest, id) /\ rest[i - 1] = bus[i])
      /\ 1 \in News(bus, id) <=> h.order_id = id /\ h.req # "Rejected"
  BY TailMoves
<1>2. Len(rest) \in Nat /\ rest \in Seq(Entry) /\ bus[1].order = h
  BY TailAt, LenProperties
<1> HIDE DEF rest
<1>3. ASSUME NEW o, Newest(rest, id, o)
      PROVE  Newest(bus, id, o)
  <2>1. PICK i \in News(rest, id) : rest[i].order = o /\ \A j \in News(rest, id) : j <= i
    BY <1>3 DEF Newest
  <2>2. i \in Int /\ i >= 1
    BY <1>2, <2>1 DEF News
  <2>3. ASSUME NEW j \in News(bus, id) PROVE j <= i + 1
    <3>1. CASE j = 1
      BY <2>2, <3>1
    <3>2. CASE j # 1
      <4>1. j \in Int /\ j - 1 \in News(rest, id)
        BY <1>1, <3>2
      <4>2. j - 1 <= i
        BY <2>1, <4>1
      <4>3. QED
        BY <2>2, <4>1, <4>2
    <3>3. QED
      BY <3>1, <3>2
  <2>4. QED
    BY <1>1, <2>1, <2>3 DEF Newest
<1>4. ASSUME Silent(rest, id), h.order_id = id /\ h.req # "Rejected"
      PROVE  Newest(bus, id, h)
  <2>1. News(rest, id) = {}
    BY <1>4, SilentNews
  <2>2. 1 \in News(bus, id) /\ \A j \in News(bus, id) : j = 1
    BY <1>1, <1>4, <2>1
  <2>3. QED
    BY <1>2, <2>2 DEF Newest
<1>5. ASSUME Silent(rest, id), ~(h.order_id = id /\ h.req # "Rejected")
      PROVE  Silent(bus, id)
  BY <1>5, OnTail DEF Silent, rest
<1>6. QED
  BY <1>3, <1>4, <1>5 DEF rest

\* What joins it behind.
LEMMA NewestJoin ==
    ASSUME NEW bus \in Seq(Entry), NEW new \in Seq(Entry), NEW id
    PROVE  /\ Silent(new, id) => \A o : Newest(bus \o new, id, o) => Newest(bus, id, o)
           /\ Silent(new, id) /\ Silent(bus \o new, id) => Silent(bus, id)
           /\ \A k \in News(new, id) : (\A l \in News(new, id) : l = k) =>
                 \A o : Newest(bus \o new, id, o) => o = new[k].order
<1> DEFINE all == bus \o new
<1>1. Joined(all, bus, new, id)
  BY JoinMoves
<1>2. On(all) = On(bus) \cup On(new)
  BY OnJoin
<1> HIDE DEF all
<1>3. ASSUME Silent(new, id), NEW o, Newest(all, id, o)
      PROVE  Newest(bus, id, o)
  <2>1. PICK i \in News(all, id) : all[i].order = o /\ \A j \in News(all, id) : j <= i
    BY <1>3 DEF Newest
  <2>2. News(new, id) = {}
    BY <1>3, SilentNews
  <2>3. i \in News(bus, id) /\ all[i] = bus[i]
    BY <1>1, <2>1, <2>2 DEF Joined
  <2>4. \A j \in News(bus, id) : j <= i
    BY <1>1, <2>1 DEF Joined
  <2>5. QED
    BY <2>1, <2>3, <2>4 DEF Newest
<1>4. ASSUME NEW k \in News(new, id), \A l \in News(new, id) : l = k,
             NEW o, Newest(all, id, o)
      PROVE  o = new[k].order
  <2>1. PICK i \in News(all, id) : all[i].order = o /\ \A j \in News(all, id) : j <= i
    BY <1>4 DEF Newest
  <2>2. k \in Int /\ k > 0 /\ Len(bus) + k \in News(all, id) /\ Len(bus) \in Nat /\ i \in Int
    BY <1>1, <1>4, <2>1 DEF Joined
  <2>3. Len(bus) + k <= i
    BY <2>1, <2>2
  <2>4. ~(i <= Len(bus))
    BY <2>2, <2>3
  <2>5. i - Len(bus) \in News(new, id) /\ all[i] = new[i - Len(bus)]
    BY <1>1, <2>1, <2>4 DEF Joined
  <2>6. QED
    BY <1>4, <2>1, <2>5
<1>5. Silent(new, id) /\ Silent(all, id) => Silent(bus, id)
  BY <1>2 DEF Silent
<1>6. QED
  BY <1>3, <1>4, <1>5 DEF all

LEMMA OnAll ==
    ASSUME NEW bus, NEW x, \A k \in 1..Len(bus) : bus[k].order = x
    PROVE  On(bus) \subseteq {x} /\ (Len(bus) = 1 => x \in On(bus))
<1>1. On(bus) \subseteq {x}
  BY DEF On
<1>2. ASSUME Len(bus) = 1 PROVE x \in On(bus)
  <2>1. 1 \in 1..Len(bus)
    BY <1>2
  <2>2. QED
    BY <2>1 DEF On
<1>3. QED
  BY <1>1, <1>2

\* The strategy asks.
LEMMA SeeksMirrors ==
    ASSUME Inv, AmendmentsArrive, Lives, Mirrors, Seeks
    PROVE  Mirrors'
<1>0. PICK id \in OrderIds : \E o, rejected, asks, new :
         /\ Sought(id, o, rejected) /\ Sends(o, rejected, asks, new)
         /\ local_orders' = Put(local_orders, o)
  BY DEF Seeks
<1>1. PICK o, rejected, asks, new :
         /\ Sought(id, o, rejected) /\ Sends(o, rejected, asks, new)
         /\ local_orders' = Put(local_orders, o)
  BY <1>0
<1>2. /\ asks \in Seq(Entry) /\ new \in Seq(Entry)
      /\ to_exch' = to_exch \o asks /\ to_local' = to_local \o new
      /\ Len(asks) = 1 \/ ~(EntryLatencies \subseteq Nat)
      /\ On(asks) \subseteq {o} /\ On(new) \subseteq {rejected}
      /\ Len(asks) = 1 => o \in On(asks)
  BY <1>1, OnAll DEF Sends
<1>3. On(to_exch') = On(to_exch) \cup On(asks) /\ On(to_local') = On(to_local) \cup On(new)
  BY <1>2, BusFacts, OnJoin
<1>4. o.order_id = id /\ rejected.order_id = id /\ rejected.req = "Rejected"
  BY <1>1 DEF Sought
<1>5. book' = book
  BY DEF Seeks
<1>6. /\ DOMAIN local_orders' = DOMAIN local_orders \cup {id} /\ local_orders'[id] = o
      /\ \A other \in DOMAIN local_orders : other # id => local_orders'[other] = local_orders[other]
  BY <1>1, <1>4 DEF Put
<1>7. ASSUME NEW other \in OrderIds
      PROVE  /\ Silent(to_local', other) => Silent(to_local, other)
             /\ \A x : Newest(to_local', other, x) => Newest(to_local, other, x)
             /\ \A x \in On(to_local') : x.order_id = other /\ x.req # "Rejected" => x \in On(to_local)
  <2>1. Silent(new, other)
    BY <1>2, <1>4 DEF Silent
  <2>2. QED
    BY <1>2, <1>3, <1>4, <2>1, BusFacts, NewestJoin
<1>8. ASSUME NEW other \in OrderIds
      PROVE  Mirror(other, local_orders', to_exch', to_local', book')
  <2>1. Mirror(other, local_orders, to_exch, to_local, book)
    BY DEF Mirrors
  <2>2. CASE other # id
    <3>1. other \in DOMAIN local_orders =>
             other \in DOMAIN local_orders' /\ local_orders'[other] = local_orders[other]
      BY <1>6, <2>2
    <3>2. /\ \A x \in On(to_exch') : x.order_id = other => x \in On(to_exch)
          /\ Unasked(to_exch', other) => Unasked(to_exch, other)
      BY <1>2, <1>3, <1>4, <2>2 DEF Unasked
    <3>3. other \in Ids(book') => other \in Ids(book) /\ Agrees(book'.orders[other], book.orders[other])
      BY <1>5 DEF Agrees
    <3>4. QED
      BY <1>7, <2>1, <3>1, <3>2, <3>3, MirrorKept
  <2>3. CASE other = id /\ id \notin DOMAIN local_orders
    <3>1. id \notin Ids(book')
      BY <1>5, <2>1, <2>3 DEF Mirror
    <3>2. \A x \in On(to_local') : x.order_id = id /\ x.req # "Rejected" => FALSE
      BY <1>7, <2>1, <2>3 DEF Mirror
    <3>3. \A x \in On(to_exch') : x.order_id = id /\ x.req = "New" => x = o
      BY <1>2, <1>3, <2>1, <2>3 DEF Mirror
    <3>4. QED
      BY <1>6, <2>3, <3>1, <3>2, <3>3 DEF Mirror
  <2>4. CASE other = id /\ id \in DOMAIN local_orders
    <3> DEFINE mine == local_orders[id]
    <3>1. Continues(o, rejected, mine)
      BY <1>1, <2>4 DEF Sought
    <3>2. o.side = mine.side /\ o.leaves_qty = mine.leaves_qty /\ o.status = mine.status
          /\ o.req # "New"
      BY <3>1 DEF Continues
    <3> HIDE DEF mine
    <3>3. ASSUME Silent(to_local', id), Unasked(to_exch', id)
          PROVE  Silent(to_local, id) /\ Unasked(to_exch, id) /\ Agrees(o, mine)
      <4>1. Silent(to_local, id) /\ Unasked(to_exch, id)
        BY <1>3, <1>7, <3>3 DEF Unasked
      <4>2. o \notin On(asks)
        BY <1>3, <1>4, <3>3 DEF Unasked
      <4>3. Unmodified
        BY <1>2, <4>2 DEF AmendmentsArrive
      <4>4. o.price_tick = mine.price_tick /\ o.qty = mine.qty
        BY <3>1, <4>3 DEF Continues, Unmodified
      <4>5. QED
        BY <3>2, <4>1, <4>4 DEF Agrees
    <3>4. ASSUME id \in Ids(book')
          PROVE  /\ book'.orders[id].side = o.side
                 /\ \A x \in On(to_exch') : x.order_id = id => x.side = o.side
                 /\ \A x : Newest(to_local', id, x) => Agrees(x, book'.orders[id])
                 /\ Silent(to_local', id) /\ Unasked(to_exch', id) => Agrees(o, book'.orders[id])
      <4>1. id \in Ids(book) /\ id \in OrderIds
        BY <1>5, <3>4
      <4>2. /\ book.orders[id].side = mine.side
            /\ \A x \in On(to_exch) : x.order_id = id => x.side = mine.side
            /\ \A x : Newest(to_local, id, x) => Agrees(x, book.orders[id])
            /\ Silent(to_local, id) /\ Unasked(to_exch, id) => Agrees(mine, book.orders[id])
        BY <2>1, <2>4, <4>1 DEF Mirror, mine
      <4>3. \A x \in On(to_exch') : x.order_id = id => x.side = o.side
        BY <1>2, <1>3, <3>2, <4>2
      <4>4. \A x : Newest(to_local', id, x) => Agrees(x, book'.orders[id])
        BY <1>5, <1>7, <4>1, <4>2
      <4>5. Silent(to_local', id) /\ Unasked(to_exch', id) => Agrees(o, book'.orders[id])
        BY <1>5, <3>3, <4>2 DEF Agrees
      <4>6. QED
        BY <1>5, <3>2, <4>2, <4>3, <4>4, <4>5
    <3>5. \A x \in On(to_local') : x.order_id = id /\ x.req # "Rejected" => x.side = o.side
      BY <1>7, <2>1, <2>4, <3>2 DEF Mirror, mine
    <3>6. \A x \in On(to_exch') : x.order_id = id /\ x.req = "New" => x.side = o.side
      BY <1>2, <1>3, <2>1, <2>4, <3>2 DEF Mirror, mine
    <3>7. id \in DOMAIN local_orders' /\ local_orders'[id] = o
      BY <1>6
    <3>8. QED
      BY <2>4, <3>4, <3>5, <3>6, <3>7 DEF Mirror
  <2>5. QED
    BY <2>2, <2>3, <2>4
<1>9. QED
  BY <1>8, MirrorsNext


\* The strategy is told.
LEMMA HearsMirrors ==
    ASSUME Inv, Lives, Mirrors, Hears
    PROVE  Mirrors'
<1> DEFINE resp == Head(to_local).order
           who == resp.order_id
<1>1. /\ Heard(resp) /\ resp \in Order /\ On(to_local) = On(to_local') \cup {resp}
      /\ to_local' = Tail(to_local) /\ to_exch' = to_exch
      /\ \A id \in DOMAIN local_orders :
            local_orders[id] \in Order /\ local_orders[id].order_id = id
  BY HearsHeard
<1>2. book' = book /\ to_local # <<>>
  BY DEF Hears
<1>3. ASSUME NEW id \in OrderIds
      PROVE  /\ \A o : Newest(to_local', id, o) => Newest(to_local, id, o)
             /\ Silent(to_local', id) =>
                   IF who = id /\ resp.req # "Rejected" THEN Newest(to_local, id, resp)
                   ELSE Silent(to_local, id)
  BY <1>1, <1>2, BusFacts, NewestTail
<1> HIDE DEF resp
<1>4. ASSUME NEW id \in OrderIds
      PROVE  Mirror(id, local_orders', to_exch', to_local', book')
  <2>1. Mirror(id, local_orders, to_exch, to_local, book) /\ View(id, local_orders, to_local, book)
    BY DEF Mirrors, Lives, LifeOf
  <2>2. ASSUME id # who \/ id \notin DOMAIN local_orders, ~(who = id /\ resp.req # "Rejected")
        PROVE  Mirror(id, local_orders', to_exch', to_local', book')
    <3>1. id \in DOMAIN local_orders =>
             id \in DOMAIN local_orders' /\ local_orders'[id] = local_orders[id]
      BY <1>1, <2>2 DEF Heard
    <3>2. \A o \in On(to_local') : o.order_id = id /\ o.req # "Rejected" => o \in On(to_local)
      BY <1>1
    <3>3. /\ \A o \in On(to_exch') : o.order_id = id => o \in On(to_exch)
          /\ Unasked(to_exch', id) => Unasked(to_exch, id)
          /\ id \in Ids(book') => id \in Ids(book) /\ Agrees(book'.orders[id], book.orders[id])
      BY <1>1, <1>2 DEF Agrees
    <3>4. QED
      BY <1>3, <2>1, <2>2, <3>1, <3>2, <3>3, MirrorKept
  <2>3. ASSUME id = who, id \in DOMAIN local_orders
        PROVE  Mirror(id, local_orders', to_exch', to_local', book')
    <3> DEFINE mine == local_orders[id]
               r == Receive(mine, resp)
    <3>1. id \in DOMAIN local_orders' /\ local_orders'[id] = r /\ mine \in Order
      BY <1>1, <2>3 DEF Heard
    <3>2. r.side = mine.side
      <4>1. CASE resp.req # "Rejected"
        <5>1. resp.side = mine.side
          BY <1>1, <2>1, <2>3, <4>1 DEF Mirror
        <5>2. QED
          BY <1>1, <3>1, <4>1, <5>1, ReceiveSays DEF SameTerms, Same
      <4>2. CASE resp.req = "Rejected"
        BY <1>1, <3>1, <4>2, ReceiveSays DEF SameTerms, Same
      <4>3. QED
        BY <4>1, <4>2
    <3>3. ASSUME id \in Ids(book), Silent(to_local', id), Unasked(to_exch, id)
          PROVE  Agrees(r, book.orders[id])
      <4>1. CASE resp.req # "Rejected"
        <5>1. Agrees(resp, book.orders[id])
          BY <1>3, <2>1, <2>3, <3>3, <4>1 DEF Mirror
        <5>2. Agrees(r, resp)
          BY <1>1, <3>1, <4>1, ReceiveSays DEF SameTerms, Same, Agrees
        <5>3. QED
          BY <5>1, <5>2 DEF Agrees
      <4>2. CASE resp.req = "Rejected"
        <5>1. Silent(to_local, id)
          BY <1>3, <3>3, <4>2
        <5>2. Agrees(mine, book.orders[id])
          BY <2>1, <3>3, <5>1 DEF Mirror
        <5>3. mine.status \in Working /\ (mine.status = "None" <=> mine.req = "New")
          BY <2>1, <2>3, <3>3, <5>1, SilentNews DEF View
        <5>4. Agrees(r, mine)
          BY <1>1, <3>1, <4>2, <5>3, ReceiveSays DEF SameTerms, Same, Agrees, Working
        <5>5. QED
          BY <5>2, <5>4 DEF Agrees
      <4>3. QED
        BY <4>1, <4>2
    <3> HIDE DEF r
    <3>4. ASSUME id \in Ids(book')
          PROVE  /\ book'.orders[id].side = r.side
                 /\ \A o \in On(to_exch') : o.order_id = id => o.side = r.side
                 /\ \A o : Newest(to_local', id, o) => Agrees(o, book'.orders[id])
                 /\ Silent(to_local', id) /\ Unasked(to_exch', id) => Agrees(r, book'.orders[id])
      BY <1>1, <1>2, <1>3, <2>1, <3>2, <3>3, <3>4 DEF Mirror
    <3>5. /\ \A o \in On(to_local') : o.order_id = id /\ o.req # "Rejected" => o.side = r.side
          /\ \A o \in On(to_exch') : o.order_id = id /\ o.req = "New" => o.side = r.side
      BY <1>1, <2>1, <2>3, <3>2 DEF Mirror
    <3>6. QED
      BY <3>1, <3>4, <3>5 DEF Mirror
  <2>4. ASSUME id = who, resp.req # "Rejected"
        PROVE  id \in DOMAIN local_orders
    BY <1>1, <2>1, <2>4 DEF Mirror
  <2>5. QED
    BY <2>2, <2>3, <2>4
<1>5. QED
  BY <1>4, MirrorsNext

\* The strategy forgets nothing that anything is still said of.
LEMMA ForgetsMirrors ==
    ASSUME Inv, Lives, Mirrors, Forgets
    PROVE  Mirrors'
<1>1. /\ to_exch' = to_exch /\ to_local' = to_local /\ book' = book
      /\ \A id : id \in DOMAIN local_orders' <=>
            id \in DOMAIN local_orders /\ local_orders[id].status \notin Terminal
      /\ \A id \in DOMAIN local_orders' : local_orders'[id] = local_orders[id]
  BY ForgetsLess
<1>2. ASSUME NEW id \in OrderIds
      PROVE  Mirror(id, local_orders', to_exch', to_local', book')
  <2>1. /\ Mirror(id, local_orders, to_exch, to_local, book)
        /\ View(id, local_orders, to_local, book)
        /\ Entering(id, local_orders, to_exch, to_local)
    BY DEF Mirrors, Lives, LifeOf
  <2>2. CASE id \in DOMAIN local_orders => id \in DOMAIN local_orders'
    <3>1. id \in DOMAIN local_orders =>
             id \in DOMAIN local_orders' /\ local_orders'[id] = local_orders[id]
      BY <1>1, <2>2
    <3>2. id \in Ids(book') => id \in Ids(book) /\ Agrees(book'.orders[id], book.orders[id])
      BY <1>1 DEF Agrees
    <3>3. QED
      BY <1>1, <2>1, <3>1, <3>2, MirrorKept
  <2>3. CASE id \in DOMAIN local_orders /\ id \notin DOMAIN local_orders'
    <3>1. local_orders[id].status \in Terminal
      BY <1>1, <2>3
    <3>2. News(to_local, id) = {}
      BY <2>1, <3>1 DEF View
    <3>3. id \notin Ids(book)
      BY <2>1, <3>1, <3>2 DEF View, Working, Terminal
    <3>4. \A o \in On(to_local) : o.order_id = id => o.req = "Rejected"
      BY <3>2, SilentNews DEF Silent
    <3>5. \A o \in On(to_exch) : o.order_id = id => o.req # "New"
      <4> SUFFICES ASSUME NEW o \in On(to_exch), o.order_id = id, o.req = "New" PROVE FALSE
        OBVIOUS
      <4>1. PICK i \in Asked(to_exch, id) : to_exch[i].order = o
        BY DEF On, Asked
      <4>2. local_orders[id].status = "None"
        BY <2>1, <4>1 DEF Entering
      <4>3. QED
        BY <3>1, <4>2 DEF Terminal
    <3>6. QED
      BY <1>1, <3>3, <3>4, <3>5 DEF Mirror
  <2>4. QED
    BY <2>2, <2>3
<1>3. QED
  BY <1>2, MirrorsNext

\* A word on an order joins the bus to the strategy, and says what the order is now.
LEMMA MirrorTold ==
    ASSUME NEW id, NEW orders, NEW reqs, NEW bus, NEW b, Mirror(id, orders, reqs, bus, b),
           NEW reqs2, On(reqs2) \subseteq On(reqs), NEW bus2, NEW r,
           id \in DOMAIN orders, r.side = orders[id].side, r.order_id = id, r.req # "Rejected",
           r \in On(bus2), \A o \in On(bus2) : o.order_id = id => o = r \/ o \in On(bus),
           \A o : Newest(bus2, id, o) => o = r,
           NEW b2, id \in Ids(b2) => Agrees(r, b2.orders[id]),
           id \in Ids(b2) => id \in Ids(b) \/ \A o \in On(reqs2) : o.order_id # id
    PROVE  Mirror(id, orders, reqs2, bus2, b2)
<1>1. ~Silent(bus2, id)
  BY DEF Silent
<1>2. ASSUME id \in Ids(b2)
      PROVE  /\ b2.orders[id].side = orders[id].side
             /\ \A o \in On(reqs2) : o.order_id = id => o.side = orders[id].side
             /\ \A o : Newest(bus2, id, o) => Agrees(o, b2.orders[id])
  <2>1. b2.orders[id].side = orders[id].side
    BY <1>2 DEF Agrees
  <2>2. \A o : Newest(bus2, id, o) => Agrees(o, b2.orders[id])
    BY <1>2
  <2>3. \A o \in On(reqs2) : o.order_id = id => o.side = orders[id].side
    BY <1>2 DEF Mirror
  <2>4. QED
    BY <2>1, <2>2, <2>3
<1>3. \A o \in On(bus2) : o.order_id = id /\ o.req # "Rejected" => o.side = orders[id].side
  BY DEF Mirror
<1>4. \A o \in On(reqs2) : o.order_id = id /\ o.req = "New" => o.side = orders[id].side
  BY DEF Mirror
<1>5. QED
  BY <1>1, <1>2, <1>3, <1>4 DEF Mirror

\* What an answer that is not a refusal says of the order, when the side is settled.
LEMMA AnswersAgree ==
    ASSUME BookOK(book), NEW a, NEW o, Answers(a, book, o), NEW id, id = o.order_id,
           a.order.req # "Rejected", id \in Ids(book) => o.side = book.orders[id].side
    PROVE  /\ a.order.side = o.side
           /\ id \in Ids(a.book) => Agrees(a.order, a.book.orders[id])
<1> DEFINE out == Withdraw(book, {id})
<1>1. Ids(out) = Ids(book) \ {id}
  BY WithdrawLeaves
<1> HIDE DEF out
<1>2. ASSUME NEW b, Accepts(a, b, o), id \notin Ids(b)
      PROVE  /\ a.order.side = o.side
             /\ id \in Ids(a.book) => Agrees(a.order, a.book.orders[id])
  <2>1. a.order.side = o.side /\ a.order.order_id = id
    BY <1>2 DEF Accepts, SameTerms, Same
  <2>2. CASE a.book = b
    BY <1>2, <2>1, <2>2
  <2>3. CASE a.book = Insert(b, a.order)
    <3>1. a.book.orders[id] = a.order
      BY <1>2, <2>1, <2>3, InsertAdds
    <3>2. QED
      BY <2>1, <3>1 DEF Agrees
  <2>4. QED
    BY <1>2, <2>2, <2>3 DEF Accepts
<1>3. CASE o.order_id \notin Ids(book) /\ Accepts(a, book, o)
  BY <1>2, <1>3
<1>4. CASE o.order_id \in Ids(book) /\ Cancels(a, book, o)
  BY <1>1, <1>4 DEF Cancels, SameTerms, Same, out
<1>5. CASE o.order_id \in Ids(book) /\ Amends(a, book, o)
  BY <1>5 DEF Amends, SameTerms, Same, Agrees
<1>6. CASE o.order_id \in Ids(book) /\ Accepts(a, Withdraw(book, {o.order_id}), o)
  BY <1>1, <1>2, <1>6 DEF out
<1>7. QED
  BY <1>3, <1>4, <1>5, <1>6 DEF Answers, Refuses

\* The exchange answers.
LEMMA AnsweredMirrors ==
    ASSUME Inv, Lives, Lives', Mirrors, Answered
    PROVE  Mirrors'
<1> DEFINE o == Head(to_exch).order
           who == o.order_id
<1>1. /\ to_exch' = Tail(to_exch) /\ to_exch # <<>> /\ local_orders' = local_orders
  BY DEF Answered
<1>2. PICK a, new : Replies(a, new)
  BY DEF Answered
<1>3. On(to_exch) = On(to_exch') \cup {o} /\ o \in Order /\ o.req \in Requested
  <2>1. On(to_exch) = On(to_exch') \cup {o} /\ o \in Order
    BY <1>1, BusFacts, OnTail DEF Plain
  <2>2. Head(to_exch) \in RequestEntry
    BY <1>1, HeadTailProperties DEF Inv, BusTyped
  <2>3. QED
    BY <2>1, <2>2 DEF RequestEntry
<1> DEFINE r == ToPlain(a.order)
<1>4. On(to_local') = On(to_local) \cup {r}
  BY <1>2, OnReplies
<1>5. /\ Answers(a, book, o) /\ book' = a.book /\ a.order \in Order
      /\ new \in Seq(Entry) /\ Len(new) = 1 /\ new[1].order = r /\ to_local' = to_local \o new
  BY <1>2 DEF Replies
<1>6. 1 \in Asked(to_exch, who)
  BY <1>1, BusFacts, TailMoves
<1> HIDE DEF o
<1>7. BookOK(book) /\ to_local \in Seq(Entry)
  BY BusFacts DEF Inv, ExchTyped
<1>8. /\ a.order.order_id = who
      /\ \/ a.order.req = "Rejected"
         \/ /\ o.req = "New" <=> who \notin Ids(book)
            /\ a.order.req \notin {"Rejected", "New"}
  BY <1>3, <1>5, <1>7, AnswersSay
<1>9. /\ r.order_id = who /\ r.req = a.order.req /\ r.side = a.order.side
      /\ Agrees(r, a.order)
  BY <1>5, <1>8, PlainSays DEF SameTerms, Same, Agrees
<1> HIDE DEF r
<1>10. 1..Len(new) = {1}
  BY <1>5
<1>11. ASSUME NEW id, id # who \/ r.req = "Rejected"
       PROVE  /\ \A x : Newest(to_local', id, x) => Newest(to_local, id, x)
              /\ Silent(to_local', id) => Silent(to_local, id)
  <2>1. Silent(new, id)
    BY <1>5, <1>9, <1>10, <1>11 DEF Silent, On
  <2>2. QED
    BY <1>5, <1>7, <2>1, NewestJoin
<1>12. ASSUME NEW id \in OrderIds
       PROVE  Mirror(id, local_orders', to_exch', to_local', book')
  <2>1. /\ Mirror(id, local_orders, to_exch, to_local, book)
        /\ View(id, local_orders, to_local, book)
        /\ Entering(id, local_orders, to_exch, to_local)
    BY DEF Mirrors, Lives, LifeOf
  <2>2. CASE id # who
    <3>1. id \in Ids(book') => id \in Ids(book) /\ Agrees(book'.orders[id], book.orders[id])
      BY <1>5, <1>7, <2>2, AnswersOthers DEF Agrees
    <3>2. /\ \A x \in On(to_exch') : x.order_id = id => x \in On(to_exch)
          /\ Unasked(to_exch', id) => Unasked(to_exch, id)
      BY <1>3, <2>2 DEF Unasked
    <3>3. \A x \in On(to_local') : x.order_id = id /\ x.req # "Rejected" => x \in On(to_local)
      BY <1>4, <1>9, <2>2
    <3>4. QED
      BY <1>1, <1>11, <2>1, <2>2, <3>1, <3>2, <3>3, MirrorKept
  <2>3. CASE id = who /\ a.order.req = "Rejected"
    <3>1. Refuses(a, book, o) /\ IF o.req = "New" THEN id \in Ids(book) ELSE id \notin Ids(book)
      BY <1>5, <2>3 DEF Answers, Accepts, Cancels, Amends
    <3>2. id \notin Ids(book)
      <4> SUFFICES ASSUME id \in Ids(book), o.req = "New" PROVE FALSE
        BY <3>1
      <4>1. local_orders[id].status = "None" /\ id \in DOMAIN local_orders
        BY <1>6, <2>1, <2>3 DEF Entering, o
      <4>2. News(to_local, id) = {}
        BY <1>6, <2>1, <2>3, <4>1 DEF Entering
      <4>3. QED
        BY <2>1, <4>1, <4>2 DEF View, Working
    <3>3. id \notin Ids(book')
      BY <1>5, <3>1, <3>2 DEF Refuses
    <3>4. /\ \A x \in On(to_local') : x.order_id = id /\ x.req # "Rejected" => x \in On(to_local)
          /\ \A x \in On(to_exch') : x \in On(to_exch)
      BY <1>3, <1>4, <1>9, <2>3
    <3>5. QED
      BY <1>1, <2>1, <3>3, <3>4 DEF Mirror
  <2>4. CASE id = who /\ a.order.req # "Rejected"
    <3>1. o \in On(to_exch)
      BY <1>3
    <3>2. id \in DOMAIN local_orders /\ o.side = local_orders[id].side
      BY <1>8, <2>1, <2>4, <3>1 DEF Mirror
    <3>3. id \in Ids(book) => o.side = book.orders[id].side
      BY <2>1, <3>2 DEF Mirror
    <3>4. /\ a.order.side = o.side
          /\ id \in Ids(book') => Agrees(a.order, book'.orders[id])
      BY <1>5, <1>7, <2>4, <3>3, AnswersAgree
    <3>5. \A x : Newest(to_local', id, x) => x = r
      <4>1. News(new, id) = {1}
        BY <1>5, <1>9, <1>10, <2>4 DEF News
      <4>2. QED
        BY <1>5, <1>7, <4>1, NewestJoin
    <3>6. id \in Ids(book) \/ \A x \in On(to_exch') : x.order_id # id
      <4> SUFFICES ASSUME id \notin Ids(book) PROVE Unasked(to_exch', id)
        BY DEF Unasked
      <4>1. o.req = "New"
        BY <1>8, <2>4
      <4>2. local_orders'[id].status = "None" /\ id \in DOMAIN local_orders'
        BY <1>1, <1>6, <2>1, <2>4, <4>1 DEF Entering, o
      <4>3. ~Silent(to_local', id)
        BY <1>4, <1>9, <2>4 DEF Silent
      <4>4. Entering(id, local_orders', to_exch', to_local')
        BY DEF Lives, LifeOf
      <4>5. Asked(to_exch', id) = {}
        BY <4>2, <4>3, <4>4, SilentNews DEF Entering
      <4>6. QED
        BY <4>5, SilentNews
    <3>7. /\ r.side = local_orders[id].side /\ r.order_id = id /\ r.req # "Rejected"
          /\ r \in On(to_local')
          /\ \A x \in On(to_local') : x.order_id = id => x = r \/ x \in On(to_local)
          /\ On(to_exch') \subseteq On(to_exch)
      BY <1>3, <1>4, <1>9, <2>4, <3>2, <3>4
    <3>8. id \in Ids(book') => Agrees(r, book'.orders[id])
      BY <1>9, <3>4 DEF Agrees
    <3>9. Mirror(id, local_orders, to_exch', to_local', book')
      <4>1. id \in Ids(book') => id \in Ids(book) \/ \A x \in On(to_exch') : x.order_id # id
        BY <3>6
      <4>2. On(to_exch') \subseteq On(to_exch) /\ id \in DOMAIN local_orders
        BY <3>2, <3>7
      <4>3. /\ r.side = local_orders[id].side /\ r.order_id = id /\ r.req # "Rejected"
            /\ r \in On(to_local')
            /\ \A x \in On(to_local') : x.order_id = id => x = r \/ x \in On(to_local)
        BY <3>7
      <4>4. QED
        BY <2>1, <3>5, <3>8, <4>1, <4>2, <4>3, MirrorTold
    <3>10. QED
      BY <1>1, <3>9
  <2>5. QED
    BY <2>2, <2>3, <2>4
<1>13. QED
  BY <1>12, MirrorsNext

\* The exchange executes orders.
LEMMA ExecutedMirrors ==
    ASSUME Inv, Lives, Mirrors, Executed
    PROVE  Mirrors'
<1>1. PICK fills, new, ts :
         /\ Event(fills, ts) /\ Tells(fills, new) /\ to_local' = to_local \o new
         /\ exch_pos' = ApplyFills(exch_pos, fills)
  BY DEF Executed
<1>2. to_exch' = to_exch /\ local_orders' = local_orders
  BY DEF Executed
<1>3. On(to_local') = On(to_local) \cup {ToPlain(fills[id]) : id \in DOMAIN fills}
  BY <1>1, OnTells
<1>4. BookOK(book) /\ Settled(book) /\ to_local \in Seq(Entry) /\ new \in Seq(Entry)
  BY <1>1, BusFacts DEF Inv, ExchTyped, Lives, Tells
<1>5. ASSUME NEW id \in DOMAIN fills
      PROVE  /\ id \in Ids(book) /\ fills[id].side = book.orders[id].side
             /\ LET r == ToPlain(fills[id])
                IN  /\ r.order_id = id /\ r.req = "None" /\ r.side = book.orders[id].side
                    /\ id \in Ids(book') => Agrees(r, book'.orders[id])
  <2>1. Takes(fills[id], book.orders[id]) /\ id \in Ids(book)
    BY <1>1 DEF Event
  <2>2. book.orders[id].order_id = id /\ book.orders[id].req = "None"
    BY <1>4, <2>1 DEF BookOK, IsBook, IsOrderMap, Ids, Settled
  <2>3. fills[id] \in Order /\ fills[id].order_id = id /\ fills[id].req = "None"
    BY <2>1, <2>2, TakesSays
  <2>4. fills[id].side = book.orders[id].side
    BY <2>1 DEF Takes, Executes, SameTerms, Same
  <2>5. id \in Ids(book') => book'.orders[id] = fills[id]
    BY <1>1 DEF Event
  <2>6. QED
    BY <2>1, <2>3, <2>4, <2>5, PlainSays DEF SameTerms, Same, Agrees
<1>6. \A k \in 1..Len(new) : /\ new[k].order.order_id \in DOMAIN fills
                             /\ new[k].order = ToPlain(fills[new[k].order.order_id])
  BY <1>1 DEF Tells
<1>7. ASSUME NEW id \in OrderIds
      PROVE  Mirror(id, local_orders', to_exch', to_local', book')
  <2>1. Mirror(id, local_orders, to_exch, to_local, book)
    BY DEF Mirrors
  <2>2. CASE id \notin DOMAIN fills
    <3>1. Silent(new, id)
      BY <1>6, <2>2 DEF Silent, On
    <3>2. /\ \A x : Newest(to_local', id, x) => Newest(to_local, id, x)
          /\ Silent(to_local', id) => Silent(to_local, id)
      BY <1>1, <1>4, <3>1, NewestJoin
    <3>3. \A x \in On(to_local') : x.order_id = id /\ x.req # "Rejected" => x \in On(to_local)
      BY <1>3, <1>5, <2>2
    <3>4. id \in Ids(book') => id \in Ids(book) /\ Agrees(book'.orders[id], book.orders[id])
      BY <1>1, <2>2 DEF Event, SameButQueue, SameTerms, Same, Agrees
    <3>5. QED
      BY <1>2, <2>1, <3>2, <3>3, <3>4, MirrorKept
  <2>3. CASE id \in DOMAIN fills
    <3> DEFINE r == ToPlain(fills[id])
    <3>1. /\ id \in Ids(book) /\ r.order_id = id /\ r.req = "None"
          /\ r.side = book.orders[id].side
          /\ id \in Ids(book') => Agrees(r, book'.orders[id])
      BY <1>5, <2>3
    <3>2. id \in DOMAIN local_orders /\ r.side = local_orders[id].side
      BY <2>1, <3>1 DEF Mirror
    <3>3. PICK k \in 1..Len(new) : new[k].order.order_id = id
      BY <1>1, <2>3 DEF Tells
    <3>4. new[k].order = r
      BY <1>6, <3>3
    <3>5. r \in On(to_local')
      BY <1>3, <2>3
    <3>6. \A x \in On(to_local') : x.order_id = id => x = r \/ x \in On(to_local)
      BY <1>3, <1>5
    <3> HIDE DEF r
    <3>7. k \in News(new, id) /\ \A l \in News(new, id) : l = k
      BY <1>1, <3>1, <3>3, <3>4 DEF News, Tells
    <3>8. \A x : Newest(to_local', id, x) => x = r
      BY <1>1, <1>4, <3>4, <3>7, NewestJoin
    <3>9. r.req # "Rejected" /\ On(to_exch') \subseteq On(to_exch)
      BY <1>2, <3>1
    <3>10. QED
      BY <1>2, <2>1, <3>1, <3>2, <3>5, <3>6, <3>8, <3>9, MirrorTold
  <2>4. QED
    BY <2>2, <2>3
<1>8. QED
  BY <1>7, MirrorsNext

\* Every step.
LEMMA MirrorsStep ==
    ASSUME Inv, Resting, Prompt, AmendmentsArrive, Lives, Lives', Mirrors, [Next]_vars
    PROVE  Mirrors'
<1>1. Acknowledgeable
  BY BusFacts, TailEntries DEF Acknowledgeable, Prompt
<1>2. CASE Rests
  BY <1>2, MirrorsNext DEF Rests, Mirrors
<1>3. QED
  BY <1>1, <1>2, KindsOfSteps, SeeksMirrors, HearsMirrors, ForgetsMirrors,
     AnsweredMirrors, ExecutedMirrors

LEMMA MirrorsInit == Init => Mirrors
<1> SUFFICES ASSUME Init PROVE Mirrors
  OBVIOUS
<1>1. /\ to_exch = <<>> /\ to_local = <<>> /\ Ids(book) = {}
  BY DEF Init, ExchInit, EmptyBook, Ids
<1>2. 1..0 = {} /\ Len(<<>>) = 0
  OBVIOUS
<1>3. On(to_exch) = {} /\ On(to_local) = {}
  BY <1>1, <1>2 DEF On
<1>4. QED
  BY <1>1, <1>3 DEF Mirrors, Mirror

LEMMA MirrorsHold == ASSUME AmendmentsArrive PROVE Spec => []Mirrors
<1>1. Careful
  BY DEF AmendmentsArrive
<1>2. Inv /\ Resting /\ Prompt /\ Lives /\ Lives' /\ Mirrors /\ [Next]_vars => Mirrors'
  BY MirrorsStep
<1>3. QED
  BY <1>1, <1>2, MirrorsInit, InvHolds, RestingHolds, PromptHolds, LivesHold, PTL DEF Spec

\* Order::update and the two process_recv_order: when nothing about an order is on its
\* way, the strategy sees it working exactly when it rests at the exchange, and at the
\* same side, price, quantities and status.
THEOREM BothSeeTheSame == ASSUME AmendmentsArrive PROVE Spec => []ViewsAgree
<1>1. Careful
  BY DEF AmendmentsArrive
<1>2. Inv /\ Lives /\ Mirrors => ViewsAgree
  BY MirrorsShow
<1>3. QED
  BY <1>1, <1>2, InvHolds, LivesHold, MirrorsHold, PTL

=============================================================================
