------------------------------ MODULE RoundTrips ------------------------------
(***************************************************************************)
(* Requests and responses between one local processor and its exchange     *)
(* with interpolated latencies: the two buses of                           *)
(* include/hbt/backtest/order_bus.hpp fed by IntpOrderLatency.             *)
(*                                                                         *)
(* A trip is one request: when it was asked, when it reached the exchange  *)
(* (0 while or if it does not), and when its answer is received (0 while   *)
(* it is not known).  The bus to the exchange holds the trips that are on  *)
(* their way; of the other only the last time scheduled matters.           *)
(***************************************************************************)
EXTENDS IntpLatency, FiniteSets

CONSTANTS
    Recordings,     \* sequences of rows
    Offsets,        \* latency_offset
    Horizon,        \* bound: the last time something is asked
    MaxTrips        \* bound: requests made

Row == [req_ts : Nat, exch_ts : Nat, resp_ts : Nat]

\* Recordings have at least a tick between request and answer, and the exchange in
\* between; the offset leaves times positive.
ASSUME RecordingAssumption ==
    /\ Horizon \in Nat /\ MaxTrips \in Nat /\ Offsets \subseteq Int
    /\ \A recording \in Recordings, offset \in Offsets :
          /\ recording \in Seq(Row)
          /\ \A i \in DOMAIN recording :
                LET row == recording[i]
                IN  /\ row.req_ts + offset > 0
                    /\ row.req_ts < row.resp_ts
                    /\ Valid(row) => row.req_ts <= row.exch_ts /\ row.exch_ts <= row.resp_ts

VARIABLES
    rows,        \* rows_
    now,         \* cur_ts_
    trips,       \* the requests made so far, in turn
    to_exch,     \* the numbers of the trips that are to reach the exchange, with when
    latest       \* when the last response on the bus to the local side is received

vars == <<rows, now, trips, to_exch, latest>>

Init ==
    /\ \E recording \in Recordings, offset \in Offsets :
          rows = Shifted(recording, offset)
    /\ Constructs(rows)
    /\ now = 1
    /\ trips = <<>> /\ to_exch = <<>> /\ latest = 0

Later(a, b) == IF a > b THEN a ELSE b

\* LocalToExch::request with the latency of this moment.
Request ==
    /\ Len(trips) < MaxTrips
    /\ \E lat \in Entry(rows, now) :
          LET back == Later(now - lat, latest)
              due == Later(now + lat, IF to_exch = <<>> THEN 0 ELSE Last(to_exch).ts)
          IN  IF lat < 0
              THEN /\ trips' = Append(trips, [asked |-> now, reached |-> 0, answered |-> back])
                   /\ latest' = back
                   /\ UNCHANGED to_exch
              ELSE /\ trips' = Append(trips, [asked |-> now, reached |-> 0, answered |-> 0])
                   /\ to_exch' = Append(to_exch, [trip |-> Len(trips) + 1, ts |-> due])
                   /\ UNCHANGED latest
    /\ UNCHANGED <<rows, now>>

DueNow == to_exch # <<>> /\ Head(to_exch).ts = now

\* The exchange takes a request that is due and ExchToLocal::respond answers it.
Answers ==
    /\ DueNow
    /\ \E lat \in Response(rows, now) :
          /\ latest' = Later(now + lat, latest)
          /\ trips' = [trips EXCEPT ![Head(to_exch).trip].reached = now,
                                    ![Head(to_exch).trip].answered = latest']
    /\ to_exch' = Tail(to_exch)
    /\ UNCHANGED <<rows, now>>

\* Time goes on; the strategy may ask at any time.
Passes ==
    /\ ~DueNow
    /\ now < Horizon \/ to_exch # <<>>
    /\ now' = now + 1
    /\ UNCHANGED <<rows, trips, to_exch, latest>>

Next == (now <= Horizon /\ Request) \/ Answers \/ Passes

Spec == Init /\ [][Next]_vars

-----------------------------------------------------------------------------
(* Properties.                                                              *)

Rejected(trip) == trip.answered > 0 /\ trip.reached = 0
Done(trip) == trip.reached > 0

\* The recorded requests beside a moment: the last one up to it and the next one;
\* the first alone up to its time, the last alone after it.
Beside(ts) ==
    IF ts <= rows[1].req_ts
    THEN {1}
    ELSE {i \in DOMAIN rows :
            /\ rows[i].req_ts > ts => rows[i - 1].req_ts <= ts
            /\ rows[i].req_ts <= ts => i = Len(rows) \/ rows[i + 1].req_ts > ts}

\* A request is rejected exactly when a recorded one beside it was: interpolation
\* never cuts a rejection to the zero that stands for an accepted request, nor
\* takes an accepted one below zero.
RejectionsKept ==
    \A n \in DOMAIN trips :
        Rejected(trips[n]) <=> \E i \in Beside(trips[n].asked) : ~Valid(rows[i])

Within(time, times) == (\E t \in times : t <= time) /\ (\E t \in times : time <= t)

\* No way takes less or more time than the recorded ones of its kind, unless an
\* earlier message held it back on the bus.
WithinRecorded ==
    \A n \in DOMAIN trips :
        LET trip == trips[n]
            accepted == Accepted(rows)
        IN  /\ Done(trip) =>
                  /\ \/ Within(trip.reached - trip.asked,
                              {rows[i].exch_ts - rows[i].req_ts : i \in accepted})
                     \/ \E m \in 1..(n - 1) : trips[m].reached = trip.reached
                  /\ \/ Within(trip.answered - trip.reached, {Returned(rows[i]) : i \in accepted})
                     \/ \E m \in DOMAIN trips \ {n} : trips[m].answered = trip.answered
            /\ Rejected(trip) =>
                  \/ Within(trip.answered - trip.asked, {RoundTrip(rows[i]) : i \in DOMAIN rows})
                  \/ \E m \in DOMAIN trips \ {n} : trips[m].answered = trip.answered

\* Recordings without rejections in which nothing overtakes anything.
InOrder ==
    /\ \A i \in DOMAIN rows : Valid(rows[i])
    /\ \A i \in 1..(Len(rows) - 1) :
          /\ rows[i].exch_ts <= rows[i + 1].exch_ts
          /\ rows[i].resp_ts <= rows[i + 1].resp_ts

\* Nothing overtakes anything between the recorded moments either: no message has
\* to wait for an earlier one, though latencies are cut to integers.
NoneOvertaken ==
    InOrder => \A n \in DOMAIN trips :
        Done(trips[n]) =>
            /\ trips[n].reached - trips[n].asked \in Entry(rows, trips[n].asked)
            /\ trips[n].answered - trips[n].reached \in Response(rows, trips[n].reached)

\* A request made at a recorded moment has the recorded round trip, up to rows with
\* the same time at the exchange.
ReplaysRecording ==
    InOrder => \A n \in DOMAIN trips :
        Done(trips[n]) /\ (\E i \in DOMAIN rows : rows[i].req_ts = trips[n].asked) =>
            \E i, j \in DOMAIN rows :
                /\ rows[i].req_ts = trips[n].asked
                /\ rows[i].exch_ts = trips[n].reached
                /\ rows[j].exch_ts = trips[n].reached
                /\ rows[j].resp_ts = trips[n].answered

=============================================================================
