----------------------------- MODULE IntpLatency -----------------------------
(***************************************************************************)
(* IntpOrderLatency (include/hbt/models/latency.hpp): the latencies of     *)
(* requests and responses, interpolated between recorded round trips.  A   *)
(* row has the times a request left, reached the exchange and was answered *)
(* (req_ts, exch_ts, resp_ts); exch_ts is 0 when it was rejected.          *)
(*                                                                         *)
(* A latency that is interpolated goes through floating-point numbers and  *)
(* is cut to an integer, so the operators give the set of latencies that   *)
(* may come out.                                                           *)
(***************************************************************************)
EXTENDS Integers, SequencesExt

\* Integer division that cuts towards zero, as a conversion from double does.
Cut(n, d) == IF n < 0 THEN -((-n) \div d) ELSE n \div d

\* y2 - y1 over x2 - x1 is rounded before it is multiplied: where the product is
\* an integer that the quotient is not, it may come out just below and be cut.  Bound:
\* rise * distance is below 2^51, where doubles err by less than 1 / run.
Products(rise, run, distance) ==
    LET exact == Cut(rise * distance, run)
        nearer == IF exact > 0 THEN exact - 1 ELSE exact + 1
        mayDrop == /\ rise * distance # 0
                   /\ (rise * distance) % run = 0
                   /\ rise % run # 0
    IN  {exact} \cup (IF mayDrop THEN {nearer} ELSE {})

\* Mutants of Interpolate: what is added is added to the second row's value; the
\* distance is taken from the second row.
Interpolate_ToSecond(x, x1, y1, x2, y2) ==
    IF x1 = x2 THEN {y1} ELSE {y2 + p : p \in Products(y2 - y1, x2 - x1, x - x1)}

Interpolate_FromSecond(x, x1, y1, x2, y2) ==
    IF x1 = x2 THEN {y1} ELSE {y1 + p : p \in Products(y2 - y1, x2 - x1, x2 - x)}

Interpolate(x, x1, y1, x2, y2) ==
    IF x1 = x2 THEN {y1} ELSE {y1 + p : p \in Products(y2 - y1, x2 - x1, x - x1)}

\* The constructor: rows are shifted, a rejection stays one; they must be there and
\* in the order of their requests, or it throws.
Shifted(rows, offset) ==
    [i \in DOMAIN rows |->
        [req_ts |-> rows[i].req_ts + offset,
         exch_ts |-> rows[i].exch_ts + (IF rows[i].exch_ts > 0 THEN offset ELSE 0),
         resp_ts |-> rows[i].resp_ts + offset]]

Constructs(rows) ==
    /\ rows # <<>>
    /\ \A i \in 1..(Len(rows) - 1) : rows[i].req_ts <= rows[i + 1].req_ts

Valid(row) == row.exch_ts > 0
RoundTrip(row) == row.resp_ts - row.req_ts

\* entry_latency: what one row says, negative for a rejection.
EntryLatency(row) == IF Valid(row) THEN row.exch_ts - row.req_ts ELSE -RoundTrip(row)

Negated(S) == {-n : n \in S}

\* Mutant of Between: only the row in front decides about a rejection.
Between_FirstDecides(ts, a, b) ==
    IF Valid(a)
    THEN Interpolate(ts, a.req_ts, a.exch_ts - a.req_ts, b.req_ts,
                     IF Valid(b) THEN b.exch_ts - b.req_ts ELSE RoundTrip(b))
    ELSE Negated(Interpolate(ts, a.req_ts, RoundTrip(a), b.req_ts, RoundTrip(b)))

\* A request between two rows, one of which was rejected or none.
Between(ts, a, b) ==
    IF Valid(a) /\ Valid(b)
    THEN Interpolate(ts, a.req_ts, a.exch_ts - a.req_ts, b.req_ts, b.exch_ts - b.req_ts)
    ELSE Negated(Interpolate(ts, a.req_ts, RoundTrip(a), b.req_ts, RoundTrip(b)))

\* upper_bound of request_bracket: the first row behind ts, or one past the last.
Behind(rows, ts) ==
    LET behind == {i \in DOMAIN rows : ts < rows[i].req_ts}
    IN  IF behind = {} THEN Len(rows) + 1 ELSE Min(behind)

Entry(rows, ts) ==
    LET second == Behind(rows, ts)
    IN  IF ts <= rows[1].req_ts THEN {EntryLatency(rows[1])}
        ELSE IF second > Len(rows) THEN {EntryLatency(Last(rows))}
        ELSE Between(ts, rows[second - 1], rows[second])

Returned(row) == row.resp_ts - row.exch_ts

\* The rows that were not rejected.
Accepted(rows) == {i \in DOMAIN rows : Valid(rows[i])}

\* Mutant of Response: the time of the request is looked up, not the exchange's.
Response_ByRequest(rows, ts) ==
    LET valid == Accepted(rows)
        passed == {i \in valid : ts < rows[i].req_ts}
        current == Min(passed)
        previous == Max({i \in valid : i < current})
    IN  IF valid = {} THEN {0}
        ELSE IF passed = {} THEN {Returned(rows[Max(valid)])}
        ELSE IF current = Min(valid) THEN {Returned(rows[current])}
        ELSE Interpolate(ts, rows[previous].req_ts, Returned(rows[previous]),
                         rows[current].req_ts, Returned(rows[current]))

\* response: the rows that were not rejected, by their times at the exchange; the
\* scan stops at the first of them that ts is before.
Response(rows, ts) ==
    LET valid == Accepted(rows)
        first == Min(valid)
        passed == {i \in valid \ {first} : ts < rows[i].exch_ts}
        current == Min(passed)
        previous == Max({i \in valid : i < current})
    IN  IF valid = {} THEN {0}
        ELSE IF ts <= rows[first].exch_ts THEN {Returned(rows[first])}
        ELSE IF passed = {} THEN {Returned(rows[Max(valid)])}
        ELSE Interpolate(ts, rows[previous].exch_ts, Returned(rows[previous]),
                         rows[current].exch_ts, Returned(rows[current]))

=============================================================================
