---------------------------- MODULE MCRoundTrips ----------------------------
(***************************************************************************)
(* Instances of RoundTrips for TLC.                                        *)
(***************************************************************************)
EXTENDS RoundTrips

\* What a recorded round trip may be: accepted with short and long ways, or
\* rejected with a short or a long round trip.
MCTrips == ([to : {0, 1, 3}, back : {1, 3}, ok : {TRUE}]
            \cup [to : {0}, back : {1, 4}, ok : {FALSE}])

MCRow(ts, trip) == [req_ts |-> ts, exch_ts |-> IF trip.ok THEN ts + trip.to ELSE 0,
                    resp_ts |-> ts + trip.to + trip.back]

\* Rows close together, further apart and at the same time.
MCMoments == {<<3>>, <<2, 6>>, <<2, 4, 7>>, <<2, 5, 5>>, <<3, 3>>, <<4, 3>>}

MCOffsets == {-1, 0, 1}

MCRecordings ==
    UNION {{[i \in DOMAIN moments |-> MCRow(moments[i], way[i])] :
              way \in [DOMAIN moments -> MCTrips]} : moments \in MCMoments}

=============================================================================
