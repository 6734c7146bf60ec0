------------------------------ MODULE MCReader ------------------------------
(***************************************************************************)
(* Instances of EventReader for TLC: every recording of a few small        *)
(* shards, empty ones and rows that nobody sees included.                  *)
(***************************************************************************)
EXTENDS EventReader

Upto(n, S) == UNION {[1..k -> S] : k \in 0..n}

\* Three shards of at most one row, and two shards of at most two rows.
MCRecordings ==
    Upto(3, Upto(1, SUBSET Readers)) \cup Upto(2, Upto(2, SUBSET Readers))

=============================================================================
