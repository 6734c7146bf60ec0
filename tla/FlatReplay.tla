----------------------------- MODULE FlatReplay -----------------------------
(***************************************************************************)
(* What the sharded input promises: each processor is given the rows of    *)
(* the recording that it can see, all of them, once, in their order,       *)
(* unless the backtest is destroyed before.                                *)
(***************************************************************************)
EXTENDS Naturals, Sequences

CONSTANT Readers

VARIABLES
    shards,     \* the recording: for each shard, for each row, who sees it
    log,        \* what each reader was given so far, as <<shard, row>>
    destroyed   \* the backtest is gone

vars == <<shards, log, destroyed>>

Rows == UNION {{<<i, j>> : j \in 1..Len(shards[i])} : i \in 1..Len(shards)}
Visible(r) == {at \in Rows : r \in shards[at[1]][at[2]]}

\* The order of the recording.
IsBefore(a, b) == a[1] < b[1] \/ (a[1] = b[1] /\ a[2] < b[2])

Given(r) == {log[r][k] : k \in 1..Len(log[r])}
Left(r) == Visible(r) \ Given(r)

Init == log = [r \in Readers |-> <<>>] /\ destroyed = FALSE

Gives(r) ==
    /\ ~destroyed
    /\ \E at \in Left(r) :
          /\ \A other \in Left(r) \ {at} : IsBefore(at, other)
          /\ log' = [log EXCEPT ![r] = Append(@, at)]
    /\ UNCHANGED <<shards, destroyed>>

Ends == destroyed' = TRUE /\ UNCHANGED <<shards, log>>

Next == Ends \/ \E r \in Readers : Gives(r)

Spec == Init /\ [][Next]_vars
FairSpec == Spec /\ \A r \in Readers : WF_vars(Gives(r))

=============================================================================
