------------------------------ MODULE Timeline ------------------------------
(***************************************************************************)
(* What the dispatch loop of a backtest promises, whatever the processors  *)
(* do: everything that is scheduled happens at its time, in the order of   *)
(* time and, at one time, in the order of the sources; the clock never     *)
(* goes back; and the strategy gets its turn at a time up to which nothing *)
(* is left to happen.                                                      *)
(***************************************************************************)
EXTENDS Integers

CONSTANTS
    Sources,    \* natural numbers, in the order they take turns in
    Never       \* the time of a source that has nothing scheduled, a natural number

VARIABLES
    clock,
    due,        \* when each source is next
    running     \* the loop has the turn, not the strategy

vars == <<clock, due, running>>

Init ==
    /\ clock \in Nat
    /\ due \in [Sources -> Nat]
    /\ \A s \in Sources : clock <= due[s]
    /\ running = FALSE

First(s) ==
    /\ due[s] < Never
    /\ \A r \in Sources : due[s] < due[r] \/ (due[s] = due[r] /\ s <= r)

\* A source that has something scheduled keeps it; an idle one may get something
\* that is not in the past.
Keeps(s) == due'[s] = due[s] \/ (due[s] = Never /\ clock' <= due'[s])

StrategyActs ==
    /\ ~running
    /\ running' \in BOOLEAN
    /\ clock' = clock
    /\ due' \in [Sources -> Nat]
    /\ \A s \in Sources : Keeps(s)

Happens(s) ==
    /\ running
    /\ First(s)
    /\ clock' = due[s]
    /\ due' \in [Sources -> Nat]
    /\ clock' <= due'[s]
    /\ \A r \in Sources \ {s} : Keeps(r)
    /\ UNCHANGED running

HandsBack ==
    /\ running
    /\ running' = FALSE
    /\ clock' \in Nat
    /\ clock <= clock'
    /\ \A s \in Sources : due[s] < Never => clock' < due[s]
    /\ UNCHANGED due

Next == StrategyActs \/ (\E s \in Sources : Happens(s)) \/ HandsBack

Spec == Init /\ [][Next]_vars

=============================================================================
