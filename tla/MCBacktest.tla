----------------------------- MODULE MCBacktest -----------------------------
(***************************************************************************)
(* Instances of Backtest for TLC.                                          *)
(***************************************************************************)
EXTENDS Backtest, FiniteSetsExt

MCEntry == {-1, 0, 1}

\* Feeds with one or two rows in all, of one asset or of two.
MCFeeds ==
    {f \in [DataSlots -> 0..2] : MapThenSumSet(LAMBDA i : f[i], DataSlots) \in {1, 2}}

=============================================================================
