----------------------------- MODULE MCTrading -----------------------------
(***************************************************************************)
(* Instances of Trading for TLC: small books and sets of order kinds.      *)
(***************************************************************************)
EXTENDS Trading, TLC

\* One level on each side, a lot away from each other, as in the tests.
SpreadBook ==
    UpdateDepth(UpdateDepth(EmptyDepth, "Buy", 1, LotSize), "Sell", NTicks, LotSize)

MCSpread == {SpreadBook}

MCLimitGTC == {<<"Limit", "GTC">>}
MCAllKinds == {<<"Limit", "GTC">>, <<"Limit", "GTX">>, <<"Limit", "IOC">>,
               <<"Limit", "FOK">>, <<"Market", "IOC">>}

MCLatency0and1 == {0, 1}
MCLatency1 == {1}
MCSlowOrRejection == {-1, 2}

MCSymmetry == Permutations(OrderIds)

=============================================================================
