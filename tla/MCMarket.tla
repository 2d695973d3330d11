------------------------------ MODULE MCMarket ------------------------------
(***************************************************************************)
(* Model checking of Market: settings a restart may find, and symmetry.    *)
(***************************************************************************)
EXTENDS MarketSettles, TLC

RoyaltyMode == [payment |-> TRUE, royalty |-> TRUE]
RewardMode  == [payment |-> TRUE, royalty |-> FALSE]
FreeMode    == [payment |-> FALSE, royalty |-> FALSE]

RoyaltyOnly == {RoyaltyMode}
AnyMode     == {RoyaltyMode, RewardMode, FreeMode}

\* Safety runs only: clients, queries, claims and adjudicators are alike.
Alike == Permutations(Queries) \cup Permutations(Claims) \cup Permutations(Adjudicators)
=============================================================================
