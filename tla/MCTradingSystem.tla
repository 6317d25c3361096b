-------------------------- MODULE MCTradingSystem --------------------------
(* TradingSystem for TLC.  Identifiers are interchangeable model values.   *)
EXTENDS TradingSystem, TLC

Symmetry ==
    Permutations(Keys) \cup Permutations(BrokerIds) \cup Permutations(FillIds)

=============================================================================
