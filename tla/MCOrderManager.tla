--------------------------- MODULE MCOrderManager ---------------------------
(* OrderManager for TLC: keys, broker ids, fill ids and instruments are    *)
(* interchangeable model values.                                           *)
EXTENDS OrderManager, TLC

Symmetry ==
    Permutations(Keys) \cup Permutations(BrokerIds) \cup Permutations(FillIds)
      \cup Permutations(Instruments)
=============================================================================
