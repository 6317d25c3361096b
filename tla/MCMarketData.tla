---------------------------- MODULE MCMarketData ----------------------------
(* MarketData for TLC: the time to live of a quote.                        *)
EXTENDS MarketData

MCTTL == [k \in {"quote"} |-> 2]
=============================================================================
