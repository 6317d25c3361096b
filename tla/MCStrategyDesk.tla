--------------------------- MODULE MCStrategyDesk ---------------------------
(* StrategyDesk for TLC: two stocks, a call and a put on one; chains with  *)
(* and without volatilities and calls.  98 to 101 is too weak a move for a *)
(* target, 24 is just the multiplier times 20, and a baseline may be 0.    *)
EXTENDS StrategyDesk

Entry(contract, right, iv) ==
    [contract |-> contract, right |-> right, implied_volatility |-> iv]

MCChains ==
    {<<>>,
     <<Entry("CALL", "CALL", NoVolatility)>>,
     <<Entry("PUT", "PUT", 20)>>,
     <<Entry("CALL", "CALL", 20), Entry("PUT", "PUT", 28)>>,
     <<Entry("PUT", "PUT", 0), Entry("CALL", "CALL", NoVolatility)>>}

MCEvents ==
    {[instrument_id |-> "AAPL", price |-> p] : p \in {98, 101, 120}}
      \cup {[instrument_id |-> "HSBC", price |-> p] : p \in {99}}

MCOpening == [i \in Instruments |-> IF i = "AAPL" THEN 250 ELSE 0]
MCThreshold == Fraction(1, 100)
MCMultiplier == Fraction(6, 5)
MCMinStrength == Fraction(1, 10)
=============================================================================
