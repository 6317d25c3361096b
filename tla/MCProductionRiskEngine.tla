----------------------- MODULE MCProductionRiskEngine -----------------------
(* ProductionRiskEngine for TLC: three keys, two healthy snapshots, and    *)
(* for every control a snapshot that sits just past the control's limit.   *)
EXTENDS ProductionRiskEngine

MCLimits ==
    [position |-> 2, sector |-> 10, group |-> 10, gross |-> 10, net |-> 10,
     dailyLoss |-> 1, drawdown |-> 2, ordersPerMinute |-> 1,
     delta |-> 1, gamma |-> 1, vega |-> 1, daysToExpiry |-> 1, staleSeconds |-> 1]

MCOrders ==
    {[key |-> "s:a", strategy |-> "s", side |-> "BUY", quantity |-> 1, isOption |-> FALSE],
     [key |-> "s:b", strategy |-> "s", side |-> "SELL", quantity |-> 1, isOption |-> TRUE],
     [key |-> "t:c", strategy |-> "t", side |-> "BUY", quantity |-> 2, isOption |-> FALSE]}

Healthy ==
    [position |-> 0, gross |-> 8, net |-> 0, pnl |-> 0, drawdown |-> [s |-> 0, t |-> 0],
     quote |-> [timestamp |-> 1, last |-> 0, bid |-> 1, ask |-> 3],
     instrument |-> [sector |-> 8, group |-> 0, expiry |-> 1],
     delta |-> 0, gamma |-> 0, vega |-> 0, brokerConnected |-> TRUE]

Light == [Healthy EXCEPT !.gross = 0, !.instrument.sector = 0]

MCSnapshots ==
    {Healthy, Light,
     [Healthy EXCEPT !.brokerConnected = FALSE],
     [Healthy EXCEPT !.pnl = -1],
     [Healthy EXCEPT !.drawdown.t = 2],
     [Healthy EXCEPT !.quote = NoQuote],
     [Healthy EXCEPT !.quote.timestamp = -1],
     [Light EXCEPT !.position = 2],
     [Healthy EXCEPT !.gross = 9],
     [Light EXCEPT !.net = 9],
     [Light EXCEPT !.instrument.sector = 9],
     [Light EXCEPT !.instrument.group = 9],
     [Light EXCEPT !.instrument.expiry = NoExpiry, !.delta = -2],
     [Light EXCEPT !.instrument = NoInstrument, !.gamma = 2],
     [Light EXCEPT !.vega = 2]}
=============================================================================
