\* The bars of MCBacktest: a signal on the stock's close for the option.
CONSTANTS
  Symbols = {"AAPL", "CALL"}
  Sessions <- MCSessions
  Histories <- MCHistories
  Contracts <- MCContracts
  Signals <- MCSignals
  InitialCash = 40
  SlippageBps = 5000
  PerUnit <- MCPerUnit
  MinimumTicket = 2
  SecFee = 1
  MaxSignals = 3
SPECIFICATION Spec
INVARIANT NoLookahead
CHECK_DEADLOCK FALSE
