\* A fill that carries a position through zero.
CONSTANTS
  Symbols = {"AAPL", "CALL"}
  Sessions <- MCSessions
  Histories <- MCHistories
  Contracts <- MCContracts
  Signals <- MCSignals
  InitialCash = 40
  SlippageBps = 5000
  PerUnit <- MCPerUnit
  MinimumTicket = 2
  SecFee = 1
  MaxSignals = 3
SPECIFICATION Spec
INVARIANT LiveAverageIsOfLots
CHECK_DEADLOCK FALSE
