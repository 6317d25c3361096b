\* Seven bars of two symbols and up to three signals.
CONSTANTS
  Symbols = {"AAPL", "CALL"}
  Sessions <- MCSessions
  Histories <- MCHistories
  Contracts <- MCContracts
  Signals <- MCSignals
  InitialCash = 40
  SlippageBps = 5000
  PerUnit <- MCPerUnit
  MinimumTicket = 2
  SecFee = 1
  MaxSignals = 3
SPECIFICATION Spec
INVARIANTS
  ExecutesAtNextOpen
  MoneyIdentity
  AttributionExplainsRealized
  ExpiredOptionsAreClosed
  BooksAgree
  AccountAverageIsOfLots
PROPERTIES
  ReachesLastTarget
CHECK_DEADLOCK FALSE
