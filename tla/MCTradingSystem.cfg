\* Two requests within three seconds of two minutes, one order per minute.
CONSTANTS
  Keys = {k1, k2}
  BrokerIds = {b1, b2}
  FillIds = {f1, f2}
  Instruments = {i1}
  MaxQuantity = 2
  RekeyingBroker = FALSE
  MaxLostReplies = 1
  Prices = {0, 3}
  Losses = {0, 1}
  MaxTime = 2
  MaxPositionSize = 2
  MaxOrderNotional = 4
  DailyLossLimit = 1
  MaxOrdersPerMinute = 1
  MaxStaleQuoteSeconds = 1
  SecondsPerMinute = 2
  NoQuote = NoQuote
  NoOrder = NoOrder
SPECIFICATION SystemSpec
SYMMETRY Symmetry
INVARIANTS
  RateLimitHolds
  WindowCountsSentOrders
  SingleOrderKeepsLimit
PROPERTIES
  KillSwitchStopsRequests
  NoRequestAfterLoss
CHECK_DEADLOCK FALSE
