\* Two fills polled together, the first one raising.
CONSTANTS
  Keys = {k1, k2}
  BrokerIds = {b1, b2}
  FillIds = {f1, f2}
  Instruments = {i1}
  MaxQuantity = 2
  RekeyingBroker = FALSE
  MaxLostReplies = 0
SPECIFICATION Spec
SYMMETRY Symmetry
INVARIANT PolledFillsAreProcessed
CHECK_DEADLOCK FALSE
