\* Two keys, two broker orders, two fills, quantities up to 2, one instrument;
\* the broker may rekey a replaced order and keep one key of calls that raise after it acted.
CONSTANTS
  Keys = {k1, k2}
  BrokerIds = {b1, b2}
  FillIds = {f1, f2}
  Instruments = {i1}
  MaxQuantity = 2
  RekeyingBroker = TRUE
  MaxLostReplies = 1
SPECIFICATION Spec
SYMMETRY Symmetry
INVARIANTS
  TypeOK
  StatusMatchesQuantity
  PositionsAreBookedFills
  RequestsAreNotOverfilled
  OneOrderPerKey
  KeysSubmittedOnce
  BrokerAgrees
PROPERTIES
  TerminalOrdersAreFrozen
  ImplementsLifecycle
CHECK_DEADLOCK FALSE
