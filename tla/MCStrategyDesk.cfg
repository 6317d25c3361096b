\* Up to three prices and three triggers, the targets executed at any time.
CONSTANTS
  Instruments = {"AAPL", "HSBC", "CALL", "PUT"}
  Underlying = "AAPL"
  Opening <- MCOpening
  Events <- MCEvents
  Chains <- MCChains
  MomentumLookback = 2
  ReversionLookback = 2
  ReversionThreshold <- MCThreshold
  BreakoutLookback = 2
  BreakoutMultiplier <- MCMultiplier
  BaseLotSize = 100
  MinStrength <- MCMinStrength
  MaxEvents = 3
  MaxTriggers = 3
SPECIFICATION Spec
INVARIANTS
  PositionsWithinSignals
  CallsSoldAreBounded
PROPERTIES
  SignalsFollowPrices
  BreakoutComparesWithPast
CHECK_DEADLOCK FALSE
