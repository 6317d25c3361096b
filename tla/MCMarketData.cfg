\* A quote that is cached, bars that are not; two attempts.
CONSTANTS
  CachedLookups = {"quote"}
  OtherLookups = {"bars"}
  TTL <- MCTTL
  Timeout = 2
  Attempts = 2
  Delay = 1
  MaxAbandoned = 3
  Ancient = 5
SPECIFICATION Spec
INVARIANTS
  AnswersAreFresh
  AnswersNeverGoBack
  ReturnsInTime
PROPERTIES
  EveryCallEnds
