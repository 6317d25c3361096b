\* Four evaluations at any of four times, in three minutes of two days, in any
\* order of time; one approval per minute.
CONSTANTS
  Orders <- MCOrders
  Snapshots <- MCSnapshots
  Limits <- MCLimits
  SecondsPerMinute = 2
  Times = {0, 1, 2, 4}
  SecondsPerDay = 4
  MaxEvaluations = 4
  NoQuote = NoQuote
  NoInstrument = NoInstrument
  NoExpiry = NoExpiry
SPECIFICATION Spec
INVARIANTS
  ApprovedOncePerKey
  AuditShowsRateLimit
CHECK_DEADLOCK FALSE
