CONSTANTS
  DayLen <- MC_DayLen
  MaxAge <- MC_MaxAge
  RetAge <- MC_RetAge
  MaxBytes <- MC_MaxBytes
  MaxTime <- MC_MaxTime
  MaxTrades <- MC_MaxTrades

SPECIFICATION Spec

INVARIANT ArchivedTradesKept
