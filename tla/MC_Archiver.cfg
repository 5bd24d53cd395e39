CONSTANTS
  DayLen <- MC_DayLen
  MaxAge <- MC_MaxAge
  RetAge <- MC_RetAge
  MaxBytes <- MC_MaxBytes
  MaxTime <- MC_MaxTime
  MaxTrades <- MC_MaxTrades

SPECIFICATION LiveSpec

INVARIANT TypeOK
INVARIANT CursorBelowTrades
PROPERTY TradesEventuallyArchived
PROPERTY ArchiverImplementsLifecycle
