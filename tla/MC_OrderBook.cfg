CONSTANTS
  MaxLevels <- MC_MaxLevels
  OrdersPerLevel <- MC_OrdersPerLevel
  MaxLots <- MC_MaxLots
  MaxOffset <- MC_MaxOffset
  ReplenishOffset <- MC_ReplenishOffset
  ReplaceShift <- MC_ReplaceShift
  RefPrice <- MC_RefPrice
  MaxPrice <- MC_MaxPrice
  MaxOrderId <- MC_MaxOrderId
  MaxMatch <- MC_MaxMatch

SPECIFICATION Spec

INVARIANT TypeOK
INVARIANT LevelsWellFormed
INVARIANT FeedMirrorsIndex
PROPERTY ExecutionsValid
PROPERTY IndexImplementsJournal
