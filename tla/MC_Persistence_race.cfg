CONSTANTS
  MaxLevels <- MC_MaxLevels
  OrdersPerLevel <- MC_OrdersPerLevel
  MaxLots <- MC_MaxLots
  MaxOffset <- MC_MaxOffset
  ReplenishOffset <- MC_ReplenishOffset
  ReplaceShift <- MC_ReplaceShift
  RefPrice <- MC_RefPrice
  MaxPrice <- MC_MaxPrice
  MaxOrderId <- MC_MaxOrderId
  MaxMatch <- MC_MaxMatchTwo
  ChanCap <- MC_ChanCap
  MaxEpoch <- MC_MaxEpoch
  LoadOutcomes <- MC_LoadOk
  Faults <- MC_ShutdownOnly
  Writers = {w1, w2}
SPECIFICATION Spec
PROPERTY RestartExecutionsValid
