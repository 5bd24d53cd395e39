---------------------------- MODULE MC_OrderBook ----------------------------
(* One book with two levels per side, so that trimming past the level cap  *)
(* happens after a few price moves, and small size/offset ranges.          *)
EXTENDS OrderBook

MC_MaxLevels == 2
MC_OrdersPerLevel == 1
MC_MaxLots == 2
MC_MaxOffset == 2
MC_ReplenishOffset == 1
MC_ReplaceShift == 1
MC_RefPrice == 3
MC_MaxPrice == 4
MC_MaxOrderId == 5
MC_MaxMatch == 2
=============================================================================
