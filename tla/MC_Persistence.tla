--------------------------- MODULE MC_Persistence ---------------------------
(* Bounds for Persistence.  One level per side with one order each, so     *)
(* Initialize creates two orders and every trade executes a whole order;   *)
(* ids and match numbers go far enough for a snapshot to be taken between  *)
(* trades, for a crash to follow it and for the next lifetime to trade     *)
(* again.                                                                  *)
EXTENDS Persistence

MC_MaxLevels == 1
MC_OrdersPerLevel == 1
MC_MaxLots == 1
MC_MaxOffset == 1
MC_ReplenishOffset == 1
MC_ReplaceShift == 0
MC_RefPrice == 2
MC_MaxPrice == 2
MC_MaxOrderId == 3
\* One match number per lifetime: a trade in each of two lifetimes.
MC_MaxMatch == 1
\* Two: a trade after a restart that restored a traded-on book.
MC_MaxMatchTwo == 2
MC_ChanCap == 1
MC_MaxEpoch == 2
\* Load succeeds whenever state was saved, and every read it makes succeeds.
MC_LoadOk == {"ok"}
\* Load may also fail after restoring part of the orders, or lose a
\* counter read and still report success.
MC_LoadMayFail == {"ok", "err", "readErr"}
\* A lifetime ends by a crash or by a signal-driven shutdown.
MC_AnyEnd == {"crash", "shutdown"}
\* Only clean shutdowns (SIGTERM), the way the service is restarted.
MC_ShutdownOnly == {"shutdown"}
\* The two tradeWriters are interchangeable (safety properties only).
MC_Symmetry == Permutations(Writers)
=============================================================================
