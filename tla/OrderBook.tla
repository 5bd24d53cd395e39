----------------------------- MODULE OrderBook -----------------------------
(***************************************************************************)
(* One symbol's order book (go-feed/internal/orderbook Book) driven by its *)
(* order-flow Simulator and its symbolRunner loop (cmd main.go).           *)
(*                                                                         *)
(* Prices are integers counting ticks: snapPrice(p, tick) rounds to a      *)
(* whole number of ticks, so a snapped price IS a tick count and the float *)
(* equality addToSide uses is equality of tick counts.  Shares are counted *)
(* in round lots of 100: every size the simulator draws is k*100.          *)
(* The PRNG is a nondeterministic choice over the values a draw can take.  *)
(*                                                                         *)
(* The book has one writer, its symbolRunner goroutine; every Book method  *)
(* holds the book's mutex for its whole body, so each method is atomic and *)
(* each simulator action (doAdd, doCancel, ...) is one step.               *)
(*                                                                         *)
(* `view` is not program state: it is the book a feed consumer rebuilds by *)
(* applying the ITCH messages the simulator emits (A/F add, D delete,      *)
(* U replace, E execute, P trade), kept to state what the feed promises.   *)
(***************************************************************************)
EXTENDS Integers, Sequences, FiniteSets, SequencesExt, Functions

CONSTANTS
  MaxLevels,        \* MaxLevels: price levels kept per side (code: 10)
  OrdersPerLevel,   \* OrdersPerLevel: orders per level at Initialize (code: 3)
  MaxLots,          \* largest size drawn, in lots (code: IntRange(1,10)*100)
  MaxOffset,        \* doAdd offset from price, in ticks (code: IntRange(1,10))
  ReplenishOffset,  \* doReplenish offset, in ticks (code: IntRange(1,5))
  ReplaceShift,     \* doReplace shift, in ticks (code: IntRange(-2,2))
  RefPrice,         \* the symbol's BasePrice, in ticks
  MaxPrice,         \* model bound: highest market price, in ticks
  MaxOrderId,       \* model bound on the order id counter
  MaxMatch          \* model bound on the match number counter

ASSUME /\ MaxLevels \in Nat \ {0} /\ OrdersPerLevel \in Nat \ {0}
       /\ MaxLots \in Nat \ {0} /\ MaxOffset \in Nat \ {0}
       /\ ReplenishOffset \in 1..MaxOffset /\ ReplaceShift \in Nat
       /\ RefPrice > MaxLevels /\ MaxPrice >= RefPrice
       /\ MaxOrderId >= 2 * MaxLevels * OrdersPerLevel /\ MaxMatch \in Nat

Buy  == "B"   \* SideBuy
Sell == "S"   \* SideSell

VARIABLES
  bids,            \* Book.Bids: <<[price, orders]>>, best (highest) first
  asks,            \* Book.Asks: best (lowest) first
  orderMap,        \* Book.orderMap: order id -> [side, price, shares]
  orderIdCounter,  \* orderIdCounter (order.go), process-wide
  matchCounter,    \* matchCounter (order.go), process-wide
  price,           \* MarketEngine.prices[locate]
  initialized,     \* Initialize has run (main.go, fresh start)
  pending,         \* actions left in the running Step; 0 between ticks
  out,             \* messages emitted by the last step
  view             \* the book rebuilt from the emitted feed (see above)

vars == <<bids, asks, orderMap, orderIdCounter, matchCounter, price,
          initialized, pending, out, view>>

Ids == 1..MaxOrderId
Prices == Nat \ {0}   \* replaces may walk a price past any fixed bound
Order == [side : {Buy, Sell}, price : Prices, shares : 1..MaxLots]
Level == [price : Prices, orders : Seq(Ids)]

-----------------------------------------------------------------------------
(* Helpers of book.go                                                      *)

\* A function extended (or overwritten) at one key, and cut at one key.
MapPut(f, k, v) == [x \in DOMAIN f \cup {k} |-> IF x = k THEN v ELSE f[x]]
MapDel(f, k) == [x \in DOMAIN f \ {k} |-> f[x]]

\* Level ordering of a side: bids descending, asks ascending.
Better(descending, p, q) == IF descending THEN p > q ELSE p < q

\* Mutation: addToSide trimming one level too late.
AddToSideTrimLate(levels, id, p, descending) ==
  IF \E i \in 1..Len(levels) : levels[i].price = p
  THEN LET i == CHOOSE i \in 1..Len(levels) : levels[i].price = p
       IN  [levels EXCEPT ![i].orders = Append(@, id)]
  ELSE LET sorted == SetToSortSeq(ToSet(levels) \cup {[price |-> p, orders |-> <<id>>]},
                                  LAMBDA a, b : Better(descending, a.price, b.price))
       IN  SubSeq(sorted, 1, IF Len(sorted) > MaxLevels + 1 THEN MaxLevels + 1 ELSE Len(sorted))

\* addToSide: append to the level at o.Price, or create the level, sort the
\* side and keep the first MaxLevels levels.  The trimmed level's orders are
\* dropped from the side only: the caller has already put them in orderMap.
AddToSide(levels, id, p, descending) ==
  IF \E i \in 1..Len(levels) : levels[i].price = p
  THEN LET i == CHOOSE i \in 1..Len(levels) : levels[i].price = p
       IN  [levels EXCEPT ![i].orders = Append(@, id)]
  ELSE LET sorted == SetToSortSeq(ToSet(levels) \cup {[price |-> p, orders |-> <<id>>]},
                                  LAMBDA a, b : Better(descending, a.price, b.price))
       IN  SubSeq(sorted, 1, IF Len(sorted) > MaxLevels THEN MaxLevels ELSE Len(sorted))

\* removeFromSide: drop the order from its level; drop the level if empty.
RemoveFromSide(levels, id) ==
  IF \E i \in 1..Len(levels) : Contains(levels[i].orders, id)
  THEN LET i == CHOOSE i \in 1..Len(levels) : Contains(levels[i].orders, id)
           rest == Remove(levels[i].orders, id)
       IN  IF rest = <<>> THEN RemoveAt(levels, i)
           ELSE [levels EXCEPT ![i].orders = rest]
  ELSE levels

\* The orders reachable through the level lists of one side, in priority
\* order: what TotalBidOrders/RandomBidOrder walk.
SideOrders(levels) == FoldLeft(LAMBDA acc, l : acc \o l.orders, <<>>, levels)
LevelOrders == ToSet(SideOrders(bids)) \cup ToSet(SideOrders(asks))

\* Write a side's new level list, leaving the other side alone.
SetSide(side, levels) ==
  IF side = Buy THEN bids' = levels /\ UNCHANGED asks
                ELSE asks' = levels /\ UNCHANGED bids
SideOf(side) == IF side = Buy THEN bids ELSE asks

-----------------------------------------------------------------------------
(* Book methods (each under b.mu.Lock for its whole body)                  *)

\* AddOrder: index the order, then place it on its side.
AddOrder(id, o) ==
  /\ orderMap' = MapPut(orderMap, id, o)
  /\ SetSide(o.side, AddToSide(SideOf(o.side), id, o.price, o.side = Buy))

\* RemoveOrder of an id that is in orderMap.
RemoveOrder(id) ==
  /\ orderMap' = MapDel(orderMap, id)
  /\ SetSide(orderMap[id].side, RemoveFromSide(SideOf(orderMap[id].side), id))

\* Mutation: ReduceOrder testing Shares < 0 instead of <= 0.
ReduceOrderKeepsEmpty(id, lots) ==
  IF orderMap[id].shares - lots < 0
  THEN RemoveOrder(id)
  ELSE /\ orderMap' = [orderMap EXCEPT ![id].shares = @ - lots]
       /\ UNCHANGED <<bids, asks>>

\* ReduceOrder: subtract; at zero or below the order leaves map and side.
ReduceOrder(id, lots) ==
  IF orderMap[id].shares - lots <= 0
  THEN RemoveOrder(id)
  ELSE /\ orderMap' = [orderMap EXCEPT ![id].shares = @ - lots]
       /\ UNCHANGED <<bids, asks>>

\* ReplaceOrder: remove the old order, add a new one (fresh id, same side).
ReplaceOrder(old, new, p, lots) ==
  LET side == orderMap[old].side
  IN  /\ orderMap' = MapPut(MapDel(orderMap, old), new,
                            [side |-> side, price |-> p, shares |-> lots])
      /\ SetSide(side, AddToSide(RemoveFromSide(SideOf(side), old), new, p, side = Buy))

-----------------------------------------------------------------------------
(* ITCH messages and the feed consumer                                     *)

\* itch.Message, reduced to the fields the book semantics read.
Msg(type, ref, orig, side, p, lots, match) ==
  [type |-> type, ref |-> ref, orig |-> orig, side |-> side,
   price |-> p, shares |-> lots, match |-> match]

\* makeAddOrderMsg: 'A' (or 'F' when the order carries an MPID; the MPID is
\* not modelled and both add the same order).
AddMsg(id, o) == Msg("A", id, 0, o.side, o.price, o.shares, 0)

\* The consumer's book after one message, by ITCH 5.0 semantics.
Apply(v, m) ==
  CASE m.type = "A" -> MapPut(v, m.ref, [side |-> m.side, price |-> m.price,
                                         shares |-> m.shares])
    [] m.type = "D" -> MapDel(v, m.ref)
    [] m.type = "U" -> MapPut(MapDel(v, m.orig), m.ref,
                              [side |-> v[m.orig].side, price |-> m.price,
                               shares |-> m.shares])
    [] m.type = "E" -> IF v[m.ref].shares <= m.shares THEN MapDel(v, m.ref)
                       ELSE [v EXCEPT ![m.ref].shares = @ - m.shares]
    [] m.type = "P" -> v

Emit(msgs) ==
  /\ out' = msgs
  /\ view' = FoldLeft(Apply, view, msgs)

-----------------------------------------------------------------------------
(* Simulator (simulator.go) and symbolRunner (main.go)                     *)

\* snapPrice(currentPrice -/+ offset) floored at one tick.
Quote(side, p, offset) ==
  IF side = Buy THEN IF p - offset < 1 THEN 1 ELSE p - offset
                ELSE p + offset

\* The orders Initialize creates after counter value c: for each level l and
\* each j < OrdersPerLevel a bid at RefPrice - l, then an ask at RefPrice + l.
InitialIds(c) == (c + 1)..(c + 2 * MaxLevels * OrdersPerLevel)
InitialOrder(c, id, lots) ==
  LET off  == (id - c - 1) \div (2 * OrdersPerLevel) + 1
      side == IF (id - c) % 2 = 1 THEN Buy ELSE Sell
  IN  [side |-> side, shares |-> lots,
       price |-> IF side = Buy THEN RefPrice - off ELSE RefPrice + off]

\* AddOrder (or RestoreOrder) of the orders of m named by seq, in seq's
\* order, as seen by one side's level list.
AddInOrder(levels, m, seq, side) ==
  FoldLeft(LAMBDA lv, id : IF m[id].side = side
                           THEN AddToSide(lv, id, m[id].price, side = Buy)
                           ELSE lv,
           levels, seq)

\* Initialize(refPrice): AddOrder of the orders above in id order, sizes
\* IntRange(100,1000) floored to lots.  main.go calls it once per book, on
\* a fresh start.
Initialize ==
  /\ ~initialized
  /\ initialized' = TRUE
  /\ \E lots \in [InitialIds(orderIdCounter) -> 1..MaxLots] :
       LET new == [id \in InitialIds(orderIdCounter) |->
                     InitialOrder(orderIdCounter, id, lots[id])]
           seq == SetToSortSeq(DOMAIN new, <)
       IN  /\ orderMap' = new @@ orderMap
           /\ bids' = AddInOrder(bids, new, seq, Buy)
           /\ asks' = AddInOrder(asks, new, seq, Sell)
           /\ orderIdCounter' = orderIdCounter + Len(seq)
           /\ Emit([k \in 1..Len(seq) |-> AddMsg(seq[k], new[seq[k]])])
  /\ UNCHANGED <<matchCounter, price, pending>>

\* MarketEngine.Tick: price * exp(tickVol * z), z blending the sector shock
\* and an idiosyncratic Gaussian, snapped to the tick size and floored at
\* one tick.  One GBM step moves a price by far less than a tick in most
\* steps, so by at most one tick.
MarketTick(p) == {q \in {p - 1, p, p + 1} : q >= 1}

\* Book.OrderCount: the size of orderMap, trimmed orders included.
OrderCount == Cardinality(DOMAIN orderMap)

\* symbolRunner, on its ticker: GenerateSectorShocks, market.Tick, then
\* Step(price, 1 + OrderCount()%3).
RunnerTick ==
  /\ initialized /\ pending = 0
  /\ \E p \in MarketTick(price) \cap 1..MaxPrice :
       price' = p
  /\ pending' = 1 + (OrderCount % 3)
  /\ out' = <<>>
  /\ UNCHANGED <<bids, asks, orderMap, orderIdCounter, matchCounter,
                 initialized, view>>

\* Each action below is one iteration of Step's loop.
Act == pending > 0 /\ pending' = pending - 1

\* doAdd / doReplenish: random side, offset and size, NextOrderID, AddOrder.
PlaceOrder(offsets, sizes) ==
  /\ Act
  /\ orderIdCounter < MaxOrderId
  /\ \E side \in {Buy, Sell}, off \in offsets, lots \in sizes :
       LET id == orderIdCounter + 1
           o  == [side |-> side, price |-> Quote(side, price, off), shares |-> lots]
       IN  /\ AddOrder(id, o)
           /\ orderIdCounter' = id
           /\ Emit(<<AddMsg(id, o)>>)
  /\ UNCHANGED <<matchCounter, price, initialized>>

DoAdd == PlaceOrder(1..MaxOffset, 1..MaxLots)

DoReplenish == PlaceOrder(1..ReplenishOffset, 2..MaxLots)

\* doCancel: nothing when no order is on a level; else a uniformly chosen
\* order of the level lists is removed and an order delete is emitted.
DoCancel ==
  /\ Act
  /\ \/ /\ LevelOrders = {}
        /\ Emit(<<>>)
        /\ UNCHANGED <<bids, asks, orderMap>>
     \/ \E id \in LevelOrders :
          /\ RemoveOrder(id)
          /\ Emit(<<Msg("D", id, 0, orderMap[id].side, 0, 0, 0)>>)
  /\ UNCHANGED <<orderIdCounter, matchCounter, price, initialized>>

\* doReplace: a uniformly chosen order moves by -2..2 ticks (floored at one
\* tick) with a fresh size, under a fresh id.
DoReplace ==
  /\ Act
  /\ \/ /\ LevelOrders = {}
        /\ Emit(<<>>)
        /\ UNCHANGED <<bids, asks, orderMap, orderIdCounter>>
     \/ /\ orderIdCounter < MaxOrderId
        /\ \E id \in LevelOrders, shift \in -ReplaceShift..ReplaceShift,
              lots \in 1..MaxLots :
             LET new == orderIdCounter + 1
                 p   == IF orderMap[id].price + shift < 1 THEN 1
                        ELSE orderMap[id].price + shift
             IN  /\ ReplaceOrder(id, new, p, lots)
                 /\ orderIdCounter' = new
                 /\ Emit(<<Msg("U", new, id, orderMap[id].side, p, lots, 0)>>)
  /\ UNCHANGED <<matchCounter, price, initialized>>

\* Mutation: IntRange(1, shares/100 + 1).
TradeLotsOffByOne(lots) == 1..(lots + 1)

\* tradeShares = IntRange(1, shares/100)*100; IntRange(min,max) is min when
\* min >= max.
TradeLots(lots) == IF 1 >= lots THEN {1} ELSE 1..lots

\* doTrade: nothing unless both sides have a level; a random aggressor hits
\* the first order of the opposite best level: executed + trade sharing one
\* match number, then ReduceOrder on the victim.
DoTrade ==
  /\ Act
  /\ \/ /\ bids = <<>> \/ asks = <<>>
        /\ Emit(<<>>)
        /\ UNCHANGED <<bids, asks, orderMap, matchCounter>>
     \/ /\ bids # <<>> /\ asks # <<>>
        /\ matchCounter < MaxMatch
        /\ \E aggressor \in {Buy, Sell}, k \in 1..MaxLots :
             LET victim == Head(IF aggressor = Buy THEN asks[1].orders
                                                   ELSE bids[1].orders)
                 match  == matchCounter + 1
                 v      == orderMap[victim]
             IN  /\ k \in TradeLots(v.shares)
                 /\ matchCounter' = match
                 /\ ReduceOrder(victim, k)
                 /\ Emit(<<Msg("E", victim, 0, v.side, v.price, k, match),
                           Msg("P", victim, 0, aggressor, v.price, k, match)>>)
  /\ UNCHANGED <<orderIdCounter, price, initialized>>

Init ==
  /\ bids = <<>> /\ asks = <<>>
  /\ orderMap = [id \in {} |-> [side |-> Buy, price |-> 1, shares |-> 1]]
  /\ orderIdCounter = 0 /\ matchCounter = 0
  /\ price = RefPrice
  /\ initialized = FALSE
  /\ pending = 0
  /\ out = <<>>
  /\ view = orderMap

Next ==
  \/ Initialize
  \/ RunnerTick
  \/ DoAdd
  \/ DoCancel
  \/ DoReplace
  \/ DoTrade
  \/ DoReplenish

Spec == Init /\ [][Next]_vars

-----------------------------------------------------------------------------
(* Properties                                                              *)

TypeOK ==
  /\ bids \in Seq(Level) /\ asks \in Seq(Level)
  /\ DOMAIN orderMap \subseteq Ids /\ orderMap \in [DOMAIN orderMap -> Order]
  /\ orderIdCounter \in 0..MaxOrderId /\ matchCounter \in 0..MaxMatch
  /\ price \in 1..MaxPrice /\ initialized \in BOOLEAN /\ pending \in 0..3
  /\ DOMAIN view \subseteq Ids

\* The level lists addToSide/removeFromSide maintain, after any sequence of
\* Add/Remove/Reduce/Replace: each side holds at most MaxLevels levels, in
\* strict price order (bids descending, asks ascending), no level is empty,
\* within a level orders keep time priority (ids ascending), no order sits
\* twice on the book, and every order on a level is indexed with that
\* level's side and price.
LevelsWellFormed ==
  /\ \A side \in {Buy, Sell} :
       LET lv == SideOf(side) IN
       /\ Len(lv) <= MaxLevels
       /\ \A i, j \in 1..Len(lv) : i < j => Better(side = Buy, lv[i].price, lv[j].price)
       /\ \A i \in 1..Len(lv) :
            /\ lv[i].orders # <<>>
            /\ IsSorted(lv[i].orders, <)
            /\ \A id \in ToSet(lv[i].orders) :
                 /\ id \in DOMAIN orderMap
                 /\ orderMap[id].side = side /\ orderMap[id].price = lv[i].price
  /\ LET all == SideOrders(bids) \o SideOrders(asks)
     IN  \A i, j \in 1..Len(all) : i < j => all[i] # all[j]

\* The feed is a faithful journal of the book's index: a consumer applying
\* every emitted A/F, D, U, E message holds exactly orderMap, shares
\* included (Book.ReduceOrder and the E message of doTrade must agree).
FeedMirrorsIndex == view = orderMap

\* Every executed message (doTrade) names an order the feed has shown live,
\* for no more shares than it has left, and is followed at once by its trade
\* message with the same order and match number.
ExecutionStep ==
  \A i \in 1..Len(out') :
     out'[i].type = "E" =>
       /\ out'[i].ref \in DOMAIN view
       /\ out'[i].shares <= view[out'[i].ref].shares
       /\ i < Len(out')
       /\ out'[i + 1].type = "P"
       /\ out'[i + 1].ref = out'[i].ref /\ out'[i + 1].match = out'[i].match
\* Every step of doTrade (and every other step) satisfies the above.
ExecutionsValid == [][ExecutionStep]_vars

\* The index implements the book's promise (BookJournal): read through
\* orderMap, every step is an add, delete, execution, replace or the
\* Initialize batch, and ids are fresh and ascending.
PriceCap == MaxPrice + MaxOffset + MaxOrderId * ReplaceShift
Journal == INSTANCE BookJournal
             WITH live <- orderMap, lastId <- orderIdCounter,
                  OrderValues <- [side : {Buy, Sell}, price : 1..PriceCap,
                                  shares : 1..MaxLots]
IndexImplementsJournal == Journal!Spec

\* Spec §3 and §8: "every id in the index is on exactly one level" and the
\* order count equals the sum of the level counts.  addToSide's trim past
\* MaxLevels drops the worst level from the side but not from orderMap.
IndexOnLevels == DOMAIN orderMap = LevelOrders

=============================================================================
