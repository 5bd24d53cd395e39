---------------------------- MODULE Persistence ----------------------------
(***************************************************************************)
(* The persistence pipeline around one symbol's book (persist/snapshot.go, *)
(* cmd main.go): the runner's enqueueTrades into the bounded trade channel,*)
(* the tradeWriter goroutines and SaveTrade, the periodic snapshot Save,   *)
(* and a process crash followed by a restart through Load (or Initialize). *)
(*                                                                         *)
(* The book, the simulator and the runner tick are OrderBook's actions,    *)
(* reused through INSTANCE.  The store (the symbols, orders, sim_state and *)
(* trades collections) survives a crash; everything else is process       *)
(* memory and is lost.  A process ends by a crash, or by a shutdown:      *)
(* SIGINT/SIGTERM cancels the context, the goroutines see it at their     *)
(* selects, the snapshotter starts its final Save, and main returns once  *)
(* the HTTP server has closed.                                            *)
(*                                                                         *)
(* Memory is lost either way.  A trade record is reduced to its match number and  *)
(* the process lifetime (`epoch`) that produced it, which tells apart two  *)
(* trades that share a match number.                                       *)
(***************************************************************************)
EXTENDS Integers, Sequences, FiniteSets, SequencesExt, Functions

CONSTANTS
  MaxLevels, OrdersPerLevel, MaxLots, MaxOffset, ReplenishOffset,
  ReplaceShift, RefPrice, MaxPrice, MaxOrderId, MaxMatch,   \* see OrderBook
  Writers,        \* the tradeWriter goroutines (code: 2)
  ChanCap,        \* capacity of tradeCh (code: 4096)
  MaxEpoch,       \* model bound: process lifetimes (starts) explored
  LoadOutcomes,   \* subset of {"ok", "err", "readErr"}: how Load may end
  Faults          \* subset of {"crash", "shutdown"}: how a lifetime may end

ASSUME /\ ChanCap \in Nat \ {0} /\ MaxEpoch \in Nat \ {0}
       /\ LoadOutcomes \subseteq {"ok", "err", "readErr"} /\ LoadOutcomes # {}
       /\ Faults \subseteq {"crash", "shutdown"}

VARIABLES
  bids, asks, orderMap, orderIdCounter, matchCounter, price,
  initialized, pending, out, view,          \* OrderBook's state
  up,          \* the process is running
  cancelled,   \* ctx is cancelled (the signal handler called cancel)
  epoch,       \* number of process starts so far
  stepDone,    \* the runner has enqueued the trades of its last Step
  tickTrades,  \* trade records of the Step in progress, not yet enqueued
  tradeCh,     \* tradeCh: the buffered channel of tradeRecord
  writer,      \* writer[w]: the record tradeWriter w holds, or NoTrade
  snap,        \* the Save in progress: phase and what it has read so far
  db,          \* the persisted snapshot (symbols, orders, sim_state)
  stored,      \* the trades collection (unique index on match_number)
  acked        \* history: records SaveTrade returned nil for

obVars == <<bids, asks, orderMap, orderIdCounter, matchCounter, price,
            initialized, pending, out, view>>
vars == <<obVars, up, cancelled, epoch, stepDone, tickTrades, tradeCh, writer, snap,
          db, stored, acked>>

OB == INSTANCE OrderBook

Trade == [match : 1..MaxMatch, epoch : 1..MaxEpoch]
NoTrade == [match |-> 0, epoch |-> 0]
NoOrders == [id \in {} |-> [side |-> OB!Buy, price |-> RefPrice, shares |-> 1]]
IdleSnap == [phase |-> "idle", price |-> RefPrice, orders |-> NoOrders, oid |-> 0,
             final |-> FALSE]

-----------------------------------------------------------------------------
(* The symbol runner                                                       *)

\* Mutation: enqueueTrades without its `Type != MsgTrade` filter.
TradeRecsAnyType(msgs) ==
  [i \in 1..Len(msgs) |-> [match |-> msgs[i].match, epoch |-> epoch]]

\* The tradeRecords of a Step's output: one per trade ('P') message.
TradeRecs(msgs) ==
  [i \in 1..Len(SelectSeq(msgs, LAMBDA m : m.type = "P")) |->
     [match |-> SelectSeq(msgs, LAMBDA m : m.type = "P")[i].match, epoch |-> epoch]]

\* Save holds the *Order pointers AllOrders returned and reads their fields
\* later, without the book lock.  Until it does, the runner's writes show
\* through them: a live order shows its current shares, an order
\* ReduceOrder removed shows the 0 it stored before deleting, an order
\* RemoveOrder or ReplaceOrder dropped keeps its last values.
Aliased(held) ==
  [id \in DOMAIN held |->
     IF id \in DOMAIN orderMap' THEN orderMap'[id]
     ELSE IF \E i \in 1..Len(out') : out'[i].type = "E" /\ out'[i].ref = id
          THEN [held[id] EXCEPT !.shares = 0]
          ELSE held[id]]

\* One action of the running Step, plus what the pipeline sees of it.
RunnerAct(A) ==
  /\ up
  /\ A
  /\ tickTrades' = tickTrades \o TradeRecs(out')
  /\ snap' = IF snap.phase = "orders" THEN [snap EXCEPT !.orders = Aliased(@)]
             ELSE snap
  /\ UNCHANGED <<up, cancelled, epoch, stepDone, tradeCh, writer, db, stored, acked>>

Add       == RunnerAct(OB!DoAdd)
Cancel    == RunnerAct(OB!DoCancel)
Replace   == RunnerAct(OB!DoReplace)
Execute   == RunnerAct(OB!DoTrade)
\* doReplenish is doAdd with a narrower offset (1..5 of 1..10 ticks) and size
\* (2..10 of 1..10 lots): every OB!DoReplenish step is an OB!DoAdd step, so
\* Add already contains it.

\* The next tick starts only after the previous one has enqueued its trades.
Tick ==
  /\ up /\ stepDone
  /\ OB!RunnerTick
  /\ stepDone' = FALSE
  /\ UNCHANGED <<up, cancelled, epoch, tickTrades, tradeCh, writer, snap, db, stored, acked>>

\* select { case ch <- r: default: }: a full channel drops the record.
Offer(ch, r) == IF Len(ch) < ChanCap THEN Append(ch, r) ELSE ch

\* enqueueTrades: one non-blocking send per trade message, in order.
EnqueueTrades ==
  /\ up /\ ~stepDone /\ pending = 0
  /\ tradeCh' = FoldLeft(Offer, tradeCh, tickTrades)
  /\ tickTrades' = <<>>
  /\ stepDone' = TRUE
  /\ UNCHANGED <<obVars, up, cancelled, epoch, writer, snap, db, stored, acked>>

-----------------------------------------------------------------------------
(* tradeWriter and SaveTrade                                               *)

\* tradeWriter w receives the next record.
WriterReceive(w) ==
  /\ up /\ writer[w] = NoTrade /\ tradeCh # <<>>
  /\ writer' = [writer EXCEPT ![w] = Head(tradeCh)]
  /\ tradeCh' = Tail(tradeCh)
  /\ UNCHANGED <<obVars, up, cancelled, epoch, stepDone, tickTrades, snap, db, stored, acked>>

\* EnsureIndexes' unique index on trades.match_number: an insert of a
\* match number the collection holds fails with a duplicate-key error.
MatchTaken(r) == \E s \in stored : s.match = r.match

\* SaveTrade: InsertOne; a duplicate match_number is reported as success,
\* any other error is returned (and tradeWriter ignores it).
SaveTrade(w) ==
  /\ up /\ writer[w] # NoTrade
  /\ LET r == writer[w] IN
     \/ /\ stored' = IF MatchTaken(r) THEN stored
                     ELSE stored \cup {r}
        /\ acked' = acked \cup {r}
     \/ /\ UNCHANGED <<stored, acked>>        \* transient insert error
  /\ writer' = [writer EXCEPT ![w] = NoTrade]
  /\ UNCHANGED <<obVars, up, cancelled, epoch, stepDone, tickTrades, tradeCh, snap, db>>

-----------------------------------------------------------------------------
(* Snapshotter.Save: one transaction, reading live state step by step      *)

\* Run's select: the ticker fires and Save begins with Run's ctx (a failed
\* Save is only logged; the next tick starts a new one), or ctx is done
\* and the final Save begins with a fresh 10 s context, after which Run
\* returns.  Once ctx is done a ticker-started Save fails and changes
\* nothing, so every Save begun after the cancel is taken to be the final
\* one.  Step 1-2: AllPrices, then the book's AllOrders (read lock).
SaveOrders ==
  /\ up /\ snap.phase = "idle"
  /\ snap' = [IdleSnap EXCEPT !.phase = "orders", !.price = price, !.orders = orderMap,
                              !.final = cancelled]
  /\ UNCHANGED <<obVars, up, cancelled, epoch, stepDone, tickTrades, tradeCh, writer, db, stored, acked>>

\* Step 2 (docs) to 4: the orders' fields are read, then the order id
\* counter.
SaveFields ==
  /\ up /\ snap.phase = "orders"
  /\ snap' = [snap EXCEPT !.phase = "fields", !.oid = orderIdCounter]
  /\ UNCHANGED <<obVars, up, cancelled, epoch, stepDone, tickTrades, tradeCh, writer, db, stored, acked>>

\* Step 5 reads the match counter; the transaction commits every write at
\* once, or fails and leaves the store as it was (retried next interval).
\* A Save running on Run's ctx cannot commit once ctx is cancelled.
SaveCommit ==
  /\ up /\ snap.phase = "fields"
  /\ \/ /\ ~cancelled \/ snap.final
        /\ db' = [saved |-> TRUE, price |-> snap.price, orders |-> snap.orders,
                  oid |-> snap.oid, match |-> matchCounter]
     \/ UNCHANGED db
  /\ snap' = IF snap.final THEN [IdleSnap EXCEPT !.phase = "returned"] ELSE IdleSnap
  /\ UNCHANGED <<obVars, up, cancelled, epoch, stepDone, tickTrades, tradeCh, writer, stored, acked>>

-----------------------------------------------------------------------------
(* The end of a lifetime, and the restart (main: Load, else Initialize)   *)

\* The process dies: all memory is lost, the store is kept.
LoseMemory ==
  /\ up' = FALSE /\ cancelled' = FALSE
  /\ bids' = <<>> /\ asks' = <<>> /\ orderMap' = NoOrders /\ view' = NoOrders
  /\ orderIdCounter' = 0 /\ matchCounter' = 0 /\ price' = RefPrice
  /\ initialized' = FALSE /\ pending' = 0 /\ out' = <<>>
  /\ stepDone' = TRUE /\ tickTrades' = <<>> /\ tradeCh' = <<>>
  /\ writer' = [w \in Writers |-> NoTrade]
  /\ snap' = IdleSnap
  /\ UNCHANGED <<epoch, db, stored, acked>>

\* A crash, at any point.
Crash ==
  /\ "crash" \in Faults
  /\ up /\ epoch < MaxEpoch
  /\ LoseMemory

\* The signal goroutine calls cancel.  The runner's and the writers'
\* selects choose at random among ready cases, so a tick or a receive may
\* still follow; nothing else changes until the selects look.
SignalCancel ==
  /\ "shutdown" \in Faults
  /\ up /\ ~cancelled /\ epoch < MaxEpoch
  /\ cancelled' = TRUE
  /\ UNCHANGED <<obVars, up, epoch, stepDone, tickTrades, tradeCh, writer, snap,
                 db, stored, acked>>

\* The shutdown goroutine calls srv.Shutdown, ListenAndServe returns
\* ErrServerClosed at once, and main returns: the process ends whatever
\* the snapshotter and the writers are doing.
MainReturns ==
  /\ up /\ cancelled
  /\ LoseMemory

\* Mutation: Load restoring the match counter but not the order id counter.
RestoredCountersNoOid(d, outcome) == {[oid |-> 0, match |-> d.match]}

\* Load's counters: two FindOne reads, each followed by SetOrderIDCounter
\* or SetMatchCounter only `if err == nil`; Load returns true either way.
\* With outcome "ok" both reads succeed; with "readErr" either may fail,
\* and a failed read leaves that counter at the process's initial 0.
RestoredCounters(d, outcome) ==
  IF outcome = "ok" THEN {[oid |-> d.oid, match |-> d.match]}
  ELSE {[oid |-> o, match |-> m] : o \in {d.oid, 0}, m \in {d.match, 0}}

\* main after a Load that failed: the error is only logged, restored is
\* false, and every book goes through Initialize (counters from zero) on
\* top of the orders m the failed Load had already re-added, in the
\* order part.
InitializeOver(m, part) ==
  \E lots \in [OB!InitialIds(0) -> 1..MaxLots] :
    LET new == [id \in OB!InitialIds(0) |-> OB!InitialOrder(0, id, lots[id])]
        ids == SetToSortSeq(DOMAIN new, <)
    IN  /\ orderMap' = new @@ m
        /\ bids' = OB!AddInOrder(OB!AddInOrder(<<>>, m, part, OB!Buy), new, ids, OB!Buy)
        /\ asks' = OB!AddInOrder(OB!AddInOrder(<<>>, m, part, OB!Sell), new, ids, OB!Sell)
        /\ orderIdCounter' = Len(ids)
        /\ matchCounter' = 0
        /\ view' = orderMap'

\* Start: Load finds no symbols and main calls Initialize; or Load restores
\* price, orders (RestoreOrder in the cursor's order, which is the order
\* Save inserted them: AllOrders' map iteration order, so any order) and
\* counters, whose reads may fail unnoticed; or Load fails part way through the orders cursor, after the
\* prices and a prefix of the orders, and main, seeing restored = false,
\* calls Initialize on top of what was restored.
Start ==
  /\ ~up
  /\ up' = TRUE /\ epoch' = epoch + 1
  /\ \/ /\ ~db.saved
        /\ OB!Initialize
     \/ /\ db.saved
        /\ \E seq \in SetToSeqs(DOMAIN db.orders), outcome \in LoadOutcomes :
             \/ /\ outcome \in {"ok", "readErr"}
                /\ orderMap' = db.orders
                /\ bids' = OB!AddInOrder(<<>>, db.orders, seq, OB!Buy)
                /\ asks' = OB!AddInOrder(<<>>, db.orders, seq, OB!Sell)
                /\ \E c \in RestoredCounters(db, outcome) :
                     orderIdCounter' = c.oid /\ matchCounter' = c.match
                /\ view' = orderMap'
             \/ /\ outcome = "err"
                /\ \E k \in 0..Len(seq) :
                     LET part == SubSeq(seq, 1, k)
                         m    == [id \in ToSet(part) |-> db.orders[id]]
                     IN  InitializeOver(m, part)
        /\ price' = db.price
        /\ initialized' = TRUE
        /\ out' = <<>>
        /\ UNCHANGED pending
  /\ UNCHANGED <<cancelled, stepDone, tickTrades, tradeCh, writer, snap, db, stored, acked>>

-----------------------------------------------------------------------------

Init ==
  /\ OB!Init
  /\ up = FALSE /\ cancelled = FALSE /\ epoch = 0
  /\ stepDone = TRUE /\ tickTrades = <<>> /\ tradeCh = <<>>
  /\ writer = [w \in Writers |-> NoTrade]
  /\ snap = IdleSnap
  /\ db = [saved |-> FALSE, price |-> RefPrice, orders |-> NoOrders, oid |-> 0, match |-> 0]
  /\ stored = {} /\ acked = {}

Next ==
  \/ Tick \/ Add \/ Cancel \/ Replace \/ Execute \/ EnqueueTrades
  \/ \E w \in Writers : WriterReceive(w) \/ SaveTrade(w)
  \/ SaveOrders \/ SaveFields \/ SaveCommit
  \/ Crash \/ SignalCancel \/ MainReturns \/ Start

Spec == Init /\ [][Next]_vars


-----------------------------------------------------------------------------
(* Properties                                                              *)

SavedOrder == [side : {OB!Buy, OB!Sell}, price : OB!Prices, shares : 0..MaxLots]

TypeOK ==
  /\ up \in BOOLEAN /\ epoch \in 0..MaxEpoch /\ stepDone \in BOOLEAN
  /\ tickTrades \in Seq(Trade) /\ tradeCh \in Seq(Trade) /\ Len(tradeCh) <= ChanCap
  /\ writer \in [Writers -> Trade \cup {NoTrade}]
  /\ snap.phase \in {"idle", "orders", "fields", "returned"} /\ cancelled \in BOOLEAN
  /\ snap.orders \in [DOMAIN snap.orders -> SavedOrder]
  /\ db.saved \in BOOLEAN /\ db.orders \in [DOMAIN db.orders -> SavedOrder]
  /\ stored \subseteq Trade /\ acked \subseteq Trade
  /\ orderMap \in [DOMAIN orderMap -> SavedOrder]
  /\ orderIdCounter \in 0..MaxOrderId /\ matchCounter \in 0..MaxMatch

\* NextOrderID never hands out the id of an order already on the book, in
\* any process lifetime: every id in orderMap is at most the counter.  It
\* rests on Save reading the orders (AllOrders) before the order id counter
\* and on Load restoring both.
IdsBelowCounter == up => \A id \in DOMAIN orderMap : id <= orderIdCounter

\* A trade SaveTrade reports as saved is in the trades collection.  The
\* duplicate-key branch ("idempotent - ignore duplicates") relies on a
\* duplicate match number being a retry of the same trade (spec §3, §7: the
\* match number identifies an execution).
AckedTradesStored == acked \subseteq stored

\* Every execution message is for an order the feed shows live, for no
\* more shares than it has, and is followed by its trade message
\* (OrderBook's ExecutionsValid), across crashes and restarts.
\* Steps of the snapshotter and the writers leave the book and its last
\* output alone and are not Step actions: the subscript is the book's.
RestartExecutionsValid == [][OB!ExecutionStep]_obVars

=============================================================================
