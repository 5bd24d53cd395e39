# TLA+ models of feed-simulator

This directory models the Go implementation of the ITCH 5.0 feed simulator
(`src/go-feed`, with the parts of `cmd/feed/main.go`, `market.go`,
`book.go` and `client.go` that the source tree keeps in `src/unnamed/part_*`
and concatenated into `*_test.go` files). Every module is translated from
that code. `PROJECT.json` maps each definition to the lines it models.

## The system

| Part | Code | State | Operations | Concurrency |
|---|---|---|---|---|
| Order book | `orderbook/book.go` (in `symbol/symbol_test.go` 137-513), `order.go` | `Bids`, `Asks` (price levels, best first, at most `MaxLevels`), `orderMap`, the global `orderIDCounter` and `matchCounter` | `AddOrder`, `RemoveOrder`, `ReduceOrder`, `ReplaceOrder`, `RestoreOrder`, `AllOrders`, `Depth` | One `RWMutex` per book. The symbol's runner is the only writer. The snapshotter and the REST API read. |
| Simulator | `orderbook/simulator.go` | The book and the shared RNG | `Initialize`, then `Step`: a weighted pick of `doAdd`, `doCancel`, `doReplace`, `doTrade` and `doReplenish`, each emitting ITCH messages | Runs on the runner goroutine. |
| Symbol runner | `main.go` (`unnamed/part_001`) 157-249 | The ticker | `GenerateSectorShocks`, `market.Tick`, `Step(price, 1+OrderCount%3)`, `enqueueTrades`, `Broadcast` | 30 goroutines, one per symbol. |
| Price engine | `market.go` (`unnamed/part_010`) | `prices[locate]` under a mutex | `Tick` (GBM plus sector shock), `SetPrice`, `AllPrices` | Called by every runner. |
| RNG | `engine/random.go` | PCG state and a Gaussian spare | `Intn`, `IntRange`, `Gaussian`, `WeightedPick`, `State`/`Restore` | One instance, shared by the market engine (under its mutex), every simulator and the stress controller. |
| Stress controller | `engine/stress.go` (in `engine/random_test.go` 204-377) | The phase (calm, active, burst), its start and duration, the intensity, the sine parameter and the random walk | `Tick` returns the sleep interval and the action count; a phase ends after its random duration and the next is chosen by the intensity band | Used only by `stressRunner`. |
| Session | `session/manager.go`, `client.go`, handlers | The client map. Per client: subscriptions, format, a `sendCh` of 4096 | `Register`, `Unregister`, `Broadcast`, `handleControl` (subscribe, unsubscribe, format), `Send` (drops when full), `writePump`, `readPump` | The manager's `RWMutex`, a mutex per client, and one read pump and one write pump per connection. |
| Persistence | `persist/snapshot.go` | The Mongo collections: orders, counters, prices, rng, trades | `Save` every 30 s (one transaction), `Load` at start, `SaveTrade` (ignores duplicate keys) | The snapshot goroutine. The trade channel (4096 slots) is drained by two `tradeWriter`s. |
| Archiver and retention | `archive/archiver.go` (two builds: the local-file archiver, lines 1-254, and the S3 Glacier one, lines 255-480), `persist/retention.go` | The cursor, the day files in the archive, the trades | `cycle`: query, write the day file, delete, save the cursor. `rotate`. Retention `prune`. | Two independent goroutines, beside the trade writers. |
| ITCH codec | `itch/*` (`unnamed/part_006`, `part_008`, `messages_test.go`) | None | `EncodeBinary`, `EncodeJSON`, `Price4`, `PadStock` | Pure functions. |
| Config, REST API, decoder, legacy JS | `config/`, `api/`, `cmd/decoder`, `src/lib/*.js` | Static tables and read-only handlers | None | Not modelled (see below). |

How the parts interact:

1. Each tick, a runner moves its symbol's price and applies 1 to 3 simulator
   actions to its book. The messages it gets back go to every subscribed
   client (`Broadcast`), and the trades go to the trade channel.
2. The snapshotter reads every book, then the counters, prices and RNG
   state, and writes them in one transaction.
3. On a restart, `Load` rebuilds the books with `RestoreOrder` and puts
   back the counters. Otherwise `Initialize` seeds each book.

## Modules

### `OrderBook.tla` (one symbol's book, simulator and runner tick)

**State.** `bids`, `asks` and `orderMap` are the book's fields.
`orderIdCounter` and `matchCounter` are the atomics of `order.go`. `price`
is the market price, in ticks. `pending` is the number of actions left in
the current `Step`. `out` holds the messages of the last step.

**Abstractions.**
- Prices count ticks, because `snapPrice` rounds every price to a tick.
- Sizes count lots of 100, because every draw is k×100.
- Each RNG draw becomes `\E` over its range.
- A GBM step moves the price by at most one tick, because the per-second
  volatility is about 7e-5 of the price and base prices are thousands of
  ticks. The price is floored at one tick.

**Actions.**
- `Initialize` and `RunnerTick`. `RunnerTick` is the tick: the price
  moves by `MarketTick` (`MarketEngine.Tick`, at most one tick, floored at
  one tick), and then `numActions = 1 + OrderCount % 3`.
- One action per simulator action: `DoAdd`, `DoCancel`, `DoReplace`,
  `DoTrade` and `DoReplenish`. Each includes every book method it calls and
  the messages it emits.
- The book methods are atomic, because each holds the book's lock for its
  whole body and the runner is the book's only writer.

**Auxiliary variable.** `view` is the book that a feed consumer rebuilds
from the emitted messages.

### `BookJournal.tla` (abstract specification)

This is what a book promises a consumer of its index:
- live orders under fresh, ascending ids;
- changes only by add, delete, execution of at most the remaining shares,
  replace on the same side, and the initial batch.

`OrderBook` instantiates it with `live <- orderMap` and
`lastId <- orderIdCounter`. `IndexImplementsJournal` checks the refinement.

### `MC_OrderBook.tla`

This module holds the model's bounds:

| Bound | Model | Code |
|---|---|---|
| Levels per side | 2 | 10 |
| Orders per level at `Initialize` | 1 | 3 |
| Lots per order | up to 2 | up to 10 |
| Add offset | up to 2 ticks | up to 10 ticks |
| Replenish offset | up to 1 tick | up to 5 ticks |
| Replace shift | ±1 tick | ±2 ticks |
| Reference price | 3 ticks | |
| Price cap | 4 ticks | |
| Order ids | up to 5 | |
| Match numbers | up to 2 | |

These bounds are enough because they still reach every case the code
branches on:
- `Initialize` fills both sides to `MaxLevels`, so the first add at a new
  price trims;
- levels empty and are removed;
- replaces shift a level, and can land on the price they left;
- partial and full executions both happen;
- the price reaches the one-tick floor, where `Quote` floors bids;
- `numActions` takes every value from 1 to 3.

One run checks the invariants and the refinement together. With 6 order
ids that run does not finish in 10 minutes, and with 7 the state space is
larger than TLC finishes in 30 minutes.

### `Persistence.tla` — trade pipeline, snapshot, crash and restart

The module composes `OrderBook` through `OB == INSTANCE OrderBook`. Its
steps are:

- **Runner steps.** The runner's steps are `OB!RunnerTick` and the
  simulator actions. Each simulator action also records the tick's trades
  for `enqueueTrades`. `doReplenish` is omitted here, because every
  replenish step is an add step.
- **`EnqueueTrades`.** One non-blocking send per trade. A full channel
  drops the trade. The next tick waits for this step, as in
  `symbolRunner`.
- **`WriterReceive(w)` and `SaveTrade(w)`.** These model the two
  `tradeWriter` goroutines. A duplicate `match_number` counts as success.
  Any other error loses the trade.
- **Save.** `Save` is three steps: prices and `AllOrders`, then the order
  fields and the order id counter, then the match counter and the commit
  (which may fail). Between the first and second step, the held `*Order`
  pointers show the runner's writes (`Aliased`). This is the data race of
  snapshot.go:111-120.
- **How a lifetime ends.** The constant `Faults` says which endings a
  run allows.
  - `Crash` (`"crash"`): memory is lost and the store is kept.
  - `SignalCancel` (`"shutdown"`): SIGTERM cancels the context
    (main.go:30-40). Cancelling does not stop anything at once. Go's
    `select` picks at random among ready cases, so the runner may still
    tick and the writers may still receive. A `Save` started after the
    cancel is `Run`'s final snapshot on a fresh context (snapshot.go:51-59).
  - `MainReturns`: once the HTTP server has closed, `main` returns without
    waiting for that final `Save` (main.go:140-153). The process then ends
    at any point after the cancel, with the final snapshot done, half done
    or not started.
  Both endings go through `LoseMemory`.
- **`Start`.** `Load` either finds nothing, and `Initialize` follows, or
  restores the orders in any order. It may instead fail part way, and then
  `Initialize` runs on top of what was restored (`InitializeOver`, main.go
  lines 75-88). A third outcome, `readErr`, is a `Load` that restores the
  orders and returns true although a counter read failed: the code sets
  each counter only `if err == nil` (snapshot.go:271-279), so that counter
  stays at 0 (`RestoredCounters`). `LoadOutcomes` selects which of these
  outcomes a run allows.

A trade is reduced to its match number and the lifetime (`epoch`) that
made it. `acked` is a history of the trades `SaveTrade` reported as
saved.

The bounds in `MC_Persistence` are:
- 1 level per side, 1 order per level, 1 lot;
- order ids up to 3;
- 1 match number per lifetime (2 in the data-race run);
- a channel of 1 slot;
- 2 writers;
- 2 lifetimes;
- `Faults`: both endings in the passing run (`MC_AnyEnd`), and only
  `"shutdown"` in the three violation runs (`MC_ShutdownOnly`), so each
  of their traces is a clean restart.

The trade and crash cases need a trade in each of two lifetimes, with a
snapshot between them or none. These bounds give exactly that. Anything
larger made the passing run exceed five minutes.

### `Session.tla` — clients, Broadcast and the pumps

State per client: whether it is in the manager's map (`registered`), the
socket (`conn`), the two pump goroutines (`readP`, `writeP`), `format`,
`symbols`, `allSymbols`, `sendCh`, `dropped`. Per symbol, `bc` is the
runner's `Broadcast` in progress: the batch number, the clients still to
walk (fixed when the read lock is taken), and the client being sent to
with the encoding chosen for it.

Actions and the code they model:
- `Connect`: `Handler` (`Register` under the write lock, then both pumps).
- `SubscribeAll`, `Subscribe`, `Unsubscribe`, `SetFormat`: the branches of
  `handleControl`, through the `Client` methods. A subscribe is followed by
  `SendDirectory` (`sendStockDirectory` and `SendToClient`) as a separate
  step, because the client lock is released between them.
- `ReadExit`: `readPump`'s read error and its deferred `Unregister`, which
  needs the write lock and so waits for every walk.
- `WriteFrame`: `writePump`'s data case. The frame type comes from the
  client's format at write time. `WriteExit`: every way `writePump`
  returns, with its deferred `Close`.
- `BroadcastStart`, `Visit`, `SendNext`: `Broadcast` taking the read lock,
  then per client `IsSubscribed` and `Format`, then one `Send` per message.
  Each `Client` call takes the client's lock on its own, so the pumps
  interleave between them. `BroadcastEmpty` is a `Step` that returned no
  messages.

A frame is (symbol, batch, position, encoding); directory frames have
batch 0. `lastPos`, `lastWrite` and `wanted` are history variables for the
properties.

Fairness (`LiveSpec`) is weak fairness of:
- each pump's exit once its client is closed: a closed socket makes
  `ReadMessage` fail, and `Close` closes `Done`, which `writePump` selects
  on;
- `SendDirectory`;
- `Visit` and `SendNext` of a walk: `Send` never blocks, so a started
  `Broadcast` finishes.
A client that stays open is never forced to leave, and nothing forces a
control message or a new batch.

Bounds (`MC_Session`): 2 clients, 1 symbol, batches of 2 messages (an
executed/trade pair), 2 batches, queues of 2 frames, and 1 control
message per client (2 in the violation runs). With these, a batch can
fill a queue, a directory push can overflow it, and `writePump` can free
a slot between the two sends of a batch. Two symbols or two control
messages per client with two clients exceed five minutes. Order is a
per-symbol property, so the second symbol would only add independent
walks. The pass run checks a liveness property, so it uses no symmetry;
it takes about three minutes.

### `Archiver.tla` — archive cycle, rotation and retention

Time is an integer clock (`now`) and a day is `DayLen` ticks. `Insert` is
`SaveTrade`, which stamps `executed_at` with the current time. `Prune` is
the retention `DeleteMany`. `CycleStart` covers `cycle` up to the loop:
`loadCursor`, the cutoff, the early return, `queryTrades`, and
`saveCursor` when the query finds nothing. The loop runs one day at a
time, in any order (Go map iteration). Each day ends in one of three ways:
- `ArchiveDay`: `writeBatch` replaces the file, then `deleteBatch`;
- `WriteFails`: the cycle returns; a process restart is this case too.
  In the local build `os.WriteFile` truncates the file first, so the
  day's file may be left empty (`TruncatedBy`);
- `DeleteFails`: the file was written but the trades were not deleted.

`CycleEnd` is `saveCursor`, which may fail, then `rotate`, whose removes
may fail. `archived` and `rotated` are history variables.

archiver.go holds two builds of the package. Lines 255-480 are an S3
Glacier `Archiver`. Its `cycle` is the same code, except that
`uploadBatch` puts the day's object under a fixed key instead of writing
the day's file, and it has no `rotate`. `backend` picks the build once,
in `Init`, so each run checks both builds. `files` stands for either the
directory or the bucket. `S3CycleEnd` is the S3 build's `saveCursor`
after the loop.

`TradesEventuallyArchived` holds because a failed upload or delete
leaves the cursor where it was. The next cycle then queries the same
days again.

### `TradeLifecycle.tla` (abstract specification)

What the trades collection promises, with no cursor, cycle, file or
failure. Trades enter stamped with the current time under fresh match
numbers (`Save`). They leave in only two ways:
- `Expire`: retention drops everything older than `RetAge`;
- `Archive`: some trades older than `MaxAge` move into the archive.

`Archiver` instantiates it with `archive <- archived`, the history of
trades `deleteBatch` removed after their upload. Every other variable
maps to itself. `Advance`, `Insert` and `Prune` are `Tick`, `Save` and
`Expire`. `ArchiveDay` is an `Archive` step. The other cycle steps
(query, failed upload or delete, cursor save, rotate) are stutters of
the abstract spec. The refinement ties the cutoff computed when the
cycle starts to the delete that runs later, by match number, after the
clock, the writers and the pruner have moved on.

`Persistence` models the unique index on `trades.match_number` that
`EnsureIndexes` creates (`MatchTaken`), which turns a reused match
number into `SaveTrade`'s duplicate-key branch. The `Archiver` module
issues fresh match numbers, so the refinement holds there. With reused
numbers it would not: once the first trade with a number has left the
collection, a second one inserts, and a cycle that queried the first
deletes the second by number (archiver.go:204). This is listed as a
hazard; see the Plan.

Bounds (`MC_Archiver`): days of 2 ticks, archive age 1, retention age 4,
a cap of 2 trades, a clock that runs to tick 6, and 3 trades. The clock
covers four days; the last has one tick. A cycle's cutoff then falls
inside a day, as it does with the defaults (every 6 hours, age 24 hours).
Retention can overtake a failing archiver, and rotation happens. A clock
to tick 7 with 4 trades did not finish within ten minutes.

### `Rng.tla` — the shared PRNG and its Gaussian spare

The PCG state is abstracted to its index in the stream (`pos`). Every
`Uint32` call reads the state and steps it under the mutex, so the index
names the draw. The 64-bit LCG's period is far beyond any bound, so two
draws are distinct values exactly when their indices differ. A Gaussian
value is named by the pair of draws it came from, and by which half of the
polar pair it is.

`Gaussian` is split at its lock sections:
- `GaussianCheck`: take the spare and clear the flag, or go on;
- `DrawU`, `DrawV`: the polar loop's two `Float64` calls, each a locked
  `Uint32`. The loop test may send it back for another pair;
- `GaussianStore`: cache `v*s` and return `u*s`.

`Draw` is any other locked draw: the simulators' `Intn`, `IntRange`,
`Float64` and `WeightedPick`, and the stress controller's spike test and
durations. `returned` is a history variable: the bag of Gaussian values
handed out.

### `Stress.tla` — the stress runner and controller, composed with `Rng`

`Stress` extends `Rng`. It has two callers of `Gaussian`:
- the market engine (`MarketGaussian`: `GenerateSectorShocks` and
  `Tick`), whose calls are serialised by its own mutex;
- the stress controller's `Tick`, which holds no lock.

One `stressRunner` iteration is three parts:
- `TickStart`: `Tick` up to its `Gaussian` call;
- the call itself, as `Rng`'s steps for the stress caller;
- `TickEnd`: the rest of `Tick` and of the loop body. This covers the walk
  and the clamp, the spike draw, the phase transition (`updatePhase` and
  its duration draw), the interval and action count, the burst event and
  the sleep.

Intensity is held in tenths. Each tick it may land on any tenth before the
clamp: the sine term sweeps [0,1] and the Gaussian walk is unbounded.
Whether the phase's random duration has elapsed is a nondeterministic
choice at each tick, because wall time and sleep are not modelled. Go's
float-to-int conversion is `Trunc`.

Bounds (`MC_Stress`): two callers, the default `stress-*` flags, and 8
draws. That is room for two polar pairs from each caller, with a spare
taken by the other caller. `Done` is the stutter at that bound.

## Runs

| Run | Config | Expect | Checks |
|---|---|---|---|
| `book` | `MC_OrderBook.cfg` | pass | `TypeOK`. `LevelsWellFormed`: sides are sorted, capped and non-empty, time priority holds within a level, no order is on the book twice, and every order on a level is indexed with that level's side and price. `FeedMirrorsIndex`: the consumer's book equals `orderMap` after every step. `ExecutionsValid`: every E message names a live order, executes at most its remaining shares, and is followed by its P message with the same match number. `IndexImplementsJournal`: the refinement of `BookJournal`. |
| `persist` | `MC_Persistence.cfg` | pass | `TypeOK`. `IdsBelowCounter`: after any interleaving of snapshots, trades, crashes, signal shutdowns and successful restarts, no order on the book has an id above the counter. This depends on `Save` reading the orders before the counter, and on `Load` restoring both. The run allows only the `ok` outcome of `Load`, every read succeeding; the two failing outcomes break the property and are the `persist_load_failure` run. |
| `persist_match_reuse` | `MC_Persistence_acked.cfg` | violation | `AckedTradesStored`. Only clean SIGTERM shutdowns are allowed here. `main` returns before the final snapshot commits, so the next lifetime restores an older match counter. Its next trade reuses a persisted match number. The insert is rejected and reported as saved. |
| `persist_zero_share_restore` | `MC_Persistence_race.cfg` | violation | `RestartExecutionsValid`. Only clean shutdowns are allowed here. The final `Save` reads `Shares = 0` from an order the runner, still ticking after the cancel, has just executed fully. After a restart, `doTrade` executes 100 shares of it. |
| `persist_load_failure` | `MC_Persistence_loadfail.cfg` | violation | `IdsBelowCounter`. Only clean shutdowns are allowed here. `Load` may fail part way or lose a counter read. A `Load` that fails part way is taken for a fresh start, and `Initialize` then reuses restored ids. A lost counter read leaves the counter at 0 under the restored orders; restricted to that outcome alone, TLC finds the same violation. |
| `book_index_on_levels` | `MC_OrderBook_index.cfg` | violation | `IndexOnLevels`. Spec §3/§8 says every indexed order is on a level. TLC violates this in 4 steps: `addToSide` trims the worst level and leaves its orders in `orderMap`. |
| `session` | `MC_Session.cfg` | pass | `TypeOK`. `SymbolOrderPreserved`: the data frames of a symbol written to a client never go back in (batch, position) order. This holds with drops, format switches, clients failing and a writer racing each walk. `PumpsReleaseClient` (liveness, under `LiveSpec`): whichever pump returns first, eventually both have returned and the client is out of the manager's map. |
| `session_frame_type` | `MC_Session_frametype.cfg` | violation | `FrameTypeMatchesEncoding`. A client subscribes and then switches to binary. Its queued JSON directory frame is written as a binary frame. |
| `session_unsubscribe_after_all` | `MC_Session_unsub.cfg` | violation | `SubscriptionHonoured`. After `subscribe ["*"]`, an unsubscribe does not stop the symbol, because `allSymbols` is never cleared. |
| `archiver` | `MC_Archiver.cfg` | pass | `TypeOK`. `CursorBelowTrades`: the saved cursor never passes a trade still in the collection, whatever fails or restarts. `TradesEventuallyArchived` (liveness, under `LiveSpec`): every trade older than the archive age eventually leaves the collection. `ArchiverImplementsLifecycle`: the refinement of `TradeLifecycle`, so a trade leaves only by retention's cutoff or by an archive of trades past the archive age. Both builds (local file and S3) are checked. |
| `stress_rng` | `MC_Stress.cfg` | pass | `TypeOK`. `GaussianValuesFresh`: no Gaussian value reaches two callers, however the stress controller's and the market engine's `Gaussian` calls interleave at their lock sections. `TickWithinPhase`: the interval and action count that `Tick` returns stay in the phase's configured window and the ranges its comments give. |
| `archiver_day_overwrite` | `MC_Archiver_overwrite.cfg` | violation | `ArchivedTradesKept`. Two cycles write the same day's file. The second replaces the first cycle's batch, which was already deleted from the collection. |

### What the runs show

The trim leak is a real bug (see `findings`), with these consequences:
- in production, `orderMap` grows for as long as the process runs;
- `OrderCount` counts the trimmed orders, and it changes the number of
  actions per tick;
- the snapshot persists the trimmed orders, and `Load` puts them back on
  the levels.

The persistence violations need no crash. Each one follows a plain
SIGTERM restart, because `main` does not wait for the final snapshot.

`RestartExecutionsValid` is stated as `[][OB!ExecutionStep]_obVars`, a
step property over the book's variables only. Steps that leave the book
alone (a `Save` step, for example) are not held to it. Stating it over
every step reported a false violation: such a step leaves the feed's
`out` unchanged while the view has already moved on.

The other book properties hold in the model. The feed stays an exact
journal of the index, because the trimmed orders are still in the index
and no message removes them from the consumer's book either.

The session runs show two defects in how the socket is fed. The frame
type is decided at write time, while the payload was encoded at send
time. An unsubscribe is ignored after a subscribe-all. Order within a
symbol is never broken: the runner's `Broadcast` calls are sequential,
`Send` is FIFO, and a drop only leaves a gap.

The archiver runs show that the cursor logic is sound, and that the
archiver deletes only trades past the archive age, however the clock,
the writers and the pruner interleave with a cycle. The file writes
are not: with the default settings, three quarters of every day's
archived trades are overwritten.

The stress run shows that `Gaussian`'s unlocked polar loop is safe. Two
callers can both miss the spare, and then one cached spare overwrites the
other. That wastes a value, but no value is handed out twice, because
taking the spare and clearing the flag happen in one lock section. The
controller's clamp, and computing the interval after `updatePhase`, keep
each tick in the phase's window.

**Fairness.** `Session` and `Archiver` state liveness properties. Each
is checked under the fairness described in its module's section. The
other modules check safety only, with no fairness.

`Archiver`'s `LiveSpec` has weak fairness on four actions:
- the clock (`Advance`);
- `Run`'s ticker (`CycleStart`);
- the two cycle ends, which never block.

It has strong fairness on `ArchiveDay`. This is an assumption about the
environment, not a guarantee of the code: every upload and delete may
fail, and `cycle` only retries at the next tick. The property holds if
the store and the disk answer now and then. Without that assumption,
nothing can be promised.

## Plan

Built: `OrderBook`, `BookJournal`, `TradeLifecycle`, `Persistence` (crashes and signal
shutdowns), `Session`, `Archiver` (both builds, with liveness), `Rng`,
`Stress`. Open questions, in order:

1. **Restore priority.** `Load` re-adds orders in cursor order, which is
   `AllOrders`' map iteration order (snapshot.go:251). `Start` already
   restores them in any order, and `LevelsWellFormed` would report the lost
   time priority. Stating it on the restarted book is a violation run of
   its own.
2. **Session directory order.** `handleControl` marks the subscription
   before `sendStockDirectory` (manager.go:267), so a walk in between
   queues data ahead of the directory. The spec promises no order between
   the two, so this is recorded as a hazard, not a property.
3. **Intn(0).** Spec §4.1 says a draw in [0,0) fails with `InvalidBound`.
   `Intn` returns 0 instead (random.go:66), and `IntRange(1, 0)` returns 1.
   `ExecutionsValid` already catches the consequence in `doTrade`.
4. **Sector shocks.** Every runner calls `GenerateSectorShocks` before
   its own `Tick` (main.go:167), so two symbols of one sector share a shock
   only if no other runner refreshes in between. The spec's own scheduling
   model has each task refresh, yet §4.2 expects one refresh per cycle.
   The effect is on the correlation statistics, not on any state the model
   tracks, so this is recorded as a hazard without a property.
5. **Delete by reused match number.** `deleteBatch` deletes by
   `match_number $in` (archiver.go:204), and a restart from an older
   snapshot re-issues match numbers (`persist_match_reuse`). Composing the
   two would need `Persistence`'s restarts inside `Archiver`'s collection,
   and a violation run of its own; `ArchiverImplementsLifecycle` is the
   property it would break.

## Not modelled

- **GBM float arithmetic and sector shocks.** They shape only the
  distribution of price moves.
- **The Mongo driver and I/O.** Transactions are treated as atomic.
- **The REST API, the decoder tool and `config`.** The API's handlers are
  read-only, and `config` is a static table.
- **The legacy Node.js implementation under `src/lib`.**
- **Encodings, byte by byte, and the ITCH codec.** `EncodeBinary`,
  `EncodeJSON`, `Price4` and `PadStock` are pure functions of one message,
  with no state and no concurrency. They are covered by unit tests.
  `Session` keeps only the encoding of a frame. The decoder tool
  (cmd/decoder) reads each message at the encoder's offsets. `Price4`
  truncates `price*10000` to `uint32`. Whether that is exact for a
  price depends on IEEE-754 rounding, which TLC's integers cannot
  express.
- **The PCG arithmetic and the draw helpers.** The 64-bit multiply,
  xorshift and rotate do not fit TLC's integers, so the state is its
  index in the stream. `Intn`, `IntRange`, `Float64` and `WeightedPick`
  are pure functions of one draw. `NewRNG`'s seeding and
  `State`/`RestoreState` run before the runners start.
- **Wall time in the stress controller.** The phase durations (5 to 120 s)
  and the sleep are abstracted to a nondeterministic end of phase.
- **Pings, timestamps and logging.** A successful ping changes no state.
