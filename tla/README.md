# TLA+ models of nthstock

nthstock is an Indian paper-trading platform: a web app, an HTTP API that keeps each user's paper
account, a realtime server that pushes prices and account changes, a quotes process that writes
tick streams to Redis, and a matcher process per shard that watches those ticks for orders to fill.
This directory holds TLA+ models of the parts of it where orderings, failures and time make tests
insufficient, the TLC configurations that check them on small instances, and proofs (TLAPS) of the
main results for every value of the constants. All paths below are relative to `src/`.

- [The system](#the-system): the inventory of components, their state, how they interact
- [What is modelled](#what-is-modelled): each module, its state and actions against the code
- [The runs](#the-runs): what each checks, its bounds, the fairness assumed
- [Disagreements found](#disagreements-found)
- [What is proved](#what-is-proved): theorems, assumptions, inductive invariants
- [Not modelled](#not-modelled) and [the plan](#plan)

To check: `tlc -config MCOrderBook.cfg MCOrderBook.tla` (a run's module and configuration are in
`PROJECT.json`), `tlapm OrderBookProofs.tla`.

## The system

```
 quotes process --(tick streams, one per shard, Redis)--> matcher (one lease holder per shard)
      |                                                     |  ^              |
      | lease per shard                        fill requests|  |commands      | fired alerts
      v                                                     v  |              v
   Redis keys                     Redis stream + consumer group     Postgres (alerts, outbox)
                                                            |  ^
 web app --HTTP--> API processes: order service --commit--> Postgres account store
    ^                   | updates after the commit (Redis pub/sub)
    +-- WebSocket -- realtime hub <--+
```

Two deployments exist. *Inline* (`MATCHER_MODE=inline`): the API processes follow the ticks and
sweep every 15 s. *Worker*: the matcher asks for fills and a job process runs `syncAccounts`; the
API has no ticks and no sweep.

| Component | State it keeps | Operations | Hard because | What makes it correct |
|---|---|---|---|---|
| Order service (`apps/api/src/modules/orders/service.ts`) | per process and user: an engine, a cache entry (version, what is committed, conflict, stale), a queue of writes | `act`, `actOnStop`, `read`, `current`, `applyMatcherFill`, `syncAccounts`, `sweep`, `reset`, background changes, the commit queue | several processes change one account; commits lose, fail and reload while other requests wait; crashes | nothing committed is lost, an OK answer means stored, a retry acts once, requests end |
| Account store (`pgRepo.ts`, `accountStore.ts`) | one versioned row and its tables per user | `load`, `commit` against a version | a load is several statements | a commit succeeds only against the version it read |
| Shard lease (`packages/marketData/src/shardLease.ts`) | a Redis key; per process `confirmedAt`, `stopped` | rounds (renew, take), `stop` | lost, late and repeated requests, slow rounds, crashes | at most one writer at a time; take-over |
| Matcher order book (`packages/paperEngine/src/orderBook.ts`, `trailingStop.ts`, `binaryHeap.ts`) | orders, stops, alerts, ten heaps of entries that may be stale, versions seen | upserts, restores, removals by version, `tick` | lazily deleted heap entries; stops move and re-enter heaps within a tick | a tick acts on exactly what looking at everything would |
| Fill reader (`apps/api/src/modules/orders/matcherFills.ts`) | Redis stream, consumer group and pending list; per process the requests in hand | read, claim, count, run, ack, dead-letter, close | repeated delivery, processes that die or close, lost answers | no request is forgotten, each is settled |
| Matcher worker (`apps/matcher/src/{matcher,commands,fills,reconcile,pgLiveOrders}.ts`) | a book per instrument, whether it holds the lease, a command cursor | ticks, commands, fill requests, a reconcile every 60 s | ticks, commands and snapshots interleave; lease changes | books follow the store; what crossed is asked for |
| Command sender (`matcherCommands.ts`) | a queue to a Redis stream | put, remove | sending fails | the reconcile repairs what was lost |
| Paper engine (`paperEngine.ts`, `fundsLedger.ts`, `positionMath.ts`, ...) | orders, positions, holdings, stops, the funds ledger, `seq` | place, modify, cancel, close, stops, session events | money arithmetic with rounding, session times | funds balance; exits reduce; statuses follow their machine |
| Paper desk (`paperDesk.ts`) | an engine per user, ticks, held prices, an index by instrument | ingest, ingestFor, sweep, sync | out-of-order requests | engines see the newest price |
| Price alerts (`apps/matcher/src/alerts.ts`, `apps/api/src/modules/alerts`, `alertDesk.ts`) | rows with a status, books, an outbox | create, delete, fire, reload | fire races with delete and reload | an alert fires once |
| Notifications (`apps/api/src/modules/notifications`) | rows and an outbox | publish, relay | crash between commit and publish | at least once, none lost |
| Realtime hub and feeds (`apps/realtime/src`) | sockets, subscriptions, watch counts | connect, subscribe, push, revoke | subscribe and unsubscribe race; revoked sessions | a user's sockets get that user's events and no others |
| Client stores (`packages/apiClient/src`) | account state, `seq`, held frames, pending intents | frames, resync, commands | frames during a load, gaps, sign-out | the store converges to the account |
| Quotes and tick streams (`apps/quotes`, `tickStreamFollower.ts`, `apps/api/src/ticks`) | the quote key, streams, cursors | write, follow | reconnects, gaps | every follower ends at the newest quote |
| Sessions and sign-in (`apps/api/src/modules/auth`) | sessions, refresh families, OTPs, PIN attempts | sign-in, refresh, revoke, delete account | concurrent refreshes, counters | limits hold; revoked means refused |
| Candles (`candleWriter.ts`, `minuteAggregator.ts`, ...) | open bars, rows | aggregate, write, fill gaps | restarts mid-minute | a minute is written from all its ticks |
| Jobs (`apps/api/src/modules/jobs`) | run rows | schedule, retry | two workers | each job runs for its day |
| Watchlists, users, portfolio, funds, health, audit | rows | create, reorder, read | limits under concurrency | limits hold |
| Web app, mocks, contracts, tokens, UI kit, mock market adapter | UI state; none others rely on | | | |

Components interact by calls (HTTP handlers to the order service, the service to the engine), by
Redis messages (ticks, commands, fill requests, account updates), by shared state (Postgres rows,
the lease key) and by callbacks inside a process (the engine's `onChange` queues a commit).

`PROJECT.json` lists every component with its status, and every hazard, at its line, with the
properties that would catch it going wrong or a note where none does yet.

## What is modelled

### AccountCommit and AccountPromise: the order service

`AccountCommit` is one user's account behind several API processes. Users share no state, so one is
enough. The account is abstracted to the set of *effects* applied to it: an effect `<<w, n>>` is
what request or event `w` did on its `n`-th run, counted over all its tries and deliveries. That is
exactly enough to see a lost change and a change made twice; what the engine computes is left to the
engine's own module. An order sent again, perhaps to another process, is a second request with the
same `ClientOrderId`.

| Variable | Code |
|---|---|
| `log` | the store: `log[v]` is the account committed at version `v` (`accountStore.ts`, `pgRepo.ts` `commit`/`claimVersion`) |
| `engine[p]` | the user's engine on process `p`'s desk |
| `cache[p]` | `AccountCache`: `version`, `key` (committedKey), `conflict`, `stale` |
| `queue[p]` | the per-user promise chain of `enqueue`: commits, loads, audit records, each with a phase for the awaits inside it |
| `pc[r]`, `tries[r]`, `runs[r]` | where request `r`'s handler is, how often it has run since it was last received, and how often ever |
| `due`, `announced`, `faults` | session events that have come; published updates; faults so far |

Actions: `Arrives`/`Run`/`Settle`/`Again`/`Answers` are `act`, `actOnStop`, `read`, `current` and
`applyMatcherFill` between their awaits; `StartSync` is `syncAccounts`; `Background` is a tick or
sweep changing an engine without a request; `StoreCommit`, `Committed`, `Announced`, `CommitFailed`,
`Drop`, `LoadAccount`, `Install`, `Record` are the write queue - `Committed` and `Announced` with the
two syncs of `announceDelta` (`desk.positions` and, when its prices have come, `desk.fundsSummary`),
which run inside the write that committed and may queue a further change behind it; `LoadFault`, `ReloadFault`, `CommitFault`, `AuditFault`,
`Crash` are the failures. A failed commit may or may not have reached the store.

Abstractions: `hydrate` puts the engine and the cache entry in place in one step (between the two
the code awaits `desk.restore`, `service.ts` 220-225; what runs on the engine meanwhile is not
modelled); a delta listener is always registered, as in every API process; the order in which waiters of one promise resume is left open; `load`
is one atomic read (its several statements are planned); `reset`, `restore`, `hydrateLive` are not
modelled; ids and payloads are model values.

`AccountPromise` is the abstract specification: the account changes in single steps, an action takes
effect at most once and only between its arrival and its answer, OK means it did, 409 that it did
not. Once something the engine does by itself has come due (`disturbed`) less is promised, as the
code keeps less (Disagreements found): an action without a client order id may take effect again
before it is answered, and 409 no longer says that it did not. `KeepsPromise` states that `AccountCommit` implements it, with the account read off the last
committed version.

### ShardLease: one writer per shard

The Redis key (owner and time left), what each process believes (`left`, `status`), its request in
flight (`round`, `fresh`), its timer, and `ghosts`: requests whose sender gave up that Redis may
still execute. Time is *time left*, decremented by `Tick`, so nothing has to be bounded.
`RenewedKey`, `TakenKey`, `ReleasedKey` are the RENEW script, `SET NX PX` and the RELEASE script.
A round may take any time; requests and replies may be lost; processes stop or crash at any point.
Assumed: processes and Redis measure intervals alike (clock steps are not modelled).

### OrderBook, PlainBook and TrailingStop: the matcher's book

`TrailingStop` is the arithmetic of `trailingStop.ts`: rounding to the tick, the stop price of a
watermark, activation, ratchet and trigger. `OrderBook` is one instrument's book with its heaps.
A heap is the set of its entries (key, sequence number, id); `Drained` takes entries in heap order
while they are hit, skipping those no longer *live* (the entry's sequence number is not the one
placed last for its id), and leaves other stale entries where they are, as the code does.
A `Tick` is one action, as `tick()` is synchronous: orders, then six passes over the stops in the
code's order, each stepping a stop and re-placing it, then alerts. Versioned upserts, restores at
the crossed version and removals follow the early returns of the code. The binary heap's array
layout is not modelled: entries are totally ordered by key and sequence.

Stops that reach a book stand at the stop price of their watermark: they come from the engine,
which computes them with the same functions.

`PlainBook` is what the book promises, without heaps: each tick looks at everything. `ActsOnAll`
(`Plain!Spec`) says that the heaps miss nothing and act on nothing else.

### MatcherFills: the consumer group

One shard's stream, the consumer group's pending list, and every reader's loop (`pc`), the claimed
requests whose counts it asks for (`batch`), those it dead-letters (`doomed`), the lanes of each
user (`lane`), and those it still has to ack (`acking`). How long anything takes is left open:
`Age` makes a pending request idle for FILL_CLAIM_IDLE_MS, `BecomeDue` a claim round due. `Close`,
`Leave`, `CutOff`, `CheckPending`, `DeleteConsumer` are `close()` and `removeConsumer()`, with an
XREADGROUP the process abandoned possibly still served by Redis (`held`). Whether applyMatcherFill
fails is a fault (or always, for `Poison` requests). `MaxFaults` bounds faults by how many requests
the behaviour has. Trimming of the stream is left out.

### MatcherShard: the matcher process, its commands, requests and reconcile

One instrument and one user. The account is a `log` of versions, each with its live orders and
stops; a commit puts one command per changed order or stop on its way (`unsent`), to arrive in any
order or not at all. A followed process has its `book` (per order or stop a slot: the newest version
seen, whether a tick took it off at that version, what rests), its place on the command stream
(`unread`), its reconcile `round` (idle, users asked about, snapshot read) and the requests it is
`sending`. `Tick` takes what the price crosses off the book and sends one request; `SendFailed` puts
it back; `Serve` is `applyMatcherFill` at some process, whose cached engine holds the account as it
was at some version (`ServeFrom`): one that finds nothing to do commits nothing and acknowledges,
though the store has the order; one that does loses its commit if it is behind, reloads and runs
again on the newest account. Other processes of the
shard are `AskedElsewhere`: a request for any price at any time, long after a lease was lost too.

It composes by promise rather than by product: a slot is what `PlainBook` promises of an order, the
holder is what `ShardLease` proves (one at a time), that requests are run in the end is
`MatcherFills`', that a commit is not lost `AccountCommit`'s. Left out: market hours, the tick
stream, several instruments and users, quantities (an order is filled whole), the
rejection of a damaged stop row, and the purge's other tables.

### PaperEngine, FundsLedger and PositionMath: the engine

`PaperEngine` is one user's engine in one instrument, both products: orders, trailing stops,
positions, a holding, the ledger. `PositionMath` is `positionMath.ts` (averages, realised P&L,
rounding half away from zero), `FundsLedger` the blocks, releases and settlements of
`fundsLedger.ts`, added up instead of listed. A call (`Place`, `PlaceWithStop`, `Modify`,
`CancelOrder`, `PlaceTrailingStop`, `ModifyTrailingStop`, `CancelTrailingStop`, `ClosePosition`,
`ResetAccount`) first runs `Sync`, as every public method does: the session events that are due, the
stops stepped, what the price crosses filled; a tick's own sync may be behind the clock. Time is a
count of session events: 9:15, the 15:20 square-off, 15:30, and again; an event runs with the price
known when it is run, however late. A fill can be partial (`Cap` shares a tick). Where the code
throws, `broken` says why and the behaviour ends. `OrderId` is `1..n`, and bounds how many orders an
account has. A loop of the code over orders or stops is a recursive function over their places, and
a total is `SumTo`, a sum along them, so that both can be proved about. Cash and shares are exact integers; TickSize and
BasisPoints are constants, so the percent trails of the code (10 000 basis points) and of the runs
are the same formula.

Left out: snapshots and working sets (`AccountCommit` treats the account as one value), the order
history, idempotency keys, several instruments (they meet only in the ledger's cash), and messages.

### PriceAlerts: alerts, their notifications and the outbox

The rows, the API processes that watch alerts and take the user's requests
(`modules/alerts/service.ts`), the matcher processes that hold them on a book
(`apps/matcher/src/alerts.ts`), and the outbox with its relay (`modules/notifications`). `Create` is
the limit check, `Insert` the quote and the row, `Announce` watching and the command; `Cancel` and
`Ending` likewise. `Reload` / `LoadRead` / `Loaded` are the three moments of a reload: what is
held, the read, the repair. A crossing tick takes an alert out of the process and starts a firing;
`Fire` is the transaction that only one firing wins, `FireFails` the same answered by an error,
whether it was committed or not, `PutBack` what follows. `Publish`, `Clear` and
`StartRelay`/`RelayPublish`/`RelayClear` are the two ways out of the outbox.

Read off the code while modelling it: the alert desk's first reload does not wait for the command
reader, as the order reconcile does, so an ALERT_ADD between the two is missed until the next
minute; an API process loads once, at its start, and a failed load is not tried again, so that it
holds alerts that ended elsewhere (harmless: firing finds the row ended) and may lack live ones
(the matcher has them). Left out: overlapping reloads of one process (one that takes over a minute),
the relay's batch size, several users and instruments, `alertDesk.ts` (the mock of the same).

### TradingStore and AccountFeed: from the API to the screen

`TradingStore` is the client's store (`packages/apiClient/src/tradingStore.ts`) as operators: a load
(`Resync`, `Loaded`, `LoadFailed`), a frame (`Ingest`, `ApplyFrame`), an answer (`PutOrder`), sign-in
and sign-out (`Start`, `Clear`) and the socket opening (`Opened`). Each is one synchronous piece of
the code, from the store before it to the store after it. `AccountFeed` is everything around it:

| Variable | Code |
|---|---|
| `log`, `sending` | the commits of the account and those whose frame is still to be published (`service.ts` `announceDelta`, `updatePublisher.ts`) |
| `conn` | the node's sockets: asked for, checked, open, closing (the hub let go of it), closed (`app.ts`, `hub.ts`) |
| `commands`, `subscribed` | the queue of SUBSCRIBE and UNSUBSCRIBE and what Redis has executed of it (`orderFeed.ts`) |
| `marked`, `news`, `heard` | sessions marked revoked, revocations published, and those the node has heard (`sessionRevocationFeed.ts`) |
| `mine`, `wire` | the client's socket and what is on its way to it (`wsClient.ts`) |
| `store`, `loads`, `replies` | the store, its requests for the account state, the answers to the user's requests |
| `seen`, `dropped` | history: the newest state of each order the store was given; whether a failed load dropped frames |

`Check`/`Accept`/`Refuse` are an upgrade before and after its awaited check, `Gone` the close event,
`Connect`/`SocketOpens`/`SocketCloses`/`Drop` the client's socket, `LoadRead`/`LoadAnswered`/
`LoadFails` the load. Orders stand for stops, positions and funds, which a frame carries and a load
replaces in the same way. All of the user's requests reach one API process, so that no load is
behind a frame that was published before it; its engine stays loaded. The sequence numbers that one
commit uses are one number, the commit's. A message of Redis reaches the node and its sockets in one
step. Left out: quotes and their conflation, sockets closed for being idle, sockets that a
signed-out page opens (they are refused at once), a SUBSCRIBE that fails, `orderUpdate` frames (the
store does not read them), notifications.

In each module a few definitions are bugs, named in the module's heading, that the code could have
had; they are used only to check that each property can fail.

## The runs

Every run checks deadlock off: the counters that bound behaviours (faults, retries, placements) end
them, and the processes may really stop.

| Run | Instance and bounds | Checks |
|---|---|---|
| MCAccountConcurrent | 2 processes; an order sent to both with one client order id, its fill, an event, a background ticker; any one fault of five kinds; concurrent requests; 1 retry; fair | `NoLostUpdate AnnouncedAtCommit IdleEngineIsStored KeyedOnce EveryRequestAnswered FillsAcked` |
| MCAccountSerial | 2 processes; an action at each, a read, a fill, a sync, an event that the announced deltas may sync; one fault; one request at a time per process | `AckedFillIsStored KeepsPromise` |
| MCAccountAckLost | expected to fail: two actions at one process and one elsewhere, no fault | `AckedIsStored` |
| MCShardLease | 2 processes, TTL 3, renew 1, 4 faults, where every unit a request or a round is late counts as one; fair | `OneWriter HeldIsOwned HolderKeepsLease Takeover` |
| MCOrderBook | 2 orders, or an alert, or a stop with a rupee or percent trail; versions 1-2, 4 prices; 2 placements of an order or alert, 4 of a stop | `RestingIsIndexed TicksOnlyTighten ActsOnAll` |
| MCFillsTakeover | a process that leaves and one that stays, 1 request and any 2 faults, or 2 requests of one user and none; one request fails every time; claim rounds of 1 page of 1, cap 2; fair | `NoneLost EveryFillSettled CloseEnds` |
| MCEngineIntraday | opening balance 20; buy 2 at market, sell 3 at limit 4; a stop with an activation and a LIMIT exit; prices 4, 8; 2 shares a tick; 2 session events | `MoneyAddsUp StopsFollowPositions StopsEndWithOrders` |
| MCEngineDelivery | opening balance 12, 2 shares held; delivery buy 3 and sell 2 at limits, an intraday sell; two modifies, a dragged stop; 3 session events | `TypeOK BlocksCoverBuys SharesAddUp SellsAreCovered OnlyDebitBreaks NothingOvernight` |
| MCMatcherShard | 1 followed process, 1 order at 2 limits, price 3, versions to 3, any 2 faults of six kinds; fair | `RestsAsStored NewsStays InStep CrossedIsFilled` |
| MCShardStop | expected to fail: 1 process, 1 stop, prices 2, 3, no fault | `EngineTriggersToo` |
| MCPriceAlerts | 1 API process, 1 matcher, 1 alert, any 2 faults of six kinds; fair | `NotedOnce OnlyEndedLeave EveryNotePublished BooksForgetEnded CrossedFires` |
| MCAccountFeed | 1 order, 2 commits after the 1 the engine was loaded with, 2 sockets, 1 sign-in, any 2 faults of five kinds; fair | `KeepsWhatItGot WatchedIsSubscribed RevokedAreClosed ComingBackCatchesUp` |

Why the bounds are enough. Each is the smallest at which the hard case happens: two processes and
two requests at one of them are needed for a shared conflict flag; one fault for each recovery path,
two where a recovery can itself fail. The book run keeps orders, alerts and the stop apart, as no
heap holds two kinds and no pass of a tick looks at another's, and has one stop with many prices and
trails; that several stops do not disturb each other is `BookActsOnAll`, for any number of them. One
order is enough for a matcher and its reconcile, as every slot, command and request is per order and
a reconcile looks at each by itself; one price suffices, at or across two limits. The engine's
numbers are small but uneven: three shares bought or sold two at a time, at prices whose shares of
the blocked cash do not divide, across a square-off, a day's end and the next morning. With one
alert the outbox never holds more than one row, so trimming it to NOTIFICATIONS_KEPT
never meets an unpublished one. Two sockets are what a quick
close and reopen, or a revocation during an upgrade, need; the fill run has two
requests of one user where it matters - one that is refused every time must neither hold the other up
nor take every round of claims, which sees one request at a time - and faults with one request only;
`NoneLost` for several requests, users, pages and faults is proved. Each request's own life is what
`EveryFillSettled` follows, and requests of different users share no lane. `KeyedOnce` needs the
order twice, at two processes, and a fill that is delivered again after a commit that failed but
reached the store. MATCHER_FILL_RETRIES is 3 in the code
and 1 in the runs; FILL_MAX_DELIVERIES is 5 and 2; they bound repetitions of the same states. Type
invariants that no run lists are proved (below), or, of `PriceAlerts`, hold in the same
configuration. The mutants in
`PROJECT.json`, one for every property, are found within these bounds. The proofs below do not
depend on any of these values.

Fairness. Nothing is assumed about faults, nor that a user or a price does anything, except as the
antecedent of the property that is about it.

- `AccountCommit!Fairness`: each handler goes on when it can (the event loop), each queue performs
  its writes, and a fill that failed is tried again - the consumer group claims it after 30 s
  (`matcherFills.ts`), up to five deliveries, a cap `MaxFaults` keeps out of reach; session jobs are
  run again by the scheduler.
- `ShardLease!FairSpec`: timers fire, Redis answers what was not lost, and time goes on. Being later
  than the renew interval counts as a fault, of which there are `MaxFaults`: a holder that is always
  late may rightly lose its lease.
- `MatcherFills!Fairness`: each live process's loop goes on, and time passes. `PromptNext`: XPENDING
  is answered within 30 s - otherwise two processes could claim a request from each other for ever,
  each finding it gone when the counts come and running it as a first delivery.
- `MatcherShard!Fairness`: commands are sent and requests served by some process, however old its
  copy of the account (`matcherCommands.ts`, `MatcherFills`), some process takes a free lease (`ShardLease`), a process reads its commands, its
  reconcile timer fires and its rounds and sends end. That requests that keep coming are
  also served by a process up to date with the store is the antecedent of `CrossedIsFilled`
  and of the second half of `InStep` (`ServedUpToDate`), which the code does not guarantee (below).
- `PriceAlerts!Fairness`: handlers go on, a process that died is started again, matchers read their
  commands and reload every minute, the relay's 5 s timer fires at every API process, and a free
  lease is taken.
- `AccountFeed!Fairness`: the API publishes, the node runs its commands and answers upgrades, close
  events come, what is on a wire arrives, the client reconnects and its loads are answered unless
  they fail, which is a fault. That the tab comes back again and again is the antecedent of
  `ComingBackCatchesUp`.

## Disagreements found

Two runs are expected to violate their property; `PROJECT.json` quotes the text they contradict.

| Run | What the code does |
|---|---|
| MCAccountAckLost | two actions at one process lose their commits together; one takes the conflict flag and retries, the other answers OK with nothing stored |
| MCShardStop | a trailing stop moves only on the matcher's book: a worker's engine follows no ticks. When it triggers, the fill is run with the stop where Postgres has it, which that price need not reach: nothing triggers, and the reconcile puts the stop back at its stored watermark |

Others show with the same modules when a configuration is changed as said here:

| Property, and the configuration | What the code does |
|---|---|
| `AckedIsStored`; MCAccountSerial with only `a1` and `b1`, `FaultKinds = {"reload"}` | the reload after a lost commit fails inside its catch (`service.ts` 283-286), which sets neither `stale` nor `conflict`: the action answers OK with nothing stored |
| `KeepsPromise` with `Repeatable` always false and 409 always "not" (`disturbed <- FALSE`); MCAccountSerial as it is | announcing a commit syncs the engine (`service.ts` 303, 331-337) and may queue a second change before the action's `settle()` returns; if that one loses to another process, the action, already committed, is told of a conflict: it runs a second time, or answers 409 though it is stored (`act()` 426-428 says it runs again when *it* lost) |
| the same; MCAccountSerial with `Tickers = {"api"}`, no fault | a background commit loses and leaves its conflict for the next action, which runs twice |
| `AckedFillIsStored`; MCAccountAckLost with `a1`, `b1`, `f1` | a fill loses its commit next to an action that takes the conflict; it is acknowledged unfilled, which is why `FillsAcked` says no more than that it is acknowledged |
| `AckedFillIsStored`; MCAccountSerial with `b1` at the other process, `r1`, a fill `g1` of `b1`, no fault | a process that cached the account before another placed the order runs the fill on what it has, finds no such order, and acknowledges it: nothing tells it that it is behind. The reconcile puts the order back and the next tick asks again, but as long as such a process serves the requests they come to nothing: `CrossedIsFilled` and `InStep` without `ServedUpToDate` fail in MCMatcherShard |
| `DeadWasTried` (in `MatcherFills`); MCFillsTakeover with `PageSize = 2`, `MaxDeliveries = 1` | claiming counts a delivery of every request of a page, also of those that wait behind a failing one of their user (`matcherFills.ts` 193, 216); they are dead-lettered with it, never run |
| `NoneLost`; MCFillsTakeover with `LateClose = TRUE` | a request that Redis delivers to a closing reader between its XPENDING and its DELCONSUMER is dropped (the reconcile repairs it later) |
| `HeldAreKept` (in `AccountFeed`); MCAccountFeed | when a re-read fails the frames held meanwhile are dropped (`tradingStore.ts` 369), and the next frame that carries its own `seq` is applied over the gap: the screen lacks a change it was sent until the next load |
| `GapsAreRead` (in `AccountFeed`); MCAccountFeed with two orders and one fault | `docs/adr/0012` has the client re-read the account on a gap, but it notices only a frame that does not carry its own newest change, and every frame of the API does (`service.ts` 320-323): a lost frame is noticed by none after it, and what it changed is missing until the next load |

And these were met while reading the code for the models; each is in the model as the code has it, except
the failing SUBSCRIBE and what is noted as left out:

- A session job whose commit failed once fails on every later run: `syncAccounts` settles before it
  reloads (`service.ts` 717), and `settle` refuses a stale account. That a job succeeds in the end
  is therefore stated by no run.
- A forced buy-back at the square-off may cost more than the free cash. A resting BUY that then
  crosses within its block fails at `#mustLedger` and the exception leaves the engine
  (`paperEngine.ts` 1382). `OnlyDebitBreaks` shows that this is the only way an engine throws; a
  desk's `ingest` runs its users without a try around each, so the ones after it miss the tick.
- Modifying a trailing stop whose dragged stop price is already on the wrong side of the price
  throws a RangeError instead of answering with a rejection.
- A clock that goes back over a day's boundary runs that day's session events again
  (`paperEngine.ts` 1053-1058).
- A standby matcher's books are called current (`matcher.ts` 89-91), but a process that lost the
  lease skips ticks: the stops it takes over stand where the store has them.
- An ADD that arrives after the CANCEL of the same order, which found no book to note it on, rests
  until the next reconcile; the comment at `matcherCommands.ts` 89-90 reads as if it could not.
- The limit of active alerts (`packages/contracts/src/alerts.ts` 26, "At most this many active
  alerts per user") is counted before an awaited quote and not again when the row is inserted
  (`alerts/service.ts` 140): requests at the same time pass it together.
- A socket that opens again while a load is under way starts no other (`tradingStore.ts` 353, 385),
  though that load may have been read before the socket's subscription; and a load begun at the
  open may be read before the SUBSCRIBE is executed. What is committed in between is missing until
  the next load, which is why `ComingBackCatchesUp` needs the user to come back.
- An answer that is applied while a load is under way is replaced by the older snapshot of that
  load (`tradingStore.ts` 294-301); `KeepsWhatItGot` leaves such answers out.
- A SUBSCRIBE that fails is logged and not tried again while the user keeps a socket
  (`orderFeed.ts` 135-137), and a revocation that is published while the node is not connected
  leaves that session's sockets open until they close by themselves.

## What is proved

| Theorem | States | Inductive invariant, and why the property alone is not enough |
|---|---|---|
| `ShardLeaseProofs`: LeaseTypes, LeaseHeldIsOwned, LeaseOneWriter | types; a believer's key outlives its belief; at most one writer | `LeaseInv` adds `Covered`: the key names whoever believes, or has an answer under way that would make it believe, and outlives that belief; and `ReleasedAfterStop`: a RELEASE, also one given up and still to be executed, comes only from a stopped process. One writer follows from `HeldIsOwned`: the key names one owner |
| `ShardLeaseProofs`: LeaseIsKept | `HolderKeepsLease`: a running holder keeps the lease through as many faults as the TTL leaves room for | `Kept`, beside `LeaseInv`: what is left of a lease, with a renew interval for each fault so far and one for the renewal to come, makes up the TTL, counted to the timer while no round runs; and a round that lost or is taking the lease is not of a holder |
| `AccountCommitProofs`: CommitTypes, CommitLosesNothing, CommitAnnounces, CommitKeyedOnce | types; each version extends the one before; updates carry their commit's version; of an order sent any number of times, to any processes, with one client order id one run is stored, and of a fill, however often it is delivered, one run | `CommitInv` adds `AllChained`: every live write of a queue extends the one queued before it, and the first extends the version the cache holds - a commit that wins is then an extension of the last version. `AllOnce` adds to `KeyedOnce` that every engine, queued change and loaded account has it too: runs are numbered over all deliveries, so that nothing but the check for the order's own id, on an account that can still commit, keeps the second run out |
| `AccountCommitProofs`: CommitIdleIsStored | an idle process at the store's version holds exactly the stored account | `Tip`, beside `CommitInv`: while a process's version is the store's, its engine is what the last change of its queue will write, or the stored account if none waits; and a commit that lost was made against an older version. The property speaks of processes without a queue, and so says nothing of the steps that lead there |
| `AccountCommitProofs`: CommitAcksStored | under `SentOneByOne` (each process works on one request at a time, each client order id is sent once, no tickers, no failing reload), and fills that run where their order was placed: an acknowledged fill is stored | `SerialInv`, beside `CommitInv` and `Tip`: for each stage of the one request at work, what its process holds. While it settles (`Committing`), the queue holds nothing but changes of that run and of what has come due, which is also all that the engine is ahead of the account as read; until something comes due there is one such change, and a refused request is not in the store (`Undone`); a process with nothing at work holds no change and no conflict. The syncs of an announced delta are changes of what has come due |
| `AccountCommitProofs`: CommitKeepsPromise | under `SentOneByOne`, with any events: `AccountCommit` implements `AccountPromise` - OK means stored, a keyed order takes effect once, and until something comes due each action at most once, before it is answered, and 409 means not stored | the same `SerialInv`: a commit that wins maps to the promise's change, an answer to its reply, the first event to `Disturb`, every other step to a stutter. The rows on `AckedIsStored`, `KeepsPromise` and `AckedFillIsStored` under Disagreements are counterexamples without these hypotheses, or to the promise without `disturbed` |
| `OrderBookProofs`: StopIsSafe, IndexIsSound, StepIsSafe | a watermark's stop is strictly on the safe side; heap keys tell exactly when a stop acts; a step never loosens a stop | none: these are lemmas of arithmetic, for every tick size, trail and price |
| `OrderBookProofs`: BookIsTyped, BookIsIndexed, TicksTighten | types; what rests is in its heaps at its own keys; a tick never loosens a stop | `IInv` adds `Marked` (stops at their watermark), `Versioned` (what rests has a version) and `Fresh` (no entry of an id is newer than its counter: a re-placed id makes all its old entries stale for good) |
| `OrderBookProofs`: BookActsOnAll | `Spec => Plain!Spec`: the book implements the plain book | each of the six passes has a postcondition (`Outcome`): which stops have been acted on, and that the others are as the tick found them |
| `MatcherFillsProofs`: FillsLoseNothing | `~LateClose => (Spec => []NoneLost)` | `FillsInv` adds that what awaits its ack is settled, that a consumer to be deleted holds nothing, and where an abandoned read may still be served. `~LateClose` says Redis notices a closed connection before it runs commands sent after it; without it `NoneLost` fails (above) |
| `MatcherShardProofs`: ShardTypes, RestsTheorem, NewsTheorem | types; what rests on a book is what the account held at the version the book has it at, a stop at most moved on; no step takes a process behind what it has seen of an order | `ShardInv`: whatever may still come to a book is itself of a version of the account - commands under way (`UnsentInv`) and read (`UnreadInv`), the snapshot of a round (`RoundInv`), orders taken off by a tick whose send may fail (`SendingInv`) - and a process that sends still has the book it ticked (`WritersInv`) |
| `AccountFeedProofs`: FeedTypes, SubscribedTheorem, RevokedTheorem, KeepsTheorem | types; a node is subscribed exactly while it has a socket of the user; a session heard revoked has no open socket; the screen is never behind what it was given | `FeedInv`: the subscription that the queued commands end at is the one wanted (`SubscribedInv`); frames are sent, arrive and are held in the order of their commits (`SentInv`, `WireInv`, `HeldInv`); a copy of an order is that of a commit that changed it, and a sign-in has one load at a time (`CopiesInv`, `LoadsInv`); and of the store (`StoreInv`), a frame it would skip as old has nothing new for it, and what it was given during a load is in the load's answer or in a frame held |
| `PaperEngineProofs`: EngineTypes, EngineMoney, EngineShares, EngineBlocks, EngineSells, EngineThrows | types; no paisa and no share is made or lost; cash is blocked exactly for what live BUY orders may still cost; delivery sells are covered by shares; a call throws only when a forced buy-back has left a debit | `EngineInv`: an engine that has not thrown is `Whole`, one that has has a debit. `Sane(e, b)` is what every piece of a call keeps - the five statements at once, as each needs the others: a fill's payment needs its block, its release the sum of the blocks, a sale its shares - except of the order `b` that a call has placed and not yet let rest. `Covered` is lost by a sale and regained by the revalidation that follows every fill, so it holds only between calls |
| `PaperEngineStopsProofs`: EngineTidies, EngineStopsFollow, EngineStopsEnd, EngineOvernight | a position has at most one stop, on its side and for all of it; a stop and its order end together; nothing intraday outlives its session, no order the session it waits for | `TidyInv`, beside `EngineInv`: an engine that has not thrown is `Tidy` - each stop is tied to its orders and its position (`StopTied`), one stop protects a position (`Alone`), exits need a quote (`Quoted`), and what the clock rules out is gone (`Calm`, of a mode `ModeAt(synced, clock)`). The three are one invariant: the square-off leaves no position only because stops end with the exits it cancels, and a stop follows a fill only because it was alone. Inside a fill the stops lag behind the position, which `TiedBut(e, i, late)` says of the order `i` and the stops `late` |

How the engine's proof goes. One lemma says of each definition of `PaperEngine` what it keeps, in
the code's order: ledger and position, ending orders and stops, a fill, what follows it, a match,
a stop's trigger, the session's events, the sync, and each call. A sum over a sequence changes by
what the one changed record contributes (a lemma by induction on its length). The theorems hold for
every instrument's prices, opening balance, holding, cap and set of requests. `Tidy` is proved along
the same path. The clock enters by the mode only: each piece keeps `Tidy` for every mode that the
rules for new orders permit at its time (`Permits`), each event of the session adds what it clears
(`EventTidy`), and the modes of an engine that lags behind the clock, or is synced behind it, ask
for less (`ModeLess`) - which is what makes a late sync and a replayed tick come out right.

Assumptions are the named ASSUMEs of the modules - types of constants, sentinels outside the types,
orders numbered `1..n` (`FundsAssumption`), requests as the API's schemas admit them
(`EngineAssumption`: MARKET orders without a price, LIMIT orders with one) - and the hypotheses that
three theorems carry in their statement: `~LateClose` in `FillsLoseNothing`, `SentOneByOne` in
`CommitKeepsPromise` and `CommitAcksStored`, which also asks that a fill runs at its order's
process. TLC evaluates the ASSUMEs in every run; MCAccountSerial is an instance of `SentOneByOne`, with an event.

Induction over data is used where the recursion is a recursive function over the naturals:
`NatSetInduction` (from the well-foundedness of `<`) takes a set in place of a predicate, as the
provers cannot instantiate an operator.

Only model-checked:

- what holds under fairness, as liveness and ENABLED are outside the prover: `Takeover`,
  `EveryRequestAnswered`, `FillsAcked`, `EveryFillSettled`, `CloseEnds`, `InStep`,
  `CrossedIsFilled`, `EveryNotePublished`, `BooksForgetEnded`, `CrossedFires`,
  `ComingBackCatchesUp`;
- `NotedOnce` and `OnlyEndedLeave` of `PriceAlerts`, which have no proof yet.

## Not modelled

- The web app, its mock backend, the UI kit, contracts and tokens: no state other parts rely on.
- The mock market adapter: makes test prices from a seed.
- Wire formats, validation of requests, logging and metrics.
- Clock steps (the code uses `Date.now` for lease intervals), Redis failover, Postgres failover.
- Everything in the plan below that has no module yet; `PROJECT.json` lists it as `not_modelled`.

## Plan

In order of importance; done modules first.

1. `AccountCommit`, `AccountPromise` - done; its refinement proved for serial requests;
   later: torn loads, `reset`.
2. `ShardLease` - done, proved.
3. `TrailingStop`, `OrderBook`, `PlainBook` - done, refinement proved.
4. `MatcherFills` - done, `NoneLost` proved.
5. `MatcherShard` - done, its safety properties proved.
6. `PositionMath`, `FundsLedger`, `PaperEngine` - done, all its properties proved. Then
   `PaperDesk`: held prices and the index by instrument.
7. `PriceAlerts` - done; later proof: `NotedOnce`.
8. `AccountLoad`: `loadAt` statement by statement against commits: is a loaded account some version?
9. `TradingStore`, `AccountFeed` - done, their safety properties proved. Then `TickStream`: every
   follower of a tick stream ends at the newest quote.
10. `Sessions` (refresh families, OTP and PIN limits), `Candles`, `Jobs`, `Watchlists`; the pure
    algorithms `BinaryHeap` and the market calendar against reference definitions.

Runs keep to two of each actor and one fault unless a hazard needs more; an abstract specification
where a component's promise is simpler than its code.
