# Frenix Pay: TLA+ models and proofs

Frenix Pay receives USDT on one fixed address per chain. Each order is given
an amount of its own (base amount plus a small offset), a watcher per chain
reports every transfer to the address, and the order service attributes
transfers to orders by amount. This directory models that program from its Go
and SQL sources, checks the models with TLC on small instances, and proves with
TLAPS, for every instance, what matters most about the order service and its
records, the watchers, the gateway they form, the process and the limiter.

Source paths below are relative to `src/`.

## 1. Inventory

| component | source | state it keeps | operations | modelled in |
|---|---|---|---|---|
| order lifecycle | `internal/orders/{service,repository,models}.go` | tables `orders`, `review_items`, `audit_log` | `CreateOrder`, `OnTransfer`, expiry loop, `LoadPendingTransfers`, `GetOrder` | `Matching`, `Orders`, `Settlement` |
| review queue | `internal/orders/review.go` | `review_items` | `LogReviewItem` | `Orders` |
| audit log | `internal/audit/log.go` | `audit_log` | `Log` | `Orders` |
| schema | `migrations/000001_init_schema.up.sql` | partial unique indexes, row locks | | `Orders` (external Postgres) |
| EVM watcher (Polygon, BSC) | `internal/chains/evm/watcher.go` | pending map, durable cursor | poll cycle, seeding | `EVMWatcher`, `Gateway` |
| TRON and TON watchers | `internal/chains/{tron,ton}/watcher.go` | pending map, durable cursor | poll cycle with pages, seeding | `PagedWatcher` |
| watcher interface | `internal/chains/{watcher,cursor}.go` | | | `Watching`, abstractly |
| RPC clients | `internal/chains/{evm,tron,ton}/client.go` | none between calls | `call`, `get` | `RpcClient`, in `Process` |
| cursor store | `internal/db/cursor_store.go` | `chain_cursors` | `GetCursor`, `SetCursor` | in the watchers |
| manager | `internal/chains/manager.go` | registered watchers | `Run`, `SeedPending`, `RequiredConfirmations` | `Process`, `Gateway`, `Orders` |
| process | `cmd/frenixpay/main.go` | goroutines, connections | startup, shutdown | `Process`; death and restart in `Gateway` |
| configuration | `internal/config/config.go` | none | `Load` | `Process`: what is refused and which chains are on; values are CONSTANTS |
| connections | `internal/db/{postgres,redis}.go`, `migrations/` | pool, client | connect, close | `Process`: their order |
| rate limiter | `internal/ratelimit/redis.go`, `internal/api/{middleware,router}.go` | Redis counters | `Allow`, behind the API key | `RateLimit` |
| HTTP API | `internal/api/*.go` | none | create, read, list | `CreateOrder` in `Orders`, middlewares in `RateLimit`, server in `Process`; the rest is I/O |
| wire types, TRON addresses | `*/types.go`, `tron/address.go` | none | | no: pure conversion |

How they interact. `main` builds the watchers, the manager and the service,
seeds the watchers from the orders still `confirming`
(`LoadPendingTransfers`), and then starts three kinds of goroutines: one per
watcher, the expiry loop, and the HTTP server. SIGTERM cancels the context all
of them share; `main` drains the HTTP server, waits for the goroutines, and
closes Redis and the pool. A watcher polls its chain
through an RPC client, moves its durable cursor, keeps the transfers it found
in an in-memory map, and calls `OnTransfer` for each of them on every poll
until it is deep enough. `OnTransfer`, `CreateOrder` and `ExpirePastDue` share
the Postgres tables and nothing else: there is no lock in the process, all
exclusion is the database's.

What is hard here:

* interleaving of SQL statements of several actors, row locks that outlive a
  statement, `SKIP LOCKED`, and unique indexes as the last line of defence;
* events that come more than once and with counts in any order;
* steps that are not one transaction: claim and review item, state change and
  audit entry, cursor and first report, the two claim statements;
* crash and restart: what is in memory (the pending map) against what is
  durable (cursor, tables);
* RPC nodes and indexers that lag, fail, or change their mind about the last
  blocks, and a scan that ends before it has seen everything;
* a signal at any moment: during startup, in the middle of a retry, before the
  listener is open.

`PROJECT.json` lists every hazard at its line with the properties that cover
it, and says of the uncovered ones why.

## 2. Modules

| module | what it is |
|---|---|
| `Matching` | the amount arithmetic and the candidate loop of `ClaimUnderpaid` |
| `Settlement` | abstract specification: one transfer settles at most one open order, and orders follow the lifecycle |
| `Orders` | the order service over its tables, one action per SQL statement |
| `MCOrders` | constants of the small instances of `Orders`; the candidate loop against `WinsOver` on every small query result |
| `OrdersProofs`, `RecordsProofs` | theorems about `Orders`, proved: the table of orders; the review queue and the audit log |
| `EVMWatcher` | an EVM chain and the poll cycle of its watcher |
| `Gateway`, `MCGateway` | `EVMWatcher` composed with the whole of `Orders` in one process that can die |
| `GatewayProofs` | theorems about `Gateway`, proved, on top of those about `Orders` |
| `Watching` | abstract specification: what the service relies on when it trusts a watcher |
| `WatchingProofs` | what follows from it for every watcher that implements it, proved |
| `PagedWatcher` | TRON or TON, their indexers, and the paging watcher |
| `PagedWatcherProofs` | theorems about `PagedWatcher`, proved |
| `RpcClient` | one call with fallback endpoints, for the three clients |
| `Process` | one life of the process: configuration, startup, goroutines with the RPC calls of one watcher, shutdown |
| `ProcessProofs` | theorems about `Process` and its RPC calls, proved |
| `RateLimit`, `MCRateLimit` | the two limiters of the router over one Redis |
| `RateLimitProofs` | theorems about `RateLimit`, proved |

Operators named `Mutant_...` stand before the definition they alter: each is a
plausible mistake in the code, and shows that the property it is paired with
in `PROJECT.json` would notice it.

### Orders

State: `orders`, `reviews`, `audit` are the three tables (`reviews` by
transfer, because of its unique index; `audit` as a set); `owed` is what each
actor has still to insert into the log before it goes on; `lock` holds the row
locks that outlive one step; `now` is the clock of the database and of the
service; `pc`, `call`, `best` are the local state of each execution of
`OnTransfer`; `request` of each running `CreateOrder`; `sweep` of the expiry
statement.

| action | code |
|---|---|
| `CreateOrder`, `InsertOrder`, `InsertCollides`, `CreateFails` | `Service.CreateOrder`, `CreateWithUniqueAmount`: validation, then one action per INSERT attempt |
| `OnTransfer` | entry of `Service.OnTransfer`; its first audit entry is owed |
| `UpdateConfirmations`, `TxAlreadyClaimed`, `ClaimExactMatch` | one statement each, with the branch the service takes on its result |
| `ClaimUnderpaid`, `MarkUnderpaid`, `Rollback` | the statements of the underpayment transaction and its end without a best candidate; the rows selected stay locked in between |
| `AuditInsert` | one `audit.Log` call of any actor, in the order of the code; the insert may fail, and its error is dropped |
| `LogReviewItem` | the review insert at the end of both paths |
| `StatementFails` | any statement of the call fails: the call ends, an open transaction is rolled back |
| `ExpirePastDue`, `ExpireRow`, `ExpireCommit`, `ExpireFails` | the expiry UPDATE: snapshot, rows one by one (waiting for locks, looking at each row again), commit |

Decisions worth knowing:

* A state change and its audit entries are different statements in the code and
  different steps here: a statement leaves its entries in `owed`, and the actor
  goes on when they are inserted or lost (`Ready`). Other actors, expiry and, in
  `Gateway`, the death of the process come in between.
* `OnTransfer` returns its error to the watcher, which only logs it; the next
  call is a new event. Hence `StatementFails` simply ends the call.
* A transfer is a (chain, tx_hash) pair with a fixed amount.
  `tx_block_height` is left out of the rows: it is only read at startup, and
  `Gateway` keeps it as `height`.
* `expires_at` is computed with the clock of the service and compared with the
  database's; both are `now`.
* Amounts are integers. Percentages are compared exactly, by
  cross-multiplication; the 16-digit rounding of decimal division is not
  modelled.

### EVMWatcher, Gateway

`stage` says which call of the cycle is next; every call that leaves the
process (`eth_blockNumber`, `GetCursor`, each `eth_getLogs`, `SetCursor`, each
`OnTransfer`) is a step of its own. `pending` is `w.pending` (0: not in the
map), `items` the copy `refreshConfirmations` iterates over. The chain is
external: `Mine`, `Reorg`, and `Nodes`, the heights of the nodes that may
answer a call. `Crash` clears everything but the cursor and the chain and
stands for a graceful shutdown as well: a watcher whose context is canceled may
stop between any two of its calls.

`Gateway` composes it with the whole of `Orders`: `Report` is `Emit` of the
watcher and `OnTransfer` of the service in one step, `Call` a statement of that
call (one that claims or advances an order also stores the height of the event),
`Reported` waits until the call is over, `Die` ends every call and transaction,
and `Recover` is `LoadPendingTransfers`, which seeds the stored heights.
`height` thus follows `tx_block_height` through replaced blocks (`Reorg`), and
`CountsAreTrue` relates it to the count stored beside it.

### Watching

Five variables: what the durable cursor has `passed`, what a watcher has in
memory (`followed`), what the sink has made durable (`reported`), which of that
nobody waits for any more (`done`), and whether the process is `up`. Its moves
say that the scan passes only what is followed or reported, that only what is
done is dropped, and that a restart follows again what is reported and not
done. `Watches` of `Gateway` and of `PagedWatcher` map their state to these
variables: `done` is "no order confirming" in `Gateway`, where the full order
service is the sink, and "the stored count has reached the order's own
threshold" in `PagedWatcher`, whatever threshold the watcher goes by.

### PagedWatcher

The TRON and TON watchers run the same cycle and are one module with a constant
`Kind`; the definitions that differ are `Newest` (TRON is asked with
`only_confirmed`), `TronLatest` and `TonLatest` (a call, or the clock of the
process), `LastPage` (a fingerprint, or an offset), `TronCount` and `TonCount`
(blocks, or elapsed seconds divided by the assumed block time), and `TronSeed`
and `TonSeed` (the block of the transfer, or the time of the restart).

`time` is what the chain has included so far, up to `BlockSize` entries of one
time and `Together` of them at once (a whole TRON block; for TON one by one, so
that a second goes on after it was shown). `now` is both the number of TRON's
block being produced and TON's second; the clock of the host (`Clock`) is off by
up to `Skew`. The indexer is external: `Found(m)` and `Page(m)` are what an
endpoint that knows the chain up to `m` shows, so that two pages of one poll may
come from endpoints that lag differently, and entries may appear between them;
with `Steady` a later page comes from an endpoint that knows at least what an
earlier one showed. `PageLimit` and `MaxPages` are 200 and 20 in the code.
`SeedPending` takes any of `Thresholds`: the configuration may have changed
between two lives of the process, while the orders keep the value they were made
with (`required`); with `Lowers` it may fall below theirs. The sink is one step
here, which may fail (`EmitFails`): for `SinkFaults` "early" when the transfer
remains pending, for "last" when it is dropped. Its statements are the subject
of `Gateway`.

### RpcClient

The loops over endpoints and attempts with the `select` between timer and
context. The clients differ in their verdict: the EVM client tries again after
anything that is not a result, the TRON and TON clients give up on a status
other than 200, 429 and 5xx. `late` counts requests of one call sent after the
context was canceled. The module has no specification of its own: `Process`
makes its calls and cancels its context.

### Process

`main` is where `main` stands. `Load` takes every environment: what each
`X_ENABLED` says (garbled included), which addresses are there, and whether the
rest parses. `Connect`, `Build`, `SeedChain` and `Start` are the startup in its
order, `StartupFails` the exits on errors. Then each enabled chain has a
watcher goroutine (`watch`), with the expiry loop (`expiry`), the HTTP server
(`http`, `request`) and a `Signal` beside them; the two RPC calls of a cycle of
the `Focus` chain are those of `RpcClient`, the polls of the others are one
step. `BeginShutdown`, `Drain`, `Close` and `Exit` are the end of `main`, with
`Joined` for `wg.Wait` and `Manager.Run`'s own. `FailWatcher` is a `Run` that
returns an error, which `ChainWatcher` allows and today's watchers never do.

### RateLimit

`Allow` in three steps (clock, INCR, EXPIRE) for concurrent requests over
shared counters, behind the API key on guarded routes. Redis may fail to apply
either command, and may apply an INCR whose reply is lost (`IncrReplyLost`: a
timeout, a request that is canceled): `Allow` then lets the request pass and
never sends EXPIRE. A retry by the client library counts once more, as another
such request would. A request that reads the clock in one window and reaches
Redis in the next one (`inTime` is false) counts on the old key; the limit is
stated for the others.

## 3. Runs

| run | question | distinct states |
|---|---|---|
| `orders_core` | with duplicated and reordered events and failing statements, do rows, review items and audit entries stay consistent, is nothing credited across chains, and does `Orders` implement `Settlement`? | 1.7 million |
| `orders_overlap` | two overlapping calls for one chain and two overlapping creators, with failing statements: does any transfer pay twice, any amount pend twice, any lock leak, and does an underpayment go to the closest order? | 2.2 million |
| `gateway_safe` | with a crash, lagging nodes, replaced blocks and failing calls and statements: does any order show more confirmations than there are blocks from its stored height? | 1.9 million |
| `gateway_live` | with failing RPC calls and a crash: does the EVM watcher, with the full service, implement `Watching`? are confirming orders watched and completed, past-due ones expired, transfers accounted for? | 119,800 |
| `tron` | with blocks of two entries that pages cut in half, lagging endpoints, failing pages, cursor calls and reports, the page cap, a crash and a raised threshold: does the TRON watcher implement `Watching`, report and complete every transfer? | 28,900 |
| `ton` | with seconds that go on after they were shown, a clock that is off, counts that start over, and a threshold that may be lowered: is a transfer lost only to another one of its second, and does every order that can complete do so? | 97,600 |
| `process` | does a process that is configured, failed or signalled at any point serve only when ready, keep polling, and close its connections after the last user? do RPC calls try every endpoint, end, and end promptly? | 68,500 |
| `limit` | with commands of Redis that fail and replies that are lost: do the limits hold, and do counters expire? | 1.9 million |

In `orders_core` and `orders_overlap` the tolerance is 0:
`AmountIdentifiesOrder` holds there and fails with the default
(`orders_tolerance`). In the gateway it is 1. In `gateway_live` nodes do not lag
and no statement fails: `Watches` and `TransferIsAccounted` do not hold with a
node that answers `eth_getLogs` for blocks it does not have, and `Watches` and
`ConfirmingCompletes` do not hold with failing statements (`gateway_stall`).
`tron` has `Steady`, and excludes a failing last report and a lowered threshold,
without which `Watches` fails. `ton` excludes only the failing last report, but
does not state `Watches`: a second that goes on after it was shown breaks it.

Four more runs end in a counterexample: each states something a document or
comment of the repository says, and shows how the code departs from it.

| run | what happens |
|---|---|
| `orders_tolerance` | the default tolerance ($0.02) is wider than the offsets ($0.0001-$0.0099): an exact payment of one order credits another |
| `gateway_lost` | the process stops between `SetCursor` and the first `emit`: the transfer is below the cursor and in no table, for good |
| `gateway_stall` | `OnTransfer` fails on the last report: the transfer is dropped from the pending map all the same and its order stays `confirming` until a restart |
| `tron_cap` | a poll that hits the page cap inside a block skips the rest of the block |

The models contain further such behaviours that no run states yet; the hazards
of `PROJECT.json` describe them: an order created between the two claim
statements is marked underpaid by a transfer that matches it; a transfer queued
as unmatched and later attributed as an underpayment keeps its old review item;
a review insert that fails after the underpayment was committed is never made
up for; an audit entry can be lost, by its own failure or by a crash before it;
a transfer whose block was replaced is confirmed (`gateway_safe` has such
blocks); a threshold lowered at a restart stalls the orders made before; a page
from an endpoint that lags behind the one before ends a scan inside a block.

Where the models follow the code and a document says something else, the
properties that pass are stated for the code:

* Confirmations are `latest - tx block + 1` in the EVM and TRON watchers;
  `docs.md:103,105-106` says "latest block - tx block". `CountsAreTrue` and
  `CreditFollowsAge` bound the count by the code's, one more than the document's.
* TON's confirmations are elapsed seconds by the host's clock over 5.
  `config.go:88-90` speaks of masterchain blocks elapsed, and `docs.md:120-123`
  of an approximation that never credits early; where a block takes longer than
  5 s it does. What holds is `CreditFollowsAge`, a bound by age.
* TON's cursor is a second and the next scan starts at the one after it, so that
  the second of two transfers of one second, shown a poll later, is skipped;
  `docs.md:94-96` says that every transfer is reported. `LoneTransferIsReported`
  excuses just these.
* `docs.md:173-174` gives 429 to a caller who exceeded
  `ORDERS_RATE_LIMIT_PER_MINUTE`; the limiters share their keys, so requests to
  the public endpoints count as well. No run states a property about the cause
  of a 429; `NobodyBlockedWithoutCause` counts the requests to both.
* `tron/client.go:35-37` says (TON's code is the same) that endpoints are tried
  until one succeeds or all are exhausted; a status such as 403 ends the call
  although another is healthy. `ExhaustedEndpoints` has this as the one other
  way for a call to end, for these clients only.

Bounds, and why they are enough. Two orders and two transfers give every pair of
actors something to fight for: two claims of one order, two orders for one
transfer, a claim against expiry, an insert against a claim or expiry. One
handler repeats and reorders events as it likes; `orders_overlap` has one
transfer, a second handler for calls that overlap and a second creator for
attempts that collide. Orders of `orders_core` may be for a second chain, whose
watcher is quiet: what could go wrong there is that a transfer of the first one
is credited to them. Expected amounts are 11 and 12 against transfers of 11
and 8, which is short of both, and with a gap of 30% close enough to 11 only.
In `orders_overlap` they are 11 to 14 against 11, with a gap that only 14
exceeds, so that two orders compete for an underpayment, and a transaction locks
a row and rolls back. Counts up to 2 with `Required` 2 give "below", "at" and
"again at" the threshold. `MaxTime` and `Expiry` are such that orders expire
before, during and after a claim, and others do not. Chains of three or four
blocks with batches of one block give scans that fail between batches, transfers
in the first and the last block of a scan, and enough blocks to finish; one
crash hits every stage. The gateway runs have one order and one transfer, of
which `Orders` alone has two: they are about the two components losing sight of
each other, not about orders in competition. `Lookback` covers the chain: the
code leaves out older transfers on purpose. `ReorgDepth` 2 in `gateway_safe`
replaces blocks below the last, with a transfer that moves to an earlier or
later one. `MaxTime` is 0 there: no order expires, which `gateway_live` and
`orders_core` have. `tron` has two blocks of two entries, of which the second of
the first and the first of the second are transfers to the address, and pages of
one entry: every page but the last ends inside a block, and the cap of two pages
falls between blocks (in `tron_cap`, with an odd number of entries, inside one).
`ton` has two entries, the second one ours, in one second or in two, a clock off
by 1 and `BlockTime` 2, so that counts round. Both have thresholds 1 and 2, so
that a restart keeps or changes them. `process` has two chains, one on by
default and one of which may fail, and two endpoints with two attempts each: the
healthy one is first, last or nowhere, and a cancellation meets the pause, the
timer and the change of endpoint. Three requests against limits of 1 and 2
exceed each of them.

`MCOrders` also runs the candidate loop of `ClaimUnderpaid` (`BestAfter`) on
every result its query can return for amounts up to 8, as an assumption TLC
evaluates first: the loop ends with the closest acceptable order, and
`WinsOver`, which `Orders` uses in its place, says the same.

Fairness. `GFairness` says that while the process is up its goroutines run, the
statements of a call return, and the tickers of the watcher and the expiry loop
fire; that time goes on and the chain grows; and that somebody starts a dead
process again (the systemd unit of `deploy.md:130` has `Restart=on-failure`, and
a stopped service is started by its operator). Customers, transfers, crashes and
failures are not fair. Where calls fail, the fetch of one range is strongly
fair: a range that is asked for again and again is answered once, which is what
fallbacks and retries are for. `FairSpec` of `PagedWatcher` says the same of its
pages, its cursor calls and its reports. `FairSpec` of `Process`: goroutines
run, requests have timeouts, timers fire, statements and migrations end.
`select` chooses at random among what is ready, so a loop that finds
`ctx.Done()` closed again and again takes it once: the ends of the loops are
strongly fair. Signals are not fair, and neither is the end of an HTTP request,
which `Drain` waits for only so long.

`CHECK_DEADLOCK FALSE` is set where the system stops by construction: when the
process has exited (`process`), and when each request has been made (`limit`).

## 4. Proofs

### Orders

`OrdersProofs` and `RecordsProofs` prove, for any sets of orders, transfers,
chains, handlers and creators, any amounts, thresholds, offsets, tolerance and
gap, and with failing statements and lost audit entries allowed:

| theorem | says |
|---|---|
| `TypeCorrect` | `Spec => []TypeOK` |
| `LocksHeld` | `Spec => []LocksBelongToTransactions` |
| `TransfersPayOnce` | `Spec => []TxClaimedOnce` |
| `AmountsStayDistinct` | `Spec => []PendingAmountsDistinct` |
| `NothingHeldUnpaid` | `Spec => []UnpaidHoldNothing` |
| `CreditsAreSound` | `Spec => []CreditSound` |
| `ConfirmedInTime` | `Spec => []ConfirmedAtThreshold` |
| `ShortfallsAreSound` | `Spec => []ShortfallSound` |
| `FinalIsFinal` | `Spec => FinalRowsFrozen` |
| `ProgressIsMonotone` | `Spec => ProgressNeverRegresses` |
| `ClosestIsUnderpaid` | `Spec => UnderpaysClosest` |
| `ServiceSettles` | `Spec => Settles`, the refinement of `Settlement` |
| `ReviewsNameOrders` | `Spec => []ReviewNamesOrder` |
| `LogTellsHistory` | `Spec => []AuditTrail`, if no audit insert fails |

Assumptions: `MatchingAssumption` and `OrdersAssumption`, which say of which
kind the constants are and that markers such as `NULL` are no order, transfer,
handler, number or review item. TLC evaluates them in every run of `MCOrders`.
The hypothesis of `LogTellsHistory` is needed: the code drops the error of an
audit insert. `AuditTrail` speaks of the log together with what its writers have
still to insert; an entry that a crash or a cancellation cuts off is lost as
well, and `Gateway`, where that happens, claims nothing about the log.
`AmountIdentifiesOrder` is not among the theorems: it holds only with a
tolerance below the distance of two offsets, which the default is not.

The argument goes in three inductive invariants, each on top of the one before.
All are proved for `Step`, which is `Next` plus the arrival of any event that is
true to its transfer (`TrueEvent`), so that `GatewayProofs` can use them for the
events of the real watcher, whose counts are not those `Orders` picks from.

1. `TypeInv` is `TypeOK` with `WorkOK`: a handler at work has an event with the
   amount of its transfer and of its own chain, and one about to mark an order
   has picked one. Without `WorkOK` the type of a row written from `call[h]`
   or `best[h]` does not follow.
2. `LockInv` is `LocksBelongToTransactions` with `PickedOK`: the order a
   handler is about to mark is locked by it and is still as the query saw it.
   This is what carries the checks of the SELECT over to the UPDATE of the
   next step.
3. `MoneyInv` is the conjunction of the six row invariants. `TableStep` first
   shows that a step changes the table in one of five ways only (open, advance,
   credit, mark short, expire), so that each later proof has five cases and not
   nineteen actions.

`FinalIsFinal` and `ProgressIsMonotone` follow from the three invariants and
the same five cases; `ServiceSettles` maps each case to a move of
`Settlement` and everything else to a stutter. `ClosestIsUnderpaid` rests on a
fact about the gap: of two amounts above the transfer, the gap of the larger is
the larger, so a candidate the loop skips for its gap is further away than the
one it keeps.

In `RecordsProofs`, `ReviewOK` says that a handler that comes to `LogReviewItem`
with an order has underpaid that very order; the row is final by then, so it
stays true until the item is written, whoever else is at work. `AuditTrail` is
an equation between the log with what is owed to it, and what the rows say of
their past; the proof shows for each of the five ways that the step owes exactly
the entries by which the history grows, that an insert moves one of them into
the log, and `ObservedOK` that a handler's transfer was
observed before anything is attributed.

### Gateway

`GatewayProofs` proves about the EVM watcher composed with the whole service,
for any chain, lag, batches, thresholds, number of crashes, orders and
transfers:

| theorem | says |
|---|---|
| `GatewayTypes` | `GSpec => []GatewayTypeOK` |
| `MoneySurvivesCrashes` | `GSpec => [](TxClaimedOnce /\ CreditSound /\ UnpaidHoldNothing)` |
| `CountsStayTrue` | `GSpec => []CountsAreTrue` |
| `CountsAreTheChains` | `GSpec /\ [][SeenStay]_gvars => []CountsMatchChain` |
| `NobodyLeftBehind` | `GSpec /\ [][LastReportLands]_gvars => []ConfirmingIsPending` |
| `GatewayWatches` | `GSpec /\ [][Undisturbed]_gvars => Watches` |

The hypotheses are about what happens in a behaviour, not about the constants:
any lookback, lag, depth of replacement and length of the chain are allowed as
long as a step does not do one of a few things.

* `SeenStay`: no block with a transfer that the watcher follows or an order has
  claimed is replaced. `CountsMatchChain` compares the count with the block the
  transfer is in, `CountsAreTrue` with the height stored beside the count, which
  needs no hypothesis.
* `LastReportLands`: a statement fails only while the count at hand is below the
  threshold, so that the watcher reports again (`gateway_stall` lacks it).
* `Undisturbed` adds to it `NodesKeepUp` (the node that answers `eth_getLogs` has
  the blocks it is asked for), `FirstScanReachesBack` (a scan without a cursor
  starts at or before the first transfer that is nowhere yet) and
  `ScannedBlocksStay` (a replaced block that had or gets a transfer lies ahead of
  the scan).

Without any one of the four `Watches` fails, as TLC shows on the instances of the
gateway runs. Nothing in the code enforces them: they say what the service
expects of its endpoints, its database and the first start, and a breach of one
is where a transfer is lost. That money is safe needs none of them.

`StepOrDie` shows that a step of the gateway is a `Step` of the service or the
death of the process, which keeps the tables and frees every lock; the
invariants of `OrdersProofs` carry over. `CycleInv` adds where the cycle stands
(`CycleOK`: nobody is ahead of the chain, and the event at hand has the height
of the pending map and the count `emit` computes for it) and that `OnTransfer`
runs inside `emit` only (`SinkCallOK`). On top of it:

* `RowInv`: an order without a transfer has no count, an order requires what its
  chain does (`RowsOK`), and a transfer has a stored height exactly when an
  order has it (`HeightOK`).
* `CountsAreTrue` is inductive on top of it: the chain never gets shorter, and a
  statement that writes a count writes the height it was computed from.
* `SeenOK`, for `CountsAreTheChains`: the heights the watcher and the orders have
  of a transfer are the block it is in.
* `OfferedOK`, for `NobodyLeftBehind`: once the count at hand was offered, an
  order that still waits says that the count was short of its threshold. Since
  the watcher drops a transfer by the same count and threshold, it never drops
  one an order waits for.
* `ReturnedOK` and `ScannedOK`, for `GatewayWatches`: a call that has returned
  leaves its transfer with an order or in the queue, and between the cursor and
  the block a scan has come to, every transfer is pending or accounted for.

### PagedWatcher

`PagedWatcherProofs` proves for TRON and TON, any entries, page size, page cap,
thresholds, lag of each answering endpoint, failing calls and crashes:

| theorem | says |
|---|---|
| `PagedTypes` | `Spec => []TypeOK` |
| `CreditFollowsAge` | `Spec => []CountsWithinAge` |
| `PagedWatches` | `Spec /\ [][Undisturbed]_vars => Watches` |

Assumption: `PagedWatcherAssumption`, which TLC evaluates in `tron`, `ton` and
`tron_cap`. `CountsWithinAge` bounds a stored count of TRON by the blocks from
the transfer's own on, and one of TON, times the assumed block time, by the age
of the transfer and twice the error of the host's clock. It does not say that
TON's orders wait for blocks: they do not.

`Undisturbed` names, for a step, what the guarantee rests on, whatever the size
of blocks and pages, the lag and the lookback:

* `NothingComesLate`: nothing is included at a time that the cursor has passed
  or a scan is about to save. TRON includes blocks in their order and shows only
  confirmed ones; a second of TON may go on after it was shown.
* `NewestIsWhole`: a scan that ends has seen all of ours that have the newest
  time it saw. The page cap inside a block (`tron_cap`) and a page from an
  endpoint further behind than the one before (`Steady` FALSE) break it.
* `FirstScanReachesBack`: nothing of ours is older than the ten minutes of a scan
  without a cursor, but for what is known.
* `LastReportLands`: `OnTransfer` does not fail on a last report.
* `required <= confirms`: the threshold in force is not below the orders'.

TLC finds `Watches` violated without any one of the five.

`AgesOK` carries the first two: what is followed is on the chain and not said to
be older than it is, but for the error of the clock, which `TronSeed` keeps by
the stored block and `TonSeed` by starting the age over. For `PagedWatches`,
`ScanOK` says that the cursor and `seen` are times of entries, that a scan
starts right after the cursor, that what it has seen of ours is followed, and
that the pages before the present one are full and hold the entries in a row.
The heart of it is `PageLeavesNothingOut`: endpoints that answer two pages of
one poll may know the chain up to different times, but each shows a prefix of
it, so the positions of a page are the same at all of them
(`PageHoldsPositions`), and a page that is not short holds every position it
could (`FullPage`).

### Process

`ProcessProofs` proves, for any sets of chains, defaults and failing watchers,
any number of endpoints and of attempts at each:

| theorem | says |
|---|---|
| `TypeCorrect` | `Spec => []TypeOK` |
| `NobodyTooEarly` | `Spec => []ReadyBeforeServing` |
| `PoolClosedLast` | `Spec => []PoolOutlivesUsers` |
| `EveryEndpointTried` | `Spec => []ExhaustedEndpoints` |
| `CancellationIsPrompt` | `Spec => []CancelIsPrompt`, if `MaxAttempts > 1` |

Their invariant `ProcessInv` ties the goroutines to where `main` stands: nobody
runs before `Start` (`QuietOK`), what was built by then stays built
(`BuiltOK`), what `Close` found ended stays ended (`StoppedOK`: `EndWatcher`
needs no poll in progress, and a listener that opens after `Shutdown` returns
at once), and a call in progress belongs to a poll (`CallOK`). The two theorems
about calls add `TriedOK`, that every endpoint before the current one has had
its attempts and was not healthy, and `LateOK`, which bounds `late` by the
stage the call is in: after a cancellation a pause can end in one more request
only if its timer had fired before, and the request after that begins a
pause or is the last. With a single attempt per endpoint there is no pause and
every remaining endpoint is asked, hence the assumption; the code has two.

### RateLimit

`RateLimitProofs` proves, for any finite set of requests and any addresses,
limiters, limits and windows:

| theorem | says |
|---|---|
| `CountersGoAway` | `Spec => []CountersExpire` |
| `NobodyBlockedWithoutCause` | `Spec => []RejectedOnlyOverLimit`: more requests than the limit, to either limiter and with their key |
| `NobodyAboveTheLimit` | `Spec => []AdmittedWithinLimit` |

Assumption: `RateLimitAssumption`, with finitely many requests and a `NULL` that
is no number and no request. The invariant `LimitInv` has a part for each
theorem on top of the types: a counter has an expiry, or a request is about to
give it one or left it without (`KeptOK`); a counter is not ahead of the number of
requests that have been to Redis, which never shrinks (`CountOK`); and within
one window the counts handed out differ and do not exceed the counter
(`DistinctOK`), because `EXPIRE` keeps a counter beyond the window of its key
(`WindowOK`). The counts of the admitted requests are thus an injection into
`1..limit`.

### Watching

`WatchingProofs` says what the refinements `Watches` are good for: whatever
implements `Watching` follows every transfer an order waits for, after any
number of restarts (`NobodyForgotten`), and only a crash takes a transfer
behind the cursor from the watcher and the tables (`OnlyCrashesLose`, which is
what `gateway_lost` runs into).

With `GatewayWatches` and `PagedWatches` both hold of the watchers in the
behaviours their hypotheses describe, and only in those.

### Only model-checked

Every safety property and every action property that a passing run checks is a
theorem as well, except `AmountIdentifiesOrder`. What stays with TLC: all
liveness (`TransferIsAccounted`, `TransferIsReported`, `LoneTransferIsReported`,
`ConfirmingCompletes`, `PastDueLeavesPending`, `ShutsDown`,
`SiblingsKeepPolling`), since fairness and `ENABLED` are beyond the prover, and
the recursive function of `Matching` (`BestAfter`), since it cannot do induction
over data: `Orders` therefore uses `WinsOver`, whose agreement with the loop
`MCOrders` checks on small amounts.

## 5. Not modelled, and why

* Two transfers to the address in one transaction: map and tables are keyed by
  `tx_hash`.
* What orders and their statements do with the reports of TRON and TON: the sink
  of `PagedWatcher` is one step that succeeds or fails.
* An error of Redis that the client library retries by itself is another request
  with a lost reply.
* HTTP decoding, headers and responses, the parsing of numbers in the
  configuration, wire formats. The limiter's key is `RemoteAddr`, which has a
  port unless a proxy sets the real IP.
* A signal before `NotifyContext`, which just kills the process.

## 6. Plan

Left, in this order:

1. Proofs: that `WinsOver` is a linear order on the candidates, so that the loop
   it stands for has one winner; the bounds under which `Watches` survives
   replaced blocks (a scan that stays `ReorgDepth` blocks behind the head would
   do, the code has none).
2. Several logs under one `tx_hash` in `EVMWatcher`.
3. `PagedWatcher` with the full service as its sink, if its states stay few
   enough.
