# Verification of Go-Backend-Core

TLA+ models of the parts of this backend in which requests, goroutines, callbacks, processes
or crashes interfere. TLC checks them on small instances; TLAPS proves their safety properties
for instances of every size. `PROJECT.json` lists the runs, the source lines behind
every definition, the hazards, the finding and the theorems.

## 1. Inventory of the system

| Component | State | Operations | What is hard | What makes it correct |
|---|---|---|---|---|
| goodser orders and stock (`zzz/goodser`) | `products.quantity`, `reserved_quantity`, `outbound_orders` | create, confirm, cancel, cancelReserve, reserveToOutbound, search import, update and delete of a product | item lists lock rows in the client's order; `UpdateProduct` writes a stale copy back; commit errors are ignored | committed tables behave like a ledger in which reserved units are the open orders' units and nothing is sold twice; every request ends |
| goodser products and numbers | product rows, `seq_counters`, `recycled_seq_numbers`, the connection pool | AllocateSeq, CreateProduct, InboundSingle, InboundBatch, DeleteProduct | check-then-act outside the transaction, two connections per request, half-finished deletes | received units are in stock, a number is in exactly one place, every request ends |
| goodser administration | inventories, tags, status codes, inbound logs | create, update, delete; `initTables` | updates read, merge and write every column | an accepted edit stays |
| scheduler | task table, cron entries, `cronJobs`, once timers, running jobs | add, update, delete, pause, resume, run now, Start, Stop | table and cron change in separate steps, the mutex covers only some | the cron fires what the table says; Stop waits and returns |
| circuit breaker (`pkg/net`) | state, counters, `lastFailure`, `mu` | Allow, Success, Failure, Reset, the retry loop of `do` | decisions on atomics that others change between load and store | no transition is missed, an open breaker recovers |
| multi-level cache | L1 with LRU order per process, Redis, singleflight | Get, GetMany, Exists, Set, SetNil, SetMany, Delete, Clear, PublishInvalidation, sweep | two levels written one after the other, refills, evictions, Redis errors | levels agree, deletions last, waiting callers are woken |
| distributed lock | one Redis key per lock | TryLock, Unlock, expiry | Unlock does not know whose key it deletes | mutual exclusion |
| authentication, OAuth, its middleware | users, roles, API keys, social accounts, tokens, blacklist | register, login, OAuth callback, refresh, logout, bind, unbind, change password, delete, assign role, keys | stores in MySQL or memory, requests read first and write later, external answers of any shape | tokens name their holder, a logout holds, deleted rows stay as they are |
| event bus | subscriptions under an RWMutex | Publish, Subscribe, Unsubscribe | handlers run under the read lock | only a handler that comes back to the bus can stop it |
| dead letter queues | entries in memory or a Redis stream | Push, Replay | replays overlap, the Redis one deletes the whole stream | a dead letter is kept until somebody took it |
| stream bus | Redis stream, consumer group, pending entries | Publish, Consume, ConsumeFromID | consumers die between read and acknowledgement | delivered entries are acknowledged or pending; the stream drains |
| WebSocket hub | clients, rooms, send buffers, pumps | Upgrade, JoinRoom, LeaveRoom, Broadcast, SendTo, SSE | two pumps unregister, a room's map is used after unlock | a client that is gone is in no table |
| notification | senders per channel | RegisterSender, Send, SendToAll | fallback over answers that are neither error nor success | the answer says what happened |
| configuration, database manager, health poller | pools, reload, polling goroutine | reloadConfig, Reload, Query, StartPolling, Stop | pools are swapped while in use; Stop and StartPolling race the goroutine | no pool leaks, one poller |
| discovery, feature flags, audit log, rate limiters | instances and watchers; flags and store; entries and index; request times, a Redis counter | Register, Watch, Close; Enable, Delete, Start; Append, Query; Allow | full channels, memory and store in two steps, offsets, INCR then EXPIRE | watchers see the latest, flags survive a restart, both stores answer alike, the window is limited |
| schema and data migration | migration files, `_migrations`; tables, jobs, backup files | ApplyAll, CreateMigrationFile; dump, restore, transfer, backup | no transaction, no lock, paging under change, two files per backup | versions in order, dumps complete, reports true, metadata fits |
| crypto service | current and old keys, encrypted columns | encrypt, decrypt, rotate, re-encrypt | version labels, pages written back later | strings stay readable |
| log files | the day's file, backups | Write, rotate, Close, clean-up | day change, restart, failed open | accepted lines are kept |
| AI service | providers, rule, strategy, streams | Chat, Embed, ChatStream | settings change between retries, a goroutine per stream | only an outage makes a request fail |

Interaction: modules call these services directly; what they share is MySQL, Redis, the file
system and the event bus. A configuration reload reaches the database manager and the health
poller, which is why these three are one module here.

## 2. Modules

| Module | Models | Checked through | Proved in |
|---|---|---|---|
| `StockLedger` | what the order service promises: one atomic step per committed request | `MCStockLedger` | `StockProofs` |
| `GoodserOrders` | the same service as MySQL runs it; instantiates `StockLedger` | `MCGoodserOrders` | `GoodserOrdersProofs` |
| `GoodserCatalog` | product rows, sequence numbers and the connection pool | `MCGoodserCatalog` | `StockProofs` |
| `Scheduler` | API calls, cron, timers, process life cycle | `MCScheduler` | `JobProofs` |
| `CircuitBreaker`, `DistLock` | breaker and retry loop, one step per atomic operation; the lock | `MCCircuitBreaker` | `CircuitBreakerProofs` |
| `MultiLevelCache` | L1, Redis, singleflight, time | `MCMultiLevelCache` | `CacheProofs` |
| `Auth` | the auth module, its stores, its middleware, the OAuth providers | `MCAuth` | `AuthProofs` |
| `EventBus`, `DeadLetters`, `EventStream`, `WSHub`, `Notification` | messaging | `MCMessaging` | `MessagingProofs` |
| `ServerConfig`, `Discovery`, `FeatureFlags`, `SchemaMigrations`, `GoodserAdmin`, `KeyRotation`, `LogRotation`, `AIRouter` | platform services | `MCPlatform`; `ServerConfig` also `MCServerConfig` | `PlatformProofs` |
| `RateLimit` | the two request limiters | `MCPlatform` | `CircuitBreakerProofs` |
| `AuditLog`, `DataMigration` | platform services | `MCPlatform` | `JobProofs` |
| `Sorting` | lists that a filter and a sort make, by the position of an element | in `AuditLog`, `DataMigration` | `JobProofs` |
| `Maps` | assignment to an element of a Go map | in the modules that use it | |

A service that shares a run or a proof module with others has its own prefix: `HubInit`,
`HubNext`, `hubVars` and the specification `HubSpec` that the theorems are about.

`MCMessaging`, `MCPlatform` and `MCCircuitBreaker` put several specifications into one run.
Their variables are disjoint, as the services share no state: an additional variable `part` is
chosen at the start and says which of them moves, so the run checks each of them alone and the
state space is the sum, not the product.

Operators called "Mutated ..." are wrong variants of the definition that follows them. They
are not used by a specification; each shows that a property would notice that mistake.
Variables called "history" record what a property speaks about; no action reads them for
anything else.

**GoodserOrders.** `tx[w]` is the request of worker `w`: its next statement, the items still
to do and its uncommitted changes (`dq`, `dr`). `lock` has the row locks. Every statement is
one action (`LockOrder`, `ReserveItem`, `SettleItem`, `ImportItem`), `Commit` makes the changes
visible, `LoseCommit` is a COMMIT that fails while the code goes on, `Abort` any failing
statement or cancelled context, `BreakDeadlock` InnoDB's victim. `EditRead` and `EditWrite`
are the two halves of `UpdateProduct`. Refinement mapping: the tables as committed, items of an
order summed per product.

**GoodserCatalog.** A code is a pair of number and status. `FindProductByCode` and the
`DELETE` of `DeleteProduct` need a second connection (`free > 0`) and see committed rows only.
A new row takes its id, a UUID in the code, at its `INSERT`; `new[r]` holds what a transaction
has inserted until it commits, so two transactions can insert one code without seeing each other.
`InsertFails` stands for an insert error; it also keeps the model inside `MaxRows`. The
histories `spoiled` and `doubled` name the numbers hit by one of the races of section 6, at the
step where the race happens; the properties speak about all other numbers.

**GoodserAdmin.** `request[c]` is an update between its `SELECT` and its `UPDATE`. A row has
two columns, the one with the unique key and the other. `asked` is the table as the requests
describe it; `overwritten` has the rows an update wrote over a later change.

**Scheduler.** A call goes through its steps `create / get / remove / store / schedule /
delete`, as the code alternates between store and `mu`. `ProcessEnds` keeps only the table.
`mixed` is the history of tasks that since the last Start had overlapping calls, a pause or
resume, or a refused update. Whether an update of a missing row is an error depends on the
store (MySQL: no, in memory: yes), so both happen. The asynq path is left out: tasks run in the
scheduler's own goroutines, as they do without Redis. Task logs are left out.

**CircuitBreaker.** `req[c].at` is the next atomic operation of a caller. `expired` abstracts
the comparison of `lastFailure` with the clock. Counters saturate at the thresholds, which is
all the code compares them with. `halfOpenDone` is left out: nothing receives from it.

**MultiLevelCache.** Each L1 helper is one step under `l1mu`, each Redis command one step.
TTLs are counted in ticks; `recency` is the order of `lastHit` as a set of pairs, the first of which was hit
before the second. The keys of a call are a set, and
those still to do are taken in any order: the caller's slice, Go's map order and SCAN's order are
all among them. `mixed` is the history of keys
written while another call used them, while another node had them, or with a Redis error.

**DistLock.** `inside[c]` is what a client believes; `lapsed` the locks whose TTL ended
meanwhile; `late` the locks somebody unlocked after its TTL.

**Auth.** `req[p]` is a request on its way through token check, blacklist, permission and
handler, one step per access to a store. `backend` says which stores are MySQL and which are
in memory. A token is a record of user, kind, expiry, the person it was handed to and the OpenID it was
got through; a signature is not forged. The social accounts are the slice of the code, searched
from its start. `inUse` picks the endpoints of a behaviour, so that every handler is
reached without all of them being interleaved at once.

**EventBus** has Go's RWMutex: `readers`, and `writers` in the order they wait, which keep new
readers out. **DeadLetters** runs with the queue in memory or in Redis (`dlqKind`).
**EventStream** has the stream, the group's last id and each consumer's pending ids; a batch is a
set of ids, handled from the lowest up; a handler fails or succeeds at will. **WSHub** has a process for each pump; a write to a room's map
during a broadcast's iteration sets `fatal` or is not noticed. **Notification** lets a
sender answer success, an unsuccessful result or an error.

**ServerConfig.** A reload goes through `build`, `close` and the handlers; `held` are the
pools modules keep; `poller[c]` is the goroutine that listens to stop channel `c`.
**Discovery** has `panicked` for a channel closed twice. **FeatureFlags** and **RateLimit** take
one step per access to store or Redis. **AuditLog** defines both queries as operators and
compares them for every filter in every state. **SchemaMigrations** has one action per SQL
statement; a pass has the set of the files it still has to do and takes the lowest. **DataMigration** has pages, batches and the two files of a backup as steps; a
row's type says what formatting makes of it. A request that reads keeps the
keys of its start (`first`) and whether rows came or went before its place (`moved`), which a restore
beside it causes as well as other requests. The histories `given` and `twice` are the backup names of
the behaviour and those that two backups took. **KeyRotation** keeps ciphertext as a record of
label, key, text and form. **LogRotation** counts lines as size. **AIRouter** has one model and
two providers; a stream is a bounded channel.

## 3. Runs

| Run | Instance | Shows |
|---|---|---|
| `ledger` | 2 products, 3 orders, one unit per order | `ReservedIsOpenUnits`, `NeverOversold` |
| `orders` | 2 workers, 2 products, crossed item lists, both kinds of order, all order operations | `ImplementsLedger`, `EveryRequestEnds` |
| `orders_edit` | 1 product, item lists that name it twice, edits and deletes | `OnlyRacingEditsSpoil` |
| `catalog` | 2 workers, 2 numbers, 2 rows, batches in both orders, aborts, one spoiled number | `NothingReceivedIsLost`, `SeqInOnePlace`, `EveryRequestEnds` |
| `scheduler` | 1 task, 2 callers, cron / once / invalid configurations, crash, stop, store errors | `CronFollowsStore`, `StopTerminates` |
| `breaker` | 2 callers, thresholds 2 and 2, one retry; 3 lock clients, 2 locks | `NoTransitionMissed`, `OpenRecovers`, `MutualExclusion` |
| `cache` | 2 nodes, 3 goroutines, 1 key, Redis errors, L1 TTL longer than Redis TTL | `LevelsAgree`, `DeletedStaysDeleted`, `EveryCallReturns` |
| `cache_many` | 1 node, 2 goroutines, 3 keys, room for 2 | `RecentSurvives` |
| `auth` | 2 people, 2 requests at a time, 4 in all, 2 providers, MySQL and memory, one restart | `TokensNameTheirHolder`, `RevokedIsRefused`, `DeletedIsFrozen` |
| `messaging` | see `messaging.cfg`: 3 bus callers, 2 replayers, 2 consumers, 3 connections, 3 senders | `OnlyReentryStops`, `DeadLettersKept`, `DeliveredIsAccounted`, `StreamDrains`, `GoneIsForgotten`, `SendTellsTheTruth` |
| `platform` | see `platform.cfg`: two of every actor that can overlap | `OpenPoolsAreNamed`, `OnePoller`, `WatcherSeesLatest`, `FlagsSurviveRestart`, `WindowIsLimited`, `QueriesAgree`, `RecordedInOrder`, `PagedReadIsComplete`, `ReportIsTrue`, `MetaDescribesBackup`, `EditsAreKept`, `StringsStayReadable`, `AcceptedLinesAreKept`, `OnlyOutagesFail` |
| `reload_polling` | one pool, one reload; expected violation of `PollingRestarts` | polling ends with the first change of the configuration |

**Bounds.** Two concurrent requests are what a lost update, a lock cycle, a double delete, a
duplicate insert, an overlapping replay or a save out of order need; the lock has three clients
because its failure needs a holder, a successor and a third, the bus three callers because a
reader, a waiting writer and a second reader make its trap. Two products are needed for a lock
cycle, three keys for an eviction that has a choice, three rows with pages of two for a page
boundary, three key versions for a rotation after a rotation, windows shorter than the time
that passes for the limiters. Every other `Max...` constant bounds how often something is
begun or fails and is a guard of the action that does it. Deadlock checking is off where these
counters end a behaviour (`catalog`, `auth`, `breaker`, `messaging`, `platform`,
`reload_polling`). Symmetry is used where only invariants and action properties are checked
(`orders_edit`, `auth`, `platform`, and the keys of `cache_many`).

**Fairness.** A request or goroutine that can take its next step takes it. It is strong
fairness in `GoodserOrders` and `GoodserCatalog` (InnoDB and `database/sql` serve waiters in
order) and in `CircuitBreaker` (Go's mutex has a starvation mode), weak fairness elsewhere.
In `EventStream` it covers the consumer's own loop: a read while Redis answers, the handler's
return, the acknowledgement. Clients are not obliged to send requests, except to the breaker,
where recovery is meant to be caused by the next request. Jobs end because their context has
a timeout. "Every request ends" is written `[]<>(idle)`, which says the same as a leads-to from
a busy to an idle state.

## 4. What is proved

Every theorem is about the specification of a component without its fairness, for all values
of the constants that satisfy the named `ASSUME` of the module (`LedgerAssumption`,
`CacheAssumption`, ...): positive thresholds, capacities and batch sizes, bounds that are
natural numbers, special values (`Nothing`, `Nobody`, `NoName`) that are not ordinary ones. TLC
evaluates each assumption on its instance. The argument always has the same form: an inductive
invariant (`...IInv`), a lemma per action, and the property as a consequence. TLC checked the
larger of the inductive invariants on the run's instance before they were proved.

| Module | Theorem | For any | What the invariant adds to the property |
|---|---|---|---|
| `StockProofs` | `ReservationTheorem`, `NeverOversoldTheorem` | products, orders, quantities | types and the finiteness of the sets of units; neither property is inductive alone: confirming keeps `quantity` above `reserved` only because the order's units are part of the reservation |
| | `NothingReceivedIsLostTheorem`, `SeqInOnePlaceTheorem` | rows, codes, quantities; finitely many requests | what a request says it received is what its uncommitted changes add (`GotIsGain`); nobody has a number above the counter (`FreshIsUnused`); rows that transactions have inserted have ids of their own (`ChangesApart`); the item and the deleted product a request has in hand |
| `GoodserOrdersProofs` | `OrdersRefinement` (`Spec => ImplementsLedger`) from `OrdersInvariant` | workers, products, item lists, orders | a changed row is locked by its transaction; what a transaction has changed is what its items up to the ones still to do ask for; the order it settles is still the one it locked; there is an id left for every insert |
| | `EditTheorem` (`OnlyRacingEditsSpoil`) | the same, with edits and deletes | what a transaction has changed of a row that is still there (`Working`); the reservations in an edit's copy are the row's unless the edit is already known to be late (`CopyIsCurrent`) |
| `CircuitBreakerProofs` | `NoTransitionMissedTheorem`, `MutualExclusionTheorem` | goroutines, thresholds, retries; clients, locks | a counter at its threshold implies that somebody is still on the way to the transition; the key in Redis is the holder's |
| | `WindowTheorem` (`WindowIsLimited`) | limits, windows, requests | no request of the current window is forgotten (`Remembered`); which requests were let through under the Redis key of now, under the one before and under earlier ones (`Keys`) |
| `MessagingProofs` | `GoneIsForgottenTheorem`, `OnlyReentryStopsTheorem`, `DeliveredIsAccountedTheorem`, `DeadLettersKeptTheorem`, `SendTellsTheTruthTheorem` | clients, rooms; callers, topics; consumers, batch sizes; replayers, queue sizes; senders, channels | which pump may still unregister; who holds the lock at which step; nothing past the group's id was delivered; every copy of a dead letter has one place; how far a `Send` is |
| `PlatformProofs` | `OpenPoolsAreNamedTheorem`, `OnePollerTheorem` | pools, reloads, pollers | what a reload owns between build and close; only the newest stop channel has a goroutine |
| | `FlagsSurviveRestartTheorem` | flags, callers | a call that works alone on a flag writes what it found |
| | `EditsAreKeptTheorem` | rows, columns, requests | what an update read is what the row was when it read it |
| | `AcceptedLinesAreKeptTheorem` | days, sizes, ages | which files of which day exist and which one is open |
| | `WatcherSeesLatestTheorem` | services, watchers, channel capacities | every snapshot in a channel, not only the newest |
| | `RecordedInOrderTheorem` | files, statements, passes | what a pass in the middle has run and has still to do |
| | `StringsStayReadableTheorem` | keys, cells, passes | every label names the key the text was encrypted with; what a page holds |
| | `OnlyOutagesFailTheorem` | callers, retries, stream lengths, channel capacities | how far a request is, which provider it tries, what its stream holds |
| `JobProofs` | `CronFollowsStoreTheorem` | tasks, callers, configurations | what holds of a task in the middle of its one call, step by step |
| | `PagedReadTheorem`, `ReportTheorem`, `MetaTheorem` | rows, page and batch sizes, jobs, backups | what a dump has read so far and at which offset its next page begins (`Reads`), what a restore or transfer has put in and counted (`Restores`, `Transfers`), and whose the files of a backup are (`OneWriter`) |
| | `QueriesAgreeTheorem` | entries, filters, offsets, limits | the index names every entry under the values of its fields (`AuditIInv`); the lemma about one query holds for any filter |
| `CacheProofs` | `LevelsAgreeTheorem`, `DeletedStaysDeletedTheorem` | nodes, keys, goroutines, capacities, TTLs | a write has its key to itself; a value that is still to be stored into L1 is the one Redis holds, or Redis has none |
| | the action property `RecentSurvivesTheorem` | the same | the entries of an L1 are finitely many, fit into it and were hit one after the other; what is on its way into an L1 is a value |
| `AuthProofs` | `TokensNameTheirHolderTheorem`, and the action properties `RevokedIsRefusedTheorem`, `DeletedIsFrozenTheorem` | people, requests, users, providers, both stores | social accounts and what requests carry from one step to the next belong to their person; a revoked token's entry ends with the token |

In `StockLedger` the sum over orders is the cardinality of the set that has one element per unit
of an open order, and `GoodserOrders` counts the units of an item list in the same way, so that
no recursion over orders or items is needed; `UnitsAdd` and `UnitsRemove` say how a sum changes
when one order enters or leaves. `GoodserCatalog` sums the same way (`Total`), and `TotalPlus` says
that the total of two quantities per row is the sum of their totals.

For the same reason the lists of `AuditLog` and `DataMigration` are described by the position of
each element (`ElementsAt`, `Ascending`) and the LRU order of `MultiLevelCache` by pairs: what
`SelectSeq` or a recursion returns for every sequence needs induction over data, a rank does not.
That some entry is the oldest follows from the least number of entries hit before it.

`OrdersInvariant` and `OrdersRefinement` assume `NoEdits`: no client uses `UpdateProduct` or
`DeleteProduct`. That is not an assumption on the code but the boundary of the statement, as
these two write outside a transaction and break the ledger (section 6). `EditTheorem` is the
statement without that assumption.

The attempt to prove `TokensNameTheirHolder` showed that its first form was too strong, which the
instance of `auth` is too small to show: somebody who entered an account through an answer
without an OpenID can bind an OpenID of their own to it and come back through that one. The
property now names the account that was entered, not only the token it was entered with. The
attempt to prove `PagedReadIsComplete` showed that a restore beside a dump shifts its pages as an
insert does, which an earlier form of the model had missed, and that a history it kept of torn
reads said nothing beyond the others.

## 5. What is only model-checked, and what is not modelled

Only model-checked:

* liveness under fairness (`EveryRequestEnds`, `EveryCallReturns`, `OpenRecovers`, `StreamDrains`,
  `StopTerminates`), which the prover cannot do;
* `PollingRestarts`, which the run `reload_polling` refutes.

Every invariant and every action property of the passing runs is stated by a theorem of section 4.

The models assume that order and inbound quantities are not negative and that an order is created
with one of the two open statuses; the code checks neither. `CatalogAssumption` also says that the
requests that run at one time are finitely many.

Not modelled: the generated Swagger document (a fifth of the repository's Go lines); search,
object storage, templates, tracing (calls to libraries without a protocol of their own); CORS,
logging and metrics middleware, response helpers, pagination (stateless); the module registry
and `main` (one pass over a map before the server starts); the etcd registry, the asynq path
of the scheduler, image uploads; ciphers and compression; `database/breaker.go`, because
`RunWithBreaker` has no caller. The map covers about a third of the non-test Go lines.

## 6. Known divergences and weaknesses

Shown by a run that expects a violation:

* s0 restarts the health polling on `config.changed` by `Stop` and `StartPolling`; the second
  finds `polling` still true and starts nothing, then the goroutine ends
  (`monitor/health.go:117`, `modules/s0/module.go:83`). `closeOnce` also lets `Stop` work only
  once in the life of the checker (`health.go:155`).

Met while modelling, and contained in the models as exceptions of the properties (`mixed`,
`spoiled`, `doubled`, `late`) or as behaviour:

* goodser: `UpdateProduct` (`repository.go:401`) writes `reserved_quantity` back from a copy that
  may be older than an order's commit; errors of `tx.Commit()` are ignored everywhere; two
  deletes of one product recycle its number twice; a delete that fails after its `DELETE` loses the number; two inbounds of a
  new code insert two rows; an inbound into a row deleted meanwhile is reported as done;
  `AllocateSeq` takes any error of the pool for an empty pool; as many inbounds as there are
  connections wait for each other for ever (`EveryRequestEnds` fails if `MaxConns` equals the
  number of workers); the inbound log records the stock afterwards, not the units received
  (`service.go:205`, against `04-module-structure.md:298`); documents say that an inbound of
  an unknown code allocates a number, the code takes the client's; `initTables` has no
  `image_list` column although queries name it.
* scheduler: resume adds a second entry and a later delete removes only one; two overlapping
  updates schedule a task twice; an update the table refuses leaves an active task without
  entry until the next start; a once task runs again after a restart and its timer survives
  delete and update; the asynq server does not consume the queue `scheduler:tasks`;
  `InMemoryStore` has no lock; `PauseTask` (`scheduler.go:230`) leaves the cron entry, so a
  paused task goes on firing.
* breaker: `Success` (`breaker.go:99`) closes a breaker that another request has opened
  meanwhile; the breaker opens before `lastFailure` is stored, so a request in between passes;
  a 5xx answer to the last attempt counts as a success.
* cache: a Get that read Redis before a Delete refills L1 after it; `cache:invalidate` has no
  subscriber; the expiry event carries the prefixed key, so L1 is not cleaned; `MSET` stores
  without TTL; overwriting a key of a full L1 evicts an entry.
* lock: `Unlock` deletes the key whoever owns it.
* goodser administration: of two overlapping updates of different columns one is undone
  (`repository.go:453`); an update after a delete answers success; `DeleteInventory` leaves
  products, orders and logs behind; a duplicate tag or code is answered as an internal error;
  preset codes can be deleted and come back with a restart.
* authentication: `RefreshAccessToken` looks neither at the blacklist nor at the user
  (`auth.go:150`); the blacklist lets everybody through when Redis fails and, in memory, is
  gone after a restart; social accounts are in
  memory only (`module.go:68`), so after a restart an OAuth login of an existing user fails;
  in-memory ids start again while tokens stay valid; `OpenID[:8]` panics on a short id
  (`module.go:338`) and an answer without id is bound like any other; two first assignments of a
  role insert two rows (`rbac.go:187`); `InMemoryRBACStore` has no lock; Apple's token is decoded
  without padding (`apple.go:142`); an account bound to an answer without id can be entered by the
  next person with such an answer, who may then bind an id of their own to it.
* messaging: a handler that subscribes stops the bus (`eventbus.go:35`); the Redis replay
  deletes entries that came meanwhile (`deadletter.go:178`); pending entries of a dead consumer
  are not claimed, and `ConsumeFromID` rereads one batch only; with several topics every read is
  refused (`redis_stream.go:170`); `BroadcastToRoom` iterates without the lock (`hub.go:109`);
  client ids are times and may collide (`ws/handler.go:35`).
* configuration: modules keep the pools they were given, which Reload closes (`manager.go:165`,
  against "zero downtime" in the comment at line 141); a pool whose server does not answer a ping
  is dropped; the rollback branch cannot be reached (`config.go:292`).
* platform services: a watcher whose context ends after `Close` closes its channel twice and
  panics (`discovery.go:133`), a move to another name is not announced under the old one, the
  TTL is never used; `Enable` overlapping `Delete` saves a flag without name (`feature/store.go:127`);
  INCR without EXPIRE blocks an address for ever (`ratelimit.go:110`); the memory audit store
  ignores an offset past the last match (`audit.go:188`), MySQL refuses an offset without limit.
* migration: on Postgres applied versions are read as 0, so files run again (`schema.go:52`); two
  files of one version (`schema.go:276`); a file's statements have no transaction (`schema.go:126`)
  and are split at every semicolon (`migrate.go:164`); encrypted backups can never be opened, as
  the random salt is not stored (`backup.go:49`); zip backups are not recognised (`backup.go:180`);
  MySQL text comes back as base64; CSV dumps cannot be restored; a CREATE TABLE is counted as a
  row; an empty table is not truncated; two backups of one second take the same name; the
  checksum is never compared.
* crypto: what `KeyManager.Encrypt` makes, `Decrypt` cannot read (`key.go:143`); a version number
  is used again after an old key was dropped (`key.go:50`); a long plain text is taken for
  ciphertext (`encrypt.go:195`); a re-encryption pass undoes writes between its read and its write.
* log files: a change of day leaks the old handle; after a restart the size of an existing
  backup counts as 0; a failed rotation leaves a closed file until the next day.
* AI: an OpenAI stream that fails ends like a complete one (`openai.go:106`); an answer without
  choices panics (`openai.go:116`); the text of the Done chunk is dropped; the filling goroutine
  waits for ever when the reader left; strategy and rules are read without the lock
  (`ai.go:181`).

## 7. Running

```
cd tla
tlc -workers 2 -config orders.cfg MCGoodserOrders
tlc -workers 2 -config platform.cfg MCPlatform
tlapm StockProofs.tla
tlapm AuthProofs.tla
```
