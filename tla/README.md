# TLA+ models of the gRPC services

Models, model-checking instances and proofs for the services of this repository
(`gateway`, `admin`, `user`, `web3`, `llm`). Start with *The system*, then read
a module next to the source files its header names; `PROJECT.json` maps every
definition to the lines it models.

## The system

Clients call the **gateway** over HTTP. It checks the token, limits the rate
with a Redis script, finds the services through Consul and forwards each call
over gRPC. **admin**, **user**, **web3** and **llm** are gRPC services with
their own PostgreSQL schema and a shared Redis; admin also writes an operation
log through RabbitMQ. Services share no memory: they interact through gRPC
calls, through rows and keys in the stores, and through Consul's catalogue.

| Component | State | Operations | What is hard | What makes it correct |
|---|---|---|---|---|
| web3 wallet binding | `wallets` rows; signing challenges in Redis | create nonce, bind, unbind, update label or default | several statements per call; the status read before a transaction is used in it; lost commits; locks | one active default per user, one write per challenge, permanent owners |
| web3 transaction index | scan cursor, event receipts, transaction rows | scan blocks, look a transaction up and store it | restarts within a block, several instances, reorganisations, nodes that lag, last writer wins | nothing before the cursor is missing that no node has hidden, verdicts are right and stay |
| web3 TRON approvals | daily usage rows, result cache, in-flight queries | check approvals | shared queries and cancelled leaders, budgets across instances, midnight | budgets never exceeded, every follower answered |
| web3 RPC pool, balance cache | round-robin counter; cached balances | execute with retries; read through | retries, stale values | the parts of an answer come from one node |
| gateway client manager | open and pending connections | get, close | dial racing with close; followers of a dial | at most one open connection per service, none after close |
| discovery and registration (gateway, admin, user, web3) | last index and addresses; remembered registrations | watch, register, maintain, deregister | blocking queries, index resets, back-off, flapping | the last good addresses survive errors and are replaced in the end |
| runtime configuration (gateway, admin) | snapshot, watch index | watch and publish | invalid versions, index resets | readers see the last valid version |
| rate limiters | sorted sets in Redis | allow | window edges, clocks of several instances | no more than the limit in a window, less what the clocks disagree |
| admin operation log | queue, retry queue, dead-letter queue, rows | publish, consume, retry, reconnect, close | confirms that time out, redelivery, crashes between republish and acknowledge | nothing accepted is lost, one row per event |
| admin profiles | cached profiles, admin rows | get info, bind subject | stale cache, replicas that lag, concurrent binding | a subject belongs to one admin, a profile is out of date for a TTL, the life of a request and the lag of a replica at most |
| user accounts | sharded users, identity index, snowflake state | initialise, list, next id | two first logins, clock going back, sequence wrap | one user per subject, unique ids |
| life cycles | servers, registrations, background loops | start, stop | order of start and stop, failures on the way | no call reaches what is closed |
| llm | none | gRPC skeleton | deadlines | errors are mapped |

`PROJECT.json` lists them as components with what is modelled, and lists under
`hazards` what can go wrong at which line.

## Modules

| Module | Models | Extends |
|---|---|---|
| `WalletBinding` | `web3/internal/service/wallet.go`, `repository/wallet.go`, `wallet/nonce.go` | |
| `WalletRegistry` | what these operations promise, as atomic operations | |
| `WalletBinding_proofs` | theorems about `WalletBinding` | `WalletBinding`, TLAPS |
| `MCWalletBinding` | instances, symmetry, a constraint | `WalletBinding` |
| `TransactionIndex` | `web3/internal/service/scanner.go`, `service/transaction.go`, their repositories | |
| `MCTransactionIndex` | a small chain | `TransactionIndex` |
| `OperationLog` | `admin/internal/mq`, `mqhandler/operation_log.go`, `repository/operation_log.go` (`Create`), the life cycle in `app.go` | |
| `EventLedger` | what the log promises for its events, as atomic operations | |
| `OperationLog_proofs` | theorems about `OperationLog` | `OperationLog`, TLAPS |
| `MCOperationLog` | one event, one foreign message, five slots | `OperationLog` |
| `TronApprovals` | `web3/internal/service/approval.go`, `repository/usage.go` | |
| `TronApprovals_proofs` | theorems about `TronApprovals` | `TronApprovals`, TLAPS |
| `MCTronApprovals` | two approval lists, two days | `TronApprovals` |
| `ClientManager` | `gateway/internal/grpc/client.go`, `forward.go` | |
| `ServiceRegistration` | `gateway/internal/consul/registration.go`, the register and deregister calls of `consul.go` | |
| `GatewayLife` | `gateway/internal/app/app.go` from the first registration on | `ClientManager`, `ServiceRegistration` |
| `ServiceDiscovery` | `gateway/internal/consul/grpc_discovery.go`, `WatchGRPCService` in `consul.go` | |
| `RuntimeConfig` | `gateway/internal/runtimeconfig`, `config/runtime.go`, `WatchKV` in `consul/kv.go` | |
| `UserAccounts` | `user/internal/service/user.go` (`InitializeUser`), `repository/user.go`, `idgen/snowflake.go`, `sharding/router.go` | |
| `UserAccounts_proofs` | theorems about `UserAccounts` | `UserAccounts`, TLAPS |
| `AdminProfiles` | `admin/internal/service/get_admin_info.go`, `repository/admin.go`, reads from replicas (`database/databases.go`) | |
| `AdminProfiles_proofs` | theorems about `AdminProfiles` | `AdminProfiles`, TLAPS |
| `SlidingWindow` | `gateway/internal/ratelimit/redis.go`, `middleware/rate_limit.go` | |
| `SlidingWindow_proofs` | theorems about `SlidingWindow` | `SlidingWindow`, TLAPS |
| `BalanceQueries` | `web3/internal/service/balance.go`, `Execute` of `blockchain/client.go` | |
| `ChainQueries_proofs` | theorems about `TransactionIndex` and `BalanceQueries` | both, WellFoundedInduction, TLAPS |
| `MCRequests` | requests at four services, one component at a time | `MCTransactionIndex`, `UserAccounts`, `AdminProfiles`, `SlidingWindow`, `BalanceQueries` |
| `ServiceLife` | `app.go` of user, admin and web3, with the servers and the scanner they start and stop | `ServiceRegistration` |
| `ProcessLife_proofs` | theorems about `ClientManager`, `GatewayLife`, `ServiceLife`, `ServiceDiscovery`, `RuntimeConfig` | the last four, TLAPS |
| `MCProcesses` | the gateway's three parts and the life of another service, one at a time | `GatewayLife`, `ServiceDiscovery`, `RuntimeConfig`, `ServiceLife` |

### WalletBinding

A *call* is one handler goroutine with a program counter `pc[c]`, its request
`arg[c]` and its locals `mem[c]`. Every database statement and Redis command is
an action, so calls interleave between any two of them:

- `StoreChallenge`, `CollideChallenge`: `NonceStore.Create`, its `SetNX` and the
  three attempts. `Consume`: `GETDEL` and every check that follows without
  reading shared state. `Evict`: Redis drops a key, at its expiry or by loss.
- `Find` reads the row outside any transaction; the action that uses what it
  found comes later.
- `LockOwner` takes the advisory lock of a transaction. `CountDefaults`,
  `CreateWrite`, `ReactivateWrite`, `SelectForUpdate`, `DisableReplace`,
  `DisableWrite`, `SetWrite` are the statements of `CreateBoundWallet`,
  `Reactivate`, `Disable` and `SetDefault`; the last write and the commit are
  one step. `UpdateLabel` and `UnsetDefault` are single statements that take no
  advisory lock but wait for row locks. `Reread` is the final lookup.
- `CreateWrite` may lose the answer to its commit, after which the handler looks
  for a winner as the code does. `Abort` is any error, cancelled context or
  crash before a step: the open transaction rolls back.

An account stands for a pair of chain and address and, because rows are never
deleted and the pair is unique, for the wallet's ID. The partial unique index
on defaults that `cmd/migrate` creates is left out on purpose:
`AtMostOneDefault` holds without it, so the advisory lock alone keeps the
promise and the index never rejects a write. `uses` and `witness` are history:
the writes a challenge has authorised, and whether the wallet of a bind was
active during the call.

`WalletRegistry` has owners, active accounts and a default per user, and one
atomic action per operation. `ImplementsRegistry` says that each statement is
one of these or changes nothing, with the refinement mapping in
`WalletBinding`.

### TransactionIndex

One chain; every table is keyed by the chain, and a failed chain does not stop
the others. The environment extends the chain, reorganises it, and binds and
unbinds wallets. `job[s]` is the scanner of instance `s`: `StartScan` reads the
height from a node that may lag, `ReadCursor` and `SaveFirstCursor` are
`nextBlock`, `FetchBlock` the loop, `FindParties`/`UpsertNative` the native
transfers, `ListLogs`/`CreateEvent`/`UpsertLog`/`MarkEvent` the ERC-20 logs (two
calls of `FilterLogs`, each to whichever node is next: one that is behind the block
answers with an empty list and no error), `FailLog` a failing `Upsert` with `MarkEventFailed`, `SaveCursor` the step that
finishes a block, and `Interrupt` an error, cancellation or restart anywhere.
Nothing in the code excludes a second instance, so several scan at once.
`query[q]` is a `GetTransaction` call: each RPC and each statement is a step.
Of a row the model keeps status and block. `since`, `origin` and `hidden` are
history: what the index owes to which wallet, and the logs that a node did not show
to some scan of their block. The code cannot know of those; `NothingMissed` and
`ReceiptsSettled` leave them out, and `BlocksAreComplete`, which does not, is refuted.

### OperationLog

One admin process and its broker. The broker is external and modelled from how
`topology.go` and the client use it: every copy of a message occupies a slot of
`msg`, which says whether it is on the wire, in the main or the retry queue, or
delivered and unacknowledged; `dead` is the dead-letter queue, which nothing
reads; `rows` counts the rows of an event. The process is

- the client: `conn`, and `dialer`, who holds `reconnectMu` past the checks of
  `Reconnect`;
- the publisher: `pub` is the publication that holds `Publisher.mu`, with its
  progress through `publish` (`Recover`, `PublisherReconnect`, `PublisherDial`,
  `OpenPublisherChannel`, `Send`, the wait that `Confirmed` or `GiveUp` ends).
  Callers and the consumer compete for the mutex (`LockForCaller`,
  `LockForConsumer`);
- the consumer's goroutine `con` with the deliveries it has prefetched in
  `buffer` and the one it handles in `cur`: `OpenConsumer`, `Take`, `Handle`,
  then `Ack`, or the substitute that `Republish` publishes before the delivery
  is acknowledged, or `Nack`; `Pause`, `ConsumerReconnect`, `ConsumerDial` are
  the loop around it;
- `up`: `Shutdown` cancels the context, the deferred `ClosePublisher` and
  `CloseClient` follow while the consumer may still run, then `Exit` and
  `Restart`; `Crash` at any moment.

A dying channel takes the copies on its wire with it and gives its
unacknowledged deliveries back to the queue; what the client has buffered from
it may still be handled. A failing insert may or may not have written.
Everything that goes wrong by itself uses up one of `Faults`, except failures of
the database, which the retry count bounds. `Poison` are messages of other
programs that do not decode; for `Misfits` among them the partial result of
`json.Unmarshal` passes `Validate` (a field of the wrong type outside the required
ones leaves it good), and the message is retried before it is a dead letter, though
the comment at `consumer.go:134` says that retrying cannot help and it goes there at
once. No run has misfits; the theorems allow any. `failures` is history. No code of this
repository calls `Publish` yet; the callers are modelled from its interface.

`EventLedger` is what this amounts to: four sets of events, those accepted, with
a copy in a queue, with a row, and in the dead-letter queue. A late copy may bring
a settled event back into a queue, so an event may be stored and buried.

### TronApprovals

A request `r` is one call of `CheckTronUSDTApprovals`, at `pc[r]` with the locals
`mem[r]`, on one of several instances:

- `Call`, then the transaction of `ReserveQuery`: `LockDay` is the insert that
  does nothing on a conflict and the `SELECT FOR UPDATE`, `Reserve` the writes
  and the commit, whose answer may be lost, `Refuse` a limit or an error.
  `usage[d]` and `seen[d]` are the rows of a day; `lock[d]` says who holds the
  row.
- `ReadCache`; then, under `inflightMu`, `Lead` or `Follow`. A follower waits
  for the leader's `Publish` and leaves the wait in `GiveUp` when its own
  context ends.
- the check itself, by the leader: `ListPage` and `ListFails` are the loop of
  `enumerate`, `Risk` the labels, `Decimals` and `Verify` are `verifyAllowances`,
  `Conclude` chooses the status, `StoreCache` writes to Redis.
- `Record` is `RecordResult`, which updates the row of the request's day.
- `Tick` is midnight (UTC), `Expire` the end or the loss of a cache entry,
  `Cancel` the end of a request's context, `Crash` the end of a process.

A reservation of an upstream call and the call it pays for are one step, with
three outcomes: paid and answered (`Pay`), no budget (`Unpaid`), and an error
that may or may not have been counted (`Unsure`). Nothing that another request
writes is read between the two. The workers of `verifyAllowances` are not
counted: candidates are verified in any order, each reservation being atomic, so
every number of workers behaves in one of these ways. TRONSCAN and TronGrid are
external: `Listing` is the list of an address, cut into pages of any size up to
`PageSize`, and an allowance is either read or not. History: `cut` (an error of
the request's own context), `refused` (the day whose budget was called used up)
and `hit`.

### The gateway: ClientManager, ServiceRegistration, GatewayLife

`ClientManager` has one action for each stretch of `GetClient` between two lock
operations: `CheckConn` under the read lock, `Join` under the lock (return, wait
for the dial of another caller, or `Lead`), `Dial` outside any lock, `Settle`
under the lock again, which hands the result to the caller and to all who wait.
`pending[s]` names the caller that dials, where the code has a
`pendingConnection`. `LeaveWait` is the end of a follower's context. `Close` is
`BeginClose` under the lock and then one `CloseConn` for each connection.

`ServiceRegistration` keeps what the agent has (`registered`) apart from the
templates of the registry (`remembered`). The maintenance goroutine queries,
looks at its templates one by one and sends what is missing; the agent may lose
a registration at any moment. Operations that fail may have taken effect. The
end of the context cuts a request short; the model lets it reach the agent by
then or never. One that arrives later still is possible (`late`, `LateArrives`)
and counted among the `Slips`, like every other request that goes wrong, and
`NothingLeftBehind` claims nothing after a slip: an agent that has forgotten to
deregister, or registers after the gateway has gone, is cleaned up by
`DeregisterCriticalServiceAfter` only.

`GatewayLife` puts the two together in the order of `Run`: `stage` is where the
main goroutine stands, deferred calls included. Handlers (`Serve`, `Handle`) run
from `StartServers` to the exit: `Drained` may happen at any time, because the
shutdown has a deadline after which HTTP handlers are left running. Signals are
caught from `StartServers` (`NotifyContext`) until `Run` returns. One that comes
before, or after the deferred `stopSignals` and so before or between the two
deregistrations, kills the process (`Kill`), and what it has registered stays:
`NothingLeftBehind` is about a gateway that has returned. What `Run` does before the
first registration (configuration, Redis, tracer) and pprof are not modelled.

### ServiceDiscovery and RuntimeConfig

`ServiceDiscovery` is one resolver. Consul is external: an answer is the set of
healthy instances with an index, which may go back when Consul is restored. The
resolver's goroutine queries, filters the entries (`grpcResolverAddresses`;
`Usable` are the instances with an address and a valid port), compares with
`lastAddresses` and publishes. grpc-go's `ClientConn` is external too:
`UpdateState` returns an error for an empty list, which the balancer takes over
all the same, and may fail for others. Go's `nil` and empty list are equal to
`resolverAddressesEqual`, so both are the empty set; this is why a connection
that has never had an address is never told that there are none.

`RuntimeConfig` is `Manager.Run` with the store: a value under the key is a good
configuration, a bad one, or absent. The index is taken over before the value is
parsed. The back-off changes nothing that the model has.

These parts of the gateway share no variable. `MCProcesses` explores one at a time
(`part`), so one run answers for all of them without multiplying their states.

### UserAccounts

A login draws an id before anything else (`Draw`, `NextID`), also when its
account exists. The generator's mutex makes each id one step, unless the
sequence has wrapped: then the generator waits for its clock in `spin`, holding
the mutex, until `EndOfWait`. Clocks run and are set back at any time; an error
leaves the sequence advanced, as the code does.

`Find` and `Read` are the two queries of `FindBySubject`, which go to replicas
when the configuration splits reads from writes; each replica may lag on its
own. `InsertUser`, `InsertIdentity` and `Commit` are the transaction, and `Abort`
its end without one, after which the winner is looked up (`refind`, `reread`). A
statement waits for an uncommitted row with the same key: `PendingUsers` and
`PendingIdentities`. A commit may lose its answer. `Restart` loses a process with
its transactions and gives it a new generator. `starts` and `spent` are history:
which life of a generator drew an id, and which ones have run out of timestamps.
`IdsUnique` claims nothing across lives, because a process that starts again
knows nothing of its last id, nor of a generator that is spent.

### AdminProfiles

A request goes through `ReadCache`, then the row by subject (`FindBySubject`) or
by name (`FindByName`), with the roles in a query of their own (`ReadRoles`),
then `BindSubject` and `CacheProfile`. The conditional update and the unique
index over all rows, deleted ones included, are `Free`. Each call may fail
(`CallFails`): the cache is passed over, a failed binding is looked into, any
other error refuses. With `read_write_split_enabled` a read goes to some replica,
each on its own (`databases.go:39`): a query is shown the rows as they are or as they
were no longer than `Lag` ago (`Shown`, `past`). Writes, with their conditions, go to
the primary. `Alter` is what the repository offers to change a row;
nothing of it reaches the cache. The context of a request is `Timeout`: `Wait`
lets no request live longer. `enabledAt` and `heldAt` are history, when the row
was last enabled and had a role. What `StaleForAtMost` bounds is the life of a cached
profile, of a request and the lag together. PostgreSQL gives no bound on the lag;
`Lag` is whatever the deployment holds it to. The bound is tight: TLC refutes one
less.

### SlidingWindow

One key, any number of gateways. `AskRedis` loads the rule and reads the
instance's clock, which may be ahead of Redis by up to `Skew`; `Verdict` runs the
script at Redis's time, `NoVerdict` answers without it, and `ScriptOverdue` runs
the script of a request that was answered already. The members of the sorted set
are requests, their scores the clocks these have read. `at` and `turn` are
history. The admin service has the same script and denies when it has no verdict,
which is the rule `failClosed`.

### BalanceQueries

One wallet and one token. `next` is the pool's counter, modulo its length.
`LookUp` reads the cache and, on a miss, draws the first node; `Reply` answers
one of the three calls of the operation, and `CallErr` is the error that sends it
to the next node, from its beginning. `got` is the variables of `erc20Balance`,
which outlive an attempt. Every value is told apart by the node that gave it.

### ServiceLife

`run` is where `Run` stands; `service` says which of the three it is, where they
differ. All start their servers before they register. web3 catches signals from
its first line, and cancels its scanner and its maintenance with them; user and
admin do so only once they have registered, and die of an earlier signal
(`killed`), perhaps leaving a registration. When the registration fails, web3
drains its servers, the others close their dependencies under a server that
still accepts calls: `ClosedUnused` excludes that way, on which `Run` returns and
the process ends. Registration and maintenance are those of
`ServiceRegistration`, with the one protocol `grpc`; web3 deletes its template
when it deregisters and the others do not, which makes no difference once the
maintenance has ended. GracefulStop waits for the handlers, and so does Stop past
its deadline, because it waits for GracefulStop; this is why nothing is closed
under a handler. Consul and its maintenance can be switched off in web3's
configuration; they are on here. The certificate monitor of user returns at once,
because `NewGrpcServer` never sets the name of the file; those of the others only
log. That admin's consumer of the operation log is not waited for is part of
`OperationLog`.

`NilErrors` says whether web3's Redis client wraps nil errors, as it does. With it
web3 never gets past its checks (`web3_start`); `processes` has it false, to see
the rest of its life.

## Runs

| Run | Instance | Shows |
|---|---|---|
| `wallet_concurrent` | 2 calls; 1 user with 2 accounts and 3 challenges, or 2 users with 1 account, 2 challenges, clock 0..1 and TTL 1 | defaults, challenges, binds and owners are safe; implements `WalletRegistry` |
| `wallet_progress` | 1 user, 2 accounts, 2 calls, 2 challenges | every call returns |
| `wallet_restore` | 1 user, 1 account, 2 calls, 3 challenges | **violated**: a restoration can leave no default |
| `index_scan` | 1 scanner, 2 transactions, 1 log, 2 wallets, 3 blocks, 2 confirmations | nothing missed and receipts settled of what no node has hidden, catches up |
| `requests` | index: 2 scanners, 1 query, 2 transactions, 1 wallet, 3 blocks. Accounts: 1 process, 2 subjects, 3 logins, 2 ids a millisecond, 2 milliseconds, 1 mishap. Profiles: 2 administrators, 2 subjects, 2 requests, TTL, timeout and lag 1, 1 change. Window: 3 requests, limits 1 and 2, window 4, skew 1, timeout of Redis 1. Balances: 3 nodes, 3 attempts, 2 requests, 4 failures | what the requests of each are answered is right, next to what the others do |
| `index_stale` | 1 scanner, 1 query | **violated**: a stale pending snapshot overwrites a verdict |
| `index_lost` | 1 scanner, 1 log, no reorganisation | **violated**: a node that lags hides a log, and its block is done |
| `log_delivery` | 1 event, 1 undecodable message, 5 slots, 1 retry, prefetch 2, 1 fault | implements `EventLedger`; nothing is stored twice, dead letters are earned, sessions are kept, everything settles, `Publish` returns |
| `tron_checks` | 2 requests, 2 instances, 2 addresses (1 allowed), 2 days, 5 calls, pages of 2, 2 pages, 1 spender, 1 fault | budgets hold, results are counted, `success` is complete, the cache is unspoiled, every request returns |
| `tron_midnight` | the same without faults | **violated**: after midnight a budget that nobody has touched is called used up |
| `processes` | gateway: 2 handlers with 2 calls each, 1 service, 2 connections, 1 failing dial, 1 lost registration, 1 slip; 3 instances (1 unusable), 1 restart of Consul, 1 error; 3 configurations (1 bad), 2 outages. The services: 1 handler, 1 scanner, 1 lost registration, 1 slip | connections neither leak nor double, registrations come back and go with the process, nothing is closed in use, nobody hangs, every process winds down, addresses and configuration catch up |
| `web3_start` | the services, without faults | **violated**: web3 refuses to start although its dependencies answer |

Why the bounds are enough. Two calls give every pair of overlapping operations,
and every guard and lock of the wallet code is about one other call; three
challenges let a wallet be bound, unbound and bound again by two calls at once.
Two accounts let a default move. One tick with `TTL` 1 has challenges that
are fresh, that expire while a call holds them, and that have expired; the runs
that do not ask about expiry keep the clock still. `OneAlone` is the
constraint of the concurrent run: one user with all accounts and no tick, or all
users with one account, two challenges and a tick. Users, accounts, calls and
challenges are interchangeable, so the safety runs use symmetry; the liveness
run does not. Three blocks with two confirmations have blocks that are too
young, that can be reorganised and that are final, and a batch of one has the
scanner stop with blocks left. One event and one foreign message give two
messages that overtake each other, and a single fault at every possible moment,
also in the middle of a recovery that a shutdown began; five slots are more than
the copies one fault can leave, so a publication never waits for a slot
(`Room` keeps a stopping consumer, which may take its buffer before it sees the
end of its context, within them). The safety properties are proved for any
number of faults. Two requests of the approval check are a leader and a
follower, or two leaders on two instances that compete for the same rows. One
list takes two pages and names a spender twice, the other has one spender more
than a check takes; one address a day leaves the second refused, and five calls
suffice for one check but not for two; the day changes at most once, between
any two steps. The limit on queries is reached by neither request and stands on
the proof of `BudgetsHold`. Two handlers are a caller that dials and one that
waits for it, and with two calls each a handler comes back after a failure; two
connections are enough because a second is made only when the first dial has
failed or Close has overtaken it, and the proof has any number. Both
registrations can be lost and restored while the process stops. The index of
Consul takes four values, so it can go back below, to and beyond what the
resolver has seen, before and after a failure.

In `requests`, while a query runs one of the two transactions is not mined
(`OneAtATime`): a query asks for one, and a scanner takes them one by one. Three
logins with two ids a millisecond make the sequence wrap under a waiting login,
and a timestamp of two values runs out; the node number is a part of the id of
its own, so one process shows what could go wrong, and the proof has any number.
Two requests with two subjects and two administrators race for one row or follow
each other through the cache; a change, a lost binding and an expiry fall between
any two calls, and a replica shows a row as it was a moment before. Three requests fill a limit of two and ask for more, with clocks
on both sides of the edge of a window of four and scripts that run a moment late:
a span of one more than `Span` is refuted. Four failures let one request
use up its attempts and the other fail once at each of the three calls. What is
interchangeable in one part bears the names of the instances of another, so one
symmetry set serves all, and `Moving` is a VIEW that leaves out only the parts at
rest. In `processes` a service has one handler and one round of the scanner at a
time: what waits for them waits for all.

Deadlock is not checked because the instances may stop: challenges, blocks,
requests and processes are used up.

Fairness. `FairSpec` of `WalletBinding` gives every call strong fairness on its
next step: goroutines run, and PostgreSQL grants locks in the order of the
requests, so a call that can take a lock again and again gets it. Clients are
never forced to call, nor keys to expire. `FairSpec` of `TransactionIndex`
assumes that the ticker polls, that a scan that can go on does, that the round
robin over nodes reaches one that is up to date, and that failures come to an
end; without the last nobody can promise progress. `FairSpec` of `OperationLog`
has weak fairness for the two goroutines and the broker, and strong fairness for
whoever waits for `Publisher.mu` or `reconnectMu`, since `sync.Mutex` hands a
mutex to a waiter that has starved for a millisecond; a stopped process is
started again by its supervisor. Nobody is forced to publish. `FairSpec` of
`TronApprovals` gives every request strong fairness on its next step: handlers
run, statements and HTTP calls have timeouts, and PostgreSQL grants a row lock
to those who wait for it. Nothing forces a client to call, a day to end or a
context to be cancelled. `FairSpec` of `MCProcesses` has weak fairness for each
goroutine of a process (`Run`, the maintenance, every handler, the resolver, the
runtime manager): mutexes are held for a few statements, timers fire, and
requests to Consul return or end with their context. Handlers and rounds of the
scanner return, since what they call has timeouts and ends with its context.
Nobody has to stop a process, to call it, or to use a connection.

## What the violations show

- `wallet_restore`: two binds of the same unbound wallet overlap. Both find it
  disabled. The first restores it as the default; the second counts that default
  and writes `is_default = false` over it. The comment of `Reactivate` says the
  wallet becomes the default when there is none.
- `index_stale`: `GetTransaction` sees a transaction pending, the scanner
  confirms it, then the query's `Upsert` puts the row back to pending without a
  block. The cursor has passed, so nothing repairs it.
- `index_lost`: `transferLogs` asks whichever node is next for the logs of the
  block (`scanner.go:302`). One that has not got the block yet answers with none and
  without an error; the block is saved as done, and its ERC-20 transfers are lost.
  The comment of `ScanChainOnce` (`scanner.go:147`) says that a block moves the
  cursor only when it is stored completely.
- `tron_midnight`: `ReserveUpstreamCall` takes an update of no row for "daily TRON
  upstream-call limit reached" (`usage.go:82`, `:17`), and the client reads that
  the budget is used up. It updates the row of *today*,
  and only `ReserveQuery` creates rows. A check that midnight overtakes finds no
  row, and is told that a budget of which nothing is spent is used up, until the
  first query of the new day.
- `web3_start`: `redisError` (`web3/internal/redis/client.go:98`) returns the
  `*Error` of `apperror.Wrap` as an `error`. For a nil error that is a nil pointer
  in an interface, which compares unequal to nil, so `Ping` fails whenever it
  succeeds, and web3 stops at its dependency check (`app.go:62`). The gateway's
  client tests the error before it wraps it.

## Proofs

`WalletBinding_proofs` proves for every value of the constants (any numbers of
users, accounts, calls and challenges, any TTL and clock bound), from
`OpsAssumption`, `TimeAssumption` and `NoneAssumption`, the theorems
`TypeCorrect`, `OwnersStay`, `ChallengeUsedOnce`, `RowsAreProven`, `OneDefault`,
`DefaultsAreActive`, `BindsTakeEffect` and `BindingImplementsRegistry`. The
argument has five inductive invariants, each resting on the one before and each
also an invariant that TLC confirms on the instances above:

1. `RowsInv`: types, and that a call which has found a row still finds it. Rows
   never disappear, so the statements that use a row by its ID write to one.
2. `ChallengeInv`: a challenge that a call has taken out of Redis is held by that
   call alone and has authorised nothing yet; a spent one never comes back; a
   row's proof was issued to its owner for its account. `OneWritePerChallenge`
   alone is not inductive, since nothing in it says who may still use a
   challenge.
3. `DefaultInv`: a call between its advisory lock and its commit holds the lock
   of its user; what it has counted, or has locked for update, is still true
   unless a default was *removed* meanwhile (`UnsetDefault`). This is why one
   lock taken by all writers that set a default is enough.
4. `WitnessInv`: the wallet of a bind has been active and its caller's during the
   call once the bind is past the last read that could tell otherwise, and also
   whenever the winner of a lost race turns out to be the caller's row: there was
   no row when the call began to create one.
5. `ReplacementInv`: when `UnbindWallet` of a default has found no other active
   wallet of the user there still is none, since only who holds the user's lock
   makes a wallet active. (That the one it has found stays active is part of
   `DefaultInv`.)

`BindingImplementsRegistry` is the refinement `WalletBinding => WalletRegistry`,
for every value of the constants: each step of a call is an atomic operation of the
registry or changes none of the owner map, the active set and the map of
defaults. The refinement mapping chooses a user's default wallet among the rows
marked so; `AtMostOneDefault` makes the choice unique, and without it the mapping
would have no value to compare from one step to the next.

`ChainQueries_proofs` proves, from `IndexAssumption` and `NoneAssumption`, for
any chain, wallets, instances, queries, batches, failures and reorganisations:

1. `ScanInv` (`ScansAreSafe`, `IndexTypes`): types, and that neither a scan nor
   the cursor is nearer to the head than the confirmations ask. What a scan reads
   is therefore what everybody will ever read there.
2. `RowsInv` (`MissesNothing`, that is `NothingMissed`): a scan that has taken up
   a block has stored every item of a bound wallet in the blocks before, and in
   this one all that it has not still before it, except logs that a node has hidden
   from a scan of their block. It holds of *every* scan, also of one
   that another has overtaken, and only so may each overwrite the cursor.
3. `ReceiptInv` (`SettlesReceipts`, that is `ReceiptsSettled`): the same for the
   receipts, where the log whose row is written and whose receipt is not yet
   marked is counted as unfinished.
4. `VerdictInv` (`VerdictsAreTrue`, that is `VerdictIsTrue`, and `FinalStays`):
   what a query has found out by each of its steps, and that a final row names
   the block and the outcome of its transaction.

`MissesNothing` assumes `OneBeginning`: a start block is configured, or one
instance scans. With `start_block` at 0, each instance that finds no cursor
saves its own safe head as the first (`scanner.go:217`), and the later one passes
over the blocks between. `SettlesReceipts` assumes `OneScanner`: a second
instance that fails at a log marks its receipt failed after the first has
processed it and moved the cursor past it. `VerdictsAreTrue` assumes
`StillWhenAsked`: no reorganisation, or no query, since a query asks its node
three times and the chain may be replaced between. Each is the case in the runs
that check the property, and none can be dropped: TLC refutes the property on the
instance of `index_scan` with a second scanner (for `ReceiptsSettled`, with a
start block as well) or with a query. `FinalStays` assumes that nobody queries;
with queries, the run `index_stale` refutes it.

The same module proves, from `BalanceAssumption`, `BalanceIsTyped` and
`BalanceFromOneNode` (`OneNode`). `BalanceInv` says of a request what it has
gathered so far and from which node: an attempt that goes to another node begins
again with the balance, so nothing of an earlier one is left in the answer.

`OperationLog_proofs` proves, from `LogAssumption` and `NobodyAssumption`, for any
events, slots, retries, prefetched deliveries and faults, the theorems
`LogTypeCorrect`, `NothingIsLost`, `StoredOnce`, `DeadLettersEarned`,
`StaysClosed`, `SessionsAreKept` and `LogImplementsLedger`. The invariant
`LogInv` has five layers:

1. `HeldInv`: types, and that the broker still holds the delivery that is being
   handled and those that are buffered: as `unacked` while the channel lives,
   back in the queue once it has died.
2. `KeepInv`: an event is *safe* when it has a row, is dead-lettered or has a
   copy in a queue. A publication that is confirmed has made its event safe
   *beside* the delivery it replaces, and so is what the consumer is about to
   acknowledge. `NothingLost` alone is not inductive: it says nothing of why the
   acknowledgement may remove a copy.
3. `SessionInv`: who dials holds `reconnectMu` and has found the connection
   broken; a closed publisher holds no channel and starts no publication.
4. `RetryInv`: an event has failed at least as often as any of its copies
   counts, wherever the copy is, and once more when it is on its way to the
   dead-letter queue. Copies multiply when a confirmation is lost, which is why
   the claim is about each copy and not about their number.
5. `CourierInv`: a dead letter on its way is of an event that is safe already,
   and the caller of a publication waits for it (a call that has returned is not
   answered again).

`LogImplementsLedger` is the refinement `OperationLog => EventLedger`. It says
more than `NothingLost`, which follows from it: also an event whose `Publish` has
failed or whose caller is gone, once a queue has held it, leaves the queues only
when it is stored or a dead letter; nothing is stored or buried that was never
queued; and what is accepted, stored or buried stays so. Five actions are seen by
the ledger (`Seen`), all others leave its four sets as they are.

`TronApprovals_proofs` proves, from `ApprovalsAssumption` and `NobodyAssumption`,
for any requests, instances, addresses, lists, days, limits and faults, the
theorems `TypeCorrect`, `BudgetsHold`, `FlightHolds`, `CacheHolds`,
`SuccessHolds` and `ResultsHold`. The inductive invariants, each on
top of the types or of an earlier one:

1. `BudgetInv`: a request that has read the row under its lock still reads what
   is there. Only this makes the limit test of `ReserveQuery`, which compares the
   values read earlier, a test of the row that is written; the counter of
   addresses follows the set of their rows for the same reason.
2. `FlightInv`: who stands in the map leads a check on that instance for that
   address, and the other way round. A crash empties the map of its instance
   together with the followers, so nobody waits for a call that is gone.
3. `CutInv`: an answer that is about to be stored and was cut short belongs to a
   context that has ended, so `StoreCache` fails. Cancelled contexts stay
   cancelled.
4. `CompleteInv`: as long as nothing was truncated, the spenders found are
   exactly those among the entries read so far; at the end of the list these are
   all of them.
5. `CountInv`: the results counted and those still owed never exceed the queries
   admitted, and a request that owes one has a row to count it in.

`ProcessLife_proofs` proves, from `ManagerAssumption`, `RegistrationAssumption`,
`LifeAssumption`, `DiscoveryAssumption` and `RuntimeAssumption`, for any handlers,
services, connections, calls, lost registrations and slips:

- `ConnectionsHold` and `ConnectionsAreShared`, that `ClientManager` keeps
  `NothingLeaks` and `OneConnection`. The invariant `ManagerInv` adds `Making`
  (who dials or settles is the one entry in `pending` for its service, and there
  is no connection for it yet unless the manager is closed) and `Holding` (who
  holds a connection, and that it is open until Close). `Settle` writes to
  `conns` without looking, and only `Making` says that it overwrites nothing.
- `LifeImplementsManager`: every step of the gateway process is one of the
  manager or leaves it alone, so the same holds of a gateway from start to its end.
- `CatalogueIsClean`, that the gateway keeps `NothingLeftBehind`: it speaks of a
  gateway that has returned, not of one that was killed. `CatalogueInv`
  says what is registered at each stage; it is inductive because the maintenance
  has ended from the drain on (`Quiet`), so that between the two deregistrations
  and after them nobody registers.
- `NothingStays` and `NotClosedInUse`, of the other three services. `LifeInv` has
  three parts: `OwnInv`, that without slips the registry holds nothing but the
  service's own registration; `EntryInv`, what may be registered at each step of
  `Run`, and that nothing is once the maintenance has ended; `UseInv`, which step
  goes with which state of server and scanner: nothing runs once it has been
  waited for.
- `NoNewsIsSkipped`: the addresses that a resolver compares an answer with
  are the published ones or none (`Believed`), so an answer it skips is
  empty or no news. `NothingSeenIsIgnored`: a good configuration whose index the
  watch has taken over is the published one, unless the index of Consul has gone
  back (`SeenIsPublished`). These are the safety half of `AddressesCatchUp` and
  `ConfigCatchesUp`, which add that the watch asks again. Consul's index
  starts at 0 or 1, so both modules assume bounds of at least 1.

Proved and not run, because the runs spend their time on what they alone can
show: the type invariants, `StaysClosed` (a closed publisher never opens a
channel), `FlightHolds` (an instance runs one check of an address),
`NothingLost`, `ScansAreSafe`, `FinalStays`, `NoNewsIsSkipped` and
`NothingSeenIsIgnored`.

`UserAccounts_proofs` proves, from `AccountsAssumption`, for any processes,
subjects, logins, ids a millisecond, shards and mishaps, `AccountsTypeCorrect`,
`IdsAreUnique` and `OneAccountEach`.

1. `IdInv`: types, `IdsUnique`, and (`GeneratorInv`) that every id of a life of a
   generator is of an earlier millisecond than its last, or of this one with a
   smaller sequence or the same.
   `IdsUnique` alone does not say why the next id is new. While the generator
   waits, the sequence is zero and every id is of `lastMillis` or before; that is
   why the timestamp after the wait may be combined with it.
2. `TransactionInv`: who is between two statements of the transaction, and what
   the rows in the tables and those that are pending exclude. The unique keys of
   the index and the wait for uncommitted rows are what makes two committed rows
   differ in both subject and id.

`AdminProfiles_proofs` proves, from `ProfilesAssumption`, `ProfilesTypeCorrect`,
`ServedRowIsMine` and `StaleNoLonger`. `ProfileInv` says of each request at each
step what it knows (the row is bound to its subject or free; it was enabled, and
had the role, no earlier than `Lag` before the request began), of each cached profile
that its row is bound to its subject and was good less than `Timeout + Lag` before it
was stored, and of what a replica still shows (`PastInv`) that it was so within `Lag`
and that no binding in it has changed. A subject, once bound, is never taken from its
row; only this lets a profile outlive the query that found it, and a replica hide a
binding but never show a wrong one.

`SlidingWindow_proofs` proves, from `WindowAssumption`, `WindowTypeCorrect` and
`LimitHolds`, for any finite set of requests and any rules. `WindowInv` says that
an allowed request is still a member of the key as long as anybody can count it
against the limit: a script removes only what is a window older than its clock,
and neither that clock nor the way to Redis is off by more than `Skew` and
`RedisTimeout`. The bound is `Span`, the narrowest window less both: this is what
the limiter promises when instances do not agree on the time.

Every invariant and every action property that a passing run checks, and the
refinements of `WalletRegistry` and `EventLedger`, are stated by a theorem. Only
model-checked are the liveness properties, which rest on fairness and `ENABLED`
and are out of the prover's reach: `CatchesUp`, `EveryCallReturns`, `EverySettles`,
`PublishReturns`, `EveryRequestReturns`, `StaysRegistered`, `NobodyHangs`,
`AddressesCatchUp`, `ConfigCatchesUp` and `WindsDown`; and the five findings,
which are counterexamples.

## Plan

Done: web3's wallets, transaction index, balances and approval checks, the
gateway's connections, registrations, discovery, runtime configuration, limiter
and life, the operation log and the profiles of admin, the accounts of user, and
the lives of the three services, with the safety theorems of all of them and the
refinements of the wallets and of the operation log. What would add most next:

1. The discovery and the client manager of user, where they differ from the
   gateway's (next section).
2. Weaker hypotheses for `ReceiptsSettled` and `VerdictIsTrue`: what two
   instances, or queries during a reorganisation, still leave true.

## Not modelled

Formatting of signing messages and amounts, signature recovery (a request says
whether its signature is good), validation of configuration and of requests that
changes no state, logging, tracing, metrics, pprof, generated protocol code and
deployment files: no state that outlives a call, and nothing that interleaves.
For the same reason the HTTP routes and forwarders of the gateway, the
authentication interceptors, the single-row repositories of roles and
permissions, and the llm service, a gRPC skeleton without state. The token
buckets of user and web3 are those of `golang.org/x/time/rate`.

The copies of the gateway's discovery, client manager, runtime configuration and
limiter in admin take the same steps and are not modelled again. Those of user
differ in two places, seen by reading and listed under `hazards`: the resolver
prefers the address of the node to that of the service (`user/internal/consul/discovery.go:161`,
against the comment at `:159`), and a dial that fails is stored as a nil
connection that `Close` will close (`user/internal/grpc/client.go:128`).
