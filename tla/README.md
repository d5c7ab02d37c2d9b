# fluxor-db in TLA+

fluxor-db is a Go runtime placed in front of (legacy) SQL databases: a gate that
protects the database, an in-memory cache, a TCP front end with its client, and
the plumbing around `database/sql`. This directory holds TLA+ models of its
concurrent parts, the TLC configurations that check them on small instances, and
TLAPS proofs of the properties that matter most for every value of the constants.
File and line numbers refer to the Go sources of the repository.

## Inventory

| Component | State | Operations | What is hard about it | What makes it correct |
|---|---|---|---|---|
| Circuit breaker (`gate.go`) | `state`, `failureCount`, `lastFailureTime` | `Allow`, `RecordSuccess`, `RecordFailure` | loads outside the lock, then acts on the loaded value | a closed breaker is below its threshold; an open one recovers |
| Rate limiter (`gate.go`) | `tokens`, `lastRefill` | `Allow` | truncation of fractions of tokens | a budget for every window of time; refills under polling |
| Connection limiter (`gate.go`) | `sem`, `currentConnections` | `Acquire`, `AcquireWithContext`, `Release` | channel and counter change in separate steps; waiting | the limit; every slot has an owner; nobody waits forever |
| Connection gate (`gate.go`) | the three above | `ExecuteWithGate`, `Allow`, `RecordSuccess`, `RecordFailure` | goroutines at every stage of a request at once | all of these together |
| In-memory cache (`cache.go`) | `items`, `ll`, statistics | `Get`, `Set`, `Delete`, `PurgeExpired`, `Stats` | two structures in step, lazy expiry, eviction | an expiring map with LRU eviction |
| TCP server (`tcp_server.go`) | listener, `clients`, `wg`, `shutdown`, per-IP maps | `Start`, `Stop`, accept loop, a handler per connection | shutdown against accepts, handlers and `s.mu` | nothing runs after `Stop`; the limits per IP; `Stop` returns |
| Idempotency (`tcp_server.go`) | cache of responses by key | check, execute, store | check-then-act on several connections, errors after an effect | what was answered is not executed again |
| TCP client (`tcp_client.go`) | `conn`, `connected`, `messageID`, two locks | `Connect`, `Disconnect`, requests | timeouts that leave answers behind, lock order | a caller gets its own answer; calls return |
| AdvancedDB, AdvancedTx (`db.go`) | metrics, retry policy | `Exec`, `Query`, `QueryRow`, `Prepare`, `Begin`, `Commit`, `Rollback` | contexts cancelled when a call returns its transaction or rows, double releases, torn snapshots | a reported commit is a commit; one release per slot; a result is a whole result |
| Prepared statement cache (`db.go`) | `cache`, `maxSize` | `Get`, `Put`, `Clear` | look-up and storing in separate steps, a `Clear` between them, the limit | a cached statement belongs to the pool in use |
| Connection manager (`open.go`) | pool, tracked connections, leak detector | `Open`, `Close`, `AcquireConnection`, `ReleaseConnection` | lifecycle of a goroutine, tracking never removed | `Close` is safe; leaks are reported once they are leaks |
| DBRuntime (`dbruntime.go`) | manager, gate, AdvancedDB, cache | `Connect`, `Disconnect`, `QueryCached`, delegations | staleness, reconnecting | stale results die out; a reconnection starts anew |
| Monitor (`monitor.go`) | `running`, `stopChan`, callbacks | `Start`, `Stop`, loop | restart after `Stop` | one loop at a time, `Stop` never fails |
| Blob storage (`blob.go`, `cmd/blobonly`) | two files per blob, or a row | `Store`, `Retrieve`, `Delete`, `Exists`, `List`, `Stats` | several processes without a lock, no atomic replacement, crashes | data and metadata belong together |
| Errors, utilities (`errors.go`, `utils.go`) | none | `WithRetry`, `Transaction`, `CheckHealth`, `HandleError` | an error assigned after the return value is set | |
| Configuration, examples | none | builders, demonstrations | | |

How they interact: `DBRuntime` owns a connection manager, a gate, an `AdvancedDB`
and perhaps a cache. Every `Exec` and `Query` goes through the gate. The TCP
server calls the runtime from its handler goroutines and keeps an `InMemoryCache`
of responses by idempotency key; the TCP client talks to it line by line, each
line a JSON message with an ID.

## Modules

| Module | Models | Remarks |
|---|---|---|
| `CircuitBreaker`, `RateLimiter`, `ConnectionLimiter` | the parts of the gate, as atomic steps | one operator per unlocked load or critical section |
| `ConnectionGate` | goroutines calling `ExecuteWithGate` | composes the three by `EXTENDS` |
| `RateWindow` | the rate limiter with an observer | a window may be opened at any moment |
| `InMemoryCache` | the cache | every method is one action, since it holds `c.mu` throughout |
| `TTLMap` | what the `Cache` interface promises | refined by `InMemoryCache` under the mapping `Visible` |
| `TCPServer` | `Start`, `Stop`, accept loop, handlers, clients | |
| `Idempotency` | the steps of `handleMessage` around an execution | several connections; retries and late errors |
| `TCPClient` | the client, its connection and the server's answers | |
| `AdvancedDB` | `Exec` and `Query` with their retries, `Begin`, `Commit`, `Rollback`, `QueryExecutor.Transaction` | extends `ConnectionGate`, whose steps every operation takes |
| `QueryResults` | `QueryCached`, and the reading of rows by `handleQuery`, `Select`, `SelectOne` and the blob store in the database | the cache as `TTLMap` describes it, for one key |
| `ConnectionManager` | `Open`, `Close`, the leak detector | the steps under `cm.mu` |
| `StatementCache` | the prepared statement cache | the steps under `psc.mu` |
| `DBRuntime` | `Connect`, `Disconnect`, operations, `Prepare`, `AcquireConnection`, the monitor | extends `ConnectionManager` and `StatementCache` |
| `BlobStore` | the blob store on files, of `blob.go` and of `cmd/blobonly` | with crashes; composes nothing |
| `MC...` | instances for TLC | symmetry sets and constant functions only |
| `...Proofs` | the theorems | those of `RateWindow` and `AdvancedDB` are in `ConnectionGateProofs` |

Operators whose name begins with `Mut` are variants of the definition that
follows them, with a plausible mistake in it; each breaks the property it is
there for. No specification uses them.

### The gate

The program counter `pc[g]` of a goroutine marks its place in the code, and the
header of `ConnectionGate` lists the places. `seen[g]` is the value of `cb.state`
the goroutine loaded and may act upon after it has changed: `AllowLoad` followed
by `AllowProbe`, `SuccessLoad` followed by `SuccessSettle`. `RecordFailure` and
the two write-locked sections are one step each. Stores to the counter outside
the lock (`ResetFailureCount`) may fall inside a critical section of another
goroutine; as nobody reads the counter outside `cb.mu`, this gives no more
outcomes than the atomic steps. With backpressure the send to `cl.sem` and the
increment of `currentConnections`, and the receive and the decrement, are separate
steps.

Time is kept as the age of `lastFailureTime` and of `lastRefill`, each counted up
to the age beyond which the code cannot tell. `BurstSeconds` stands for the
literal 10 of `NewRateLimiter`. `mode` is `cl.mode`, with `"no timeout"` for mode
`timeout` without a `BackpressureTimeout`; a mode the code does not know behaves
as `drop`. `kept` is a history variable: the slots of requests that succeeded,
which the code never gives back.

### The cache

`container/list` is external and modelled by its elements (`ll`) and their order
(`before`, a set of pairs). Elements have identities because the map points to
them. `newer` and `inserted` are history variables: which key was used more
recently, and how many keys were added and not deleted. `call` is the last call with
its arguments and `reply` its answer; `TTLMap` has both too, so that the refinement
ties every answer, and every change, to the call and the key it belongs to: a `Get`
that missed a live key, or gave the value of another, would have no step of the map
to match it. The counters wrap at
`CounterRange` (2^64 in the code). `Hits` and `Misses` are left out.

### The TCP server

Every place where a handler may be overtaken is a place of `handler[c]`: before
`allowConnection`, in `Scan`, before the look at `s.shutdown`, before the size and rate
checks, before the answer, and in each of its three deferred calls. `Stop` holds `s.mu`
from `StopBegin` to `StopWait`; everything else that locks `s.mu` needs `MuFree`.
`clients.Range` visits what was stored when it began (`atRange`, a history variable) and
may visit what is stored meanwhile. The accept loop stores a connection, adds to the
wait group and starts the handler in three steps. A handler's scanner also ends on a
line that exceeds its buffer, with the connection open. `Start` after `Stop` returns an
error because `s.listener` stays set, and `Stop` is called once (a second call would
close a closed channel). What a handler computes is abstracted here.

### Idempotency and the TCP client

`Idempotency` follows a request through `checkIdempotency`, the attempts at its
statement, the answer and `storeIdempotency`, on several connections. That a statement
took effect (`Execute`) and that it is reported as a success (`Respond`) are different
steps: in between an attempt may time out and be retried (`Retry`), or an error of
`Exec`, of the rows or of the encoding be sent (`Fail`), after which nothing is stored.
The response is sent before it is stored. Expiry and eviction of a key are the action
`Forget`. `TCPClient` is the client's side: two locks, the request ID drawn
before `mu` is taken, the write and its deadline, a new scanner for every answer
(which may swallow further lines, or the beginning of one), the read deadline, the
comparison of IDs. A write that fails half way makes a garbage line of the next
one, and an answer read half way is `Torn`. The server answers a line with a
response of its ID, a success or an error, or with the stored response if the key
is known. That cache is shared by all clients of the server: `OtherStores` puts in a
response to another client's request, whose ID is one of that client, which counts from
1 like this one (`from`). In `Disconnect` the steps after `sendMessage` are there (`Return` at
`closing`) and never reached.

### AdvancedDB

A goroutine is in a statement (`Exec`, `Query`) or in a transaction
(`QueryExecutor.Transaction`, the only caller of `Begin` outside the
examples), and `pc` of the gate says where in `ExecuteWithGate` it is. Its operation
is the retry loop: an attempt succeeds, fails and is retried up to `MaxRetries` times,
or gives up, all with the slot of the call. `Begin` returns from the gate with an open
transaction whose context its deferred `cancel` ends; `database/sql` then rolls the
transaction back in the background (`AwaitDone`, external), at any moment before or
after the caller's function, `Commit` or `Rollback`. A `Commit` or `Rollback` that
fails calls `RecordFailure`, which releases the slot of `Begin`; one that succeeds calls
`RecordSuccess`. What a call kept (`attempt`, `tx`, `result`) is reset when it returns.

### Rows and cached queries

`Query` and `QueryRow` cancel, on return, the context their rows are tied to, so
`database/sql` closes the rows at any moment while the caller reads them (`CloseRows`,
external). Queries and scans may also fail on their own. The callers differ in what they
make of it: most return the error of the query, of `Scan` or of `rows.Err`
(`NoticesError`, `ReturnError`); `DatabaseBlobStorage.List` passes over a row it cannot
scan (`SkipRow`) and does not ask `rows.Err`, and `Exists` takes every error for "no",
that of the query included (`QueryFails`). `QueryCached` looks its key up (`Hit`, or
`Begin`), queries, reads and stores in separate steps, while the table changes
(`Write`), and other calls store under the same key. `want` and `lost` are history
variables: the result when the database answered, and the rows of it that an unreported
error kept from the caller. The entry counts down the time it has left, and is gone when
it has none; `cache.go` itself is the subject of `InMemoryCache`.

### Connection manager, runtime and monitor

`Open` and `Close` hold `cm.mu` and are one step each, with their failures
(`OpenUnreachable`, `CloseFailed`) as steps of their own. A pool is a number and `db`
the one in `cm.db`. What `DBRuntime` does outside the lock is separate: `Connect` opens
(`ConnectOpen`) and assigns `r.advancedDB` later (`ConnectWrap`), an operation looks at
`cm.db` (`Check`) and uses `r.advancedDB` later (`Use`), `AcquireConnection` reads
`cm.db` twice. The monitor's loops call the same operations. Lifecycle calls come from
one goroutine, the owner, as in the repository's programs; their data races with each
other are not modelled. A panic ends the program, so `Next` is disabled once `panic`
names one. `Prepare` looks a query up, prepares it and puts it into the statement cache
in three steps; `Disconnect` clears that cache before it closes the pool, and `Connect`
makes a new one with the new `AdvancedDB`. A statement is the number of its pool, and
`prep` remembers for a user in `Prepare` which pool and which `AdvancedDB` it works on.
The warmup goroutine takes connections of a pool and gives them back, which leaves
nothing behind, and is left out. The map of tracked connections is left out: entries are
added and never removed, and their only reader reports them to a callback that nothing
sets.

### The blob store

A blob is a data file and a `.meta` file, which `os.WriteFile` opens and empties, then
writes. Every process is a goroutine of a program that uses `blob.go` or, if it is in
`Tools`, a run of `cmd/blobonly`; the two share the layout and differ in how they read
metadata. `blob.go` looks for words in the whole text, the file name included
(`ParsedType`); `blobonly` decodes it, which may fail on a file name that `blob.go`
wrote without escaping it (`DecodedTypes`). A value therefore has a content type and the
words (`Words`) that its content type and its file name contain, and `KeepsType` says
which content types come back as they were stored. A file holds a value, or is `Absent`,
`Empty` or `Torn`; a process that opened a file writes to that file, which a `Delete`
may have taken out of the directory meanwhile (`linked`). `Interrupt` ends a call at any
place, by an error or by the death of the process. `alone`, `settled` and `mixed` are
history variables: which calls no change of their key overlapped, what the last change
of a key left if it was complete and alone, and which keys had overlapping changes
since.

## Runs

| Run | Instance | Shows |
|---|---|---|
| `Database` | 2 goroutines, 1 slot, threshold 2, 1 retry, modes `drop`, `block` and `timeout` without a timeout; fair | `BreakerCounterInv`, `SlotAccounting`, `ConcurrencyBound` and `OpenTransactionsBound` with statements, retries, and transactions that are rolled back in the background; `OpsReturn`, `BreakerRecovers` |
| `TransactionResult` | as `Database`, modes `drop` and `block` | finding: `Transaction` reports a commit that failed |
| `GateSemInFlight` | mode `block` | finding: a success keeps its slot |
| `RateWindow` | windows up to 9 ticks, three ticks a second, rate 2, burst 2 s | `RateBudget`, `BucketRefills` |
| `Cache` | 3 keys, capacity 2, 2 values, entries that expire and entries that do not | `IndexAgrees`, `RecencyOrder`, `EvictsLeastRecent`, `StatsBalance`, `ImplementsTTLMap` |
| `Server` | 2 connections of one address, limit 1, with and without protection; fair | `WaitGroupCounts`, `StoppedIsQuiet`, `PerIPBound`, `StopReturns` |
| `Client` | 2 goroutines, 2 messages, 1 key; fair | `AnswersOwn`, `CallsReturn` |
| `ClientDisconnect` | 1 goroutine; fair | finding: `Disconnect` never returns |
| `Idempotency` | 3 connections, 2 keys, 2 effects of a key | `AnsweredNotRepeated` |
| `Runtime` | 3 pools, 1 user, 2 monitor loops, 2 queries, 1 cached statement; fair | `PoolsOwned`, `OneDetector`, `WrapperCurrent`, `StatementsUsable`, `NilWrapperOnlyAtFirstConnect`, `BackgroundEnds` |
| `QueryResults` | 2 goroutines, 2 rows, a TTL of 1 and the default of 2; fair | `CompleteResults`, `CacheConverges` |
| `Blob` | 2 goroutines and 1 `blobonly`, 1 key, 2 values | `LastChangeWhole`, `NoStrayMetadata`, `RetrieveReturnsStored` |

Why these bounds. The races of the gate are between a goroutine that holds a loaded
value and one other; two goroutines at all places show each pair, and the safety
properties are proved for any number. One slot is lost by the first success, so the
waiting and refusing paths are reached in every mode; `timeout` with a
`BackpressureTimeout` takes the steps of `block`, whose context also ends, and the
proofs are for all modes. In the cache a third key forces an eviction and the clock
passes every deadline. In the server the second connection is the one that arrives
during `Stop`, or is refused by the limit of one. Two messages of a client suffice for
one that times out and one that meets its late answer, with one goroutine or with two.
Two effects are one more than a key should have. In `Database` one slot and two
goroutines let a transaction that lost its slot meet one that takes it. In `Runtime`
three pools are a connection, a failed or a successful reconnection and one more, two
loops are one that is ending and one started meanwhile, and a second query is evicted by
the first. Two rows give a result that can be read in part, and two TTLs an entry that
replaces one of another age. One value of the blob store is a picture that comes back as
it was stored, the other a text whose file name has every word that misleads a reader.
Three processes on one key let two changes overlap while a third process reads or
deletes; keys share nothing, and the proof is for any number. `MaxEffects`,
`MaxMessages`, `MaxTime`, `MaxElapsed`, `MaxPools` and `CounterRange` are the only
artificial limits; `MaxRetries` is a parameter of the code (3 by default, 1 in the run).

The `Client`, `Server` and `Runtime` runs and the run of the finding about the client
switch the deadlock check off: a server that was stopped and a client that used its last
message do stop, a `Disconnect` does block everything, and a panic ends the program.

### Fairness

* Server: the goroutines of the server run. Nothing is assumed of clients: a write
  to an open connection may block for as long as the client likes (`MayBlock`), and
  `Stop` need not be called.
* Client: exchanges proceed because of their deadlines, and a goroutine that waits
  for a Go lock that becomes free again and again gets it (strong fairness on
  `Lock` and `Check`; `sync.Mutex` does not starve waiters). Nothing is assumed of
  the server.
* Database: goroutines run, time passes, statements and the function given to
  `Transaction` end, contexts expire (every caller of the gate in `db.go` wraps its
  context in a timeout) and requests keep coming.
* QueryResults: calls proceed, since a query ends with its timeout, and time passes for
  the cache. Writes, evictions and the closing of rows need not happen.
* Runtime: leak detectors and operations run. A monitor loop whose ticker and stop
  channel are both ready picks one at random (`select`), hence strong fairness on
  `LoopEnds`. Nothing is assumed of the owner and the users.

### What the findings say

1. A request that succeeds never gives back its slot (`gate.go:128`); after
   `MaxConcurrentConnections` successes the gate refuses everything, in every mode.
   `SlotAccounting` describes the accounting as it is, with `kept`.
2. `TCPClient.Disconnect` waits for a lock it holds (`tcp_client.go:76`), and with
   it every later call, since it also holds `mu`.
3. `AdvancedDB.Begin` cancels, on return, the context its transaction is tied to
   (`db.go:211`), so that a `Commit` fails; and `Transaction` assigns that error to a
   variable that is not its result (`utils.go:63`) and returns nil.

Four more disagreements are listed as findings. For three of them there is a property,
stated beside what does hold, and a configuration that makes TLC find the
counterexample; they are no runs of the project, since what holds is the question there.

4. `Stop` does not close all connections, as `TCP_LAYER.md:197` says: a connection that
   the accept loop stores after `Range` has passed stays open, and `Stop` waits for its
   handler (`tcp_server.go:156`). `tlc -config StopClosesAll.cfg MCTCPServer`.
5. With DDoS protection `Stop` and a handler in need of `s.mu` wait for each other
   (`tcp_server.go:122`). It is the case `NeedsMu` of `StopReturns`.
6. A statement with an idempotency key may be executed more than once, against
   `examples_security.go:57`: after an error that followed its effect, by a retry inside
   `Exec`, or by a second connection. `tlc -config ExecutesOnce.cfg MCIdempotency`.
7. The comparison of IDs in the client (`tcp_client.go:249`) does not make sure that the
   response is the one to the request: a late answer out of the server's cache, put there
   by another client under the same number, passes. `tlc -config AnswersOwnAlways.cfg
   TCPClient`.

Behaviour the models show that is not a finding: the breaker may go from open to closed
and from closed to half-open, edges the diagram in `ARCHITECTURE.md` (lines 161-172)
does not have, when a goroutine acts on a state it loaded earlier (`BreakerCounterInv`
does not forbid them); `RateLimitPerIP` is one request per second whatever its value.
`ipConnections` is never decremented (`tcp_server.go:459`): the bound on live
connections (`PerIPBound`) holds all the more, and an address is locked out once it has
used its connections up. A second `Disconnect`, also of a runtime that was connected
anew, closes the channel of the leak detector again and panics, and the detector of such
a runtime ends as soon as it is started; `OneDetector` is therefore limited to the time
before the first `Disconnect`. A monitor that is started again after `Stop` has a loop
that ends at once, and its next `Stop` panics. `QueryRow` of a runtime that is not
connected returns nil, which `blob.go` scans. `AcquireConnection` may call `Conn` on nil
when it races with `Close`. A caller of `Begin` that calls `Rollback` after a failed
`Commit` releases its slot twice; `Transaction` does not, and `OpenTransactionsBound` is
about it.

* The stored response of an idempotent request carries the ID of the first request, so
  the client refuses it with a mismatch (`tcp_client.go:251`) where
  `examples_security.go:64` expects the cached response.
* As the rows of `Query` and `QueryRow` are cut off, most reads of a result may fail;
  `List` of the blob store in the database may lack rows without an error, because it was
  cut off or because a row could not be scanned (a `NULL` tag, say), and `Exists` may
  answer "no" for a blob that is there, also when the database could not be asked.
* A slow `QueryCached` may store an older result over a newer one; all callers share
  the cached slices; a cache given by `SetCache` without a default TTL keeps a stale
  result for ever. `CacheConverges` is about the cache `NewDBRuntime` makes.
* Which statement `Put` evicts is arbitrary, the comment says "Evict oldest" (`db.go:315`)
  and `ARCHITECTURE.md:235` LRU; a `Put` at capacity evicts also when its query is
  cached; evicted and replaced statements are never closed.
* A crash in the middle of a `Store` leaves torn data, or new data with the metadata of
  its predecessor; nothing is synced. `blob.go` does not keep every content type: what
  is no image comes back without one, `webp` as `jpeg`, and a file name with `png`,
  `gif` or `image/` in it decides instead of the type. `RetrieveReturnsStored` is about
  the types that are kept (`KeepsType`), and nothing in the repository says which. Keys
  that end in `.meta` collide with metadata files. `blobonly`'s `List` and `Stats` use a
  nil `FileInfo` if a file disappears meanwhile. The SQL of the store in the database
  (`INSERT OR REPLACE`, `?`, a column `key`) is not that of PostgreSQL or MySQL.
* `GetStats` reads five counters one by one while they change, divides zero by zero
  before the first query; a failed `Exec` or `Query` outside a transaction counts as a
  successful one.

## Proofs

All theorems are for every value of the constants allowed by the named assumptions,
which only give the constants their types, make sets that are counted finite
(`GateConstants`, `ServerConstants`) and keep markers such as `Nil` apart from real
values: `BreakerConstants`, `RateConstants`, `LimiterConstants`, `GateConstants`,
`RetryConstants`, `WindowConstants`, `CacheConstants`, `ServerConstants`,
`ClientConstants`, `IdempotencyConstants`, `ManagerConstants`, `StatementConstants`,
`BlobConstants`, `ResultConstants`. Every invariant that a passing run checks is a
theorem, and so are the action property `EvictsLeastRecent` and the refinement
`ImplementsTTLMap`. In each module one inductive invariant is shown to hold initially
and to be kept by every action, one lemma per action or kind of action; the theorems
follow from it.

| Module | Theorems (property) |
|---|---|
| `ConnectionGateProofs` | `GateSafety` (of `ConnectionGate` alone); `DatabaseTypes` (`DBTypeOK`), `BreakerConsistent` (`BreakerCounterInv`), `SlotsAccounted` (`SlotAccounting`), `OperationsWithinLimit` (`ConcurrencyBound`), `TransactionsWithinLimit` (`OpenTransactionsBound`); `RateLimiterTypes` (`WindowTypeOK`), `RateLimiterBudget` (`RateBudget`) |
| `InMemoryCacheProofs` | `CacheTypes` (`TypeOK`), `CacheIndex` (`IndexAgrees`), `CacheRecency` (`RecencyOrder`), `StatisticsBalance` (`StatsBalance`), `EvictionIsLRU` (`EvictsLeastRecent`), `CacheIsTTLMap` (`ImplementsTTLMap`) |
| `TCPServerProofs` | `ServerTypes` (`TypeOK`), `WaitGroupExact` (`WaitGroupCounts`), `StopLeavesNothing` (`StoppedIsQuiet`), `AddressLimit` (`PerIPBound`) |
| `TCPClientProofs` | `ClientTypes` (`TypeOK`), `OwnAnswers` (`AnswersOwn`) |
| `IdempotencyProofs` | `IdempotencyTypes` (`TypeOK`), `SuccessExecutesNoMore` (`AnsweredNotRepeated`) |
| `DBRuntimeProofs` | `RuntimeTypes` (`TypeOK`), `NoPoolLost` (`PoolsOwned`), `DetectorPerPool` (`OneDetector`), `WrapperFollowsPool` (`WrapperCurrent`), `CachedStatementsUsable` (`StatementsUsable`), `WrapperFound` (`NilWrapperOnlyAtFirstConnect`) |
| `BlobStoreProofs` | `BlobTypes` (`TypeOK`), `ChangesAreWhole` (`LastChangeWhole`), `MetadataHasData` (`NoStrayMetadata`), `RetrieveIsConsistent` (`RetrieveReturnsStored`) |
| `QueryResultsProofs` | `ResultTypes` (`TypeOK`), `ResultsComplete` (`CompleteResults`) |

The arguments:

* The gate. The bound on running operations is not inductive. It follows from the
  accounting (each running goroutine owns an element of `sem`, or a unit of the counter)
  and from the bound of `sem` or of the counter itself (`LimitBound`); `SemPath` keeps
  goroutines off the semaphore's places when there is none. The lemmas `Move`, `Enter`,
  `Leave` and `Stay` say how one step of one goroutine changes the number of goroutines
  at some places, and `SlotStep` goes through the actions.
* `AdvancedDB` takes the steps of the gate, and steps of its own: a `Commit` or
  `Rollback` records a failure, and so gives a slot back, when the goroutine has long
  left the gate (`SettleStep`). That keeps the accounting only because such a slot is
  there. `CallShape` says at which places of the gate each call can be, and `DBInv` adds
  that there are at least as many kept slots as goroutines whose `Begin` left one behind
  (`KeptBy`); `KeptStep` shows that nothing takes a slot twice. `OpenTransactionsBound`
  then follows from the accounting (`OpenBound`).
* The rate limiter. The invariant is a potential: tokens granted since the window
  opened, plus tokens left, plus the credit of the time since the last refill, are
  bounded by what the bucket held plus the refill of the elapsed time.
* The cache. Map and list agree, and the order of the list is the order of last use of
  its keys (`Structure`); that gives the eviction of the least recently used key and,
  with the mapping `Visible`, the refinement, step by step (`MapStep`). The statistics
  are modular: `WrapSum` shows, from division with remainder, that a counter that
  wrapped may be added as if it had not, and `RemovalCounted` and `InsertionCounted`
  that every change of the list's length is matched by a counter.
* The server. The wait group is one ahead of the handlers between `wg.Add` and `go`
  (`AcceptorCount`), never behind them. `WaitGroupCounts` needs that the connection the
  accept loop has in hand, and no other, has no handler yet (`InHand`). `StoppedIsQuiet`
  needs that a registered or open connection is in the accept loop's hand or has a
  handler that will remove or close it (`Handled`), and that no connection waits for a
  listener that `Stop` has closed (`ListenerUse`): then a wait group of zero, which is
  what `Stop` waits for, leaves nothing. `PerIPBound` follows from `Admitted`: the
  connections served are among those `allowConnection` has counted, and it counts up to
  the limit.
* The client. An ID is drawn for one message (`DrawnIDs`), so a message that was not
  written has left no trace on the connection or in the server's cache (`FreshRequest`).
  Under the lock (`LockHeld`) at most one goroutine awaits an answer (`Awaited`): its
  line is the last one sent, answers of this client with its ID (`Carries`) were sent
  for it, and a response with its ID that the server has stored for its key cannot be
  sent for another line, as there is none left. Steps that bring nothing new on the
  connection are treated at once (`NetShrinks`): timeouts, scanners that drop or tear
  lines, disconnections.
* Idempotency. A key that a handler has answered with success is stored, or the handler
  is about to store it and takes no other request meanwhile (`Remembers`); `Forget` ends
  the claim.
* The runtime. The invariant of the connection manager (`ManagerInv`) is kept by each
  of its operations on its own; `DetectorBudget`, at most one detector per pool that was
  ever opened, bounds their number after `OneDetector` has ceased to speak of it.
  `WrapperUse` says when `r.advancedDB` is that of the manager's pool, and that nobody
  is past `IsConnected` while it was never set, and `StatementsCurrent` that what is in
  the statement cache, and what a `Prepare` under way will put there, belongs to the
  `AdvancedDB` whose cache it is.
* The blob store. The invariant `BlobInv` says of a caller that is alone that nobody
  else changes its key (`AloneAt`), how far its change has come (`StageAt`) or what it
  has read (`ReaderAt`, `TypeKept`); of a settled key that nobody changes it; and of a
  key without overlapping changes that there is one change at a time (`OneChangeAt`) and
  that the order of its steps keeps the data as long as there is metadata (`OrderAt`). A
  step touches one key (`Frame`), so all else is left alone (`Elsewhere`).
  `KeptIsParsed` shows that the search for words finds the types `KeepsType` names.
* Query results. What each place of a call implies about its operation and its rows,
  and that only `List` and `Exists` lose rows (`PlaceAt`), and that a result that was read
  to the end without a noticed error is whole (`CompleteAt`).

Only model-checked: the liveness properties `OpsReturn`, `BreakerRecovers`,
`BucketRefills`, `StopReturns`, `CallsReturn`, `BackgroundEnds` and `CacheConverges`,
since the prover does not handle fairness; and the three violations, which are
counterexamples.

## Not modelled, and the plan

Next, in this order:

1. Action properties and abstract specifications for the parts that have none: what the
   client and the server promise each other across a reconnection, and the life of a
   runtime as its users see it, with the refinements proved from the invariants above.
2. `RecoverConnection` by several goroutines, that is lifecycle calls of a runtime that
   race with each other.

Not modelled, and why: the metrics and the counters of the cache's hits are only
reported, nothing acts on them; `WithRetry` is the loop of `retryExec` around any
function, and the program does not use it; `SetCache` is a plain assignment before the
start in every program of the repository; the configuration is a builder and a parser
of environment variables without behaviour over time; the examples are demonstrations;
the JSON encoding is left to whole, torn and garbage lines. The statements of the blob
store in the database are single statements of the database, seen from `QueryResults`.
