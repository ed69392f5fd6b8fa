# Grok Search MCP: specifications, checks and proofs

Grok Search MCP is one Go process. It offers search tools to MCP clients that carry an
API key, forwards each search to an upstream model, and has a web panel in which users
manage keys and administrators manage users, tiers, invite codes and settings. Its
state is one SQLite database, a second one for debug data, and what the process keeps
in memory: caches, limiters, queues, counters. This directory holds TLA+ models of the
parts that carry state, TLC runs of small instances, and TLAPS proofs.

Paths below are relative to `src/`; `internal/` is left out.

## 1. The system

### A tools/call request

`app/server.go` (`BuildHTTPHandler`) chains, from the outside in:

1. the address limiter (`ratelimit/ip_limiter.go`), before authentication;
2. the resolution of the API key through a cache (`auth/resolver_cache.go`);
3. the per-user rate limiter (`ratelimit/user_limiter.go`);
4. the search concurrency limiter (`ratelimit/search_concurrency_limiter.go`);
5. the success quota (`quota/middleware.go`, `store/users.go`), which reserves one
   successful call of the user's month;
6. the usage middleware (`usage/middleware.go`), which spools debug data, judges the
   outcome, keeps or gives back the reservation, and hands a usage record to the
   asynchronous writer (`store/async.go`);
7. the MCP SDK and the tool (`mcp/tools.go`), which calls the upstream (`grok/`).

Which tool a request calls is decided before step 4 by reading its body
(`usage/middleware.go`, `ExtractToolNameMiddleware`), and again by the SDK.

The writer stores records in batches (`store/sqlite_usage_write.go`); a maintenance
loop rolls raw rows up into hours and days (`store/usage_maintenance.go`) while the
panel asks for statistics (`store/sqlite_usage_stats.go`).

### A panel request

The public endpoints count each request under the address of its client
(`ratelimit/client_ip.go`) and hold it to a rate (`panel/auth_protector.go`). Login
passes Turnstile (`panel/turnstile.go`), when the settings in force ask for it, and the
failed-login protection, and issues a signed token (`auth/jwt.go`); registration passes a proof of work, the registration
mode and invite codes (`panel/registration_*.go`, `store/registration.go`,
`store/invite_codes.go`); administrators change users, tiers, keys
(`panel/admin_*.go`, `store/users.go`, `store/tiers.go`, `store/sqlite_keys.go`) and
server settings, which are stored and then applied to the running components
(`panel/settings.go`, `app/server.go`). Every such change invalidates the key cache.
At the first start, the bootstrap (`app/bootstrap_credentials.go`) creates an
administrator and leaves its password in a file. Lists are read in keyset pages
(`store/pagination.go`, `panel/pagination.go`).

### Inventory

| Component | State | Operations | Hard behaviour | What makes it correct |
|---|---|---|---|---|
| Usage writer | channel, markers, worker's batch, counters | Enqueue, run, collectBatch, writeBatch, discard, Close | Close drains beside the worker; a store that hangs | one end per record, cleaned once and last, Close returns |
| Search limiter | global and per-user counts, limits | tryAcquire, release, UpdateLimits, cleanup | pointer kept across a cleanup; release twice | counts are the searches in flight |
| Success quota | success_calls, success_period, reservation rows | reserve, complete, user deletion | month changes, lost completions, crashes | count is the charged calls; no call beyond the allowance |
| Request pipeline | place of each request, spool files, verdict | the three middlewares | panics, deferred releases, limits changed midway | each request ends balanced; log and quota agree |
| Key resolver cache | shards with LRU lists, flights, generation | Resolve, InvalidateAll, cleanup, Close | loads overlap invalidations; leaders panic | nothing older than an invalidation stays or is answered |
| User and address limiters | bounded maps of buckets, fallback buckets, next expiry | allow, cleanup | late requests, sweeps between lock and bucket | fallback only when really full; rates bounded |
| Login protection | two bounded tables, shared buckets | begin, complete, sweep | concurrent guesses, full tables, stale times | guesses bounded, failures kept |
| Registration | replay table, mode, codes, redemptions, slots | issue, consume, register, administration | seconds of hashing between check and transaction | policy of the commit; limits of codes |
| Accounts and sessions | users, tiers, keys, tokens | login, passwords, revocation, administration | decisions on rows read earlier | a refused session stays refused; an administrator remains |
| Settings and health | stored row, live components, cached health, probe | update, apply, probe, restart | overlapping updates and probes, failures midway | panel shows what is in force; key pairs match |
| Usage history | raw, hourly, daily rows, debug rows, key counters | batches, maintenance, statistics, deletions | three tables, two databases, few connections | every call counted once |
| Bootstrap | credential file, account | start, password change | stops and power failures | the password is never lost |
| Upstream search | settings of the client, per-search parser and counters | search, post, read events, continue, conclude | three protocols, limits, broken or padded streams, settings changed midway | an answer is one the upstream finished; one upstream per search |
| Tool routing, response recorder | per-request: the name found, inspector, spool | inspect, serve; write, finish | two readers of one body; writes cut anywhere | the tool that runs is the one that was counted; the verdict depends on the bytes alone |
| Turnstile | admission slots, the login's reading of the settings | page, read, verify, classify | settings change between page, login and call; the service fails | judged by settings in force, fails closed, slots come back |
| Endpoint buckets, client address | bounded table of buckets, shared buckets | resolve, find, reserve, cancel, sweep | late times, full table, headers anybody can write | each client counted as itself and held to its rate |
| Record pages | none; the cursor is the browser's | list a page | rows come and go between pages, many in one second | no row twice, none missed that stayed |
| Metrics, configuration, migrations, key crypto, wiring, browser code | small or none | | | not modelled (section 8) |

The hazards, each at its line with the properties that would notice it, are listed in
`PROJECT.json`.

## 2. Modules

| Module | Source | Extends / uses |
|---|---|---|
| `AsyncUsageWriter` | `store/async.go` | implements `UsageLedger` |
| `UsageLedger` | what the writer promises | |
| `McpCallers` | requests and their users, shared by the next three | |
| `SearchConcurrencyLimiter` | `ratelimit/search_concurrency_limiter.go` | `McpCallers` |
| `SuccessQuota` | `store/users.go` 361-459 | `McpCallers` |
| `McpRequest` | the three middlewares in the order of `app/server.go` | composes the two above |
| `ToolRouting` | `usage/middleware.go` 108-140 and 435-559, beside the SDK, external | |
| `CallRecorder` | `usage/response_inspector.go`, `usage/debug_capture.go`, the recorder of `usage/middleware.go` | |
| `GrokSearch` | `grok/*.go`, `runSearch` of `mcp/tools.go`, beside the upstream, external | implements `SearchPromise` |
| `SearchPromise` | what a search tool promises its caller | |
| `SearchCall` | a search call from the first middleware to the upstream and back | composes `McpRequest` and `GrokSearch` |
| `AuthCache` | `auth/resolver_cache.go` | |
| `TokenBucket` | `golang.org/x/time/rate`, external | |
| `UserLimiter` | `ratelimit/user_limiter.go` | `TokenBucket` |
| `IPLimiter` | `ratelimit/ip_limiter.go` | `TokenBucket` |
| `LoginProtector` | `panel/auth_protector.go`, `panel/session_handlers.go` | |
| `Registration` | `panel/registration_pow.go`, `registration_handlers.go`, `store/registration.go`, `store/invite_codes.go` | |
| `ClientAddress` | `ratelimit/client_ip.go` | |
| `AuthEndpoints` | `panel/auth_protector.go` 288-451 and 685-717 | `ClientAddress` |
| `RecordPages` | `store/pagination.go`, `panel/pagination.go`, the `List*Page` queries | |
| `PanelAccounts` | `store/users.go`, `tiers.go`, `sqlite_keys.go`, `auth/jwt.go`, panel handlers | |
| `ServerSettings` | `panel/settings.go`, `panel/overview_health.go`, `store/sqlite_settings.go`, `app/server.go` | |
| `Turnstile` | `panel/turnstile.go`, `verifyLoginTurnstile` of `panel/session_handlers.go`, beside the siteverify service, external | `ServerSettings` |
| `UsageHistory` | `store/sqlite_usage_*.go`, `sqlite_debug.go`, `usage_maintenance.go` | |
| `Bootstrap` | `app/bootstrap_credentials.go` | |
| `McpRequestProofs` | theorems about the limiter, the quota, the chain, the search call, the search, its refinement of `SearchPromise`, and the response recorder | `SearchCall`, `CallRecorder`, TLAPS |
| `AsyncUsageWriterProofs` | about the writer, its refinement of `UsageLedger`, the routing, and the usage history | `ToolRouting`, `UsageHistory`, TLAPS |
| `ServerSettingsProofs` | about the settings, Turnstile and the bootstrap | `Turnstile`, `Bootstrap`, TLAPS |
| `AuthCacheProofs` | about `AuthCache` and `LoginProtector` | `AuthCache`, `LoginProtector`, TLAPS |
| `RegistrationProofs` | about `Registration`, `AuthEndpoints` and `RecordPages` | the three, TLAPS |
| `PanelAccountsProofs`, `UserLimiterProofs`, `IPLimiterProofs` | about the module of that name | TLAPS |
| `MC*` | the instance TLC checks | |

`PROJECT.json` maps every definition that stands for code to its lines. Each
`Name_Something` operator before a definition `Name` is a mutant of it: the code with a
plausible mistake. For every property of every run one mutant is named that TLC
refutes, so none of the properties holds whatever the code does.

### What a step is

A step is what nobody else can observe halfway: a critical section, a channel
operation, one database transaction, one call that leaves the process. SQLite is opened
with a single write connection (`store/sqlite.go`), so a write transaction is one step;
where a handler reads before it writes, as all handlers do that authenticate from the
read pool, the read and the write are separate steps. Where the code reads the clock
before it waits for a mutex, the clock and the critical section are separate steps, so
that a request may act with a time that is already past: this is the case in the quota,
the two rate limiters, the endpoint buckets, the login protection and the replay table.

### How state corresponds to the code

* **AsyncUsageWriter.** `ch` is the channel, `accepting` the flag under `enqueueMu`,
  `queuedAt` the markers under `queueStatsMu`; `pc` has one place for the worker (`run`,
  `collectBatch`, `writeBatch`, `discardQueuedRecords`) and one for `Close`. `batching`
  says whether the store has `RecordUsageBatch`. Histories (`written`, `failed`,
  `dropped`, `cleanups`) say what became of each record. `WriteReturns` is the store
  call: it may never come.
* **SearchConcurrencyLimiter.** `entries` is the map of users, `active` the counter
  behind each pointer, `leaseEntry` the pointer a release closure keeps.
* **SuccessQuota.** `ReserveBegin` reads the month, `ReserveGrant`/`ReserveRefuse` are
  the transaction. A completion deletes the reservation row and, for a failed call,
  subtracts one if the month is still the same. `QuotaCrash` loses requests, not
  tables. `regressed` marks users whose month a late reservation has set back.
* **McpRequest.** `pc` runs through arrived, admitted, reserving, reserved, tool, judged,
  completing, record, leaving, done. A panic takes the deferred branch of
  `usage/middleware.go` 239-252: completion without a record, spool files removed, the
  panic raised again through the outer `defer`s.
* **ToolRouting.** `body` is the sequence of the fields that take part in routing, with
  their spelling, and a size; `extracted` is the name in the request's context, `executed`
  the tool the SDK runs. Of several fields with one name the SDK may take any.
* **CallRecorder.** `inspector` and `spool` are the structures of those names; a response
  is a sequence of pieces (`data:`, two halves of an error, anything else, newlines) cut
  into writes anywhere.
* **GrokSearch.** `settings` is what a save replaces, `snap` the search's copy
  (`clientSnapshot`), `wire` the request, `posts` where each POST went with which key,
  `body` what the upstream has sent, `parser` what the parser of the protocol has made of
  it, `result` what `SearchStream` returns. An event is a unit of a response's size.
  `KeepsPromise` reads `said` from the body and `status` from `phase` and `result`.
* **SearchCall.** The SDK runs `runSearch` on a goroutine beside the handler that waits
  for it. `marker` is the `ToolOutcomeMarker` of the call, which `MarkOutcome` sets once the
  search has ended. The handler may return before: with the result (`SearchReturns`), with
  nothing, because the client is gone (`LeavesEarly`), with an error of the SDK
  (`SDKRefuses`), or in a panic (`HandlerPanics`). Histories: `told` says which of these it
  was, `seen` what the usage middleware then found in the marker. The search goes on, and
  marks its outcome, behind a handler that did not wait.
* **AuthCache.** What the store says is a version number; a snapshot carries the version
  of its first read. `inFlight` maps a hash to its flight, `flightDone` are the closed
  channels. `InvalidateAll` is one step for the generation and one for each shard;
  `removeExpiredEntries` is a step for each entry it removes.
* **UserLimiter, IPLimiter.** `req` is where a goroutine is: before the lock, or after it
  with the bucket it found. `entries`, `fallback` and `nextExpiryCheck` are the fields of
  the same names; `maxLag` is how late a request may reach the lock. Meters are
  histories of the grants beyond the configured rate.
* **LoginProtector.** `entries` holds both tables and the shared buckets, `nextExpiry`
  the recorded next sweep, `held` the two reservations of an attempt.
* **Registration.** `usedChallenges` is the replay table, `codes`/`redemptions`/`users`
  are rows, `passwordWork` the slots of `AuthProtector`.
* **ClientAddress, AuthEndpoints.** An address is a host and the way it is written.
  `dedicated`, `shared`, `nextExpiry` and `lastSweep` are `entries`, `fallbackLimiters`,
  `nextExpiryCheck` and `lastCleanup`; `call` is where a goroutine is: before the mutex,
  with its bucket, or with a reservation to cancel. A limit of zero, which switches the
  bucket off, is left out.
* **RecordPages.** `rows` is the table of one list, `reader` a browser with its cursor and
  what it was shown; `steady` is a history of the rows that stayed.
* **PanelAccounts.** `row`, `tierState`, `defaultTiers`, `key` are tables; `tokens` every
  token ever issued; `seen` the row a request has read and decides on.
* **ServerSettings.** `saved`/`revision` are the row, written by an update that goes on
  (`Persist`) or that answers with an error although the row is stored (`PersistFails`);
  `unannounced` is a history: the row was written after the health cache was last emptied.
  `upstream`, `limits`, `metrics`,
  `live` the revision each running component has; `holder` is the update mutex;
  `cached`, `inFlight`, `generation` the health cache.
* **Turnstile.** `login` is where a login is, with the settings its page was told and the
  ones its handler read; a secret is named after its site. `slots` counts the tokens in
  `admissionSlots`.
* **UsageHistory.** `raw`, `hourly`, `daily`, `debug` are tables, `writer` the batch in
  progress, `pass` the maintenance, `view` the statistics in progress: a request reads its
  clock (`StatsBegin`, `end`) and takes its snapshot with the first query
  (`StatsSnapshot`, `taken`), since the transaction is deferred; `inMemory` says that both pools are one connection (`:memory:`).
* **Bootstrap.** `fileImages` and `dbImages` are what a power failure may leave: the
  file before `fsync` of file and directory, the database at an earlier commit of the
  write-ahead log (`synchronous = NORMAL`).

## 3. What the runs check

Every run takes its instance from an `MC` module and a `.cfg`. Four devices keep the
instances small without hiding the interesting cases:

* **Numbering.** Interchangeable requests, keys, sites, passwords are numbers, and an
  action constraint (`NumberedOnArrival`, `NumberedOnCreation`, `PasswordsInOrder`,
  `FirstKeyFirst`) makes them appear in order. Behaviours are lost only up to a
  renaming. Where no liveness is checked `SYMMETRY` does the same.
* **Edges.** A state constraint `OneEdge` keeps a behaviour within one of several
  families, each of which holds some dimension still (for instance: sessions against
  passwords, keys against deletions of users, tiers against users). The families are
  written down in the `MC` module; the product of all of them is not explored.
* **Configurations as variables.** What the program fixes at start (`batching`,
  `missMaxConcurrent`, `inMemory`, `maxLag`) is chosen in `Init` and never changes, so
  one run covers all configurations. Three runs (`mcp_request`, `server_settings`,
  `registration`) choose a `part` in the same way: modules that share no steps are
  explored one after the other, each from its own initial states.
* **Compound invariants.** An invariant such as `WriterInv` is a conjunction of named
  parts, each of which is commented where it is defined.

The bounds are CONSTANTS with a name: `Buffer`, `BatchSize`, `ShardCapacity`,
`MissLimits`, `MaxUsed`, `MaxWork`, `MaxSources`, `MaxUsernames`, `MaximumEntries`,
`MaxKeys`, `MaxEvents`, `MaxRounds`, `MaxAnswer`, `MaxCitations`, `MaxContinuations`,
`AdmissionSlots`, `MaximumAddresses`, `SpoolLimit`, `InspectionLimit` are limits the code itself has, set to the smallest value at which one request
fills them and another meets them full; `MaxTime`, `EndTime`, `MaxPeriod`, `MaxVersion`,
`MaxRevision`, `MaxRecords`, `MaxCrashes`, `MaxFailures` cap counters that grow without
end in the program, and the guards that use them are the only guards without a
counterpart in the code.

| Run | Instance | Properties | What it shows |
|---|---|---|---|
| `usage_writer` | 3 records, channel of 1, batches of 2, batching and single-record stores, metrics on or off, a `Close` that cancels at any point | `WriterInv`, `RefinesLedger`, `CloseReturns`, `OfferedIsSettled` | each record meets one end: written, failed or dropped; its spool files are removed once, after that end; the writer implements `UsageLedger`; `Close` returns even when the store hangs; with a store that answers, all that was offered is settled |
| `mcp_request` | the chain with 2 requests (two searches, or a search and a listing); alone the limiter with 4 searches of 2 users, the quota with 3 calls over 2 months, the routing with bodies of up to 3 fields, the recorder with responses of 6 pieces | `LimiterInv`, `QuotaInv`, `McpInv`, `RoutingInv`, `RecorderInv`, `DecidedByTheCounts`, `PermitReturned` | counters equal the permits and charges that exist; a tool runs only with both; a request ends with nothing in its hands, after a panic too; a record that is written agrees with the charge; the tool the SDK runs is the one that was counted, however the body is written; the verdict on a response does not depend on how it was cut into writes; every permit comes back if tools end |
| `search_call` | one call of one user, one allowance, an upstream of each of the three protocols that sends up to 4 events, one change of the settings | `SearchInv`, `ChargedForAnswers`, `KeepsPromise`, `CallEnds` | an answer is exactly what the upstream finished, with its whole price; half a stream or an announcement of work is never returned as one; a search keeps to one upstream and its key; limits hold; whenever the handler returns, refuses or panics, the allowance pays for finished answers only, or for a client that left before the outcome was known; a delivered answer is never given back; the call ends unless the upstream falls silent for ever |
| `auth_cache` | 3 requests, 2 keys in one shard of 1 entry, 1 or 2 load slots; or 2 requests with one key beside 2 administrators | `AuthInv`, `AnswersFresh`, `EveryResolveReturns` | nothing read before an invalidation stays in the cache after it; a `Resolve` that began after an invalidation answers with what was written before it; the LRU list and the map agree; `Close` and failing loads leave nobody waiting |
| `registration` | 2 registrations against changes of mode and code; 3 requests with 3 challenges around expiry and a replay table of 2; 2 requests of 2 clients at an endpoint with one place, direct and late or through a proxy, with every kind of header; a list of up to 5 rows in 2 seconds, leafed by ones and twos | `RegInv`, `EndpointInv`, `PagesInv`, `PolicyAtCommit` | a user row appears only under the mode and the code as they are at the commit; an accepted challenge stays remembered as long as it is valid; codes keep to their limit; a client is counted as itself whatever headers it writes, its bucket is not dropped while in use, and it gets at most two bursts beyond the refill; pages show no row twice and miss none that stayed |
| `login_protector` | 3 logins of 2 names from 2 addresses, tables of 2 and 1, a shared bucket, threshold 2 | `LoginInv`, `GuessesBounded` | concurrent guesses of one name never exceed the threshold in a window; a sweep never forgets failures that still count; entries count their holders; every expiry is scheduled |
| `login_shared_bucket` | 4 logins of 3 names, the name table full | `LockedByOwnFailures` (violated) | section 7 |
| `panel_accounts` | 2 requests of 2 users, 2 passwords, or 2 keys, or 2 tiers | `AccountsInv`, `RefusedForEver` | an enabled administrator remains through concurrent demotions and deletions; a token once refused is refused for ever; an accepted one stands for the present password; keys have owners, users have tiers, one tier is the default |
| `server_settings` | 2 administrators with 2 site keys; or health requests with 2 probes beside one; or 2 logins with 1 admission slot beside one; or the bootstrap with 2 stops and 2 failures | `SettingsInv`, `TurnstileInv`, `BootstrapInv`, `RequestsEnd`, `BootstrapOrTornFile` | merging a form into what is saved never pairs a site key with the secret of another; a known health is of the settings in force at every point of an update, also after a write that answered with an error; the panel shows what is in force, and what is stored without being in force as diverged; a login is judged by settings that were in force during it, fails closed, and a browser that did everything right is not blamed; updates, health requests and logins end; the password of an enabled bootstrap administrator is in the file or known after every stop, and starting again ends with an administrator or a file that is recognisably incomplete |
| `usage_history` | 2 keys, 2 calls, 1 reader, hours of one tick, days of two, the file database or `:memory:` | `HistoryInv`, `StatsInv`, `NoConnectionDeadlock`, `DebugLeavesWithRaw` | each call is in exactly one of the raw, hourly and daily tables until it expires, through failed passes, late batches and restarts; totals of a request count it once, and so does the chart when it ended before the request read its clock; debug rows leave with their record; no connection is waited for by the goroutine that holds it |
| `user_rate` | 2 users, a registry of 1, 1 fallback bucket, requests up to one tick late, or RPMs 0 to 2 | `RegistryInv`, `BucketsInv`, `FallbackOnlyWhenFull` | the `nextExpiryCheck` shortcut never hides an expired entry; no bucket is dropped while a request uses it; no sequence of moves and RPM changes gives a fresh burst |
| `ip_rate` | 3 addresses, 2 shards of 1, 1 shard per sweep | `IPLimiterInv`, `ShardFallbackOnlyWhenFull` | the round-robin sweep removes idle entries in bounded time also where nobody calls; moving between buckets grants at most two bursts beyond the refill |

Why these bounds are enough to be interesting: every table that has a limit is filled
and met full; every pair of a stale read and a write by somebody else occurs; three
actors are present wherever one must overtake two others (a cleanup behind a lease
behind a release, a second invalidation during the first one's sweep of the shards); the
clock passes every deadline a module mentions. The mutants give the same evidence from
the other side: each removes one guard, reset or ordering, and the run refutes the
property it was written for.

Three bounds need a word. In `search_call` only a plain search is followed through the
response, since the parsers never look at the request; what requests ask for is checked
up to the first POST. In the same run a handler returns early before the response or at
its first event, which is before and after the search has read anything, and the search
goes on only when the chain is done (`EarlyBounds`): nothing in the chain looks at the
search again. The theorem about it has no such bound. In the endpoint part a bucket's debt is kept to one token: refused
requests that overlap can go deeper, with the same consequences (section 7); the proof of
`EndpointInvariant` has no such bound.

`CHECK_DEADLOCK FALSE` stands where the system may come to rest: all requests done
(`mcp_request`, `search_call`, `auth_cache`, `login_protector`) or a server that runs
and is not stopped any more (`server_settings`).

## 4. Fairness

* **`Spec` of AsyncUsageWriter.** The scheduler runs the worker and `Close`, and the
  five-second timer of `Close` fires. A store call owes nothing: its context has a
  deadline that a store may ignore. `CloseReturns` therefore holds with a store that
  hangs, while `OfferedIsSettled` states its condition, a store that answers, itself.
* **`McpFairSpec`** (and `MCSpec`, which adds the components alone). A goroutine that
  can go on does, and a completion ends because its context has two seconds. The tool owes
  nothing: `grok/client.go` bounds dialling, handshake and headers, and nothing bounds how
  long an upstream keeps a response open. `PermitReturned` therefore states its condition,
  that tools end, itself.
* **`CallFairness`** of SearchCall. The middlewares and the tool run on and a POST gets its
  headers or fails, which the transport's timeouts see to; nobody has to leave early.
  `CallEnds` has the condition
  that the upstream, or a caller who leaves, does something some time.
* **`AuthFairSpec`.** A `Resolve` that has begun goes on; nothing obliges a request or an
  administrator to begin.
* **`SettingsFairSpec`.** Handlers run on; a probe has five seconds. Strong fairness
  stands on `AnswerFromCache` only: a request that a probe has woken looks at the cache
  again well within the thirty seconds an answer stays there, so it is not for ever
  overtaken by the expiry.
* **`LoginFairness`.** A login's handler runs on; the call of the siteverify service ends,
  because its client has a timeout of eight seconds.
* **`BootstrapFairSpec`.** A supervisor starts the server again and a started server
  goes on. Stops and failures are bounded.

The other specifications have no fairness and no liveness properties. Where liveness is
checked together with a state constraint (`auth_cache`, `server_settings`), it is
checked along the edges that the constraint leaves.

## 5. What is proved

TLAPS checks the theorems in the eight `*Proofs` modules, for all values of the
constants that satisfy the named assumptions. TLC evaluates the same assumptions on its
instances. What they say beyond the types of the constants:

| Assumption | Says |
|---|---|
| `LimiterAssumption`, `QuotaAssumption` | finitely many requests, each of one user; concurrency limits are at least 1, the monthly limits are naturals |
| `CallAssumption` | the caller of the search is one of the requests |
| `SearchAssumption` | settings and requests have the fields of their structures, announcements are pieces of text, limits are naturals |
| `RecorderConstants` | positive limits |
| `HistoryConstants` | a day is a number of whole hours; retentions are whole days and in the order that `UsageRetentionPolicy.Validate` asks for; ranges begin within the time that is modelled |
| `WriterAssumption` | finitely many records; room for one in the channel and in a batch |
| `RoutingConstants` | the fields of a body stand in an order; the size limit is not zero |
| `AuthCacheAssumption` | a key has one shard; room for one entry in a shard and for one load |
| `LoginConstants` | finitely many attempts; names, pairs and shared buckets are different keys; a positive threshold and window, room in each table |
| `RegistrationConstants` | finite sets; positive validity, interval and sizes |
| `PagesConstants` | ids and seconds are naturals; a second has an instant, a page has a row |
| `EndpointConstants` | positive numbers; the idle time (30 minutes) is more than two ticks and refills two bursts (a burst is what one minute refills) |
| `AddressConstants`, `ArrivalsAssumption` | a proxy's address is no client's; a client connects directly or through a proxy that replaces one of the two headers with the client's address; the other is whatever the client wrote |
| `AccountsConstants` | finitely many users, tiers and keys; the bootstrap user and the first tier exist |
| `UserLimiterAssumption` | finitely many users; a largest RPM; a request reaches its bucket within less than half of the idle time; the idle time (30 minutes in the code) is at least two minutes |
| `IPLimiterAssumption` | finitely many addresses; the same delay; at most all shards in one sweep (4 of 64); the idle time (5 minutes) is at least two minutes |
| `SettingsConstants`, `TurnstileConstants` | no site is the absent one; finitely many logins, at least one slot |
| `BootstrapAssumption` | a drawn password is none that a person chose |

**The limiter and the quota** (`McpRequestProofs`).

* **`LimiterInvariant`: `LimiterSpec => []LimiterInv`.** That the counters equal the
  leases (`CountersAreLeases`) is not inductive: a release decrements through the
  pointer its closure kept, and a cleanup may have removed the entry in between.
  `LeasePointsToEntry` says that an entry with a live lease is never removed from the
  map, `EntryOwner` that an entry belongs to one user. Finite-set lemmas
  (`GrantLeases`, `ReleaseLeases`, `OtherLeases`) say how each action changes the set of
  leases; each action has one lemma.
* **`LimiterDecidesByLeases`.** From it: a search is admitted only within both limits
  and refused only when one of them is reached, counted in leases that exist.
* **`QuotaInvariant`: `QuotaSpec => []QuotaInv`.** The count of a user's month equals
  the calls charged to it. `RowsAreCharges` ties reservation rows to charged calls, which
  a rollback needs to subtract what was added; `MonthsOrdered` says that a stored month
  is never ahead of the clock, and that the one way for a month to go back, a late
  reservation, is remembered in `regressed`. For users so marked the count may be too low
  but never too high (`NeverOvercharged`).
* **`QuotaDecidesByCharges`.** A call is granted only within the allowance of the
  month it is charged to and refused only when the allowance is used up.

**The chain and the search call** (`McpRequestProofs`).

* **`ChainInvariant`: `McpSpec => []McpInv`.** Each step of the chain is a step of the
  limiter or none (`ChainUsesLimiter`), and the same for the quota (`ChainUsesQuota`), so
  their invariants hold in it. `ChainInv` adds `Placed`: what a request has of permit,
  reservation and record at each place of its `pc`. One lemma for each stretch of the
  way (admission, reservation, tool, completion, way out).
* **`ChainKeepsCounts`, `ChainDecidesByTheCounts`.** The counters of both components, and
  every decision of theirs, are exact in the composed chain too.
* **`CallChargedForAnswers`: `CallSpec => []ChargedForAnswers`.** The search may go on after
  the handler has returned, so the call cannot be compared with the search as it is.
  `AnswerInv` compares it with the marker: unknown, or what the search, which then has
  ended and stays as it is (`EndedStays`), came to (`MarkInv`). From what the handler
  returned with and what was seen of the marker then it follows the verdict through
  judging, settling and logging (`JudgedRight`, `SettledRight`, `RecordedRight`). The
  upstream may do anything.

**The search** (`McpRequestProofs`).

* **`SearchInvariant`: `SearchSpec => []SearchInv`**, and **`CallSearchInvariant`**, the same
  within the chain. The upstream sends any of its events in any order. A parser is one of
  `Parsers`, those within their limits, before and after each event (`EventWithin`), each
  citation of it (`CitationsWithin`) and the end of the response (`ResponseWithin`).
  `PostsOfSnapshot` says that all requests went where the snapshot says and how many they
  are at each place; `CallsReported` that the notifications of the response being read are
  the calls its parser has seen, and those of the earlier ones at most `MaxRounds` each.
* **`SearchKeepsPromise`: `SearchSpec => KeepsPromise`**, and **`CallKeepsPromise`**, the
  refinement of `SearchPromise`, alone and within the chain. What the upstream has said is
  read off the response as a whole; `ReadInv` joins it to the parser, which reads event by
  event: what a parser that has not failed holds is the text, the sources, the calls, the
  price and the end of the response so far, one statement for each protocol
  (`ChatHasRead`, `AnthropicHasRead`, `ResponsesHasRead`). An event keeps it, for any
  event (`ChatReads` and its two kin), and so the answer is what was said
  (`ResponseSaid`). An event that ends the reading announces no call
  (`FailureKeepsCalls`). `PromiseSteps` maps every step to one of the promise or to none.
* The parsers are folds, and the provers have no induction for what a fold computes. A fold
  of the community modules is a function on sets of positions that is only *chosen*; that
  there is one (`FoldFunctionExists`), and what it does from each position to the next
  (`FoldSteps`), follows from the smallest position where it would fail.

**The recorder** (`McpRequestProofs`).

* **`RecorderInvariant`: `RecorderSpec => []RecorderInv`.** The inspector has captured the
  inspected prefix, has reported the lines of it that have ended, and holds the one that
  has begun (`HasInspected`). A piece keeps this (`PieceInspected`), so a write does, however
  long it is (`InspectedByPieces`), and the last, unended line is judged at the end
  (`VerdictOfText`). Where the writes were cut does not occur in it.

**The usage log** (`AsyncUsageWriterProofs`).

* **`WriterInvariant`: `Safety => []WriterInv`.** That a record ends once is not inductive.
  `IWriter` says where records are (`Placement`: in the channel, in the batch or in one
  goroutine's hands, and in one of them only), what has become of those in each place
  (`Fates`) and what goes with each control point (`Control`). No counter says more than
  the records it counts, with what `writeBatch` is about to add to it (`CountersFit`); the
  markers are those of the channel and of a goroutine between a receive and its mark
  (`MarkersFit`).
* **`WriterImplementsLedger`: `Safety => RefinesLedger`.** Under the mapping `Fate` each
  step is one of `UsageLedger` or invisible to it (`WriterSeen`, one lemma for each kind of step);
  the bound on the backlog comes from `Placement` (`BacklogBounded`).
* **`RoutingInvariant`: `RoutingSpec => []RoutingInv`.** `FieldOnceAndExact` says that a
  field found once and in its exact spelling is the one that any reader finds, hence
  `InspectionNamesTheTool` and `OnlyTheAmbiguousIsRefused`. `IRouting` carries both.
* **`HistoryInvariant`: `HistorySpec => []HistoryInv`.** A rollup row says how many calls it
  counts, not which; a pass adds numbers. The invariant says which: the committed calls are
  split over raw rows, hours and days so that every row of a rollup is the number of the
  calls of its key and hour, or day, and what is in none of the three is older than the last
  retention (`Split`, `Placed`). Moving a bucket moves its calls (`CompactRawUsageHour`,
  `CompactHourlyUsageDay`); sums of rows are then sizes of sets of calls. `PassSearches`
  says how far the pass has come, so that a phase that ends has left nothing behind, and
  `CheckedKeys` what the writer may still insert for a key that is gone.
* **`StatsInvariant`: `HistorySpec => []StatsInv`.** What a request has read is a split of the
  calls of one moment (`SnapshotOf`), whatever the pass does afterwards. That moment is not the
  one of its clock: the chart's buckets and the calls later than the clock make up the
  total. The limits of the
  chart's buckets and the bucket of a time come from two different divisions; they fit for
  every length of the range, also where it is shorter than eight ticks.
* **`DebugRowsLeaveWithTheirCalls`: `HistorySpec => []DebugLeavesWithRaw`.** From `PassComplete`:
  when the debug rows go, the raw rows older than the cutoff have gone.

**The panel and the settings.**

* **`AccountsInvariant`: `AccountsSpec => []AccountsInv`.** A login may issue a token long
  after it read the row. Rows age (`RowsAge`): role, password and the enabled flag change
  only with a higher version. So a token, and the row a login holds, is of an older
  version or agrees with the row (`Agrees`), and the handlers, which all go through a few
  store operations (`HandlersUseTheStore`), keep this.
* **`RefusedStaysRefused`.** From `RowsAge`: a refused token is refused for ever.
* **`RegInvariant`: `RegSpec => []RegInv`.** `WorkIsHashing` makes the slot counter the
  number of requests that hash. `ReplayInv` needs `ClockWasRead` (a request's time is
  not in the future) and `IssuedBeforeUse`, so that a sweep at time *t* cannot remove a
  challenge a slower request may still find valid. `InviteInv` needs `RedeemerEnded` and
  `AbsentIsUnused`: a name redeems once, and a code that was deleted and made again
  starts from zero.
* **`RegPolicyAtCommit`.** A new user row obeys the mode and code of the transaction.
* **`SettingsInvariant`: `SettingsSpec => []SettingsInv`.** `IUpdates` says who holds the
  mutex (`MutexInv`), how far the new revision has come at each stage (`RevisionsInv`) and
  that a form's site and secret fit what it was filled from (`FormsInv`). `IHealth` says it
  of the health cache: what is cached, or held by a probe of the present generation, is
  of the settings that are live, at all times (`SoundInv`), and of the stored row, unless
  that was written after the cache was last emptied (`RowInv`). A publication changes what
  is live and empties nothing. Before it the stored revision is ahead of the live one and
  the cache has been emptied, so a known health would be of both and there is none
  (`PublishKeepsHealth`).
* **`TurnstileInvariant`: `TurnstileSpec => []TurnstileInv`.** The page and the reading of
  a login are snapshots of their time: of an older revision, or what is live. Two of the
  same revision are therefore the same, which is why a browser that solved the challenge
  of its page is refused only if the settings changed. The steps of `ServerSettings` reach
  a login only through the live revision (`SettingsMove`).
* **`BootstrapInvariant`: `BootstrapSpec => []BootstrapInv`.** Over all images a power
  failure may leave: the password of an enabled administrator is known or stands,
  synced, in the file (`KnownOrInTheFile`), unless a start has taken over a file that was
  never synced. The file is removed only when every image has a known one.

**The API key cache** (`AuthCacheProofs`).

* **`AuthCacheInvariant`: `AuthSpec => []AuthInv`.** A load under way may have read the
  store before a change. It is harmless because of `LoadsCurrent`: while the generation is
  still the one it began in, no invalidation has begun since, so it has read every change
  whose invalidation has begun. `ShardsCleared` says that an invalidation leaves nothing
  older in the shards behind it. `Registered`, `FlightsLed` and `FlightsEnd` say where a
  flight is registered at each step of its leader: one load per key, and nobody left by
  `Close`. The lists of the shards rest on lemmas about removing one position of a
  sequence (`RemoveAtShifts`, `WithoutList`, `FrontList`).
* **`AuthAnswersFresh`.** An answer is not older than the invalidations that were over when
  the request, or its flight's leader, began (`Outcome`).

**The login protection** (`AuthCacheProofs`).

* **`LoginInvariant`: `LoginSpec => []LoginInv`.** An operation works on tables that a sweep
  and a full table may have changed since the attempt reserved. `HeldExactly` says that an
  entry counts the attempts that hold it, no more, so what is held is never swept;
  `Reserved` that an attempt holds one name and one pair from its claim until it ends;
  `FailuresHeld` that a failure within the window is the last one of its key's entry, which
  therefore does not go. `WellKept` says of a table that it keeps its bound, that its entries are sane and
  that every expiry is scheduled.
* **`ConcurrentGuessesBounded`: `LoginSpec => []GuessesBounded`.** While more than one
  attempt on a key is in flight, they and the failures that still count stay within the
  threshold together: a claim is refused where they would not (`Crowded`), and a failure
  turns one into the other.

**The public endpoints** (`RegistrationProofs`).

* **`EndpointInvariant`: `EndpointSpec => []EndpointInv`.** `IPlaces` gives the table: the
  entry a request holds was seen at a time that no request in flight finds expired, so
  neither sweep takes it; a sweep, or an entry added, leaves the next check within reach
  of every expiry, but for the lateness `lagBound` of a request. That a request is counted
  as itself follows from what a proxy replaces (`FoundItself`). `Metered` gives the rates
  when requests are not late. A bucket may be in debt, for any number of overlapping
  refusals: their reservations stand in a row a token apart (`InDebt`), and a meter with
  what its bucket holds, or would hold after a cancellation, stays within the bound
  whichever of the row is given back (`Covered`, `CancelCovers`). A host moves between its
  own bucket and a shared one: while it may still use the shared one, its own leaves room
  for what that one has given (`HostBound`); without an entry its meter is within that of
  the shared bucket; and an entry that expires has had the time to drain its meter.

**The pages** (`RegistrationProofs`).

* **`PagesInvariant`: `PagesSpec => []PagesInv`.** Rows are in a strict order (`RowsAreOrdered`).
  The k-th row has k - 1 before it (`Ranks`), which puts a set of rows in order without
  an induction (`InOrderSorts`). A page is the first rows behind the cursor, and of the
  others each comes after its last one (`PageIsFetched`). What was shown is in order and ends
  at the cursor (`CursorIsLast`), so the next page comes after all of it, and a row that was
  there all the time is behind the cursor or was shown (`PassedIsShown`).

**The rate limiters.**

* **`RegistryInvariant`: `UserLimiterSpec => []RegistryInv`.** The registry never exceeds
  its maximum and `ExpiryCheckSound`: before `nextExpiryCheck` nothing is expired, also
  when requests take the lock with a time that lies behind (`LagIsNatural`).
* **`FallbackIsLastResort`**, and **`ShardFallbackIsLastResort`** for addresses. A client is
  sent to a shared bucket only when the registry, or its shard, is full of entries that are
  not expired at the request's own time.
* **`BucketsInvariant`: `UserLimiterSpec => []BucketsInv`.** `IStays`: an entry used by a
  request in flight was seen less than half the idle time ago, so no sweep takes it.
  `Metering` bounds the rate of runs whose requests are not delayed, without an induction
  over time: what a meter has left of its
  excess is covered by what its bucket lacks, and both fall together as the clock goes
  on. When a user moves to a shared bucket, or back, the bucket left behind is accounted
  for until it is full (`BothMetered`).
* **`IPLimiterInvariant`: `IPLimiterSpec => []IPLimiterInv`.** The same for addresses
  (`Metered`), and `Due`: an entry's age, the shards the round robin has before it and the
  next sweep together stay within the time after which it has to be gone.

## 6. What is only model-checked

* Everything under fairness: `CloseReturns`, `OfferedIsSettled`, `PermitReturned`,
  `CallEnds`, `EveryResolveReturns`, `RequestsEnd`, `BootstrapOrTornFile`. Temporal proofs
  from fairness need `ENABLED`, which the installed provers do not handle.
* `NoConnectionDeadlock`, which asks with `ENABLED` whether a waiting goroutine can go on.

## 7. Finding and observations

**A finding.** `ADVANCE_README.md` line 459 says "Login-failure state has no shared
fallback because collisions could lock out unrelated users." The code has one for
usernames: with the name table full, `reserveUsernameFailureLocked`
(`panel/auth_protector.go:549`) counts failures in `usernameFailureFallbacks`, which
several names share and which locks like any entry. The run `login_shared_bucket` shows
one name locked out by the failures of another.

**Observations.** Behaviour that is as the code has it, and that the models keep:

* `store/users.go:376`: a reservation that read the month before midnight and commits
  after another one of the new month sets the stored month back, and the count of the
  new month starts over. The allowance may be exceeded; it is never undercut.
* `panel/registration_pow.go:137`: a request whose time was read before a sweep can
  accept a challenge that the sweep, in a later second, has already dropped as expired.
* `panel/session_handlers.go:283`: of two overlapping changes of password with the same
  old one, both may pass the check of the old password; the later one stands.
* `app/bootstrap_credentials.go:106` and `:113`: a power failure can leave an incomplete
  credentials file, which the next start refuses until an operator removes it; a file
  that is reused is not synced again.
* `store/sqlite_usage_write.go:78`: one record of a deleted key makes the whole batch
  fail.
* `ratelimit/user_limiter.go:141`: a bucket called with an older time after a newer one
  refills the interval again; `TokenBucket` keeps this, and the rate bounds allow for it.
* `auth/user_context.go:108`: user and tier are two reads; a tier deleted between them,
  after the user was moved to another, makes the second read fail and the request with it.
* `usage/middleware.go:254`: when the SDK returns before the tool has marked its outcome,
  the verdict is taken from the HTTP response alone. A client that leaves then is charged
  and its call logged as a success, whatever the search comes to (`LeavesEarly`; the
  second half of `Deserved`).
* `panel/settings.go:81`: the settings row is stored and the call may still answer with an
  error, with the health cache not emptied and nothing applied (`PersistFails`): what
  comes back of the row cannot be read, or the request's context has ended. A health cached
  before stays up to thirty seconds; it is of the settings in force, no longer of the
  stored ones, and the panel shows the two revisions as diverged.
* `store/sqlite_usage_stats.go:140`: the range of the chart ends at a clock that is read
  before the snapshot. A call recorded in between, in the next second, is in the totals of
  the same answer and not in its chart (`CallsAfterEnd`).
* `panel/auth_protector.go:388`: a request with an older time sets an entry's `lastSeen`
  back and leaves `nextExpiryCheck` where it is, so a full table may notice the expiry
  later by as much as the request was late (`ExpirySeenInTime` has this slack; the user
  limiter, which records the earlier expiry, needs none).
* `panel/auth_protector.go:437`: requests that are refused reserve a token and cancel it.
  What was reserved after it is not given back, so overlapping refused requests leave the
  bucket in debt: a client that insists waits longer than its rate would make it. It is
  never granted more.
* `ADVANCE_README.md:471` asks a proxy to replace both forwarding headers. `CountedAsItself`
  holds already with a proxy that replaces one of them, because `ResolveAddress` refuses
  two headers that disagree (`ratelimit/client_ip.go:144`).
* `store/users.go:166`: the total a page shows is a second query; it may not fit the page.
* `auth/resolver_cache.go:226`: followers of a flight share the error of a leader whose
  own context was cancelled.

## 8. Not modelled

Not modelled, with the reason in `PROJECT.json`: the operations metrics and the
dashboard (sums of counters that other components keep), the configuration (parsing and
range checks at start; the ranges are assumptions of the constants), the migrations (one
transaction each, before anything else runs), the cryptographic primitives, the routes
and the browser code. Within the modelled parts are left out: the wording of answers and
errors, the byte limits of a single event and of citations, the encoding of cursors, the
checks of a bootstrap file that an operator has edited.
