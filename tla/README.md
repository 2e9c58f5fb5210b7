# Specifications of the AI gateway

TLA+ specifications of the parts of the gateway in which concurrency, failures
and money meet, checked with TLC on small instances and, where marked, proved
with TLAPS for every value of their constants. Paths are relative to the
repository root; `PROJECT.json` maps every definition to the lines it models.

## The system

The gateway is one Rust process, or several that share a PostgreSQL database
(SQLite for a single one). A request to the data plane takes this way:

1. The API key is looked up in the *runtime snapshot*; `admission/mod.rs` checks
   quota, rate and concurrency and returns a lease.
2. `routing/mod.rs` selects a channel by model rule, priority, weight, session
   affinity and passive health, and returns a lease on the channel.
3. The request-log sink reserves a terminal slot on disk, without which nothing
   is dispatched.
4. The proxy sends the request upstream, over HTTP or a pooled WebSocket, retries
   on other candidates, streams the answer and reports health to its lease.
5. The completion guard writes the terminal event to the local spool. The ingest
   worker copies it to the `request_log_ingest` table; the metering worker turns
   it into an immutable fact and pending settlement, the projection worker into
   a row of `request_logs`, the settlement worker moves balances and quotas and
   tells admission what a key has used.

The control plane changes configuration in transactions, compiles a snapshot and
publishes it to upstream clients, routing and runtime while requests run.

### Inventory

| Component | State | Operations | What is hard | Correct when |
|---|---|---|---|---|
| Spool and admission slots (`request_log_spool.rs`, `request_log_admission.rs`) | events.log, checkpoint, intents, slots, writer offsets | admit, append, read, checkpoint, sync, compact, open | crash and power loss between any two file operations, fsync that fails, byte budget | no terminal of a dispatched request is lost, only what is unknown is reported unknown, the directory opens again |
| Durable request-log workers (`workers/durable_request_log.rs`) | what a worker has loaded, wake-up channels | ingest, meter, project, settle, defer | lost answers, replays, several gateways, poison rows | charged once, rows kept until recorded, all good work is done in the end |
| Metering and settlement tables (`persistence/metering.rs`, `postgres_control_plane.rs`, `sqlite/pipeline.rs`) | ingress, facts, attributions, pending, receipts, logs, balances | one transaction each | unique keys and row locks as the only coordination | money is conserved |
| Queue-based worker (`workers/mod.rs`) | bounded queue, batches, hints | send, write, settle, recover, drain | timeouts of calls that commit | what is published is stored, a stop drains |
| Spend leaderboard (`workers/spend_leaderboard.rs`) | snapshots, entries, watermark | refresh, read | several gateways refresh, refreshes abort | the totals are the facts |
| Admission (`admission/mod.rs`) | window, count, leases per key; settled usage | admit, drop, report | limits that differ between snapshots, reports out of order | limits hold for every admission |
| Channel health (`routing/mod.rs`) | atomics per channel, registry, active set | acquire, report, drop, reconcile | lock-free breaker, reload against leases | no stuck probe, no leaked state |
| Selection and affinity (`routing/mod.rs`) | round-robin values, affinity cache | select, store, remove | health changes during a scan, stale bindings | eligible candidates only, fair shares, bounded cache |
| Proxy (`application/proxy.rs`, `usage.rs`) | attempt, excluded slots, completion guard, collector | attempt, retry, observe, complete, cancel | cancellation anywhere, chunks cut anywhere | one terminal event per admitted request, billed as reported |
| Request bodies (`application/request_body.rs`) | memory or temporary file | capture, inspect, replay | budget, I/O faults | replayed exactly, occupied space is given back |
| WebSocket proxy (`application/proxy/websocket.rs`, `upstream/websocket.rs`) | session phase and count, idle pool | reserve, drain, acquire, release, reconcile | drain against reserve, return after invalidation | drained means none, no stale connection is reused |
| Transforms and policy (`transforms/mod.rs`, `request_policy.rs`) | compiled plans, pending frame | compile, apply, frame | layers, atomic failure, CR LF at chunk ends | credentials stay home, frames do not depend on chunks |
| Codex connector (`application/codex/`) | token generation, operation journal, quota windows | refresh, reset, observe, edit | a consumed token whose successor is lost | one refresh per generation, costs counted once |
| Control plane (`application/control_plane.rs`, `runtime_config/`) | database, published snapshot, serial gate | prepare, commit, publish, reload | publication is not atomic, several gateways | the last committed configuration is published last |
| Topology and keys (`persistence/upstream_topology*`, `sqlite/control_plane.rs`) | groups, channels, rules, keys, policies | one transaction per edit | concurrent edits, retained origins | nothing dangles, a key reaches what was selected for it |
| Console authentication and API (`application/auth.rs`, `http/console.rs`) | sessions, invitations, codes, versions | login, rotate, revoke, register, edit | replayed tokens, stale pages | a token is spent once, no newer row is overwritten |
| Connector plugins (`connector_plugins.rs`) | artifacts, jobs, generations | install, select, activate, delete | each step may fail, restarts | the selected image is installed |
| Probe and automation (`workers/channel_probe.rs`) | bounded queue, schedule | report, probe, disable, recover | full queue, stale events | administrators win |
| SQLite ownership, backup, migrations (`persistence/sqlite/`, `migrations.rs`, `capability_cutover.rs`) | locks, identity, history | claim, copy, restore, migrate | crashes, older binaries, two files copied one after the other | one history, complete snapshots |
| Encoding, upstream HTTP clients, catalogue, metrics, static Console | little or none | translation and I/O | data, not control | tests (not modelled) |

Components interact by calls, except that: health and admission state is shared by
all requests of a process; leases report back when they are dropped; workers talk
through bounded channels of tokens and through the database; gateways only meet in
the database.

## Modules and runs

A *specification module* models one component: its variables, Init, one action
per operation and Next. Its properties are at its end. Definitions whose comment
says *Mutant of* are deliberately wrong variants; no specification uses them.
They show that a property depends on the definition they stand beside.

A *suite* (`MCStorage`, `MCLedger`, ...) checks the components of one area in one
run. It instantiates each component on one or more small instances, called
*parts*. The variable `part` is chosen initially and never changes; a behaviour
exercises the component of its part while the variables of the others rest at
`Off`. A suite therefore checks exactly what separate runs of its parts would,
and a property of it is the conjunction, part by part, of the properties of the
component modules. Five components (parts `power`, `money`,
`reload`, `admission`, `publish`) are extended rather than instantiated, so that
their properties are stated once, for the run and for the theorem; in the other
parts they rest in their initial state. Suites compose nothing: where components interact,
one of them models the other's side of the interface, as the table says.

| Module | Component; state and actions | Suite parts |
|---|---|---|
| `RequestLogSpool` | slots, spool file, ingest worker, crashes | storage: power, crash; live |
| `SchemaMigrations` | migration batches of several binaries | storage: migrations; live |
| `SqliteOwnership` | claim, identity, schema and writers of a SQLite file | storage: owner |
| `SqliteBackup` | snapshot and restore of database and spool | storage: backup, restore |
| `Billing` | what the pipeline promises of money (abstract) | ledger, as `BillingSpec` |
| `RequestLogLedger` | metering, projection, settlement of several gateways | ledger: money, meters, rows, replay; live |
| `QueuedRequestLog` | the queue-based worker | ledger: queue, paid; live |
| `SpendLeaderboard` | refresh and report | ledger: shared, single; live |
| `ChannelHealth` | breaker, leases and registry of one channel | routing: reload, breaker |
| `ChannelSelection` | tiers, tickets, smooth round robin; health is its environment | routing: tiers, robin; live |
| `SessionAffinity` | cache with recency queue | routing: cache, recency, compact |
| `ChannelAutomation` | failure reports, tests, disable and recover | routing: automation |
| `Admission` | quota, rate, concurrency of API keys | requests: admission |
| `ProxyRequest` | retry loop and completion guard; selection is one step | requests: retry, stream; live |
| `ImageEditBody` | spooled multipart bodies | requests: image; live |
| `ResponsesWebSocket` | sessions and the upstream pool | requests: rekey, switch |
| `GatewayShutdown` | listeners, session count, drain, force | requests: shutdown; live |
| `RequestForwarding` | headers, credentials and bodies that are sent | bodies: headers, connectors, retries |
| `TransformPlan` | compilation and application of patches | bodies: pairs, layers, events |
| `SseTransformer` | framing and rewriting of event streams | bodies: framing, rewrite |
| `MultipartFraming` | multipart validator | bodies: multipart |
| `ErrorKeywordMatcher` | keywords over chunks | bodies: keywords |
| `UsageCollector`, `UsageScanner` | what a response is billed for | bodies: ends, reports, updates, messages, scanner |
| `ErrorDetails` | error texts | bodies: errors |
| `UpstreamTopology` | groups, accesses, channels, capabilities, profiles, rules | control: edit, setup |
| `KeyAuthorization` | what keys, policies and user groups reach | control: grants, policies, owners, users |
| `ControlPlanePublish` | commit and publication on several gateways | control: publish; live |
| `RuntimeCompile` | records to snapshot | control: routes, settings |
| `CapabilityCutover` | transfer of a legacy database | control: cutover |
| `ConsoleAuth` | sessions, invitations, codes, limiter | accounts: sessions ... limiter |
| `ConsoleApi` | authorization and versions of requests | accounts: actors, resources |
| `ConnectorPlugins` | installation, selection, activation | accounts: shared, run, jobs; live |
| `CodexCredential`, `CodexQuotaWindows` | token refresh, resets, quota windows | accounts: tokens ... jitter; live |

| Run | Properties | Shows |
|---|---|---|
| `storage` | `SpoolSound`, `CrashSound`, `SchemaSound`, `BackupSound`, `RefusesToReplace` | nothing saved is lost over crashes and power losses; one schema history; a backup is one instant |
| `ledger` | `PaidOnce`, `MoneyFollows`, `LeaderboardSound`, `BillingSpec`, `SpendingOnlyGrows` | each request is paid once and the ledger implements `Billing` |
| `routing` | `HealthSound`, `SelectionSound`, `CacheStaysBounded`, `AutomationSound`, `NewerDecisionWins` | breaker and registry, selection under changing health, bounded affinity |
| `requests` | `LeasesSound`, `RequestsSound`, `ConnectionsSound`, `LimitsHold`, `SessionKept` | limits, one terminal event, exact session count, current connections |
| `bodies` | `ForwardingSound`, `TransformSound`, `FramingExact`, `UsageSound`, `EndIsFinal` | what is sent, and what is read from bytes in every division into chunks |
| `control` | `TopologySound`, `KeysSound`, `PublishSound`, `CompileSound`, `NothingGoesBack` | edits, authorization, publication, compilation, cutover |
| `accounts` | `AccessSound`, `PluginsSound`, `CodexSound`, `AccessSteps`, `NothingOverwritten` | sessions, versions, plugins, rotating tokens |
| `live` | `EventuallyIngested`, `WorkIsDone`, `RequestsEnd`, `StopsEnd`, `ChangesArrive` | what must eventually happen |
| `spool_power_open`, `forward_tier`, `codex_replay` | `OpenAccepts`, `FilteredTierStaysOut`, `TokenNotReplayed` | expected to fail, see *Findings* |

Deadlock is not checked: every instance has a budget of operations and stops when
it is used up. Symmetry (interchangeable requests, sessions, processes, groups)
is used in the safety runs only. The view of `routing` leaves out the contents
of allocations that nobody refers to; they are overwritten before use.

**Bounds.** Every instance has two of what races (requests, gateways, sessions,
administrators, tasks), which gives every overlap of one operation with another,
a third where the second holds a resource (candidates, binaries, the login around
a temporary password), one failing operation at any point, and two crashes where
recovery itself may crash. Capacities are one or two, so that they are exceeded
by the next operation. Streams are checked over all texts up to eight bytes with
an alphabet of one letter per class the code tells apart.

## Components

### RequestLogSpool

The state is what is on disk (frames, durable prefix, checkpoint and the
checkpoints that may survive a power loss, intents, slots) and what the process
knows (end, reader, worker states, wake-up token, failed writer). One action is
one file operation or one critical section of the writer mutex. `Crash` is
kill -9 at any step; `PowerFailure` also loses everything that no fsync covered,
prefix by prefix. A failing file operation fences the writer, as in the code.
Sizes are counted in units: a frame or a slot is one unit, a reservation two.
Graceful shutdown stops a subset of what a crash stops, and is covered by it.
`SpoolSound` joins what the spool promises (`NothingLost`, `UnknownIsUnknown`,
`DeadRequestAccounted`, `NoLostWakeup`, `WithinBudget`, and without power loss
`OpenAccepts`).

### RequestLogLedger, Billing and QueuedRequestLog

One action is one transaction, at its commit; a transaction whose answer is lost
may or may not have committed. Workers load rows without locking them, so two
gateways may hold the same rows. An event carries what the tables tell apart:
request, user, key, amount, credential, the part only the log shows, and whether
it decodes. `updated_at` is a counter that every update of the user moves (a
trigger in PostgreSQL, the statements in SQLite). Rows that do not decode are
deferred in one step. `Crash` forgets what a gateway's workers had loaded. Each
transaction exists in a PostgreSQL and in a SQLite version: the map names one for
the guard or effect and the other for the action. `SlowRetries` says that a
deferral (seconds to minutes) outlasts the work that is due. `Billing` says that
bills never change, are paid at most once, and only payments and grants move
money. The queue-based worker is not started by `main.rs`; a fact and its
attribution are one row there.

### ChannelHealth and Admission

One action of `ChannelHealth` is one atomic operation or one critical section.
Channel identities do not interact, so one is followed. Objects that the registry
has dropped live on in leases. A request counts itself without the shard lock;
reading the count and removing the entry is one action because a count in between
has the effect of one right after. The 64-bit word is a deadline and a claim bit;
its saturation, after millions of years, is left out. More than one probe may run
(a late failure overwrites a claim), and the properties allow for it.

Every call of `Admission` is one critical section. A request brings the limits of
the snapshot it authenticated with; settlements are reported in any order. The
clock ticks in fractions of a second (two per second), so that the rounding of
Retry-After matters. `RateHolds` is about fixed windows; a sliding one may see
twice the limit. u32 saturation is left out.

### Where the other modules abstract

- **Migrations and cutover.** All stages of the cutover are one transaction
  (migrations 47 to the end are one batch). Legacy routing is what the transfer
  reads from the legacy tables; the Codex Responses row is the identity and is
  deleted last; whether a credential is gone, has an Images projection or names
  another network is chosen apart. Stage 0067 deliberately widens capability
  grants; 0068 refuses a live Codex credential whose channel is deleted.
- **SQLite files.** A path that is exchanged and exchanged back, and a switch to
  WAL, are outside what the checks of the code can see
  (docs/development/sqlite-lifecycle.md); an incomplete marker is never repaired,
  as documented there. Of the locks of a backup only the database lock excludes
  administrator commands; the others are redundant against the gateway.
- **Leaderboard.** The neighbours of a period are read together; token sums are
  left out.
- **Automation.** The probe worker stops before the automatic-disable worker
  (`main.rs`). A recovery may clear a disable that is newer than the one its test
  was for; the code has no guard, and no property claims one. Case folding is
  left out.
- **Shutdown.** `run_servers` loads the session count twice, before the select
  and in its branch (`main.rs:666`, `682`). If the last session ends in between,
  only the deadline is left (`OnlyDeadline`): `NoMissedWakeup` says that then
  nothing is left to wait for, and `StopsEnd` needs the timer.
- **WebSockets.** The read-modify-writes of the lifecycle counter are taken as
  sequentially consistent. The set of pinned connections is always empty when a
  message starts, so its preference is dead code. An unavailable connector
  answers 503 while the event records the fallback 502.
- **Bodies.** Header names stand for classes; a part is the unit of a multipart
  body; a line of an event stream is one letter; pointers into arrays are left
  out; an override that reads a value its defaults remove always fails. Usage
  that follows a terminal Chat summary is billed or not depending on chunks, a
  stated exception of `BilledAsReported`; an escaped spelling of "usage" is not
  recognised. Plugin parsers and plugin plans are external. A Codex plugin also
  sees the ingress headers, what Connection declares and, over HTTP, the gateway
  key included (`attempt.context`), and may copy any value to a name it may
  write; `ContextThroughCodexOnly` says that this is the only way for them, and
  that the WebSocket ingress has removed the key. Storage may fail at every copy,
  seek and read of an image body.
- **Topology and compilation.** Compression and the optimistic lock of the system
  settings are left out, which adds behaviours. Keys reach the compiler with
  cleared groups and all formats (`runtime_config/mod.rs`), their expiry is left
  out; `Refuse` changes nothing. A manual reload writes only its audit row, so
  PostgreSQL commits it after any other commit (`WritesConfig`).
- **Console.** A write of the coordinator is atomic here (`ControlPlanePublish` has
  the steps). `update_me` and temporary passwords run outside the mutex and take
  their start as their version; the actor of the latter is read without a lock, so
  an administrator who is demoted meanwhile may still issue one, which
  `ActorEntitled` states. Wrong passwords fail a login only; codes do not expire;
  the limiter has one key per user; a completed reset opens its session at once; of
  the refusals with 409 the versions and duplicates are modelled. A single
  `UpdateUser` has no check for the last administrator.
  `SessionsEndWithCredentials` covers the credentials a session was opened with.
  Registration against the deletion of its user group is excluded by row locks.
- **Plugins.** A process that starts fails the running jobs of every process that
  shares its database, as in the code; the checks at commit are redundant with
  those under the mutex. A handler dropped at `open().await` leaves its file in
  `staging` until the next start (`orphan`); every other upload has an owner. The
  ABI and the code behind it are out of scope.
- **Codex.** The branch for unstreamed answers over an event stream is unreachable
  and left out, and so are the login exchange and the protocol rewriting.

The map lists the definitions that carry the lines; a helper whose lines another
entry covers is left out.

## Fairness

The liveness properties of `live` have the fairness they need as their hypothesis
(`SpoolRuns`, `LedgerRuns`, ...), one conjunct per loop, ticker or retry:

- *Weak* fairness of steps that nothing but their own process delays: recovery,
  the writer and the ingest loop, a request from its first attempt to the answer
  (connect, header and idle timeouts), the tasks and the main future of a
  shutdown, a refresh on a gateway's 15-minute ticker, an installation job.
- What the code puts no time limit on is assumed only where it is needed: no
  request is bound to leave the reading of its body, which keeps its lease while
  the client stalls, and a stream ends if the client takes it or goes
  (`ClientTakes`); `RequestsEnd` says what holds without these. The two timers of
  a shutdown are fair in `DeadlineRuns`.
- *Strong* fairness of what is retried for ever or chosen from a fair queue: a
  transaction that may fail any number of times but not always (`Accept`, the
  ledger's transactions), the migration lock, the coordinator's fair mutex
  (`Tick`), the recovery tick that `select!` picks at random, the writer mutex
  that compaction needs.
- Finitely many faults, crashes or aborts, where a budget says so; the ledger's
  gateways crash for ever.

That cool-downs end and that a healthy channel is recovered is not checked: the
state spaces with time are beyond five minutes.

## Findings

- `spool_power_open`: a power loss can leave a checkpoint beyond the end of
  events.log, which `open` refuses, while
  docs/development/request-log-durability.md promises the loss of at most the last
  group-sync window. Without power losses `OpenAccepts` holds, and is proved.
- `forward_tier`: a channel transform can put back the service tier that the Fast
  filter of its group removed, against docs/user/billing.md.
- `codex_replay`: on PostgreSQL a gateway that dies after the provider has rotated
  a refresh token presents the consumed token again, against
  docs/reference/codex-oauth-connect.md; on SQLite the journal prevents it.

## Proofs

Eight modules hold theorems. `GatewayShutdown`, `SchemaMigrations`,
`ControlPlanePublish` and `CodexCredential` have theirs at their end. The other four
(`RequestLogSpool_proofs`, `RequestLogLedger_proofs`, `ChannelHealth_proofs`,
`Admission_proofs`) extend one large component and *host* the theorems of others: a
host declares constants and variables for the guest, instantiates its module under a
name (`Px == INSTANCE ProxyRequest ...`) and states theorems about its
specification (`Px!ProxyAssumption /\ Px!Spec => []Px!RequestsSound`). A
guest shares no state with its host or with the other guests; the renaming in the
`INSTANCE` only keeps names apart.

The four large components assume what their `ASSUME` says. Everywhere else the
assumption on the constants is a definition (`...Assumption`) and a hypothesis of the
theorem, and the suites have an `ASSUME` that makes TLC evaluate it for every part.
The bounds on operations, faults and crashes are constants like the others, so every
theorem holds for any number of them.

| In | About | Assumes of the constants | Proved | Inductive invariant |
|---|---|---|---|---|
| `RequestLogSpool_proofs` | `RequestLogSpool` | finitely many requests; batches and queues are not empty | `SpoolAlwaysSound` (`SpoolSound`), `CheckpointNeverSkips`, `SavedTerminalsSurvive` | `SpoolInv`, `RecoveryInv` |
| | `SqliteBackup` | nothing | `BackupAlwaysSound` (`BackupSound`) | `BackupInv` |
| | `SqliteOwnership` | a task belongs to a process, a process has a number of migrations; `Nothing` is no process | `OwnershipAlwaysSound`, with the spool `CrashAlwaysSound` (`CrashSound`) | `OwnershipInv` |
| | `UpstreamTopology` | the stores to start from are sound, as the empty one is; managed connectors and probed operations are connectors and operations; `None` is no row | `TopologyAlwaysSound` (`TopologySound`) | `TopologyInv` |
| `RequestLogLedger_proofs` | `RequestLogLedger` | finitely many requests and gateways; a key has an owner; one legacy event per request | `PaidOnceAlways` (`PaidOnce`), `LedgerImplementsBilling` (`BillingSpec`) | `LedgerInv`, `VersionInv` |
| | `CodexQuotaWindows` | lengths are positive, usages percentages, times and tolerances numbers; `None` is none of the values | `WindowsAlwaysSound`, `UsageAlwaysNewest` | `WindowsInv` |
| | `ConnectorPlugins` | finitely many processes; at least one artifact is retained; schema versions are numbers; `None` is none of the values | `PluginsAlwaysSound` (`PluginsSound`), `PluginStepsAlways` | `PluginInv` |
| | `RequestForwarding` | some configuration is accepted; plans and credentials have the stored form | `RequestsAlwaysSound` (`ForwardingSound`) | `ForwardInv` |
| `ChannelHealth_proofs` | `ChannelHealth` | more allocations than requests can hold | `HealthAlwaysSound` (`HealthSound`) | `ProbeInv`, `RegistryInv`, `HealthInv` |
| | `ChannelAutomation` | the queue's capacity is a number | `AutomationAlwaysSound` (`AutomationSound`), `PolicyAlwaysPrevails` | `AutomationInv` |
| | `SessionAffinity` | the settings of `max_entries` have a largest; the time-to-live is positive; `None` is no candidate | `CacheAlwaysBounded` (`CacheStaysBounded`), `CacheStepsAlways` | `AffinityInv` |
| | `ResponsesWebSocket` | finitely many sessions, each of one client; snapshots say something of every client and channel | `SocketsAlwaysSound` | `SocketsInv` |
| `Admission_proofs` | `Admission` | finitely many requests; a window is a number of seconds | `LeasesAlwaysSound` (`LeasesSound`), `LimitsAlwaysHold` (`LimitsHold`), `AdmissionTypeOK` | `AdmissionInv`, `RetryInv` |
| | `ProxyRequest` | candidates have a kind, budgets are numbers; `None` is none of the values | `ProxyAlwaysSound` (`RequestsSound`), `StickyAlwaysKept` | `ProxyInv` |
| | `KeyAuthorization` | write budgets are numbers; keys and policies are apart; `Everyone` is no user group; `None` is none of the values | `KeysAlwaysSound` (`KeysSound`), `KeyRightsAlwaysKept` | `KeyInv` |
| | `ConsoleAuth` | `Root` is a user; times-to-live and limits are positive; finitely many clients; `None` is none of the values | `AccessAlwaysSound` (`AccessSound`), `AccessStepsAlways` (`AccessSteps`) | `AuthInv` |
| | `ConsoleApi` | administrators are users, the edited resource is no user; `None` is none of the values | `AnswersAlwaysTrue`, `ApiStepsAlways`, `VersionsAlwaysKept` | `ApiInv` |
| `GatewayShutdown` | itself | finitely many connections; the public listener is a listener | `StopsWithoutSessions`, `WakeupsNeverMissed` | `ShutdownInv` |
| `SchemaMigrations` | itself | manifests number their migrations from one without gaps | `SchemaStaysWhole` (`SchemaSound`), `OlderAlwaysRefuses` | `MigrationInv` |
| `ControlPlanePublish` | itself | there is a row | `PublishAlwaysSound` (`PublishSound`), `PublishMovesForward` | `PublishInv` |
| `CodexCredential` | itself | a backend, budgets, and a `None` that is neither a task nor an intent | `CodexAlwaysSound` (`CodexSound`), `CallsAlwaysFenced`, `JournalAlwaysSound` (SQLite), `QuotaAlwaysForward` | `CodexInv` |

A name in parentheses is the property of a run that the theorem states, or its part
for that component, for every value of the constants. Three run properties cover
several components: `AccessSound` also has the answers of `ConsoleApi`
(`AnswersAlwaysTrue`), `CodexSound` the quota windows (`WindowsAlwaysSound`), and
`ConnectionsSound` the pool (`SocketsAlwaysSound`) and the shutdown
(`StopsWithoutSessions`, `WakeupsNeverMissed`) beside parts that are only
model-checked. The remaining theorems state parts of `NewerDecisionWins`,
`SessionKept`, `NothingGoesBack` and `NothingOverwritten`.

### The arguments

- **Spool.** `SpoolSound` speaks of what recovery will find, so it is not
  inductive. `SpoolInv` says which events the files hold at every step of
  admission, append, checkpoint and compaction, and that every checkpoint a
  failure may leave is covered by committed frames. `RecoveryInv` adds what the
  process knows: which files and frames each request may have (`FilesInv`), what
  the holder of the writer mutex has done so far (`HolderInv`), why a request may
  be reported unknown (`UnknownInv`) or be gone (`GoneInv`), that a published
  frame comes with a token or a worker that will look (`WakeInv`), that the
  budget is not spoken for twice (`BudgetInv`), and which pairs of files `open`
  meets (`OpenInv`, without power loss: with it the property is false, see
  *Findings*).
- **Backup and ownership.** A backup excludes the gateway by the file locks, so
  the files it copies one after the other are of one revision; the invariant says,
  for each step of a backup or a restore, which copies are made and equal to what
  the manifest will say. A claim of a SQLite file holds the locks of the inodes it
  found at the path, which are still there or were replaced since; every handle,
  identity and history is related to the generation it was opened on.
- **Topology.** Every commit leaves a store that resolves and compiles, and stamps
  the rows it changes with a time that no row has yet; so a form with the stored
  stamp shows the stored row. Two writes change a row without a stamp: a routing
  profile, which is no part of its model's form, and the rules of a model that is
  being deleted, which accept no form any more. A delete keeps a store compiling
  because what is still live resolved before and its checks, or the detaching that
  belongs to it, leave no reference to the row that goes.
- **Ledger.** What a worker has loaded may be stale, but what it is about to
  delete or settle is recorded already and records never change: `LedgerInv` has
  one conjunct for each of these (`MeteredInv`, `ProjectionInv`, `DeletedInv`).
  `VersionInv` says that an `updated_at` that has not moved since the Console
  read it stands for a balance that has not moved. Each step is then a step of
  `Billing` under the mapping, or leaves the mapped state alone.
- **Quota windows.** Stored periods are sound one by one and each ends before the
  next begins; an answer either falls into the last period, opens one after it, or
  is late and changes nothing that a newer answer recorded.
- **Plugins.** What a process runs is loaded and, if it is of the present
  revision, is what the rows say; a save under way still fits its image, because
  everything that could change it waits for the mutex; a staged upload has an
  owner that will remove it, or lost its handler at the open.
- **Forwarding.** Every value carries where it came from, so that renaming and
  copying do not hide it, or that the Codex context brought it; a plan cannot move a
  protected or declared name, and the
  invariant says at each stage which values are left. `ApplyPlan` is a recursive
  function: its meaning name by name is shown to satisfy the equation and to be the
  only one that does, at the least operation where they could differ, and it does
  not mention the order.
- **Channel health.** A claim of a half-open channel is carried by a request until
  it is reported, whatever late failures overwrite (`ProbeInv`); an active state is
  the registry's for its snapshot (`RegistryInv`); a state counts the requests
  that hold it and a retired one that is not counted has somebody who will remove
  it (`CountExact`, `RetiredIsKept` in `HealthInv`).
- **Automation.** A report or a test carries what its response has shown until it
  is applied; the transactions look at the stored row again, which is why a stale
  snapshot does no harm.
- **Affinity.** The generations of the bindings differ, the queue has an item for
  each binding and is in their order. So ranks and bindings correspond one to one
  (an injection between finite sets of the same size), rebuilding the queue by rank
  gives every binding its place, and evicting from the front evicts the oldest.
- **WebSocket pool.** A connection is idle, or pinned by one session, or neither:
  what is idle has completed all that was asked of it and is permitted by the
  pool's present configuration; what is pinned is the session's own and, once a
  clean terminal event has made it reusable, complete. `leased_connections` is the
  number of sessions that have one pinned.
- **Admission.** The in-flight count is a cardinality, so finiteness of the set of
  requests is needed. The recorded usage is the largest one reported, which makes
  the order of reports irrelevant (`AdmissionInv`); a refused request is told a
  time at which its window is over (`RetryInv`).
- **Proxy.** At each point of an attempt the invariant says what the request holds,
  which candidates it has excluded, that the last dispatched is the one being
  answered, and that the completion guard is armed exactly while the terminal
  event is owed.
- **Keys.** Every stored grant was offered by a target that its holder selects or
  has selected; edits of the topology remove offers and never add to what is
  stored.
- **Console.** Rows carry the version of their epoch and unrevoked sessions are as
  old as the credentials, so a token that was issued under earlier credentials
  finds no session; the requests past the limiter's check are counted in what they
  may still add. A transaction that has begun outside the mutex has a time that no
  row has yet (`PendingSound`). Versions that browsers hold agree with the rows in
  version and content, or in neither.
- **Shutdown.** The counter is exact from `fetch_add` to `fetch_sub`, refused
  reservations included (`ActiveExact`); after the first wait the phase is no
  longer `running`, so no reservation passes both loads (`PhaseFollows`); and a
  waiter that created its `Notified` before it looked again cannot sleep through
  the change (`NoMissedWakeup`).
- **Migrations.** Who works on the history holds the advisory lock, what it read
  is what is stored, and the batch it applies ends at the next barrier
  (`LockHeld`, `ReadIsCurrent`); a set of natural numbers has a least element.
- **Publication.** `PublishInv` follows the database and each process apart: what
  a write or a reload holds at each step fits the history (`Fits`), and a version
  that is being published is not older than what its process has published.
  The serial gate is what makes this inductive.
- **Codex.** `Shape` says what the holder of the credential knows: until it lets
  go, the row it read is the row stored (`Holder`), and two holders are apart.
  `History` relates what the provider has done to the row and the intent: on
  SQLite each consumed token is marked, and each redeemed reset has its event or
  is covered by the one intent. On PostgreSQL there is no intent, `History` says
  nothing, and `codex_replay` shows that it could not.

Queues that the code filters (`SessionAffinity`,
`ResponsesWebSocket`) are defined by the rank of what remains instead of a fold, which
is the same sequence and can be reasoned about without induction. The forwarding
proof found that `UpstreamAuth::compile` accepts Content-Type as the credential's
header, which the proxy overwrites when it compresses a Responses body; the probe
does not. `CredentialIsTheChannels` says so (`HeaderTaken`), and the run has such a
channel.

### Only model-checked

- Liveness (the run `live`) and everything about `ENABLED`: out of the prover's
  reach.
- `MoneyFollows`, `LeaderboardSound`, `SpendingOnlyGrows`, `RateHolds` and the fair
  shares of `SelectionSound`: sums and counts over a history, which need induction
  over data.
- The stream and byte algorithms (`FramingExact`, `UsageSound`, `TransformSound`,
  `EndIsFinal`), the sorting of `CompileSound` and the replayed bodies of
  `ImageEditBody`: recursion over the input.
- `CapabilityCutover`: no proof yet.
- The three expected violations.

### Not modelled

Request-log encoding, the upstream HTTP clients (pools and TLS of libraries), the
model catalogue and its synchronisation, metrics and the static Console: data
and I/O with little control; tests are the better tool.

### Plan

1. `CapabilityCutover`, which has no queues and no sums.
2. `MoneyFollows`, once sums over sets can be used in proofs.
