# A TLA+ model of queue-ti

queue-ti is a message queue on PostgreSQL: a Go service with a gRPC and an HTTP
interface, several service instances possibly sharing one database, and client
libraries in Go, TypeScript and Python. This directory holds TLA+ modules of its core,
TLC configurations that check them on small instances, and TLAPS proofs. `PROJECT.json`
maps every definition to the lines it models and lists the runs, the hazards they are
aimed at, the places where documentation and code disagree, and the theorems.

    tlc -config queue_dlq.cfg MCMessageQueue     # a run: cfg and module from PROJECT.json
    tlapm MessageQueue_proofs.tla                # the proofs of one module

## 1. The system

| Component | State | Operations | Module |
|---|---|---|---|
| message table (`enqueue.go`, `dequeue.go`, `lifecycle.go`, `purge.go`) | `messages`; a partial unique index on (topic, key) of pending rows | Enqueue (insert or upsert), Dequeue, DequeueN, Ack, Nack, Requeue, PurgeTopic, PurgeByKey | `MessageQueue`, abstractly `MessageLifecycle` |
| message log (`replay.go`) | `message_log` | archival on ack, ReplayTopic, TrimMessageLog | `MessageQueue` |
| reapers (`reaper.go`) | cron schedulers, a stop function, advisory locks, `system_settings` | expiry (every minute), delete, archive; change of schedule | effects in `MessageQueue`, ticks and schedules in `ServerInstances` |
| consumer groups (`consumer_group.go`, migration 013) | `consumer_groups`, `message_deliveries`; a trigger on insert, a cascading foreign key | Register, Unregister, DequeueForGroup, DequeueNForGroup, AckForGroup, NackForGroup | `ConsumerGroups`, `GroupTransactions` |
| topic configuration (`topic_config.go`) | `topic_config`, in-process map, Redis | Get, Upsert, Delete | `TopicConfigCache` |
| broadcast and cache | LISTEN/NOTIFY or Redis channels, Redis keys | Publish, Subscribe, Get, Set, Delete | `TopicConfigCache`, `SchemaRegistry` |
| schema registry (`schema.go`) | `topic_schemas`, Redis, compiled schemas by version | Upsert, Delete, validatePayload | `SchemaRegistry`, `AvroValidation` |
| throughput limit (`throttle.go`) | `topic_throughput`, an advisory lock | consumeTokens | `ThroughputLimit` |
| server process (`cmd/server/main.go`) | goroutines, streams | start, signal, shutdown | `ServerInstances` |
| gRPC server (`grpc.go`) | Subscribe streams | Subscribe; unary calls delegate | `GoConsumer`, `Permissions` |
| HTTP server | – | login, refresh, accounts, grants, schedule; the rest delegates | `UserTokens`, `Permissions`, `ServerInstances` |
| users, permissions, auth | `users`, `user_grants`, tokens | seed, login, refresh, account changes, grant matching | `UserTokens`, `Permissions` |
| Go client | claims, semaphore, streams, token store | Consume, ConsumeBatch, token refresh | `GoConsumer`, `TokenRefresher` |
| Node and Python clients, admin UI, seeder, load test, generated code, configuration parsing, metrics, listing | – | – | not modelled |

How the parts interact: the servers call the service's methods; each method is one
PostgreSQL transaction, and what other calls and other instances see of it is decided by
row locks, the unique index, the foreign key and the READ COMMITTED snapshots of its
statements. Methods read the topic configuration through caches that a broadcast
invalidates, and Enqueue checks its payload against a schema that is cached the same way.
A consumer's claim exists twice, as status `processing` in the table and in the client's
hands, and only Ack and Nack bring the two back together.

What is hard here: messages with a key change hands between the unique index and the
retry path; claims outlive their clients; the reaper expires rows under a claim; depth
check and insert are separate statements; the last acknowledgement of several groups is
decided by a count; registration, trigger and cascade work from different snapshots; a
cache is filled while it is being invalidated; the bucket is refilled by transactions that
are older than its last refill; a scheduler is replaced outside the lock that guards it;
a stream breaks with claims on their way; a token has to be replaced before it ends.
The hazards are listed one by one, with the properties aimed at them, in `PROJECT.json`.

## 2. Modules and their correspondence to the code

### MessageQueue

Variables: `messages` (the table; `Null` for no row), `nextId` (ids follow `created_at`),
`log` and `acks` (`message_log` and the clock behind `acked_at`), `config` (the
`topic_config` table), `seen` (every value each configuration has had), `request` (an
Enqueue call between its depth check and its INSERT) and `held` (what each client has
received and not answered for).

There is one action per service method, atomic where the method's decisive read takes the
lock its write needs (`FOR UPDATE`, `FOR UPDATE SKIP LOCKED`, or a single statement).
Enqueue is two actions, because its depth check is a statement of its own. An early
return that changes nothing is a guard. Abstractions:

- a topic is a name and a number of `.dlq` suffixes;
- `expires_at` and `visibility_timeout` are clocks that are null, running or elapsed;
  separate actions let them elapse at any moment, so every relation between timeouts and
  other events is covered;
- `GetTopicConfig` may return any value the configuration has had. The in-process cache
  has no expiry and an invalidation can be lost, so nothing stronger is guaranteed, and
  the module needs nothing stronger. A read error in Nack and Requeue is dropped by the
  code and counts as "no configuration";
- `SKIP LOCKED` may skip any subset of the claimable rows, since a row can be locked by a
  transaction that rolls back;
- a write that violates the unique index rolls the transaction back: the row is as
  before, and the client, which has had its answer, no longer holds it;
- throttling only turns a dequeue into a no-op or into a smaller batch;
- a payload is a model value; metadata, errors and timestamps are left out.

### MessageLifecycle

What the queue promises of a message, with no table in it: a message waits, is delivered,
and its delivery ends by an acknowledgement, another attempt or failure; a message may be
parked in the dead-letter topic, where it is never retried, and sent back from there;
failure and expiry are final outside it, and nothing that is gone returns. `MessageQueue`
instantiates it as `Lifecycle` (`phase` is computed from a row by `PhaseOf`, `parked` is
the set of rows in a DLQ topic, `kept` the ids in the log), and `FollowsLifecycle` says
that every step of `MessageQueue` is a step of it or a stutter.

### ConsumerGroups

Extends `MessageQueue` with `groups`, `deliveries` and `gheld`. Every step of the message
table takes the trigger and the cascade with it (`MessageStep`, `Cascade`).

Registration, its end and AckForGroup are transactions whose statements run under READ
COMMITTED, so each is two actions: `RegisterConsumerGroup`, `UnregisterConsumerGroup` and
`AckForGroup` are the statements that read (the backfill's SELECT, the deletes, the SELECT
and the COUNT), whose outcome waits in `change` or `acking` with the delivery rows
`Locked`; `CommitChange` and `CommitAck` publish it. Everything else runs in between and
sees the committed rows. In this way a registration overlaps an Enqueue whose trigger does
not see the group, an unregistration overlaps one whose trigger still does, two last acks
count each other's rows, and a backfill commits between the COUNT and the DELETE of an
ack: the code does all of this. History variables name the overlaps, so that the
properties can say that nothing else goes wrong: `raced` has the groups whose
registration or its end overlapped the message's INSERT or a last ack of it, `crossed`
the messages of which two acks overlapped; `got` is the payload each group last received.

### GroupTransactions

The same methods again, with every statement a step, for one message:
statements see `committed` plus their own writes, row locks last to the end of the
transaction, foreign-key checks take key-share locks, the cascade deletes the deliveries
committed when it runs, and one transaction of a lock cycle is aborted. AckForGroup,
Ack, RegisterConsumerGroup and Enqueue interleave. `ConsumerGroups` has the overlaps of
transactions in the whole system, this module the order of their locks and the aborts.
That deliveries have their message is the foreign key's doing; the proof relies on it and
it is not listed as a result. The PostgreSQL rules are external:
they are modelled from PostgreSQL's documented behaviour as the code relies on it.

### TopicConfigCache, SchemaRegistry, AvroValidation

`TopicConfigCache` takes `GetTopicConfig`, `UpsertTopicConfig` and `DeleteTopicConfig` one
external call at a time: the in-process map, Redis, the table, the broadcast. Every call
may fail as the code lets it (a failed `Get` is a miss, failed `Set`, `Delete` and
`Publish` are ignored, a failed `DELETE FROM topic_throughput` ends the deletion before
any cache is touched), a listener loses its connection and what was on it, and a process
restarts. Cached entries carry a history flag `doubtful`: set when an invalidation
overtook the read that filled the entry, or did not reach it. `CacheTypeOK` and
`ReadsWereHeld` (a read returns a value the row has had, which is what `MessageQueue`
assumes) hold as well.

`SchemaRegistry` has the same structure for the schema, which is not kept in the process
except in compiled form under its version. Versions are counted by the database and
restart when a schema is deleted; `issued` records every (text, version). `Parses` and
`Accepts` are constants there; `AvroValidation` defines `Accepts` as the code's structural
check, and apart from it `Defects`, a reference definition of what the documentation asks.
A schema text is a name, a payload a JSON value of a kind with members.

### ThroughputLimit

The bucket of one topic under several dequeue transactions. A transaction's `now()` is
its start, and the advisory lock is granted in any order, so a refill may be older than
the last one: elapsed time is negative and `last_refill` moves back. Tokens are measured
in time (a message costs `Cost` ticks), which keeps the arithmetic of the SQL exact.

### ServerInstances

Processes over one database: start with the stored or the static schedule, ticks of the
expiry and the delete reaper under their advisory locks (`Tick`, `EndTick`), the same work
on request of an administrator, which asks for no lock (`RunOnce`, `RanOnce`; in
`MessageQueue` a pass may come at any moment, whoever has asked for it),
`UpdateDeleteReaperSchedule` with its two critical sections, Subscribe streams, the signal and the shutdown, and crashes.
A scheduler is named after what started it, so that "who can stop it" is a relation
between `crons` and `stop`.

### GoConsumer

The server's Subscribe loop, the stream with its flow-control window, and the Go client's
Consume (receive loop, semaphore, one goroutine per message, reconnect with backoff) and
ConsumeBatch (polling), down to the single Ack or Nack call. `lost` is a history variable:
the claims that a failed link, call, handler or context has let go of. The topic behind it
is reduced to pending, claimed and ended; claims that lapse belong to `MessageQueue`.

### UserTokens, Permissions, TokenRefresher

`UserTokens`: accounts, seeding by several servers (one that is configured without a name
or a password seeds nothing, and may serve with no account), login and refresh with the gap between
reading the row and signing the token, and the account routes, which trust the claims of
the token. A token is its claims and the ticks it has left. `Permissions`: the table of
grants of a user and the decisions of both servers, for calls with the claims of an
administrator, of this user, or without any, and with patterns matched by their text;
`Covers` is the reference meaning, part by part; a part is named by the position where it
begins. `TokenRefresher`: the goroutine of the
Go client that replaces the token, its sleeps, retries and backoff, against `SetToken` and
`Close`. A refresh may fail after any part of its timeout, and it may answer with a token
of the server, with the empty one (`Auth.Refresh` where no login is asked for), or with
any token, since the program may have a refresher of its own; `failures`, `spent`,
`shortened`, `burst` and `poor` are history, and say what the properties assume or except.

### MC modules and proofs

`MCMessageQueue` and `MCConsumerGroups` give topic configurations for TLC.
`MCTopicRegistries` puts the two registries side by side, `MCCredentials` the three
modules about credentials; since these share no state, a behaviour follows one of them
(the variable `followed`) and their interleavings are not multiplied.
The modules that end in `_proofs` hold the theorems (section 4); they extend the modules
they are about and add only what proofs need: inductive invariants, and operators that
say what a step does. Operators marked
*Seeded fault* are variants of the definition that follows them; putting one in its place
must break a property, which shows that the property depends on the code it is about.

Each module has a type invariant (`TypeOK`, `GTypeOK`, `CacheTypeOK`, `SchemaTypeOK`,
`ThrottleTypeOK`, `ServerTypeOK`, `ConsumerTypeOK`, `UserTypeOK`, `GrantTypeOK`,
`RefresherTypeOK`). The runs list `TypeOK` only; the others hold in the runs of their
modules when they are added to the configuration.

## 3. Runs

### Properties that hold

| Run | What it shows |
|---|---|
| `queue_dlq` | keyed messages through retry, promotion at the second failure, requeue, purge and crashes. `DlqOrigin`, `PendingIsReady` (a pending row can be dequeued), `ClaimIsStable` (no upsert reaches a claimed row), `DlqNotRetried`, and the refinement `FollowsLifecycle` |
| `queue_claims` | two producers, two consumers, a depth limit of 1, a TTL. `NoOrphanClaim`, `DepthBound` (overshoot below the number of concurrent callers), and liveness: `PendingSettles` |
| `queue_replay` | archival, replay, trim and the archive reaper while the topic's configuration is deleted under stale reads. `TypeOK`, `AckedIsGone` (replay copies, it does not revive) |
| `groups_safety` | two groups that join and leave in transactions that overlap everything else. `NoGhostDelivery` (a delivery of a group that is gone is only of a message inserted while the group was leaving), `GroupMissesNothing` (a group misses only a message inserted while it was joining), `GroupIndependence` |
| `groups_settle` | two groups that stay, on a replayable topic. `NoServedRemnant` (only two overlapping acks leave a message that nobody waits for), `ArchivedWhenAllAcked` (only a backfill between COUNT and DELETE is lost with an archived message), and liveness: `DeliverySettles` |
| `tx_safety` | two group acks, a Dequeue and Ack without a group, a registration and an Enqueue. `ArchivedOnce`, and `TransactionsEnd` despite opposite lock orders |
| `topic_registries` | two instances read and change the configuration and the schema. `StaleOnlyAfterRace` (an outdated entry is about to be dropped unless its invalidation overtook the read or was lost), `JudgedByFetched` (a payload is judged by the schema that was fetched, not by what happens to be compiled), `RefusedHasDefect`, and liveness: `SharedConverges` (the copy in Redis) |
| `server_instances` | two processes start, tick, reap on request, change their schedule, crash and shut down. `SerialUpdatesApply`, and liveness: `ReapersKeepWorking` (skipped ticks and processes that die with the lock lock no reaper out), `ShutdownCompletes` once the clients leave |
| `throughput_limit` | transactions of different ages draw from the bucket while the limit is set, lifted and deleted. `RateBound` (no more is dispensed than time has earned), `FullAfterRest` (no lasting debt) |
| `go_consumer` | a streaming and a polling consumer, streams that break, windows that fill, calls that fail, cancellation, crashes. `ClaimHasOneOwner`, and liveness if handlers return: `ClaimEnds`, `CancelReturns` |
| `credentials` | `ClaimsLag` (a token's claims are no older than the token and the request that made it), `EmptiedByLateToken` (the last account falls only to a token that has outlived its own), `GrantsDecide` (both servers decide a user's calls alike, by what the patterns mean), `TokenStaysValid` through two failed refreshes in a row whose calls take up to 40 s, `NoBusyRefresh` (only an answer inside the advance window makes the refresher spin), and liveness: `TokenRecovers` |

`NoOrphanClaim` is checked without keys and without crashes because it fails with either
(see Variations and `lapsed_claim`). The group runs use no client without a
group, for the same reason. `DepthBound` holds where nothing is requeued or replayed:
neither operation asks for the depth. `tx_safety`, `go_consumer` and the grants and
accounts of `credentials` may come to an end (all calls returned, all consumers stopped, all bounds
reached), so these runs do not check for deadlock; `TransactionsEnd`, `ClaimEnds` and
`CancelReturns` say that nobody waits for ever.

### Where documentation and code disagree

`lapsed_claim` violates `LapsedClaimReturns`, which `docs/guide/concepts.md:34` states: a
crashed client's claim is never returned, because dequeues take `pending` rows only and
nothing turns `processing` into `pending`. It ends only with the message's TTL, if it has
one.

### Variations

Each of the following changes a passing run and makes TLC show a behaviour of the code
that the run excludes. A property named here and in no run is defined in the module, with
the sentence it states.

Messages and claims:

- `queue_claims` with `Keys = {k}` violates `NoOrphanClaim`: a key enqueued again during a
  claim makes the Nack fail on the unique index, and the row stays `processing` with no
  holder;
- `queue_claims` with `DlqThreshold = 1`, `MaxDlqDepth = 1` and the invariant
  `ExclusiveClaim`: Requeue ignores the status and re-issues a claimed message
  (`lifecycle.go:382`). Without promotion the invariant holds, by the atomic Dequeue alone,
  which says little; `concepts.md:34` would give a lapsed claim to a second consumer too;
- `queue_dlq` with `DlqThreshold = 1` violates `DlqOrigin`: a nack in the DLQ promotes to
  `.dlq.dlq`, whose `original_topic` is the DLQ (`docs/guide/concepts.md:157`);
- `queue_dlq` with `AdminConfigs` holding a configuration whose `maxRetries` is 1 violates
  `PendingIsReady`: an upsert under the lowered `max_retries` makes a retried pending row
  undeliverable (`concepts.md:145`).

Groups:

- `groups_safety` with `Keys = {k}` and two payloads violates `GroupMissesNothing`: a
  keyed update of a message a group has acknowledged never reaches that group
  (`docs/guide/consumer-groups.md:29`);
- `groups_settle` with `Consumers = {c2}`, a client without a group, violates
  `ArchivedWhenAllAcked`: its Ack deletes what groups have not acknowledged
  (`consumer-groups.md:9`);
- `groups_safety` with `g \notin raced[m]` removed from `NoGhostDelivery` or from
  `GroupMissesNothing` violates either: an unregistration that overlaps an Enqueue leaves a
  delivery of a group that is gone (`consumer_group.go:90`), a registration that overlaps
  one leaves the group without the message (`consumer_group.go:46`, `consumer-groups.md:29`);
- `groups_settle` with `crossed` removed from `NoServedRemnant` violates it: two last acks
  count each other's delivery (`lifecycle.go:247`) and nobody deletes the message; with
  `g \notin raced[m]` removed from `ArchivedWhenAllAcked` that is violated: a registration
  commits between the COUNT and the DELETE (`lifecycle.go:258`) and its backfilled delivery
  goes with the archived message (`consumer-groups.md:9`);
- `tx_safety` with `Joining = {}`, `Legacy = {}` and the invariant `DeletedAfterFinalAck`:
  two concurrent last acks each count the other's delivery, and the message stays;
- `tx_safety` with the invariant `RegisteredGetsAll`: an overlapping registration and
  Enqueue leave the group without the message (`consumer-groups.md:29`).

Caches and schemas:

- `topic_registries` with `~e.doubtful` removed from `Outdated` violates
  `StaleOnlyAfterRace`: a read that overlaps an update stores the old configuration after
  the invalidation (`topic_config.go:76`), and the in-process entry has no expiry;
  `concepts.md:211` speaks of 30 seconds, which only the Redis entry has. The failing
  bucket deletion (`topic_config.go:119`) and a lost notification have the same effect;
- `topic_registries` with the property `StaleEntryDropped`: for the same reasons an outdated
  entry may stay for as long as its process runs;
- `topic_registries` with `Reused` removed from `JudgedByFetched` violates it: a schema
  that is deleted and registered again gets version 1 again, and an instance that missed
  the invalidation judges by the compiled form of the old text (`schema.go:237`);
- `topic_registries` with the invariant `AcceptedConforms`: a field of a nullable type
  accepts any value, because the `null` branch of the union falls into the default case of
  `validateJSONValueAgainstAvro` (`schema.go:340`), and a quoted number passes for an
  `int`; `docs/guide/schema-validation.md:18` asks for a value compatible with the type.

Processes and clients:

- `server_instances` with `i \notin overlapped` removed from `SerialUpdatesApply` violates
  it: two schedule updates at once leave a scheduler that nothing stops
  (`reaper.go:245`);
- `server_instances` with the property `StoredScheduleWins`: a stored empty schedule (the
  reaper switched off) or a failing read of the setting gives way to the static one at the
  next start (`docs/guide/configuration.md:266`);
- `credentials` with the invariant `GlobCoversRoot`: a grant on `orders.*` gives no access
  to `orders`, which `docs/guide/authentication.md:52` says it matches; `MatchesPattern`
  asks for the dot. The tests (`permissions_test.go:29`) are on the side of the code, and
  so is `Covers`;
- `credentials` with `CallBudget = 9` violates `TokenStaysValid`: 60 s before the expiry
  leave 8 ticks (40 s) for the calls when two of them fail, beside waits of 5 s and 10 s.
  One failure leaves 50 s, three leave 20 s (both pass); a single call may take 30 s, so two
  refreshes that run into their timeout use up the window. `shortened` excepts a token that
  ends before the one the refresher's sleep was computed from: the refresher does not see
  it before it wakes;
- `credentials` with the invariant `NeverBusy`: a refresher of the program that answers with
  a token inside the advance window is called again at once, and again, without a pause
  (`client.go:118`).

Access that grants do not decide: the gRPC server is given an interceptor for unary calls
only (`main.go:122`), so `Subscribe` reaches `checkDequeueGrant` without claims, which
passes; and the `admin` and `read` grants that `authentication.md:57-59` describes for
configurations, schemas and statistics are not consulted, since those routes ask for an
administrator (`http.go:151-158`). `checkGrant`, `checkDequeueGrant` and `requireGrant` have
these cases; `GrantsDecide` is about the calls that carry a user's claims, on the routes
that ask for grants.

Observations without a property of their own: with `dlq_threshold > max_retries` exhausted
messages fail in their topic and never reach the DLQ, the opposite of what the start-up
warning (`cmd/server/main.go:95`) says; Requeue keeps `expires_at`, so a message whose TTL
ran out in the DLQ comes back undeliverable until the expiry reaper ends it;
in `GoConsumer` every claim in `lost` stays claimed, as in `lapsed_claim`, whether a stream broke, a context was cancelled before its Ack, or a
batch handler returned without settling; a server configured without an administrator's
name or password serves with no account (`seed.go:17`); a connected client
that does not close its stream holds up GracefulStop for as long as it likes.

### Bounds

`MaxId` bounds the rows ever inserted (1 to 4), `MaxDlqDepth` the number of `.dlq`
suffixes a promotion may reach. Two rows are what a key collision, an overtaking upsert
or a race for a claim needs, three what two producers need to overshoot a depth limit
of 1 by more than the bound allows, four what a replay of two log rows with one key
needs. In `queue_dlq` the depth bound is one more than any promotion reaches, so it
never hides a nested DLQ. In `groups_safety` one row is enough: what is in flight there is
registrations and acks of the same message, and `groups_settle` has two rows. Retry budgets of 2 or 3 give every position relative to the
threshold. Two groups suffice for "the other group"; one member process serves both,
since its claims are independent of each other. Producers, consumers and groups are
symmetric in the safety runs; liveness runs use no symmetry.

`topic_registries`: two instances (the one that changes and another), one reader and one
administrator at a time, two changes (`MaxChanges`, `MaxAttempts`), which are enough for a
delete and a re-creation between two steps of a read. Schemas "flat" and "nested" and
three payloads give a null, a defaulted and a nested field each a verdict; "broken" does
not parse.

`server_instances`: two processes, two updates, two simultaneous ticks, one client, one
schedule besides "off" and one expression that does not parse.

`throughput_limit`: a limit of 2 per second and 2 ticks per message make a second of four
ticks; `MaxTime = 5` lets a transaction begin a full second after another one's refill.
`MaxWant = 2` is the limit, `MaxDeletes = 1` starts the bucket afresh once.

`go_consumer`: two messages, window 1 and concurrency 1, so that both fill; two streams,
so that a client subscribes again while the server still serves the broken one; a batch of
2. With `BackoffStart = BackoffMax` the length of waits plays no part.

`credentials`: two ids, names, sessions and servers, tokens of 2 ticks, requests of up to
1 tick, three account changes (an administrator is made, and two accounts go); three grants, five patterns, topics of up to three
characters; for the refresher a tick is 5 s and the numbers are those of the code: tokens
of 15 minutes, 60 s before the end, backoff from 5 s to 60 s, calls of up to 30 s (the
timeout of its HTTP client). `Tolerated` and `CallBudget`, two failures and 40 s of calls,
are one of the largest pairs that fit the window.

### Fairness

- `MessageQueue`, `ConsumerGroups`: weak fairness of Dequeue on every topic, of settling
  by every client, and of the expiry reaper. Clients poll in a loop (`Subscribe` retries
  with backoff for ever, the client libraries reconnect), every dispatch ends in an Ack or
  a Nack even when the handler panics, and the server starts the expiry reaper with a
  one-minute ticker unconditionally. Nothing is assumed of clocks, producers,
  administrators or the delete reaper.
  In `ConsumerGroups` a transaction that has run its statements also commits.
- `GroupTransactions`: every call is carried on to its end.
- `TopicConfigCache`, `SchemaRegistry`: a request that has begun runs on, a listener
  handles what it has received (one goroutine per channel, a loop without an exit but the
  context), and a Redis entry does not outlive its 30 seconds. Reconnection is not assumed.
- `ServerInstances`: requests under way, ticks and the steps of the shutdown are carried
  on, and the ticker of a reaper keeps firing while its process is up (weakly: a tick that
  finds the lock taken is skipped). Clients close their streams when they like: `ShutdownCompletes` has their leaving as
  its premise.
- `GoConsumer`: the goroutines of Subscribe and Consume, the Ack and Nack calls, and the
  detection of a broken link (keepalive or the transport) proceed. Handlers are the
  program's: that they return is the premise `HandlersReturn`.
- `TokenRefresher`: the goroutine runs and time passes.

## 4. Proofs

TLAPS proves the theorems below for every value of the constants that satisfies the named
assumptions of the modules: any number of producers, consumers, groups, messages,
instances, requests and transactions, any limits and durations. Where the table names an
extra assumption, the theorem has it as a hypothesis. It excludes a behaviour in which
the property really fails (the variations of section 3), or it is the setting in which the
property is meant. The assumptions on `Null`, `Miss` and `Garbled` say that a "no value"
marker is not one of the values; `Parses(InitSchema.text)` says that the service starts
with a schema it has itself accepted.

**`MessageQueue_proofs`**, of `Spec`:

| Theorem | Extra assumption | Argument |
|---|---|---|
| `TypeCorrect`: `TypeOK` | – | inductive as it stands; the last conjunct (ids not yet used name no row) is what inserts need |
| `AckedStaysGone`: `AckedIsGone` | – | with the types: log rows appear only for a row deleted in the same step, rows only at fresh ids |
| `DlqOriginHolds` | `DlqThreshold # 1` | `DlqInv` adds that a row in a DLQ has budget 0 and a fresh retry count unless it has failed, that log rows come from ordinary topics, and that requests name ordinary topics. DLQ topics have no override, so the global threshold alone decides; from retry count 0 it is not reached |
| `DlqNotRetriedHolds` (action) | `DlqThreshold # 1` | from `DlqInv`: a nack in a DLQ fails the row |
| `PendingIsReadyHolds` | `NoBudgetOverride` | `ReadyInv`: every budget is one of the three the settings can produce and a retried pending row is below it; needed because an upsert, a promotion and a requeue each write a budget |
| `ClaimIsStableHolds` (action) | – | per effect on a row: only an upsert writes payload and budget of a row that stays, and it needs a pending one |
| `NoOrphanClaimHolds` | `Keys = {}`, no crashes | every step that ends a hold ends the claim with it; without keys a Nack never fails on the index |
| `DepthBoundHolds` | finitely many producers; `EnqueueOnly` (`NoPromotion`, no topic replayable); `FixedDepthLimit` (other settings of a topic may change) | `DepthInv`: rows that count and Enqueue calls that have passed the check stay together below the limit plus the number of producers. A call passes only while the rows alone are below the limit, and there are no more calls than producers; an insert turns a call into a row; nothing else adds either. Requeue and replay add rows without asking, and a lowered limit may be below what is already there, hence the assumptions |
| `FollowsLifecycleHolds` (refinement) | `DlqThreshold # 1` | `Init` maps to the abstract `Init`, and each operation to a move of `MessageLifecycle` or a stutter; `DlqInv` for "parked messages are not retried", `AckedIsGone` for "what is gone stays gone" |

**`ConsumerGroups_proofs`**, of `GSpec`, which has all steps of the message table too:

| Theorem | Extra assumption | Argument |
|---|---|---|
| `GTypeCorrect`: `GTypeOK`, `Backed` (the foreign key) and `AckHolds` | – | inductive together: an open ack keeps its delivery locked, so that its message cannot go before it commits |
| `NoGhostDeliveryHolds` | `TopicsStay`: no client without a group, or no promotion | `Plain`: no row or log row has an original topic, so nothing is requeued, and no nack moves a message; then a delivery's topic and group stay as they were when it was minted. `LeavingCovers`: an unregistration under way has every delivery of its group in its rows but those `raced` names |
| `GroupMissesNothingHolds` | `Consumers = {}`, `Keys = {}` | with `Handed`: a delivery that is being processed was handed out with the payload the message still has, so the ack that removes it leaves the group served; a registration under way has, beside those `raced` names, a row for every pending message of the topic that the group has no delivery of |
| `NoServedRemnantHolds` | `Consumers = {}`, groups stay | outside `crossed` a message has one open ack at most, and what it has counted is still there when it commits; a new row and a new group each mint a delivery |
| `GroupIndependenceHolds` (action) | – | each step writes deliveries of one group only, unless it inserts or deletes the message |
| `ArchivedWhenAllAckedHolds` (action) | `Consumers = {}` | no step of the message table archives then; between the COUNT of a last ack and its DELETE only a registration adds a delivery, and `CommitChange` records it in `raced` |

Without the exceptions `raced` and `crossed` the properties fail (section 3): the theorems
say that these overlaps are the only ones that matter.

**`GroupTransactions_proofs`**, of `Spec`: `ArchivedOnceHolds`, from `TxInv`. It says of each transaction what it has locked and what
it may rely on (`Own`), of each two that their locks exclude each other (`Apart`), and of
the committed rows the properties themselves. Whoever deletes the message holds its row,
so no foreign-key check holds it, and has taken every committed delivery along; an ack
that archives still has its own committed delivery, hence the message is there, hence
nobody has archived it yet.

**`ThroughputLimit_proofs`**, of `Spec`: `RateBoundHolds` and `FullAfterRestHolds`, from
`ThrottleInv`. It is a balance: what has been drawn, is being drawn and is left in the
bucket never exceeds `last_refill` plus the allowance. A refill from a transaction older
than the last lowers both sides, and the debt it leaves never passes the time of the last
use.

**`ServerInstances_proofs`**, of `Spec`: `SerialUpdatesApplyHolds`, from `SerialInv`, which says for each
position of a single update which scheduler runs and which one the stop function stops.

**`TopicRegistries_proofs`**: `StaleOnlyAfterRaceHolds` (of the cache's `Spec`) from
`StaleInv`: an outdated, undoubted entry needs a change that has not announced itself; as
long as that change has not dropped the Redis entry, Redis and reads under way may have
the old row, afterwards only in-process entries, and the invalidation is on its way to
them. `ReadsWereHeldHolds`: a read returns a value the row has had, which is the only
thing `MessageQueue` assumes of `GetTopicConfig`. `JudgedByFetchedHolds` (of `SSpec`) from
`SchemaInv`: what is compiled, shared or fetched has been the row, so two schemas of one
version differ only if the version was issued twice.

**`GoConsumer_proofs`**, of `Spec`: `ClaimHasOneOwnerHolds`, from `OwnerInv`. The property
is a sum of four cardinalities; `OwnedOnce` says it without counting (one of the sets of
Subscribe calls, stream positions, consumers and handlers that have the message is a
singleton and the others are empty) so that each step is argued by which set gains and
which loses a member. The steps rely on three things more. A stream that no
Consume call reads is empty: what was on it when its reader left is lost, not owned; and
no message is twice on a stream (`StreamsInOrder`). A Consume call has a
stream exactly while it drains it, and messages of a batch only inside the batch handler
(`CallsInOrder`): that is what makes leaving the loop let go of everything at hand. And
what is lost is still claimed, so a Dequeue never hands out a lost message as a new one.
No assumption is added: cancellations, crashes and failing calls are all included.

**`Credentials_proofs`**, of the next-state relations of `TokenRefresher`, `UserTokens`
and `Permissions`, without their fairness:
`NoBusyRefreshHolds` (`PauseInv`: after a call that was not answered from inside the
window there is a pause ahead, whatever the answer or failure was), `ClaimsLagHolds`
(`LagInv`: also the requests between reading the row and signing), `EmptiedByLateTokenHolds`
(from `LagInv`: Delete refuses the caller's own account, so the caller who deletes the last
account has none, and its token says for how long), and `TokenStaysValidHolds` from
`CoverInv`: what is left of the token covers the call or wait under way and those to come.
The last has a hypothesis `FitsWindow(wait, need)`: the doubling waits and `CallBudget`
together fit the window of 60 s before the expiry. `wait` and `need` are two functions
instead of a recursive definition; for the numbers of the code in ticks of 5 s and two
failures the waits are 1 and 2, which with 8 ticks of calls stay below 12.
`GrantsDecideHolds` rests on
`MatchesAsMeant`: for all patterns and topics, sequences of any characters and length, the
text comparison of `MatchesPattern` decides what `Covers` says of the parts. A name is
determined by its parts (`PartsFixName`) because every character but a dot belongs to a
part that begins at or before it (`PartOf`, from the least position without a dot in
between). The decisions of both servers then follow from the grants in the table, which
are grants of the declared types in every state (`GrantTypeOK`).

The proofs about `MessageQueue` go through lemmas that list what any step can do to one
message row (`RowSteps`), one log row (`LogSteps`) and one request (`RequestSteps`), and
those about groups through what a step does to one delivery (`GroupSteps`), so that an
invariant is argued per effect and not per action. Induction over numbers is used in the
form "a non-empty set of numbers has a least member" (`SmallestNumber`), which follows
from the well-foundedness of strict inclusion among finite sets. All inductive invariants were checked
with TLC on the instances of section 3 first.

Only model-checked:

- the liveness properties `PendingSettles`, `DeliverySettles`, `TransactionsEnd`,
  `SharedConverges`, `ReapersKeepWorking`, `ShutdownCompletes`, `ClaimEnds`,
  `CancelReturns` and `TokenRecovers`: fairness is out of the prover's reach;
- `RefusedHasDefect`: `AvroValidation` is recursive over schemas, and the prover has no
  way to unfold a recursive operator. The half that is about the registry (a verdict is
  that of the schema that was fetched) is `JudgedByFetchedHolds`.

## 5. Not modelled

- The connection pool as a counted resource: Nack, NackForGroup and Requeue read the
  configuration on a second connection while they hold one in a transaction
  (`lifecycle.go:128`). The methods are atomic in `MessageQueue`, so their waiting for a
  connection is outside it; the hazard is listed without a property.
- PostgreSQL failures other than rollbacks: a failed transaction changes nothing.
- Listing, statistics and metrics only read. Configuration parsing, migrations as a
  procedure, translation between JSON, protocol and service types, the admin UI, the
  seeder, the load test and generated code hold none of the state above. The Go client's
  producer and `admin.go` make one call per method.
- The Node and Python clients follow the same protocol as the Go client, whose loops are
  the ones modelled.
- Password hashes and token signatures: whoever has a token has its claims.

## 6. Plan

1. *Done*: the modules above, the refinement, and a theorem for every safety property of
   the runs but `RefusedHasDefect`.
2. The connection pool as a counted resource (section 5), for the deadlock it may lead to.
3. The validator for all schemas: it would have to be restated as a function on schemas of
   bounded depth, with a proof that this function exists.
