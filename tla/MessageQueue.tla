---------------------------- MODULE MessageQueue ----------------------------
(***************************************************************************)
(* The message table of queue-ti and the service methods that change it:   *)
(* enqueue with keyed upsert, dequeue (single and batch), ack, nack with   *)
(* dead-letter promotion, requeue, purge, replay from the message log, the *)
(* expiry and delete reapers, and the topic configuration they read.       *)
(*                                                                         *)
(* Each service method runs in one PostgreSQL transaction whose decisive   *)
(* read takes the row lock its write needs (FOR UPDATE, or a single UPDATE *)
(* or INSERT statement), so each is one atomic action here.  Enqueue is    *)
(* the exception: its depth check is a statement of its own, so it is two  *)
(* actions.  An early return that changes nothing is a stuttering step and *)
(* appears only as the guard of the action.                                *)
(*                                                                         *)
(* Clocks are abstracted: a row's TTL and its visibility timeout are       *)
(* "running" until an action lets them elapse.                             *)
(***************************************************************************)
EXTENDS Naturals, FiniteSets, Functions

CONSTANTS
    Topics,            \* names of ordinary (non-DLQ) topics
    Keys,              \* deduplication keys
    Payloads,          \* message payloads
    Producers,         \* concurrent Enqueue calls
    Consumers,         \* client processes that dequeue
    Null,              \* SQL NULL and Go nil
    MaxRetries,        \* s.maxRetries, the global retry budget
    DlqThreshold,      \* s.dlqThreshold, 0 switches promotion off
    MessageTTL,        \* s.messageTTL, 0 means no TTL
    RequireRegistration, \* s.requireTopicRegistration
    InitConfig,        \* the topic_config table the service starts with
    AdminConfigs,      \* what an administrator may write (Null: delete)
    ConsumersMayCrash, \* whether a client can vanish with its claims
    MaxId,             \* bound on rows ever inserted
    MaxDlqDepth        \* bound on the number of ".dlq" suffixes

Ids == 1..MaxId

\* A topic name is an ordinary name followed by `dlq` copies of ".dlq".
Topic == [name : Topics, dlq : Nat]

OrdinaryTopic(t) == [name |-> t, dlq |-> 0]

HasDlqSuffix(t) == t.dlq > 0

DlqOf(t) == [t EXCEPT !.dlq = @ + 1]

TopicConfig ==
    [maxRetries   : Nat \cup {Null},
     messageTTL   : Nat \cup {Null},
     maxDepth     : Nat \cup {Null},
     replayable   : BOOLEAN,
     replayWindow : Nat \cup {Null}]

ASSUME TuningAssumption ==
    /\ MaxRetries \in Nat
    /\ DlqThreshold \in Nat
    /\ MessageTTL \in Nat
    /\ MaxId \in Nat
    /\ MaxDlqDepth \in Nat
    /\ RequireRegistration \in BOOLEAN
    /\ ConsumersMayCrash \in BOOLEAN

ASSUME ConfigAssumption ==
    /\ InitConfig \in [Topics -> TopicConfig \cup {Null}]
    /\ AdminConfigs \subseteq TopicConfig \cup {Null}

Status == {"pending", "processing", "failed", "expired"}
Active == {"pending", "processing"}

\* A clock column: NULL, in the future, or in the past.
Clock == {"null", "running", "elapsed"}

Row ==
    [topic      : Topic,
     key        : Keys \cup {Null},
     payload    : Payloads,
     status     : Status,
     retry      : Nat,
     maxRetries : Nat,
     original   : Topic \cup {Null},
     ttl        : Clock,
     vis        : Clock]

\* A row of message_log; `aged` once acked_at is older than the replay window.
LogEntry ==
    [topic      : Topic,
     key        : Keys \cup {Null},
     payload    : Payloads,
     maxRetries : Nat,
     original   : Topic \cup {Null},
     ackedAt    : Nat,
     aged       : BOOLEAN]

\* An Enqueue call between its depth check and its INSERT.
Request ==
    [topic      : Topic,
     key        : Keys \cup {Null},
     payload    : Payloads,
     maxRetries : Nat,
     ttl        : Clock]

ASSUME NullAssumption ==
    /\ Null \notin Keys
    /\ Null \notin Nat
    /\ Null \notin Topic
    /\ Null \notin Row
    /\ Null \notin LogEntry

VARIABLES
    messages,  \* the messages table, by id; ids follow created_at
    nextId,    \* the next id to be inserted
    log,       \* the message_log table, by message id
    acks,      \* the clock behind acked_at: archivals so far
    config,    \* the topic_config table
    seen,      \* every value a topic's configuration has had
    request,   \* the Enqueue call of each producer, if one is under way
    held       \* the messages each consumer has received and not settled

vars == <<messages, nextId, log, acks, config, seen, request, held>>

-----------------------------------------------------------------------------
(* Reads *)

Live == {m \in Ids : messages[m] # Null}

InStatus(m, S) == messages[m] # Null /\ messages[m].status \in S

\* GetTopicConfig answers from caches that are never known to be fresh (the
\* in-process one has no expiry and invalidations can be lost), so a read may
\* return any value the configuration has had.  DLQ topics have none.
GetTopicConfig(t) == IF HasDlqSuffix(t) THEN {Null} ELSE seen[t.name]

\* A failed read counts as "no configuration" here: the error is dropped.
effectiveDLQThreshold(cfg) ==
    IF cfg # Null /\ cfg.maxRetries # Null THEN cfg.maxRetries ELSE DlqThreshold

resolveExpiresAt(cfg) ==
    LET seconds == IF cfg # Null /\ cfg.messageTTL # Null
                   THEN cfg.messageTTL ELSE MessageTTL
    IN  IF seconds = 0 THEN "null" ELSE "running"

\* Seeded fault: the nil pointer of an unset override is followed.
resolveMaxRetriesUnchecked(cfg) ==
    IF cfg # Null THEN cfg.maxRetries ELSE MaxRetries

resolveMaxRetries(cfg) ==
    IF cfg # Null /\ cfg.maxRetries # Null THEN cfg.maxRetries ELSE MaxRetries

resolveMaxDepth(cfg) ==
    IF cfg # Null /\ cfg.maxDepth # Null THEN cfg.maxDepth ELSE 0

\* Seeded fault: claimed messages are not counted.
DepthOfPending(t) ==
    Cardinality({m \in Live : messages[m].topic = t /\ InStatus(m, {"pending"})})

Depth(t) ==
    Cardinality({m \in Live : messages[m].topic = t /\ InStatus(m, Active)})

\* Seeded fault: the index covers claimed rows too.
ActiveWithKey(t, k) ==
    {m \in Live : /\ k # Null
                  /\ messages[m].topic = t
                  /\ messages[m].key = k
                  /\ messages[m].status \in Active}

\* The entries of the partial unique index on (topic, key).
PendingWithKey(t, k) ==
    {m \in Live : /\ k # Null
                  /\ messages[m].topic = t
                  /\ messages[m].key = k
                  /\ messages[m].status = "pending"}

\* The WHERE clause of the dequeue statements.
Claimable(t) ==
    {m \in Live : /\ messages[m].topic = t
                  /\ messages[m].status = "pending"
                  /\ messages[m].vis # "running"
                  /\ messages[m].ttl # "elapsed"
                  /\ \/ messages[m].maxRetries = 0
                     \/ messages[m].retry < messages[m].maxRetries}

-----------------------------------------------------------------------------
Init ==
    /\ messages = [m \in Ids |-> Null]
    /\ nextId = 1
    /\ log = [m \in Ids |-> Null]
    /\ acks = 0
    /\ config = InitConfig
    /\ seen = [t \in Topics |-> {InitConfig[t]}]
    /\ request = [p \in Producers |-> Null]
    /\ held = [c \in Consumers |-> {}]

-----------------------------------------------------------------------------
(* Enqueue *)

\* Registration check, parameter resolution and the soft depth check.  The
\* configuration is read twice, and the two reads need not agree.
EnqueueCheck(p, t, k, v) ==
    \E registered, cfg \in GetTopicConfig(OrdinaryTopic(t)) :
        /\ request[p] = Null
        /\ RequireRegistration => registered # Null
        /\ \/ resolveMaxDepth(cfg) = 0
           \/ Depth(OrdinaryTopic(t)) < resolveMaxDepth(cfg)
        /\ request' = [request EXCEPT ![p] =
               [topic      |-> OrdinaryTopic(t),
                key        |-> k,
                payload    |-> v,
                maxRetries |-> resolveMaxRetries(cfg),
                ttl        |-> resolveExpiresAt(cfg)]]
        /\ UNCHANGED <<messages, nextId, log, acks, config, seen, held>>

\* The row an INSERT creates; the columns it does not name take their defaults.
Inserted(r) ==
    [topic      |-> r.topic,
     key        |-> r.key,
     payload    |-> r.payload,
     status     |-> "pending",
     retry      |-> 0,
     maxRetries |-> r.maxRetries,
     original   |-> Null,
     ttl        |-> r.ttl,
     vis        |-> "null"]

\* The INSERT of a request that meets no pending row with its key.
EnqueueInsert(p) ==
    LET r == request[p] IN
    /\ r # Null
    /\ PendingWithKey(r.topic, r.key) = {}
    /\ nextId <= MaxId
    /\ messages' = [messages EXCEPT ![nextId] = Inserted(r)]
    /\ nextId' = nextId + 1
    /\ request' = [request EXCEPT ![p] = Null]
    /\ UNCHANGED <<log, acks, config, seen, held>>

\* DO UPDATE SET: the retry count and the expiry time stay as they are.
Upserted(r, req) ==
    [r EXCEPT !.payload = req.payload, !.maxRetries = req.maxRetries]

\* The INSERT of a request that meets a pending row with its key.
EnqueueUpsert(p) ==
    LET r == request[p] IN
    /\ r # Null
    /\ \E m \in PendingWithKey(r.topic, r.key) :
           messages' = [messages EXCEPT ![m] = Upserted(messages[m], r)]
    /\ request' = [request EXCEPT ![p] = Null]
    /\ UNCHANGED <<nextId, log, acks, config, seen, held>>

-----------------------------------------------------------------------------
(* Dequeue *)

Claim(c, S) ==
    /\ messages' = [m \in Ids |->
           IF m \in S
           THEN [messages[m] EXCEPT !.status = "processing", !.vis = "running"]
           ELSE messages[m]]
    /\ held' = [held EXCEPT ![c] = @ \cup S]
    /\ UNCHANGED <<nextId, log, acks, config, seen, request>>

\* The oldest claimable row that no other transaction has locked.  A row can
\* be locked by a transaction that rolls back, so any subset may be skipped.
Dequeue(c, t) ==
    \E locked \in SUBSET Claimable(t) :
        \E m \in Claimable(t) \ locked :
            /\ \A n \in Claimable(t) \ locked : m <= n
            /\ Claim(c, {m})

\* Up to n rows, oldest first; the statement excludes DLQ topics.
DequeueN(c, t, n) ==
    /\ ~HasDlqSuffix(t)
    /\ \E locked \in SUBSET Claimable(t) :
           \E S \in SUBSET (Claimable(t) \ locked) :
               /\ S # {}
               /\ Cardinality(S) <= n
               /\ Cardinality(S) = n \/ S = Claimable(t) \ locked
               /\ \A m \in S, o \in (Claimable(t) \ locked) \ S : m < o
               /\ Claim(c, S)

-----------------------------------------------------------------------------
(* Ack, Nack, Requeue *)

Settle(c, m) == held' = [held EXCEPT ![c] = @ \ {m}]

\* archiveToLog reads topic_config in its own transaction, not through a cache.
Replayable(t) ==
    /\ ~HasDlqSuffix(t)
    /\ config[t.name] # Null
    /\ config[t.name].replayable

Archived(r, at) ==
    [topic      |-> r.topic,
     key        |-> r.key,
     payload    |-> r.payload,
     maxRetries |-> r.maxRetries,
     original   |-> r.original,
     ackedAt    |-> at,
     aged       |-> FALSE]

archiveToLog(m) ==
    IF Replayable(messages[m].topic)
    THEN /\ log' = [log EXCEPT ![m] = Archived(messages[m], acks + 1)]
         /\ acks' = acks + 1
    ELSE UNCHANGED <<log, acks>>

\* Seeded fault: the acknowledged row is archived but not deleted.
AckWithoutDelete(c, m) ==
    /\ m \in held[c]
    /\ InStatus(m, {"processing"})
    /\ archiveToLog(m)
    /\ Settle(c, m)
    /\ UNCHANGED <<messages, nextId, config, seen, request>>

Ack(c, m) ==
    /\ m \in held[c]
    /\ InStatus(m, {"processing"})
    /\ archiveToLog(m)
    /\ messages' = [messages EXCEPT ![m] = Null]
    /\ Settle(c, m)
    /\ UNCHANGED <<nextId, config, seen, request>>

\* Ack and Nack of a row that is gone or no longer 'processing' return
\* ErrNotFound or ErrNotProcessing; the client logs it and moves on.
SettleRejected(c, m) ==
    /\ m \in held[c]
    /\ ~InStatus(m, {"processing"})
    /\ Settle(c, m)
    /\ UNCHANGED <<messages, nextId, log, acks, config, seen, request>>

\* Seeded fault: promotion forgets to reset the retry count.
PromotedKeepsRetry(r) ==
    [r EXCEPT !.topic      = DlqOf(r.topic),
              !.original   = r.topic,
              !.status     = "pending",
              !.maxRetries = 0,
              !.vis        = "null"]

\* Seeded fault: promotion keeps the retry budget.
PromotedKeepsBudget(r) ==
    [r EXCEPT !.topic    = DlqOf(r.topic),
              !.original = r.topic,
              !.status   = "pending",
              !.retry    = 0,
              !.vis      = "null"]

\* What Nack writes when the DLQ threshold is reached.
Promoted(r) ==
    [r EXCEPT !.topic      = DlqOf(r.topic),
              !.original   = r.topic,
              !.status     = "pending",
              !.retry      = 0,
              !.maxRetries = 0,
              !.vis        = "null"]

\* Seeded fault: the visibility timeout is not reset.
RetriedKeepsTimeout(r) ==
    [r EXCEPT !.retry  = @ + 1,
              !.status = IF r.retry + 1 >= r.maxRetries THEN "failed" ELSE "pending"]

\* Seeded fault: only the retry count is written.
RetriedKeepsStatus(r) == [r EXCEPT !.retry = @ + 1, !.vis = "null"]

\* What Nack writes otherwise.
Retried(r) ==
    [r EXCEPT !.retry  = @ + 1,
              !.status = IF r.retry + 1 >= r.maxRetries THEN "failed" ELSE "pending",
              !.vis    = "null"]

Nacked(r, threshold) ==
    IF threshold > 0 /\ r.retry + 1 >= threshold THEN Promoted(r) ELSE Retried(r)

\* Whether writing r violates the unique index, which rolls the transaction back.
Collides(r) == r.status = "pending" /\ PendingWithKey(r.topic, r.key) # {}

\* Seeded fault: the status is not checked.
NackAnyStatus(c, m) ==
    /\ m \in held[c]
    /\ messages[m] # Null
    /\ messages' = [messages EXCEPT ![m] = Nacked(@, DlqThreshold)]
    /\ Settle(c, m)
    /\ UNCHANGED <<nextId, log, acks, config, seen, request>>

\* A rejected UPDATE leaves the row as it was; the client has let go of it.
Nack(c, m) ==
    /\ m \in held[c]
    /\ InStatus(m, {"processing"})
    /\ \E cfg \in GetTopicConfig(messages[m].topic) \cup {Null} :
           LET r == Nacked(messages[m], effectiveDLQThreshold(cfg)) IN
           /\ r.topic.dlq <= MaxDlqDepth
           /\ messages' = IF Collides(r) THEN messages
                                         ELSE [messages EXCEPT ![m] = r]
    /\ Settle(c, m)
    /\ UNCHANGED <<nextId, log, acks, config, seen, request>>

\* Requeue asks only for an original_topic; the status and the TTL do not matter.
Requeued(r, threshold) ==
    [r EXCEPT !.topic      = r.original,
              !.original   = Null,
              !.status     = "pending",
              !.retry      = 0,
              !.maxRetries = threshold,
              !.vis        = "null"]

\* The message's own index entry is in the DLQ topic, so it never collides with
\* itself; a collision is an error that changes nothing.
Requeue(m) ==
    /\ messages[m] # Null
    /\ messages[m].original # Null
    /\ \E cfg \in GetTopicConfig(messages[m].original) \cup {Null} :
           LET r == Requeued(messages[m], effectiveDLQThreshold(cfg)) IN
           /\ ~Collides(r)
           /\ messages' = [messages EXCEPT ![m] = r]
    /\ UNCHANGED <<nextId, log, acks, config, seen, request, held>>

-----------------------------------------------------------------------------
(* Reapers, purges and clocks *)

Delete(S) == messages' = [m \in Ids |-> IF m \in S THEN Null ELSE messages[m]]

\* Seeded fault: only claimed messages expire.
RunExpiryReaperOnClaims ==
    /\ messages' = [m \in Ids |->
           IF InStatus(m, {"processing"}) /\ messages[m].ttl = "elapsed"
           THEN [messages[m] EXCEPT !.status = "expired"]
           ELSE messages[m]]
    /\ UNCHANGED <<nextId, log, acks, config, seen, request, held>>

RunExpiryReaper ==
    /\ messages' = [m \in Ids |->
           IF InStatus(m, Active) /\ messages[m].ttl = "elapsed"
           THEN [messages[m] EXCEPT !.status = "expired"]
           ELSE messages[m]]
    /\ UNCHANGED <<nextId, log, acks, config, seen, request, held>>

\* The rows archiveReaperSQL deletes.
Outlived(e) ==
    /\ e # Null
    /\ Replayable(e.topic)
    /\ config[e.topic.name].replayWindow \notin {Null, 0}
    /\ e.aged

ReapArchive == log' = [n \in Ids |-> IF Outlived(log[n]) THEN Null ELSE log[n]]

\* runDeleteWork: expired messages and outlived log rows, in one transaction.
RunDeleteReaper ==
    /\ Delete({m \in Ids : InStatus(m, {"expired"})})
    /\ ReapArchive
    /\ UNCHANGED <<nextId, acks, config, seen, request, held>>

RunArchiveReaper ==
    /\ ReapArchive
    /\ UNCHANGED <<messages, nextId, acks, config, seen, request, held>>

\* The statuses the purge handler accepts.
Purgeable == {"pending", "processing", "expired"}

PurgeTopic(t, S) ==
    /\ Delete({m \in Live : messages[m].topic = t /\ messages[m].status \in S})
    /\ UNCHANGED <<nextId, log, acks, config, seen, request, held>>

PurgeByKey(t, k) ==
    /\ Delete({m \in Live : messages[m].topic = t /\ messages[m].key = k})
    /\ UNCHANGED <<nextId, log, acks, config, seen, request, held>>

TTLElapses(m) ==
    /\ messages[m] # Null
    /\ messages[m].ttl = "running"
    /\ messages' = [messages EXCEPT ![m].ttl = "elapsed"]
    /\ UNCHANGED <<nextId, log, acks, config, seen, request, held>>

VisibilityElapses(m) ==
    /\ messages[m] # Null
    /\ messages[m].vis = "running"
    /\ messages' = [messages EXCEPT ![m].vis = "elapsed"]
    /\ UNCHANGED <<nextId, log, acks, config, seen, request, held>>

-----------------------------------------------------------------------------
(* The message log *)

\* Time passes the replay window for entry n and every older one of its topic.
ReplayWindowElapses(n) ==
    /\ log[n] # Null
    /\ ~log[n].aged
    /\ log' = [o \in Ids |->
           IF /\ log[o] # Null
              /\ log[o].topic = log[n].topic
              /\ log[o].ackedAt <= log[n].ackedAt
           THEN [log[o] EXCEPT !.aged = TRUE]
           ELSE log[o]]
    /\ UNCHANGED <<messages, nextId, acks, config, seen, request, held>>

\* The log rows a replay from time `from` selects: with a window configured, a
\* start before the window is refused and no start means the window's start.
Replayed(t, cfg, from) ==
    {n \in Ids : /\ log[n] # Null
                 /\ log[n].topic = t
                 /\ log[n].ackedAt >= from
                 /\ cfg.replayWindow \notin {Null, 0} => ~log[n].aged}

\* Two rows of one replay that the unique index cannot both admit.
SameKey(n, o) == log[n].key # Null /\ log[n].key = log[o].key

\* The row a replay inserts for log row e.
Copied(e, ttl) ==
    [topic      |-> e.topic,
     key        |-> e.key,
     payload    |-> e.payload,
     status     |-> "pending",
     retry      |-> 0,
     maxRetries |-> e.maxRetries,
     original   |-> e.original,
     ttl        |-> ttl,
     vis        |-> "null"]

\* INSERT ... SELECT ... ON CONFLICT DO NOTHING: `src` maps the new ids to the
\* log rows they copy, in whatever order the scan meets them; a row is left out
\* only when its key is already pending.
ReplayTopic(t, from) ==
    /\ \E cfg \in GetTopicConfig(t) :
          /\ cfg # Null
          /\ cfg.replayable
          /\ \E k \in 0..(MaxId - nextId + 1) :
             \E src \in Injection(nextId..(nextId + k - 1), Replayed(t, cfg, from)) :
                 /\ \A i, j \in DOMAIN src : i # j => ~SameKey(src[i], src[j])
                 /\ \A i \in DOMAIN src : PendingWithKey(t, log[src[i]].key) = {}
                 /\ \A n \in Replayed(t, cfg, from) \ Range(src) :
                        \/ PendingWithKey(t, log[n].key) # {}
                        \/ \E i \in DOMAIN src : SameKey(n, src[i])
                 /\ messages' = [m \in Ids |->
                        IF m \in DOMAIN src
                        THEN Copied(log[src[m]], resolveExpiresAt(cfg))
                        ELSE messages[m]]
                 /\ nextId' = nextId + k
    /\ UNCHANGED <<log, acks, config, seen, request, held>>

TrimMessageLog(t, before) ==
    /\ log' = [n \in Ids |->
           IF log[n] # Null /\ log[n].topic = t /\ log[n].ackedAt < before
           THEN Null ELSE log[n]]
    /\ UNCHANGED <<messages, nextId, acks, config, seen, request, held>>

-----------------------------------------------------------------------------
(* Topic configuration and clients *)

WriteConfig(t, cfg) ==
    /\ config' = [config EXCEPT ![t] = cfg]
    /\ seen' = [seen EXCEPT ![t] = @ \cup {cfg}]
    /\ UNCHANGED <<messages, nextId, log, acks, request, held>>

UpsertTopicConfig(t, cfg) == cfg # Null /\ WriteConfig(t, cfg)

DeleteTopicConfig(t) ==
    /\ Null \in AdminConfigs
    /\ config[t] # Null
    /\ WriteConfig(t, Null)

\* A client that dies, or a stream that breaks after the claim was committed.
ConsumerCrash(c) ==
    /\ ConsumersMayCrash
    /\ held[c] # {}
    /\ held' = [held EXCEPT ![c] = {}]
    /\ UNCHANGED <<messages, nextId, log, acks, config, seen, request>>

-----------------------------------------------------------------------------
KnownTopic == [name : Topics, dlq : 0..MaxDlqDepth]

Next ==
    \/ \E p \in Producers :
          \/ \E t \in Topics, k \in Keys \cup {Null}, v \in Payloads :
                EnqueueCheck(p, t, k, v)
          \/ EnqueueInsert(p)
          \/ EnqueueUpsert(p)
    \/ \E c \in Consumers :
          \/ \E t \in KnownTopic : Dequeue(c, t)
          \/ \E t \in KnownTopic, n \in Ids : DequeueN(c, t, n)
          \/ \E m \in Ids : Ack(c, m) \/ Nack(c, m) \/ SettleRejected(c, m)
          \/ ConsumerCrash(c)
    \/ \E m \in Ids :
          \/ Requeue(m)
          \/ TTLElapses(m)
          \/ VisibilityElapses(m)
          \/ ReplayWindowElapses(m)
    \/ RunExpiryReaper
    \/ RunDeleteReaper
    \/ RunArchiveReaper
    \/ \E t \in KnownTopic :
          \/ \E S \in SUBSET Purgeable : PurgeTopic(t, S)
          \/ \E k \in Keys : PurgeByKey(t, k)
          \/ \E at \in 0..(MaxId + 1) : ReplayTopic(t, at) \/ TrimMessageLog(t, at)
    \/ \E t \in Topics :
          \/ \E cfg \in AdminConfigs : UpsertTopicConfig(t, cfg)
          \/ DeleteTopicConfig(t)

Spec == Init /\ [][Next]_vars

\* The fairness the deployment provides: running clients keep polling and settle
\* what they receive, and the expiry reaper ticks every minute.
Fairness ==
    /\ \A c \in Consumers :
          /\ \A t \in KnownTopic : WF_vars(Dequeue(c, t))
          /\ WF_vars(\E m \in Ids : Ack(c, m) \/ Nack(c, m) \/ SettleRejected(c, m))
    /\ WF_vars(RunExpiryReaper)

FairSpec == Spec /\ Fairness

-----------------------------------------------------------------------------
(* Properties *)

\* No topic ever overrides max_retries, so every row and every nack of the
\* deployment is governed by the same two global settings.
NoBudgetOverride ==
    /\ \A t \in Topics : InitConfig[t] # Null => InitConfig[t].maxRetries = Null
    /\ \A cfg \in AdminConfigs : cfg # Null => cfg.maxRetries = Null

\* Every table, request and claim set holds values of its column types, and ids
\* not yet handed out name no row.
TypeOK ==
    /\ messages \in [Ids -> Row \cup {Null}]
    /\ nextId \in 1..(MaxId + 1)
    /\ log \in [Ids -> LogEntry \cup {Null}]
    /\ acks \in Nat
    /\ config \in [Topics -> TopicConfig \cup {Null}]
    /\ seen \in [Topics -> SUBSET (TopicConfig \cup {Null})]
    /\ request \in [Producers -> Request \cup {Null}]
    /\ held \in [Consumers -> SUBSET Ids]
    /\ \A m \in Ids : m >= nextId => messages[m] = Null /\ log[m] = Null

\* A row carries an original_topic exactly while it sits in a DLQ topic, and it
\* is the topic the DLQ belongs to, so a dead-lettered message can always be
\* requeued to where it came from (Nack, Requeue, ReplayTopic).
DlqOrigin ==
    \A m \in Live :
        LET r == messages[m] IN
        IF HasDlqSuffix(r.topic) THEN r.original = OrdinaryTopic(r.topic.name)
                                 ELSE r.original = Null

\* Every pending row whose TTL has not run out satisfies the WHERE clause of
\* Dequeue: no sequence of nacks, upserts and requeues leaves a row that counts
\* against the queue depth and its key but can never be handed out.
PendingIsReady ==
    \A m \in Live :
        messages[m].status = "pending" /\ messages[m].ttl # "elapsed"
        => m \in Claimable(messages[m].topic)

\* No message is in the hands of two consumers.  (Not met: an administrator's
\* Requeue takes a claimed DLQ message from its holder, see README, Variations.)
ExclusiveClaim ==
    \A c, d \in Consumers : c # d => held[c] \cap held[d] = {}

\* A row is 'processing' only while some consumer still has to settle it: Ack
\* and Nack never leave a claim behind that nobody will answer for.
NoOrphanClaim ==
    \A m \in Ids : InStatus(m, {"processing"}) => \E c \in Consumers : m \in held[c]

\* The depth limit is overshot by at most the enqueues that raced through the
\* check together, one per concurrent caller but the first, where nothing is
\* requeued or replayed (Requeue and ReplayTopic do not ask for the depth).
DepthBound ==
    \A t \in Topics :
        \A cfg \in seen[t] :
            resolveMaxDepth(cfg) > 0 =>
                Depth(OrdinaryTopic(t)) < resolveMaxDepth(cfg) + Cardinality(Producers)

\* An id in the message log has left the messages table for good: a replay
\* delivers copies, never the acknowledged message itself.
AckedIsGone == \A m \in Ids : log[m] # Null => messages[m] = Null

\* While a message is with a consumer, no enqueue or upsert alters it: the
\* ON CONFLICT clause reaches pending rows only.
ClaimIsStable ==
    [][\A m \in Ids :
          InStatus(m, {"processing"}) /\ InStatus(m, {"processing"})'
          => /\ messages'[m].payload = messages[m].payload
             /\ messages'[m].maxRetries = messages[m].maxRetries]_vars

\* A message in a DLQ topic is not retried automatically: after a claim it
\* becomes pending again only by leaving the DLQ through Requeue.
DlqNotRetried ==
    [][\A m \in Ids :
          /\ InStatus(m, {"processing"})
          /\ HasDlqSuffix(messages[m].topic)
          /\ InStatus(m, {"pending"})'
          => ~HasDlqSuffix(messages'[m].topic)]_vars

\* The phase of a message as its row shows it: a row that is no longer there
\* was inserted once if its id has been handed out.
PhaseOf(m) ==
    IF messages[m] = Null THEN (IF m < nextId THEN "gone" ELSE "unborn")
    ELSE CASE messages[m].status = "pending"    -> "waiting"
           [] messages[m].status = "processing" -> "claimed"
           [] OTHER                             -> messages[m].status

Lifecycle ==
    INSTANCE MessageLifecycle WITH
        phase  <- [m \in Ids |-> PhaseOf(m)],
        parked <- {m \in Live : HasDlqSuffix(messages[m].topic)},
        kept   <- {m \in Ids : log[m] # Null}

\* Every operation is a legal move in the life of the messages it touches: late,
\* duplicate and racing Acks, Nacks, Requeues, reaper runs, purges and replays
\* never deliver a message that does not wait, retry one from the dead-letter
\* topic, log one that was not delivered, or bring back one that is gone.
FollowsLifecycle == Lifecycle!Spec

\* Every pending message is eventually acknowledged, failed, expired or removed,
\* as long as clients keep polling and settling what they claim.
PendingSettles ==
    \A m \in Ids : InStatus(m, {"pending"}) ~> ~InStatus(m, Active)

\* A claim whose visibility timeout has run out does not stay claimed.
LapsedClaimReturns ==
    \A m \in Ids :
        (InStatus(m, {"processing"}) /\ messages[m].vis = "elapsed")
        ~> ~(InStatus(m, {"processing"}) /\ messages[m].vis = "elapsed")

=============================================================================
