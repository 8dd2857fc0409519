------------------------ MODULE MessageQueue_proofs ------------------------
(***************************************************************************)
(* Proofs about MessageQueue, for every value of its constants: its types, *)
(* and its safety invariants.  RowSteps lists everything a step can do to  *)
(* one row; an invariant that speaks of one row at a time is then proved   *)
(* by going through that list once.                                        *)
(*                                                                         *)
(* Then what a consumer can rely on while it holds a message: the row does *)
(* not change under it, and does not stay claimed once it has let go.  And *)
(* what a producer can rely on: however Enqueue calls race between check   *)
(* and insert, the depth limit holds up to the number of them.             *)
(*                                                                         *)
(* And the way of a message as a whole: MessageQueue implements            *)
(* MessageLifecycle, for every value of its constants with which one       *)
(* failure is not enough for promotion.  The refinement mapping is the one *)
(* of Lifecycle: a message's phase is read off its row, it is parked while *)
(* its topic is a DLQ topic, and kept while the log has a row for it.      *)
(* Each operation is one move of the abstract specification, or none.      *)
(***************************************************************************)
EXTENDS MessageQueue, FiniteSetTheorems, TLAPS

\* What the settings resolve to has the type of the column it is written to
\* (resolveEnqueueParams, resolveExpiresAt, effectiveDLQThreshold).
LEMMA ResolvedTypes ==
    ASSUME NEW cfg \in TopicConfig \cup {Null}
    PROVE  /\ effectiveDLQThreshold(cfg) \in Nat
           /\ resolveMaxRetries(cfg) \in Nat
           /\ resolveExpiresAt(cfg) \in Clock
BY TuningAssumption
   DEF effectiveDLQThreshold, resolveMaxRetries, resolveExpiresAt, TopicConfig, Clock

\* A configuration read returns a configuration or nothing (GetTopicConfig).
LEMMA ConfigReadType ==
    ASSUME TypeOK, NEW t \in Topic, NEW cfg \in GetTopicConfig(t)
    PROVE  cfg \in TopicConfig \cup {Null}
BY DEF TypeOK, GetTopicConfig, Topic

\* Nack writes a row of the messages table (Promoted, Retried).
LEMMA NackedType ==
    ASSUME NEW r \in Row, NEW threshold \in Nat
    PROVE  Nacked(r, threshold) \in Row
<1>1. DlqOf(r.topic) \in Topic
  BY DEF DlqOf, Row, Topic
<1>2. Promoted(r) \in Row
  BY <1>1 DEF Promoted, Row, Status, Clock
<1>3. Retried(r) \in Row
  <2> DEFINE status == IF r.retry + 1 >= r.maxRetries THEN "failed" ELSE "pending"
  <2>1. status \in Status /\ r.retry + 1 \in Nat
    BY DEF Row, Status
  <2>2. Retried(r) = [r EXCEPT !.retry = r.retry + 1, !.status = status, !.vis = "null"]
    BY DEF Retried
  <2> HIDE DEF status
  <2> QED
    BY <2>1, <2>2 DEF Row, Clock
<1> QED
  BY <1>2, <1>3 DEF Nacked

\* Requeue writes a row of the messages table.
LEMMA RequeuedType ==
    ASSUME NEW r \in Row, r.original # Null, NEW threshold \in Nat
    PROVE  Requeued(r, threshold) \in Row
BY DEF Requeued, Row, Status, Clock

\* The empty tables and the initial configuration have their types.
LEMMA TypeInit == Init => TypeOK
BY TuningAssumption, ConfigAssumption DEF Init, TypeOK, Ids

\* The first half of Enqueue keeps the types: what it resolves is a request.
LEMMA TypeEnqueueCheck ==
    ASSUME TypeOK, NEW p \in Producers, NEW t \in Topics, NEW k \in Keys \cup {Null},
           NEW v \in Payloads, EnqueueCheck(p, t, k, v)
    PROVE  TypeOK'
<1>1. PICK cfg \in GetTopicConfig(OrdinaryTopic(t)) :
        /\ request' = [request EXCEPT ![p] =
               [topic      |-> OrdinaryTopic(t),
                key        |-> k,
                payload    |-> v,
                maxRetries |-> resolveMaxRetries(cfg),
                ttl        |-> resolveExpiresAt(cfg)]]
        /\ UNCHANGED <<messages, nextId, log, acks, config, seen, held>>
  BY DEF EnqueueCheck
<1>2. OrdinaryTopic(t) \in Topic
  BY DEF OrdinaryTopic, Topic
<1>3. cfg \in TopicConfig \cup {Null}
  BY <1>2, ConfigReadType
<1>4. [topic |-> OrdinaryTopic(t), key |-> k, payload |-> v,
       maxRetries |-> resolveMaxRetries(cfg), ttl |-> resolveExpiresAt(cfg)] \in Request
  BY <1>2, <1>3, ResolvedTypes DEF Request
<1> QED
  BY <1>1, <1>4 DEF TypeOK

\* The INSERT of Enqueue, inserting or upserting, keeps the types.
LEMMA TypeEnqueue ==
    ASSUME TypeOK, NEW p \in Producers, EnqueueInsert(p) \/ EnqueueUpsert(p)
    PROVE  TypeOK'
<1>1. CASE EnqueueInsert(p)
  <2>1. request[p] \in Request /\ nextId \in Ids
    BY <1>1, TuningAssumption DEF EnqueueInsert, TypeOK, Ids
  <2>2. Inserted(request[p]) \in Row
    BY <2>1 DEF Inserted, Request, Row, Status, Clock
  <2> QED
    BY <1>1, <2>1, <2>2, TuningAssumption DEF EnqueueInsert, TypeOK, Ids
<1>2. CASE EnqueueUpsert(p)
  <2>1. request[p] \in Request
    BY <1>2 DEF EnqueueUpsert, TypeOK
  <2>2. PICK m \in Ids : /\ messages[m] # Null
                         /\ messages' = [messages EXCEPT ![m] = Upserted(messages[m], request[p])]
    BY <1>2 DEF EnqueueUpsert, PendingWithKey, Live
  <2>3. messages[m] \in Row
    BY <2>2 DEF TypeOK
  <2>4. Upserted(messages[m], request[p]) \in Row
    BY <2>1, <2>3 DEF Upserted, Row, Request
  <2> QED
    BY <1>2, <2>1, <2>2, <2>4 DEF EnqueueUpsert, TypeOK
<1> QED
  BY <1>1, <1>2

\* A step that rewrites or deletes existing rows, whatever the consumers make of
\* it, keeps the types.
LEMMA TypeRewrite ==
    ASSUME TypeOK,
           messages' \in [Ids -> Row \cup {Null}],
           \A m \in Ids : messages[m] = Null => messages'[m] = Null,
           held' \in [Consumers -> SUBSET Ids],
           UNCHANGED <<nextId, log, acks, config, seen, request>>
    PROVE  TypeOK'
BY DEF TypeOK

\* Claiming pending rows for a consumer keeps the types.
LEMMA TypeClaim ==
    ASSUME TypeOK, NEW c \in Consumers, NEW S \in SUBSET Live, Claim(c, S)
    PROVE  TypeOK'
<1>1. ASSUME NEW m \in S
      PROVE  [messages[m] EXCEPT !.status = "processing", !.vis = "running"] \in Row
  <2>1. messages[m] \in Row
    BY DEF TypeOK, Live
  <2> QED
    BY <2>1 DEF Row, Status, Clock
<1>2. messages' \in [Ids -> Row \cup {Null}]
  BY <1>1 DEF Claim, TypeOK
<1>3. \A m \in Ids : messages[m] = Null => messages'[m] = Null
  BY DEF Claim, Live
<1>4. held' \in [Consumers -> SUBSET Ids]
  BY DEF Claim, TypeOK, Live
<1> QED
  BY <1>2, <1>3, <1>4, TypeRewrite DEF Claim

\* Dequeue and DequeueN claim rows, so they keep the types.
LEMMA TypeDequeue ==
    ASSUME TypeOK, NEW c \in Consumers, NEW t \in Topic,
           Dequeue(c, t) \/ \E n \in Ids : DequeueN(c, t, n)
    PROVE  TypeOK'
<1>1. Claimable(t) \subseteq Live
  BY DEF Claimable
<1>2. PICK S \in SUBSET Live : Claim(c, S)
  <2>1. CASE Dequeue(c, t)
    <3>1. PICK m \in Claimable(t) : Claim(c, {m})
      BY <2>1 DEF Dequeue
    <3> QED
      BY <1>1, <3>1
  <2>2. CASE \E n \in Ids : DequeueN(c, t, n)
    BY <1>1, <2>2 DEF DequeueN
  <2> QED
    BY <2>1, <2>2
<1> QED
  BY <1>2, TypeClaim

\* Ack, Nack and a refused settlement keep the types.
LEMMA TypeSettle ==
    ASSUME TypeOK, NEW c \in Consumers, NEW m \in Ids,
           Ack(c, m) \/ Nack(c, m) \/ SettleRejected(c, m)
    PROVE  TypeOK'
<1>1. held' \in [Consumers -> SUBSET Ids]
  BY DEF Ack, Nack, SettleRejected, Settle, TypeOK
<1>2. CASE Ack(c, m)
  <2>1. messages[m] \in Row /\ m < nextId
    BY <1>2 DEF Ack, InStatus, TypeOK, Ids
  <2>2. log' \in [Ids -> LogEntry \cup {Null}] /\ acks' \in Nat
    <3>1. CASE Replayable(messages[m].topic)
      <4>1. acks + 1 \in Nat
        BY DEF TypeOK
      <4>2. /\ messages[m].topic \in Topic
            /\ messages[m].key \in Keys \cup {Null}
            /\ messages[m].payload \in Payloads
            /\ messages[m].maxRetries \in Nat
            /\ messages[m].original \in Topic \cup {Null}
        BY <2>1 DEF Row
      <4>3. Archived(messages[m], acks + 1) \in LogEntry
        BY <4>1, <4>2 DEF Archived, LogEntry
      <4>4. log' = [log EXCEPT ![m] = Archived(messages[m], acks + 1)] /\ acks' = acks + 1
        BY <1>2, <3>1 DEF Ack, archiveToLog
      <4> QED
        BY <4>1, <4>3, <4>4 DEF TypeOK
    <3>2. CASE ~Replayable(messages[m].topic)
      BY <1>2, <3>2 DEF Ack, archiveToLog, TypeOK
    <3> QED
      BY <3>1, <3>2
  <2>3. \A n \in Ids : n # m => log'[n] = log[n] /\ messages'[n] = messages[n]
    BY <1>2 DEF Ack, archiveToLog, TypeOK
  <2> QED
    BY <1>1, <1>2, <2>1, <2>2, <2>3 DEF Ack, TypeOK, Ids
<1>3. CASE Nack(c, m)
  <2>1. messages[m] \in Row
    BY <1>3 DEF Nack, InStatus, TypeOK
  <2>2. PICK cfg \in GetTopicConfig(messages[m].topic) \cup {Null} :
          \/ messages' = messages
          \/ messages' = [messages EXCEPT ![m] = Nacked(messages[m], effectiveDLQThreshold(cfg))]
    BY <1>3 DEF Nack
  <2>3. cfg \in TopicConfig \cup {Null}
    BY <2>1, ConfigReadType DEF Row
  <2>4. Nacked(messages[m], effectiveDLQThreshold(cfg)) \in Row
    BY <2>1, <2>3, ResolvedTypes, NackedType
  <2>5. /\ messages' \in [Ids -> Row \cup {Null}]
        /\ \A n \in Ids : messages[n] = Null => messages'[n] = Null
    BY <1>3, <2>2, <2>4 DEF Nack, InStatus, TypeOK
  <2> QED
    BY <1>1, <1>3, <2>5, TypeRewrite DEF Nack
<1>4. CASE SettleRejected(c, m)
  BY <1>1, <1>4 DEF SettleRejected, TypeOK
<1> QED
  BY <1>2, <1>3, <1>4

\* Requeue keeps the types.
LEMMA TypeRequeue ==
    ASSUME TypeOK, NEW m \in Ids, Requeue(m)
    PROVE  TypeOK'
<1>1. messages[m] \in Row /\ messages[m].original \in Topic
  BY DEF Requeue, TypeOK, Row
<1>2. PICK cfg \in GetTopicConfig(messages[m].original) \cup {Null} :
        messages' = [messages EXCEPT ![m] = Requeued(messages[m], effectiveDLQThreshold(cfg))]
  BY DEF Requeue
<1>3. cfg \in TopicConfig \cup {Null}
  BY <1>1, ConfigReadType
<1>4. Requeued(messages[m], effectiveDLQThreshold(cfg)) \in Row
  BY <1>1, <1>3, ResolvedTypes, RequeuedType, NullAssumption
<1> QED
  BY <1>2, <1>4, TypeRewrite DEF Requeue, TypeOK

\* Reapers, purges, the clocks and the log trim keep the types.
LEMMA TypeHousekeeping ==
    ASSUME TypeOK,
           \/ RunExpiryReaper
           \/ RunDeleteReaper
           \/ RunArchiveReaper
           \/ \E t \in Topic, S \in SUBSET Purgeable : PurgeTopic(t, S)
           \/ \E t \in Topic, k \in Keys : PurgeByKey(t, k)
           \/ \E t \in Topic, before \in Nat : TrimMessageLog(t, before)
           \/ \E m \in Ids : TTLElapses(m) \/ VisibilityElapses(m)
           \/ \E n \in Ids : ReplayWindowElapses(n)
    PROVE  TypeOK'
<1>1. ASSUME NEW m \in Ids, messages[m] # Null
      PROVE  /\ [messages[m] EXCEPT !.status = "expired"] \in Row
             /\ [messages[m] EXCEPT !.ttl = "elapsed"] \in Row
             /\ [messages[m] EXCEPT !.vis = "elapsed"] \in Row
  <2>1. messages[m] \in Row
    BY <1>1 DEF TypeOK
  <2> QED
    BY <2>1 DEF Row, Status, Clock
<1>2. ASSUME NEW n \in Ids, log[n] # Null
      PROVE  [log[n] EXCEPT !.aged = TRUE] \in LogEntry
  <2>1. log[n] \in LogEntry
    BY <1>2 DEF TypeOK
  <2> QED
    BY <2>1 DEF LogEntry
<1>3. CASE RunExpiryReaper
  BY <1>1, <1>3, TypeRewrite DEF RunExpiryReaper, InStatus, TypeOK
<1>4. CASE RunDeleteReaper
  BY <1>4 DEF RunDeleteReaper, Delete, ReapArchive, TypeOK
<1>5. CASE RunArchiveReaper
  BY <1>5 DEF RunArchiveReaper, ReapArchive, TypeOK
<1>6. CASE \E t \in Topic, S \in SUBSET Purgeable : PurgeTopic(t, S)
  BY <1>6 DEF PurgeTopic, Delete, TypeOK
<1>7. CASE \E t \in Topic, k \in Keys : PurgeByKey(t, k)
  BY <1>7 DEF PurgeByKey, Delete, TypeOK
<1>8. CASE \E t \in Topic, before \in Nat : TrimMessageLog(t, before)
  BY <1>8 DEF TrimMessageLog, TypeOK
<1>9. CASE \E m \in Ids : TTLElapses(m) \/ VisibilityElapses(m)
  <2>1. PICK m \in Ids : TTLElapses(m) \/ VisibilityElapses(m)
    BY <1>9
  <2>2. /\ messages' \in [Ids -> Row \cup {Null}]
        /\ \A n \in Ids : messages[n] = Null => messages'[n] = Null
    BY <1>1, <2>1 DEF TTLElapses, VisibilityElapses, TypeOK
  <2> QED
    BY <2>1, <2>2, TypeRewrite DEF TTLElapses, VisibilityElapses, TypeOK
<1>10. CASE \E n \in Ids : ReplayWindowElapses(n)
  BY <1>2, <1>10 DEF ReplayWindowElapses, TypeOK
<1> QED
  BY <1>3, <1>4, <1>5, <1>6, <1>7, <1>8, <1>9, <1>10

\* What a replay does once its configuration, its size and its sources are fixed.
ReplayEffect(src, cfg, k) ==
    /\ \A i, j \in nextId..(nextId + k - 1) : i # j => ~SameKey(src[i], src[j])
    /\ \A i \in nextId..(nextId + k - 1) :
          PendingWithKey(log[src[i]].topic, log[src[i]].key) = {}
    /\ messages' = [m \in Ids |-> IF m \in nextId..(nextId + k - 1)
                                  THEN Copied(log[src[m]], resolveExpiresAt(cfg))
                                  ELSE messages[m]]
    /\ nextId' = nextId + k
    /\ UNCHANGED <<log, acks, config, seen, request, held>>

\* Every replay has such an effect (ReplayTopic).
LEMMA ReplayShape ==
    ASSUME NEW t, NEW from, ReplayTopic(t, from)
    PROVE  \E cfg \in GetTopicConfig(t), k \in 0..(MaxId - nextId + 1) :
           \E src \in [nextId..(nextId + k - 1) -> Replayed(t, cfg, from)] :
               cfg # Null /\ ReplayEffect(src, cfg, k)
<1>1. PICK cfg \in GetTopicConfig(t), k \in 0..(MaxId - nextId + 1) :
      /\ cfg # Null
      /\ \E src \in Injection(nextId..(nextId + k - 1), Replayed(t, cfg, from)) :
            /\ \A i, j \in DOMAIN src : i # j => ~SameKey(src[i], src[j])
            /\ \A i \in DOMAIN src : PendingWithKey(t, log[src[i]].key) = {}
            /\ messages' = [m \in Ids |->
                   IF m \in DOMAIN src THEN Copied(log[src[m]], resolveExpiresAt(cfg))
                                       ELSE messages[m]]
            /\ nextId' = nextId + k
            /\ UNCHANGED <<log, acks, config, seen, request, held>>
  BY DEF ReplayTopic
<1>2. PICK src \in Injection(nextId..(nextId + k - 1), Replayed(t, cfg, from)) :
            /\ \A i, j \in DOMAIN src : i # j => ~SameKey(src[i], src[j])
            /\ \A i \in DOMAIN src : PendingWithKey(t, log[src[i]].key) = {}
            /\ messages' = [m \in Ids |->
                   IF m \in DOMAIN src THEN Copied(log[src[m]], resolveExpiresAt(cfg))
                                       ELSE messages[m]]
            /\ nextId' = nextId + k
            /\ UNCHANGED <<log, acks, config, seen, request, held>>
  BY <1>1
<1>3. src \in [nextId..(nextId + k - 1) -> Replayed(t, cfg, from)]
  BY DEF Injection
<1>4. \A i \in nextId..(nextId + k - 1) : log[src[i]].topic = t
  BY <1>3 DEF Replayed
<1>5. ReplayEffect(src, cfg, k)
  BY <1>2, <1>3, <1>4 DEF ReplayEffect
<1> QED
  BY <1>1, <1>3, <1>5

\* The rows ReplayTopic inserts are rows of the messages table.
LEMMA TypeReplay ==
    ASSUME TypeOK, NEW t \in Topic, NEW from \in Nat, ReplayTopic(t, from)
    PROVE  TypeOK'
<1>0. PICK cfg \in GetTopicConfig(t), k \in 0..(MaxId - nextId + 1) :
        \E src \in [nextId..(nextId + k - 1) -> Replayed(t, cfg, from)] :
            ReplayEffect(src, cfg, k)
  BY ReplayShape
<1>1. PICK src \in [nextId..(nextId + k - 1) -> Replayed(t, cfg, from)] :
        ReplayEffect(src, cfg, k)
  BY <1>0
<1>2. messages' = [m \in Ids |-> IF m \in nextId..(nextId + k - 1)
                                 THEN Copied(log[src[m]], resolveExpiresAt(cfg))
                                 ELSE messages[m]]
      /\ nextId' = nextId + k
      /\ UNCHANGED <<log, acks, config, seen, request, held>>
  BY <1>1 DEF ReplayEffect
<1>3. resolveExpiresAt(cfg) \in Clock
  BY ConfigReadType, ResolvedTypes
<1>4. ASSUME NEW m \in nextId..(nextId + k - 1)
      PROVE  Copied(log[src[m]], resolveExpiresAt(cfg)) \in Row
  <2>1. log[src[m]] \in LogEntry
    BY <1>4 DEF Replayed, TypeOK
  <2>2. /\ log[src[m]].topic \in Topic
        /\ log[src[m]].key \in Keys \cup {Null}
        /\ log[src[m]].payload \in Payloads
        /\ log[src[m]].maxRetries \in Nat
        /\ log[src[m]].original \in Topic \cup {Null}
    BY <2>1 DEF LogEntry
  <2>3. "null" \in Clock /\ "pending" \in Status
    BY DEF Clock, Status
  <2> QED
    BY <1>3, <2>2, <2>3 DEF Copied, Row
<1>5. messages' \in [Ids -> Row \cup {Null}]
  BY <1>2, <1>4 DEF TypeOK
<1>6. nextId' \in 1..(MaxId + 1)
  BY <1>2, TuningAssumption DEF TypeOK
<1>7. \A m \in Ids : m >= nextId' => messages'[m] = Null /\ log'[m] = Null
  BY <1>2, TuningAssumption DEF TypeOK, Ids
<1> QED
  BY <1>2, <1>5, <1>6, <1>7 DEF TypeOK

\* Configuration writes and client crashes keep the types.
LEMMA TypeAdmin ==
    ASSUME TypeOK,
           \/ \E t \in Topics :
                 \/ \E cfg \in AdminConfigs : UpsertTopicConfig(t, cfg)
                 \/ DeleteTopicConfig(t)
           \/ \E c \in Consumers : ConsumerCrash(c)
    PROVE  TypeOK'
<1>1. CASE \E t \in Topics, cfg \in AdminConfigs \cup {Null} : WriteConfig(t, cfg)
  BY <1>1, ConfigAssumption DEF WriteConfig, TypeOK
<1>2. CASE \E c \in Consumers : ConsumerCrash(c)
  BY <1>2 DEF ConsumerCrash, TypeOK
<1> QED
  BY <1>1, <1>2 DEF UpsertTopicConfig, DeleteTopicConfig

\* Every step of the service and its clients keeps the types.
LEMMA TypeNext == TypeOK /\ [Next]_vars => TypeOK'
<1> SUFFICES ASSUME TypeOK, [Next]_vars PROVE TypeOK'
  OBVIOUS
<1>1. KnownTopic \subseteq Topic /\ 0..(MaxId + 1) \subseteq Nat
  BY TuningAssumption DEF KnownTopic, Topic
<1>2. CASE UNCHANGED vars
  BY <1>2 DEF vars, TypeOK
<1>3. CASE \E p \in Producers :
             \/ \E t \in Topics, k \in Keys \cup {Null}, v \in Payloads :
                   EnqueueCheck(p, t, k, v)
             \/ EnqueueInsert(p)
             \/ EnqueueUpsert(p)
  BY <1>3, TypeEnqueueCheck, TypeEnqueue
<1>4. CASE \E c \in Consumers :
             \/ \E t \in KnownTopic : Dequeue(c, t)
             \/ \E t \in KnownTopic, n \in Ids : DequeueN(c, t, n)
  BY <1>1, <1>4, TypeDequeue
<1>5. CASE \E c \in Consumers, m \in Ids : Ack(c, m) \/ Nack(c, m) \/ SettleRejected(c, m)
  BY <1>5, TypeSettle
<1>6. CASE \E m \in Ids : Requeue(m)
  BY <1>6, TypeRequeue
<1>7. CASE \/ \E m \in Ids : \/ TTLElapses(m)
                             \/ VisibilityElapses(m)
                             \/ ReplayWindowElapses(m)
           \/ RunExpiryReaper
           \/ RunDeleteReaper
           \/ RunArchiveReaper
           \/ \E t \in KnownTopic :
                 \/ \E S \in SUBSET Purgeable : PurgeTopic(t, S)
                 \/ \E k \in Keys : PurgeByKey(t, k)
                 \/ \E at \in 0..(MaxId + 1) : TrimMessageLog(t, at)
  BY <1>1, <1>7, TypeHousekeeping
<1>8. CASE \E t \in KnownTopic, at \in 0..(MaxId + 1) : ReplayTopic(t, at)
  BY <1>1, <1>8, TypeReplay
<1>9. CASE \/ \E t \in Topics :
                 \/ \E cfg \in AdminConfigs : UpsertTopicConfig(t, cfg)
                 \/ DeleteTopicConfig(t)
           \/ \E c \in Consumers : ConsumerCrash(c)
  BY <1>9, TypeAdmin
<1> QED
  BY <1>2, <1>3, <1>4, <1>5, <1>6, <1>7, <1>8, <1>9 DEF Next

\* The tables keep their column types, and no id is used before it is handed
\* out, for every configuration and any number of clients.
THEOREM TypeCorrect == Spec => []TypeOK
BY TypeInit, TypeNext, PTL DEF Spec

-----------------------------------------------------------------------------
(* Safety invariants *)

\* Everything one step of the service can do to row m.
RowStep(m) ==
    \/ messages'[m] = messages[m]
    \/ messages'[m] = Null
    \/ /\ m >= nextId
       /\ \/ \E p \in Producers :
                request[p] # Null /\ messages'[m] = Inserted(request[p])
          \/ \E n \in Ids, ttl \in Clock :
                log[n] # Null /\ messages'[m] = Copied(log[n], ttl)
    \/ /\ messages[m] # Null
       /\ \/ \E p \in Producers :
                /\ request[p] # Null
                /\ messages[m].topic = request[p].topic
                /\ messages[m].status = "pending"
                /\ messages[m].key # Null
                /\ messages'[m] = Upserted(messages[m], request[p])
          \/ /\ Consumers # {}
             /\ messages[m].status = "pending"
             /\ messages'[m] = [messages[m] EXCEPT !.status = "processing", !.vis = "running"]
          \/ \E cfg \in GetTopicConfig(messages[m].topic) \cup {Null} :
                /\ messages[m].status = "processing"
                /\ messages'[m] = Nacked(messages[m], effectiveDLQThreshold(cfg))
          \/ \E cfg \in GetTopicConfig(messages[m].original) \cup {Null} :
                /\ messages[m].original # Null
                /\ messages'[m] = Requeued(messages[m], effectiveDLQThreshold(cfg))
          \/ messages'[m] = [messages[m] EXCEPT !.status = "expired"]
          \/ messages'[m] = [messages[m] EXCEPT !.ttl = "elapsed"]
          \/ /\ messages[m].vis = "running"
             /\ messages'[m] = [messages[m] EXCEPT !.vis = "elapsed"]

\* Enqueue inserts one row, or rewrites the pending row with its key.
LEMMA EnqueueRows ==
    ASSUME TypeOK, NEW p \in Producers, EnqueueInsert(p) \/ EnqueueUpsert(p), NEW m \in Ids
    PROVE  RowStep(m)
<1>1. CASE EnqueueInsert(p)
  BY <1>1 DEF EnqueueInsert, RowStep, TypeOK, Ids
<1>2. CASE EnqueueUpsert(p)
  <2>1. PICK n \in PendingWithKey(request[p].topic, request[p].key) :
          messages' = [messages EXCEPT ![n] = Upserted(messages[n], request[p])]
    BY <1>2 DEF EnqueueUpsert
  <2>2. CASE m = n
    BY <1>2, <2>1, <2>2 DEF EnqueueUpsert, PendingWithKey, Live, RowStep, TypeOK
  <2>3. CASE m # n
    BY <2>1, <2>3 DEF RowStep, TypeOK
  <2> QED
    BY <2>2, <2>3
<1> QED
  BY <1>1, <1>2

\* Dequeue and DequeueN move pending rows to 'processing' and touch no other.
LEMMA DequeueRows ==
    ASSUME TypeOK, NEW c \in Consumers, NEW t \in Topic,
           Dequeue(c, t) \/ (\E n \in Ids : DequeueN(c, t, n)), NEW m \in Ids
    PROVE  RowStep(m)
<1>1. PICK S \in SUBSET Claimable(t) : Claim(c, S)
  <2>1. CASE Dequeue(c, t)
    <3>1. PICK n \in Claimable(t) : Claim(c, {n})
      BY <2>1 DEF Dequeue
    <3> QED
      BY <3>1
  <2>2. CASE \E n \in Ids : DequeueN(c, t, n)
    <3>1. PICK n \in Ids : DequeueN(c, t, n)
      BY <2>2
    <3> QED
      BY <3>1 DEF DequeueN
  <2> QED
    BY <2>1, <2>2
<1>2. CASE m \in S
  BY <1>1, <1>2 DEF Claim, Claimable, Live, RowStep
<1>3. CASE m \notin S
  BY <1>1, <1>3 DEF Claim, RowStep
<1> QED
  BY <1>2, <1>3

\* Ack, Nack and Requeue touch the row they name.
LEMMA SettleRows ==
    ASSUME TypeOK, NEW n \in Ids,
           \/ \E c \in Consumers : Ack(c, n) \/ Nack(c, n) \/ SettleRejected(c, n)
           \/ Requeue(n),
           NEW m \in Ids
    PROVE  RowStep(m)
<1>1. CASE \E c \in Consumers : Ack(c, n)
  BY <1>1 DEF Ack, RowStep, TypeOK
<1>2. CASE \E c \in Consumers : Nack(c, n)
  <2>1. PICK c \in Consumers : Nack(c, n)
    BY <1>2
  <2>2. PICK cfg \in GetTopicConfig(messages[n].topic) \cup {Null} :
          \/ messages' = messages
          \/ messages' = [messages EXCEPT ![n] = Nacked(messages[n], effectiveDLQThreshold(cfg))]
    BY <2>1 DEF Nack
  <2>3. messages[n] # Null /\ messages[n].status = "processing"
    BY <2>1 DEF Nack, InStatus
  <2>4. CASE m = n
    BY <2>2, <2>3, <2>4 DEF RowStep, TypeOK
  <2>5. CASE m # n
    BY <2>2, <2>5 DEF RowStep, TypeOK
  <2> QED
    BY <2>4, <2>5
<1>3. CASE \E c \in Consumers : SettleRejected(c, n)
  BY <1>3 DEF SettleRejected, RowStep
<1>4. CASE Requeue(n)
  <2>1. PICK cfg \in GetTopicConfig(messages[n].original) \cup {Null} :
          messages' = [messages EXCEPT ![n] = Requeued(messages[n], effectiveDLQThreshold(cfg))]
    BY <1>4 DEF Requeue
  <2>2. CASE m = n
    BY <1>4, <2>1, <2>2 DEF Requeue, RowStep, TypeOK
  <2>3. CASE m # n
    BY <2>1, <2>3 DEF RowStep, TypeOK
  <2> QED
    BY <2>2, <2>3
<1> QED
  BY <1>1, <1>2, <1>3, <1>4

\* Reapers, purges and clocks expire, delete or age rows.
LEMMA HousekeepingRows ==
    ASSUME TypeOK, NEW m \in Ids,
           \/ RunExpiryReaper
           \/ RunDeleteReaper
           \/ \E t \in Topic, S \in SUBSET Purgeable : PurgeTopic(t, S)
           \/ \E t \in Topic, k \in Keys : PurgeByKey(t, k)
           \/ \E n \in Ids : TTLElapses(n) \/ VisibilityElapses(n)
    PROVE  RowStep(m)
<1>1. CASE RunExpiryReaper
  BY <1>1 DEF RunExpiryReaper, InStatus, RowStep
<1>2. CASE RunDeleteReaper
  BY <1>2 DEF RunDeleteReaper, Delete, RowStep
<1>3. CASE \E t \in Topic, S \in SUBSET Purgeable : PurgeTopic(t, S)
  BY <1>3 DEF PurgeTopic, Delete, RowStep
<1>4. CASE \E t \in Topic, k \in Keys : PurgeByKey(t, k)
  BY <1>4 DEF PurgeByKey, Delete, RowStep
<1>5. CASE \E n \in Ids : TTLElapses(n)
  BY <1>5 DEF TTLElapses, RowStep, TypeOK
<1>6. CASE \E n \in Ids : VisibilityElapses(n)
  BY <1>6 DEF VisibilityElapses, RowStep, TypeOK
<1> QED
  BY <1>1, <1>2, <1>3, <1>4, <1>5, <1>6

\* ReplayTopic fills fresh ids with copies of log rows.
LEMMA ReplayRows ==
    ASSUME TypeOK, NEW t \in Topic, NEW from \in Nat, ReplayTopic(t, from), NEW m \in Ids
    PROVE  RowStep(m)
<1>1. PICK cfg \in GetTopicConfig(t), k \in 0..(MaxId - nextId + 1) :
        \E src \in [nextId..(nextId + k - 1) -> Replayed(t, cfg, from)] :
            ReplayEffect(src, cfg, k)
  BY ReplayShape
<1>2. PICK src \in [nextId..(nextId + k - 1) -> Replayed(t, cfg, from)] :
        ReplayEffect(src, cfg, k)
  BY <1>1
<1>3. resolveExpiresAt(cfg) \in Clock
  BY ConfigReadType, ResolvedTypes
<1>4. CASE m \in nextId..(nextId + k - 1)
  <2>1. src[m] \in Ids /\ log[src[m]] # Null /\ m >= nextId
    BY <1>4 DEF Replayed, TypeOK
  <2>2. messages'[m] = Copied(log[src[m]], resolveExpiresAt(cfg))
    BY <1>2, <1>4 DEF ReplayEffect
  <2> QED
    BY <1>3, <2>1, <2>2 DEF RowStep
<1>5. CASE m \notin nextId..(nextId + k - 1)
  BY <1>2, <1>5 DEF ReplayEffect, RowStep
<1> QED
  BY <1>4, <1>5

\* Every step does to every row one of the things RowStep lists.
LEMMA RowSteps ==
    ASSUME TypeOK, [Next]_vars, NEW m \in Ids
    PROVE  RowStep(m)
<1>1. KnownTopic \subseteq Topic /\ 0..(MaxId + 1) \subseteq Nat
  BY TuningAssumption DEF KnownTopic, Topic
<1>2. CASE \E p \in Producers : EnqueueInsert(p) \/ EnqueueUpsert(p)
  BY <1>2, EnqueueRows
<1>3. CASE \E c \in Consumers :
             \/ \E t \in KnownTopic : Dequeue(c, t)
             \/ \E t \in KnownTopic, n \in Ids : DequeueN(c, t, n)
  BY <1>1, <1>3, DequeueRows
<1>4. CASE \E n \in Ids : \/ \E c \in Consumers : Ack(c, n) \/ Nack(c, n) \/ SettleRejected(c, n)
                          \/ Requeue(n)
  BY <1>4, SettleRows
<1>5. CASE \/ RunExpiryReaper
           \/ RunDeleteReaper
           \/ \E t \in KnownTopic, S \in SUBSET Purgeable : PurgeTopic(t, S)
           \/ \E t \in KnownTopic, k \in Keys : PurgeByKey(t, k)
           \/ \E n \in Ids : TTLElapses(n) \/ VisibilityElapses(n)
  BY <1>1, <1>5, HousekeepingRows
<1>6. CASE \E t \in KnownTopic, at \in 0..(MaxId + 1) : ReplayTopic(t, at)
  BY <1>1, <1>6, ReplayRows
<1>7. CASE messages' = messages
  BY <1>7 DEF RowStep
<1>8. ASSUME \/ \E p \in Producers, t \in Topics, k \in Keys \cup {Null}, v \in Payloads :
                   EnqueueCheck(p, t, k, v)
             \/ \E c \in Consumers : ConsumerCrash(c)
             \/ \E n \in Ids : ReplayWindowElapses(n)
             \/ RunArchiveReaper
             \/ \E t \in KnownTopic, at \in 0..(MaxId + 1) : TrimMessageLog(t, at)
             \/ \E t \in Topics : \/ \E cfg \in AdminConfigs : UpsertTopicConfig(t, cfg)
                                  \/ DeleteTopicConfig(t)
             \/ UNCHANGED vars
      PROVE  messages' = messages
  BY <1>8 DEF EnqueueCheck, ConsumerCrash, ReplayWindowElapses, RunArchiveReaper,
     TrimMessageLog, UpsertTopicConfig, DeleteTopicConfig, WriteConfig, vars
<1> QED
  BY <1>2, <1>3, <1>4, <1>5, <1>6, <1>7, <1>8 DEF Next

\* Everything one step can do to a log row: keep, delete or age it, or archive
\* an acknowledged row of a replayable topic.
LogStep(n) ==
    \/ log'[n] = log[n]
    \/ log'[n] = Null
    \/ log[n] # Null /\ log'[n] = [log[n] EXCEPT !.aged = TRUE]
    \/ /\ messages[n] # Null
       /\ messages[n].status = "processing"
       /\ Replayable(messages[n].topic)
       /\ messages'[n] = Null
       /\ log'[n] = Archived(messages[n], acks + 1)

\* Every step does to every log row one of the things LogStep lists.
LEMMA LogSteps ==
    ASSUME TypeOK, [Next]_vars, NEW n \in Ids
    PROVE  LogStep(n)
<1>1. CASE log' = log
  BY <1>1 DEF LogStep
<1>2. CASE \E c \in Consumers, m \in Ids : Ack(c, m)
  BY <1>2 DEF Ack, archiveToLog, InStatus, LogStep, TypeOK
<1>3. CASE RunDeleteReaper \/ RunArchiveReaper
  BY <1>3 DEF RunDeleteReaper, RunArchiveReaper, ReapArchive, LogStep
<1>4. CASE \E m \in Ids : ReplayWindowElapses(m)
  BY <1>4 DEF ReplayWindowElapses, LogStep
<1>5. CASE \E t \in KnownTopic, at \in 0..(MaxId + 1) : TrimMessageLog(t, at)
  BY <1>5 DEF TrimMessageLog, LogStep
<1>6. ASSUME \/ \E p \in Producers :
                \/ \E t \in Topics, k \in Keys \cup {Null}, v \in Payloads :
                      EnqueueCheck(p, t, k, v)
                \/ EnqueueInsert(p)
                \/ EnqueueUpsert(p)
             \/ \E c \in Consumers, m \in Ids : Nack(c, m) \/ SettleRejected(c, m)
             \/ \E c \in Consumers : ConsumerCrash(c)
             \/ \E m \in Ids : Requeue(m) \/ TTLElapses(m) \/ VisibilityElapses(m)
             \/ RunExpiryReaper
      PROVE  log' = log
  BY <1>6 DEF EnqueueCheck, EnqueueInsert, EnqueueUpsert, Nack, SettleRejected,
     ConsumerCrash, Requeue, TTLElapses, VisibilityElapses, RunExpiryReaper
<1>7. ASSUME \/ \E c \in Consumers, t \in KnownTopic : Dequeue(c, t)
             \/ \E c \in Consumers, t \in KnownTopic, m \in Ids : DequeueN(c, t, m)
             \/ \E t \in KnownTopic :
                   \/ \E S \in SUBSET Purgeable : PurgeTopic(t, S)
                   \/ \E k \in Keys : PurgeByKey(t, k)
                   \/ \E at \in 0..(MaxId + 1) : ReplayTopic(t, at)
             \/ \E t \in Topics : \/ \E cfg \in AdminConfigs : UpsertTopicConfig(t, cfg)
                                  \/ DeleteTopicConfig(t)
             \/ UNCHANGED vars
      PROVE  log' = log
  BY <1>7 DEF Dequeue, DequeueN, Claim, PurgeTopic, PurgeByKey, ReplayTopic,
     UpsertTopicConfig, DeleteTopicConfig, WriteConfig, vars
<1> QED
  BY <1>1, <1>2, <1>3, <1>4, <1>5, <1>6, <1>7 DEF Next

\* A producer's request is dropped, or made by EnqueueCheck from a configuration
\* the topic has had.
RequestStep(p) ==
    \/ request'[p] = request[p]
    \/ request'[p] = Null
    \/ \E t \in Topics : \E cfg \in seen[t] :
          /\ request'[p].topic = OrdinaryTopic(t)
          /\ request'[p].maxRetries = resolveMaxRetries(cfg)

\* A topic's configuration history grows only by what an administrator writes.
SeenStep(t) ==
    \/ seen'[t] = seen[t]
    \/ \E cfg \in AdminConfigs : seen'[t] = seen[t] \cup {cfg}

\* Every step treats requests and histories as RequestStep and SeenStep say.
LEMMA RequestSteps ==
    ASSUME TypeOK, [Next]_vars
    PROVE  /\ \A p \in Producers : RequestStep(p)
           /\ \A t \in Topics : SeenStep(t)
<1>1. CASE request' = request /\ seen' = seen
  BY <1>1 DEF RequestStep, SeenStep
<1>2. CASE \E p \in Producers, t \in Topics, k \in Keys \cup {Null}, v \in Payloads :
             EnqueueCheck(p, t, k, v)
  <2>1. PICK p \in Producers, t \in Topics, k \in Keys \cup {Null}, v \in Payloads :
          EnqueueCheck(p, t, k, v)
    BY <1>2
  <2>2. GetTopicConfig(OrdinaryTopic(t)) = seen[t]
    BY DEF GetTopicConfig, OrdinaryTopic, HasDlqSuffix
  <2>3. PICK cfg \in seen[t] :
          /\ request' = [request EXCEPT ![p] =
                 [topic      |-> OrdinaryTopic(t),
                  key        |-> k,
                  payload    |-> v,
                  maxRetries |-> resolveMaxRetries(cfg),
                  ttl        |-> resolveExpiresAt(cfg)]]
          /\ seen' = seen
    BY <2>1, <2>2 DEF EnqueueCheck
  <2> QED
    BY <2>3 DEF RequestStep, SeenStep, TypeOK
<1>3. CASE \E p \in Producers : EnqueueInsert(p) \/ EnqueueUpsert(p)
  BY <1>3 DEF EnqueueInsert, EnqueueUpsert, RequestStep, SeenStep, TypeOK
<1>4. CASE \E t \in Topics : \/ \E cfg \in AdminConfigs : UpsertTopicConfig(t, cfg)
                            \/ DeleteTopicConfig(t)
  <2>1. PICK t \in Topics, cfg \in AdminConfigs : WriteConfig(t, cfg)
    BY <1>4 DEF UpsertTopicConfig, DeleteTopicConfig
  <2> QED
    BY <2>1 DEF WriteConfig, RequestStep, SeenStep, TypeOK
<1>5. ASSUME \/ \E c \in Consumers, m \in Ids : Ack(c, m) \/ Nack(c, m) \/ SettleRejected(c, m)
             \/ \E c \in Consumers : ConsumerCrash(c)
             \/ \E m \in Ids : \/ Requeue(m) \/ TTLElapses(m) \/ VisibilityElapses(m)
                               \/ ReplayWindowElapses(m)
             \/ RunExpiryReaper \/ RunDeleteReaper \/ RunArchiveReaper
      PROVE  request' = request /\ seen' = seen
  BY <1>5 DEF Ack, Nack, SettleRejected, ConsumerCrash, Requeue, TTLElapses,
     VisibilityElapses, ReplayWindowElapses, RunExpiryReaper, RunDeleteReaper, RunArchiveReaper
<1>6. ASSUME \/ \E c \in Consumers, t \in KnownTopic : Dequeue(c, t)
             \/ \E c \in Consumers, t \in KnownTopic, m \in Ids : DequeueN(c, t, m)
             \/ \E t \in KnownTopic :
                   \/ \E S \in SUBSET Purgeable : PurgeTopic(t, S)
                   \/ \E k \in Keys : PurgeByKey(t, k)
                   \/ \E at \in 0..(MaxId + 1) : ReplayTopic(t, at) \/ TrimMessageLog(t, at)
             \/ UNCHANGED vars
      PROVE  request' = request /\ seen' = seen
  BY <1>6 DEF Dequeue, DequeueN, Claim, PurgeTopic, PurgeByKey, ReplayTopic,
     TrimMessageLog, vars
<1> QED
  BY <1>1, <1>2, <1>3, <1>4, <1>5, <1>6 DEF Next

-----------------------------------------------------------------------------
(* Acknowledged messages *)

\* An archived id stays out of the messages table: only ids the log does not
\* know yet are ever inserted (Ack, ReplayTopic, Enqueue).
THEOREM AckedStaysGone == Spec => []AckedIsGone
<1>1. Init => AckedIsGone
  BY DEF Init, AckedIsGone
<1>2. TypeOK /\ AckedIsGone /\ [Next]_vars => AckedIsGone'
  <2> SUFFICES ASSUME TypeOK, AckedIsGone, [Next]_vars, NEW m \in Ids, log'[m] # Null
               PROVE  messages'[m] = Null
    BY DEF AckedIsGone
  <2>1. RowStep(m) /\ LogStep(m)
    BY RowSteps, LogSteps
  <2>2. CASE log[m] # Null
    BY <2>1, <2>2 DEF RowStep, AckedIsGone, TypeOK
  <2>3. CASE log[m] = Null
    BY <2>1, <2>3 DEF LogStep
  <2> QED
    BY <2>2, <2>3
<1> QED
  BY <1>1, <1>2, TypeCorrect, PTL DEF Spec

-----------------------------------------------------------------------------
(* The dead-letter queue *)

\* What a row looks like in and outside the DLQ: a dead-lettered row knows its
\* origin, has no retries left to spend and is on its first attempt.
DlqRow(r) ==
    IF HasDlqSuffix(r.topic)
    THEN /\ r.original = OrdinaryTopic(r.topic.name)
         /\ r.maxRetries = 0
         /\ r.status \in Active => r.retry = 0
    ELSE r.original = Null

\* The inductive strengthening of DlqOrigin: rows as above, and neither requests
\* nor log rows belong to a DLQ topic.
DlqInv ==
    /\ \A m \in Ids : messages[m] # Null => DlqRow(messages[m])
    /\ \A n \in Ids : log[n] # Null => /\ ~HasDlqSuffix(log[n].topic)
                                       /\ log[n].original = Null
    /\ \A p \in Producers : request[p] # Null => ~HasDlqSuffix(request[p].topic)

\* Nack keeps DlqRow unless a single failure is enough for promotion.
LEMMA NackKeepsDlqRow ==
    ASSUME DlqThreshold # 1, TypeOK, NEW r \in Row, DlqRow(r), r.status = "processing",
           NEW cfg \in GetTopicConfig(r.topic) \cup {Null}
    PROVE  /\ DlqRow(Nacked(r, effectiveDLQThreshold(cfg)))
           /\ HasDlqSuffix(r.topic) => Nacked(r, effectiveDLQThreshold(cfg)).status = "failed"
<1>1. r.topic \in Topic /\ r.retry \in Nat /\ r.maxRetries \in Nat
  BY DEF Row
<1>2. effectiveDLQThreshold(cfg) \in Nat
  BY <1>1, ConfigReadType, ResolvedTypes
<1>3. CASE HasDlqSuffix(r.topic)
  <2>1. cfg = Null
    BY <1>3 DEF GetTopicConfig
  <2>2. effectiveDLQThreshold(cfg) = DlqThreshold
    BY <2>1 DEF effectiveDLQThreshold
  <2>3. r.retry = 0 /\ r.maxRetries = 0
    BY <1>3 DEF DlqRow, Active
  <2>4. Nacked(r, effectiveDLQThreshold(cfg)) = Retried(r)
    BY <2>2, <2>3, TuningAssumption DEF Nacked
  <2>5. /\ Retried(r).topic = r.topic
        /\ Retried(r).original = r.original
        /\ Retried(r).maxRetries = r.maxRetries
        /\ Retried(r).status = "failed"
    BY <2>3 DEF Retried, Row
  <2> QED
    BY <1>3, <2>4, <2>5 DEF DlqRow, Active
<1>4. CASE ~HasDlqSuffix(r.topic)
  <2>1. r.topic = OrdinaryTopic(r.topic.name)
    BY <1>1, <1>4 DEF HasDlqSuffix, OrdinaryTopic, Topic
  <2>2. DlqOf(r.topic).name = r.topic.name /\ HasDlqSuffix(DlqOf(r.topic))
    BY <1>1 DEF DlqOf, HasDlqSuffix, Topic
  <2>3. /\ Promoted(r).topic = DlqOf(r.topic)
        /\ Promoted(r).original = r.topic
        /\ Promoted(r).maxRetries = 0
        /\ Promoted(r).retry = 0
    BY DEF Promoted, Row
  <2>4. DlqRow(Promoted(r))
    BY <2>1, <2>2, <2>3 DEF DlqRow
  <2>5. Retried(r).topic = r.topic /\ Retried(r).original = r.original
    BY DEF Retried, Row
  <2>6. DlqRow(Retried(r))
    BY <1>4, <2>5 DEF DlqRow
  <2> QED
    BY <1>4, <2>4, <2>6 DEF Nacked
<1> QED
  BY <1>3, <1>4

\* One step keeps DlqRow for every row.
LEMMA DlqRowNext ==
    ASSUME DlqThreshold # 1, TypeOK, DlqInv, [Next]_vars, NEW m \in Ids, messages'[m] # Null
    PROVE  DlqRow(messages'[m])
<1> DEFINE r == messages[m]
<1>1. RowStep(m)
  BY RowSteps
<1>2. CASE messages'[m] = r
  BY <1>2 DEF DlqInv
<1>3. CASE \E p \in Producers : request[p] # Null /\ messages'[m] = Inserted(request[p])
  BY <1>3 DEF DlqInv, DlqRow, Inserted
<1>4. CASE \E n \in Ids, ttl \in Clock : log[n] # Null /\ messages'[m] = Copied(log[n], ttl)
  BY <1>4 DEF DlqInv, DlqRow, Copied
<1>5. ASSUME r # Null
      PROVE  r \in Row /\ DlqRow(r)
  BY <1>5 DEF DlqInv, TypeOK
<1>6. ASSUME r # Null, NEW p \in Producers, request[p] # Null, r.topic = request[p].topic,
             messages'[m] = Upserted(r, request[p])
      PROVE  DlqRow(messages'[m])
  <2>1. messages'[m].topic = r.topic /\ messages'[m].original = r.original
    BY <1>5, <1>6 DEF Upserted, Row
  <2>2. ~HasDlqSuffix(r.topic)
    BY <1>6 DEF DlqInv
  <2> QED
    BY <1>5, <1>6, <2>1, <2>2 DEF DlqRow
<1>7. ASSUME r # Null, r.status = "pending",
             messages'[m] = [r EXCEPT !.status = "processing", !.vis = "running"]
      PROVE  DlqRow(messages'[m])
  <2>1. /\ messages'[m].topic = r.topic
        /\ messages'[m].original = r.original
        /\ messages'[m].maxRetries = r.maxRetries
        /\ messages'[m].retry = r.retry
    BY <1>5, <1>7 DEF Row
  <2> QED
    BY <1>5, <1>7, <2>1 DEF DlqRow, Active
<1>8. ASSUME r # Null, r.status = "processing",
             NEW cfg \in GetTopicConfig(r.topic) \cup {Null},
             messages'[m] = Nacked(r, effectiveDLQThreshold(cfg))
      PROVE  DlqRow(messages'[m])
  BY <1>5, <1>8, NackKeepsDlqRow
<1>9. ASSUME r # Null, r.original # Null, NEW threshold,
             messages'[m] = Requeued(r, threshold)
      PROVE  DlqRow(messages'[m])
  <2>1. r.original = OrdinaryTopic(r.topic.name)
    BY <1>5, <1>9 DEF DlqRow
  <2>2. messages'[m].topic = r.original /\ messages'[m].original = Null
    BY <1>5, <1>9 DEF Requeued, Row
  <2>3. ~HasDlqSuffix(r.original)
    BY <2>1 DEF OrdinaryTopic, HasDlqSuffix
  <2> QED
    BY <2>2, <2>3 DEF DlqRow
<1>10. ASSUME r # Null,
              \/ messages'[m] = [r EXCEPT !.status = "expired"]
              \/ messages'[m] = [r EXCEPT !.ttl = "elapsed"]
              \/ messages'[m] = [r EXCEPT !.vis = "elapsed"]
       PROVE  DlqRow(messages'[m])
  <2>1. /\ messages'[m].topic = r.topic
        /\ messages'[m].original = r.original
        /\ messages'[m].maxRetries = r.maxRetries
        /\ messages'[m].retry = r.retry
        /\ messages'[m].status \in {r.status, "expired"}
    BY <1>5, <1>10 DEF Row
  <2> QED
    BY <1>5, <1>10, <2>1 DEF DlqRow, Active
<1> QED
  BY <1>1, <1>2, <1>3, <1>4, <1>6, <1>7, <1>8, <1>9, <1>10 DEF RowStep

\* DlqInv is inductive.
LEMMA DlqInvInductive ==
    ASSUME DlqThreshold # 1
    PROVE  Spec => []DlqInv
<1>1. Init => DlqInv
  BY DEF Init, DlqInv
<1>2. TypeOK /\ DlqInv /\ [Next]_vars => DlqInv'
  <2> SUFFICES ASSUME TypeOK, DlqInv, [Next]_vars PROVE DlqInv'
    OBVIOUS
  <2>1. \A m \in Ids : messages'[m] # Null => DlqRow(messages'[m])
    BY DlqRowNext
  <2>2. ASSUME NEW n \in Ids, log'[n] # Null
        PROVE  ~HasDlqSuffix(log'[n].topic) /\ log'[n].original = Null
    <3>1. LogStep(n)
      BY LogSteps
    <3>2. CASE log'[n] = log[n]
      BY <2>2, <3>2 DEF DlqInv
    <3>3. CASE log[n] # Null /\ log'[n] = [log[n] EXCEPT !.aged = TRUE]
      <4>1. log[n] \in LogEntry
        BY <3>3 DEF TypeOK
      <4>2. log'[n].topic = log[n].topic /\ log'[n].original = log[n].original
        BY <3>3, <4>1 DEF LogEntry
      <4> QED
        BY <3>3, <4>2 DEF DlqInv
    <3>4. CASE /\ messages[n] # Null
               /\ Replayable(messages[n].topic)
               /\ log'[n] = Archived(messages[n], acks + 1)
      <4>1. ~HasDlqSuffix(messages[n].topic) /\ messages[n].original = Null
        BY <3>4 DEF Replayable, DlqInv, DlqRow
      <4> QED
        BY <3>4, <4>1 DEF Archived
    <3> QED
      BY <2>2, <3>1, <3>2, <3>3, <3>4 DEF LogStep
  <2>3. ASSUME NEW p \in Producers, request'[p] # Null
        PROVE  ~HasDlqSuffix(request'[p].topic)
    <3>1. RequestStep(p)
      BY RequestSteps
    <3>2. \A t \in Topics : ~HasDlqSuffix(OrdinaryTopic(t))
      BY DEF OrdinaryTopic, HasDlqSuffix
    <3> QED
      BY <2>3, <3>1, <3>2 DEF RequestStep, DlqInv
  <2> QED
    BY <2>1, <2>2, <2>3 DEF DlqInv
<1> QED
  BY <1>1, <1>2, TypeCorrect, PTL DEF Spec

\* Unless one failure is enough for promotion, a row has an original_topic
\* exactly while it is in a DLQ topic, and it is the topic it came from.
THEOREM DlqOriginHolds ==
    ASSUME DlqThreshold # 1
    PROVE  Spec => []DlqOrigin
<1>1. DlqInv => DlqOrigin
  BY DEF DlqInv, DlqRow, DlqOrigin, Live
<1> QED
  BY <1>1, DlqInvInductive, PTL

\* Unless one failure is enough for promotion, a claimed DLQ message becomes
\* pending again only by being requeued to its origin.
THEOREM DlqNotRetriedHolds ==
    ASSUME DlqThreshold # 1
    PROVE  Spec => DlqNotRetried
<1>1. ASSUME TypeOK, DlqInv, [Next]_vars, NEW m \in Ids,
             InStatus(m, {"processing"}), HasDlqSuffix(messages[m].topic),
             InStatus(m, {"pending"})'
      PROVE  ~HasDlqSuffix(messages'[m].topic)
  <2> DEFINE r == messages[m]
  <2>1. r \in Row /\ DlqRow(r) /\ r.status = "processing"
    BY <1>1 DEF InStatus, TypeOK, DlqInv
  <2>2. messages'[m] # Null /\ messages'[m].status = "pending"
    BY <1>1 DEF InStatus
  <2>3. RowStep(m)
    BY <1>1, RowSteps
  <2>4. ASSUME NEW cfg \in GetTopicConfig(r.topic) \cup {Null},
               messages'[m] = Nacked(r, effectiveDLQThreshold(cfg))
        PROVE  FALSE
    BY <1>1, <2>1, <2>2, <2>4, NackKeepsDlqRow
  <2>5. ASSUME NEW threshold, r.original # Null, messages'[m] = Requeued(r, threshold)
        PROVE  ~HasDlqSuffix(messages'[m].topic)
    BY <1>1, <2>1, <2>5 DEF Requeued, DlqRow, Row, OrdinaryTopic, HasDlqSuffix
  <2>6. ASSUME \/ messages'[m] = [r EXCEPT !.status = "expired"]
               \/ messages'[m] = [r EXCEPT !.ttl = "elapsed"]
               \/ messages'[m] = [r EXCEPT !.vis = "elapsed"]
        PROVE  messages'[m].status # "pending"
    BY <2>1, <2>6 DEF Row
  <2>7. ~(m >= nextId)
    BY <1>1, <2>1 DEF InStatus, TypeOK
  <2> QED
    BY <2>1, <2>2, <2>3, <2>4, <2>5, <2>6, <2>7 DEF RowStep
<1>2. TypeOK /\ DlqInv /\ [Next]_vars =>
        [\A m \in Ids :
            /\ InStatus(m, {"processing"})
            /\ HasDlqSuffix(messages[m].topic)
            /\ InStatus(m, {"pending"})'
            => ~HasDlqSuffix(messages'[m].topic)]_vars
  BY <1>1
<1> QED
  BY <1>2, TypeCorrect, DlqInvInductive, PTL DEF Spec, DlqNotRetried

-----------------------------------------------------------------------------
(* The retry budget *)

\* A message can be promoted before its retries run out: only then do DLQ rows,
\* and requeued rows with the threshold as their budget, exist at all.
PromotionReachable == DlqThreshold > 0 /\ (MaxRetries = 0 \/ DlqThreshold <= MaxRetries)

\* An active row has an attempt left, under its own budget and, outside the
\* DLQ, also under the global one that an upsert would give it.
ReadyRow(r) ==
    /\ r.status \in Active => r.maxRetries = 0 \/ r.retry < r.maxRetries
    /\ r.status \in Active /\ ~HasDlqSuffix(r.topic) => MaxRetries = 0 \/ r.retry < MaxRetries
    /\ r.status = "pending" => r.vis # "running"
    /\ r.maxRetries # MaxRetries \/ HasDlqSuffix(r.topic) \/ r.original # Null => PromotionReachable

\* The inductive strengthening of PendingIsReady.
ReadyInv ==
    /\ \A m \in Ids : messages[m] # Null => ReadyRow(messages[m])
    /\ \A n \in Ids : log[n] # Null =>
          /\ ~HasDlqSuffix(log[n].topic)
          /\ log[n].maxRetries # MaxRetries \/ log[n].original # Null => PromotionReachable
    /\ \A p \in Producers : request[p] # Null => /\ ~HasDlqSuffix(request[p].topic)
                                                /\ request[p].maxRetries = MaxRetries
    /\ \A t \in Topics : \A cfg \in seen[t] : cfg # Null => cfg.maxRetries = Null

\* Without overrides every read resolves to the global settings.
LEMMA GlobalSettings ==
    ASSUME ReadyInv, TypeOK, NEW t \in Topic, NEW cfg \in GetTopicConfig(t) \cup {Null}
    PROVE  effectiveDLQThreshold(cfg) = DlqThreshold
BY DEF ReadyInv, GetTopicConfig, Topic, effectiveDLQThreshold

\* A nacked row that is pending again still has an attempt left.
LEMMA NackKeepsReady ==
    ASSUME NEW r \in Row, ReadyRow(r), r.status = "processing"
    PROVE  ReadyRow(Nacked(r, DlqThreshold))
<1> USE TuningAssumption
<1>1. r.retry \in Nat /\ r.maxRetries \in Nat
  BY DEF Row
<1>2. CASE DlqThreshold > 0 /\ r.retry + 1 >= DlqThreshold
  <2>1. /\ Promoted(r).maxRetries = 0
        /\ Promoted(r).retry = 0
        /\ Promoted(r).vis = "null"
        /\ Promoted(r).topic = DlqOf(r.topic)
    BY DEF Promoted, Row
  <2>2. HasDlqSuffix(DlqOf(r.topic))
    BY DEF HasDlqSuffix, DlqOf, Row, Topic
  <2>3. PromotionReachable
    <3>1. CASE HasDlqSuffix(r.topic)
      BY <3>1 DEF ReadyRow
    <3>2. CASE ~HasDlqSuffix(r.topic)
      <4>1. MaxRetries = 0 \/ r.retry < MaxRetries
        BY <3>2 DEF ReadyRow, Active
      <4> QED
        BY <1>1, <1>2, <4>1 DEF PromotionReachable
    <3> QED
      BY <3>1, <3>2
  <2> QED
    BY <1>2, <2>1, <2>2, <2>3 DEF Nacked, ReadyRow
<1>3. CASE ~(DlqThreshold > 0 /\ r.retry + 1 >= DlqThreshold)
  <2>1. /\ Retried(r).maxRetries = r.maxRetries
        /\ Retried(r).retry = r.retry + 1
        /\ Retried(r).vis = "null"
        /\ Retried(r).topic = r.topic
        /\ Retried(r).original = r.original
        /\ r.retry + 1 >= r.maxRetries => Retried(r).status = "failed"
    BY <1>1 DEF Retried, Row
  <2>2. ASSUME Retried(r).status \in Active
        PROVE  r.retry + 1 < r.maxRetries
    BY <1>1, <2>1, <2>2 DEF Active
  <2>3. ASSUME Retried(r).status \in Active
        PROVE  MaxRetries = 0 \/ r.retry + 1 < MaxRetries
    <3>1. CASE r.maxRetries = MaxRetries
      BY <2>2, <2>3, <3>1
    <3>2. CASE r.maxRetries # MaxRetries
      <4>1. PromotionReachable
        BY <3>2 DEF ReadyRow
      <4> QED
        BY <1>1, <1>3, <4>1 DEF PromotionReachable
    <3> QED
      BY <3>1, <3>2
  <2> QED
    BY <1>3, <2>1, <2>2, <2>3 DEF Nacked, ReadyRow
<1> QED
  BY <1>2, <1>3

\* One step keeps ReadyRow for every row.
LEMMA ReadyRowNext ==
    ASSUME TypeOK, ReadyInv, [Next]_vars, NEW m \in Ids, messages'[m] # Null
    PROVE  ReadyRow(messages'[m])
<1> DEFINE r == messages[m]
<1> USE TuningAssumption
<1>1. RowStep(m)
  BY RowSteps
<1>2. CASE messages'[m] = r
  BY <1>2 DEF ReadyInv
<1>3. CASE \E p \in Producers : request[p] # Null /\ messages'[m] = Inserted(request[p])
  <2>1. PICK p \in Producers : request[p] # Null /\ messages'[m] = Inserted(request[p])
    BY <1>3
  <2>2. ~HasDlqSuffix(request[p].topic) /\ request[p].maxRetries = MaxRetries
    BY <2>1 DEF ReadyInv
  <2> QED
    BY <2>1, <2>2 DEF Inserted, ReadyRow
<1>4. CASE \E n \in Ids, ttl \in Clock : log[n] # Null /\ messages'[m] = Copied(log[n], ttl)
  <2>1. PICK n \in Ids, ttl \in Clock : log[n] # Null /\ messages'[m] = Copied(log[n], ttl)
    BY <1>4
  <2>2. /\ ~HasDlqSuffix(log[n].topic)
        /\ log[n].maxRetries # MaxRetries \/ log[n].original # Null => PromotionReachable
    BY <2>1 DEF ReadyInv
  <2>3. log[n].maxRetries \in Nat
    BY <2>1 DEF TypeOK, LogEntry
  <2> QED
    BY <2>1, <2>2, <2>3 DEF Copied, ReadyRow
<1>5. ASSUME r # Null
      PROVE  r \in Row /\ ReadyRow(r)
  BY <1>5 DEF ReadyInv, TypeOK
<1>6. ASSUME r # Null, NEW p \in Producers, request[p] # Null, r.topic = request[p].topic,
             r.status = "pending", messages'[m] = Upserted(r, request[p])
      PROVE  ReadyRow(messages'[m])
  <2>1. /\ messages'[m].topic = r.topic
        /\ messages'[m].original = r.original
        /\ messages'[m].retry = r.retry
        /\ messages'[m].status = r.status
        /\ messages'[m].vis = r.vis
        /\ messages'[m].maxRetries = request[p].maxRetries
    BY <1>5, <1>6 DEF Upserted, Row
  <2>2. ~HasDlqSuffix(r.topic) /\ request[p].maxRetries = MaxRetries
    BY <1>6 DEF ReadyInv
  <2> QED
    BY <1>5, <1>6, <2>1, <2>2 DEF ReadyRow, Active
<1>7. ASSUME r # Null, r.status = "pending",
             messages'[m] = [r EXCEPT !.status = "processing", !.vis = "running"]
      PROVE  ReadyRow(messages'[m])
  <2>1. /\ messages'[m].topic = r.topic
        /\ messages'[m].original = r.original
        /\ messages'[m].retry = r.retry
        /\ messages'[m].maxRetries = r.maxRetries
        /\ messages'[m].status = "processing"
    BY <1>5, <1>7 DEF Row
  <2> QED
    BY <1>5, <1>7, <2>1 DEF ReadyRow, Active
<1>8. ASSUME r # Null, r.status = "processing",
             NEW cfg \in GetTopicConfig(r.topic) \cup {Null},
             messages'[m] = Nacked(r, effectiveDLQThreshold(cfg))
      PROVE  ReadyRow(messages'[m])
  <2>1. r.topic \in Topic
    BY <1>5, <1>8 DEF Row
  <2>2. effectiveDLQThreshold(cfg) = DlqThreshold
    BY <1>8, <2>1, GlobalSettings
  <2> QED
    BY <1>5, <1>8, <2>2, NackKeepsReady
<1>9. ASSUME r # Null, r.original # Null,
             NEW cfg \in GetTopicConfig(r.original) \cup {Null},
             messages'[m] = Requeued(r, effectiveDLQThreshold(cfg))
      PROVE  ReadyRow(messages'[m])
  <2>1. r.original \in Topic
    BY <1>5, <1>9 DEF Row
  <2>2. effectiveDLQThreshold(cfg) = DlqThreshold
    BY <1>9, <2>1, GlobalSettings
  <2>3. /\ messages'[m].retry = 0
        /\ messages'[m].maxRetries = DlqThreshold
        /\ messages'[m].vis = "null"
    BY <1>5, <1>9, <2>2 DEF Requeued, Row
  <2>4. PromotionReachable
    BY <1>5, <1>9 DEF ReadyRow
  <2> QED
    BY <2>3, <2>4 DEF ReadyRow
<1>10. ASSUME r # Null,
              \/ messages'[m] = [r EXCEPT !.status = "expired"]
              \/ messages'[m] = [r EXCEPT !.ttl = "elapsed"]
              \/ r.vis = "running" /\ messages'[m] = [r EXCEPT !.vis = "elapsed"]
       PROVE  ReadyRow(messages'[m])
  <2>1. /\ messages'[m].topic = r.topic
        /\ messages'[m].original = r.original
        /\ messages'[m].maxRetries = r.maxRetries
        /\ messages'[m].retry = r.retry
        /\ messages'[m].status \in {r.status, "expired"}
        /\ messages'[m].vis \in {r.vis, "elapsed"}
    BY <1>5, <1>10 DEF Row
  <2> QED
    BY <1>5, <1>10, <2>1 DEF ReadyRow, Active
<1> QED
  BY <1>1, <1>2, <1>3, <1>4, <1>6, <1>7, <1>8, <1>9, <1>10 DEF RowStep

\* Where no topic overrides the retry budget, the strengthening survives every
\* step of every operation.
LEMMA ReadyInvInductive ==
    ASSUME NoBudgetOverride
    PROVE  Spec => []ReadyInv
<1>1. Init => ReadyInv
  BY DEF Init, ReadyInv, NoBudgetOverride
<1>2. TypeOK /\ ReadyInv /\ [Next]_vars => ReadyInv'
  <2> SUFFICES ASSUME TypeOK, ReadyInv, [Next]_vars PROVE ReadyInv'
    OBVIOUS
  <2>1. \A m \in Ids : messages'[m] # Null => ReadyRow(messages'[m])
    BY ReadyRowNext
  <2>2. ASSUME NEW n \in Ids, log'[n] # Null
        PROVE  /\ ~HasDlqSuffix(log'[n].topic)
               /\ log'[n].maxRetries # MaxRetries \/ log'[n].original # Null => PromotionReachable
    <3>1. LogStep(n)
      BY LogSteps
    <3>2. CASE log'[n] = log[n]
      BY <2>2, <3>2 DEF ReadyInv
    <3>3. CASE log[n] # Null /\ log'[n] = [log[n] EXCEPT !.aged = TRUE]
      <4>1. log[n] \in LogEntry
        BY <3>3 DEF TypeOK
      <4>2. /\ log'[n].topic = log[n].topic
            /\ log'[n].original = log[n].original
            /\ log'[n].maxRetries = log[n].maxRetries
        BY <3>3, <4>1 DEF LogEntry
      <4> QED
        BY <3>3, <4>2 DEF ReadyInv
    <3>4. CASE /\ messages[n] # Null
               /\ Replayable(messages[n].topic)
               /\ log'[n] = Archived(messages[n], acks + 1)
      <4>1. ReadyRow(messages[n]) /\ ~HasDlqSuffix(messages[n].topic)
        BY <3>4 DEF Replayable, ReadyInv
      <4> QED
        BY <3>4, <4>1 DEF Archived, ReadyRow
    <3> QED
      BY <2>2, <3>1, <3>2, <3>3, <3>4 DEF LogStep
  <2>3. ASSUME NEW t \in Topics, NEW cfg \in seen[t]
        PROVE  resolveMaxRetries(cfg) = MaxRetries
    BY <2>3 DEF ReadyInv, resolveMaxRetries
  <2>4. ASSUME NEW p \in Producers, request'[p] # Null
        PROVE  ~HasDlqSuffix(request'[p].topic) /\ request'[p].maxRetries = MaxRetries
    <3>1. RequestStep(p)
      BY RequestSteps
    <3>2. \A t \in Topics : ~HasDlqSuffix(OrdinaryTopic(t))
      BY DEF OrdinaryTopic, HasDlqSuffix
    <3> QED
      BY <2>3, <2>4, <3>1, <3>2 DEF RequestStep, ReadyInv
  <2>5. ASSUME NEW t \in Topics, NEW cfg \in seen'[t], cfg # Null
        PROVE  cfg.maxRetries = Null
    <3>1. SeenStep(t)
      BY RequestSteps
    <3> QED
      BY <2>5, <3>1 DEF SeenStep, ReadyInv, NoBudgetOverride
  <2> QED
    BY <2>1, <2>2, <2>4, <2>5 DEF ReadyInv
<1> QED
  BY <1>1, <1>2, TypeCorrect, PTL DEF Spec

\* With the global retry settings in force everywhere, every unexpired pending
\* message can be dequeued, whatever upserts, nacks and requeues it has been
\* through.
THEOREM PendingIsReadyHolds ==
    ASSUME NoBudgetOverride
    PROVE  Spec => []PendingIsReady
<1>1. ReadyInv => PendingIsReady
  BY DEF ReadyInv, ReadyRow, PendingIsReady, Claimable, Live, Active
<1> QED
  BY <1>1, ReadyInvInductive, PTL

-----------------------------------------------------------------------------
(* Claims *)

\* What a nack writes is never claimed (Promoted, Retried).
LEMMA NackEndsClaim ==
    ASSUME NEW r \in Row, NEW threshold
    PROVE  Nacked(r, threshold).status # "processing"
<1>1. Promoted(r).status = "pending"
  BY DEF Promoted, Row
<1>2. Retried(r).status # "processing"
  BY DEF Retried, Row
<1> QED
  BY <1>1, <1>2 DEF Nacked

\* While a message is with a consumer, no upsert, reaper, timer or settlement of
\* another message alters its payload or its retry budget.
THEOREM ClaimIsStableHolds == Spec => ClaimIsStable
<1>1. ASSUME TypeOK, [Next]_vars, NEW m \in Ids,
             InStatus(m, {"processing"}), InStatus(m, {"processing"})'
      PROVE  /\ messages'[m].payload = messages[m].payload
             /\ messages'[m].maxRetries = messages[m].maxRetries
  <2> DEFINE r == messages[m]
  <2>1. r \in Row /\ r # Null /\ r.status = "processing"
    BY <1>1 DEF InStatus, TypeOK
  <2>2. messages'[m] # Null /\ messages'[m].status = "processing"
    BY <1>1 DEF InStatus
  <2>3. RowStep(m)
    BY <1>1, RowSteps
  <2>4. ASSUME NEW threshold, messages'[m] = Nacked(r, threshold)
        PROVE  FALSE
    BY <2>1, <2>2, <2>4, NackEndsClaim
  <2>5. ASSUME NEW threshold, messages'[m] = Requeued(r, threshold)
        PROVE  FALSE
    BY <2>1, <2>2, <2>5 DEF Requeued, Row
  <2>6. ASSUME \/ messages'[m] = [r EXCEPT !.status = "expired"]
               \/ messages'[m] = [r EXCEPT !.ttl = "elapsed"]
               \/ messages'[m] = [r EXCEPT !.vis = "elapsed"]
        PROVE  messages'[m].payload = r.payload /\ messages'[m].maxRetries = r.maxRetries
    BY <2>1, <2>6 DEF Row
  <2>7. ~(m >= nextId)
    BY <1>1, <2>1 DEF TypeOK
  <2> QED
    BY <2>1, <2>2, <2>3, <2>4, <2>5, <2>6, <2>7 DEF RowStep
<1>2. TypeOK /\ [Next]_vars =>
        [\A m \in Ids :
            InStatus(m, {"processing"}) /\ InStatus(m, {"processing"})'
            => /\ messages'[m].payload = messages[m].payload
               /\ messages'[m].maxRetries = messages[m].maxRetries]_vars
  BY <1>1
<1> QED
  BY <1>2, TypeCorrect, PTL DEF Spec, ClaimIsStable

-----------------------------------------------------------------------------
(* Without dead letters *)

\* Promotion is switched off everywhere: no message is ever in a DLQ topic, and
\* so none can be requeued while a consumer has it.
NoPromotion == NoBudgetOverride /\ DlqThreshold = 0

\* Without promotion no row has an original_topic.
LEMMA NothingToRequeue ==
    ASSUME NoPromotion, ReadyInv, NEW m \in Ids, messages[m] # Null
    PROVE  messages[m].original = Null
BY DEF NoPromotion, ReadyInv, ReadyRow, PromotionReachable

-----------------------------------------------------------------------------
(* Claims that nobody answers for *)

\* Nack can always write its row where messages have no keys: the unique index
\* has no entry to collide with.
LEMMA NothingCollides ==
    ASSUME Keys = {}, TypeOK, NEW r \in Row
    PROVE  ~Collides(r)
BY DEF Collides, PendingWithKey, Row

\* A claimed message that was not claimed before has just been given to a
\* consumer, and nobody but its holder ends a claim by letting go.
LEMMA OrphanNext ==
    ASSUME Keys = {}, ~ConsumersMayCrash, TypeOK, NoOrphanClaim, [Next]_vars,
           NEW m \in Ids, InStatus(m, {"processing"})'
    PROVE  \E c \in Consumers : m \in held'[c]
<1>1. messages'[m] # Null /\ messages'[m].status = "processing"
  BY DEF InStatus
<1>2. CASE \E c \in Consumers :
             \/ \E t \in KnownTopic : Dequeue(c, t)
             \/ \E t \in KnownTopic, n \in Ids : DequeueN(c, t, n)
  <2>1. PICK c \in Consumers : \E S \in SUBSET Live : Claim(c, S)
    BY <1>2 DEF Dequeue, DequeueN, Claimable
  <2>2. PICK S \in SUBSET Live : Claim(c, S)
    BY <2>1
  <2>3. \A d \in Consumers : held'[d] = IF d = c THEN held[c] \cup S ELSE held[d]
    BY <2>2 DEF Claim, TypeOK
  <2>4. CASE m \in S
    BY <2>3, <2>4
  <2>5. CASE m \notin S
    <3>1. InStatus(m, {"processing"})
      BY <1>1, <2>2, <2>5 DEF Claim, InStatus
    <3> QED
      BY <2>3, <3>1 DEF NoOrphanClaim
  <2> QED
    BY <2>4, <2>5
<1>3. CASE \E c \in Consumers, n \in Ids : Ack(c, n) \/ Nack(c, n) \/ SettleRejected(c, n)
  <2>1. PICK c \in Consumers, n \in Ids : Ack(c, n) \/ Nack(c, n) \/ SettleRejected(c, n)
    BY <1>3
  <2>2. \A d \in Consumers : held[d] \ {n} \subseteq held'[d]
    BY <2>1 DEF Ack, Nack, SettleRejected, Settle, TypeOK
  <2>3. m # n
    <3>1. CASE Ack(c, n)
      BY <1>1, <3>1 DEF Ack, TypeOK
    <3>2. CASE Nack(c, n)
      <4>1. messages[n] \in Row
        BY <3>2 DEF Nack, InStatus, TypeOK
      <4>2. PICK cfg \in GetTopicConfig(messages[n].topic) \cup {Null} :
              LET r == Nacked(messages[n], effectiveDLQThreshold(cfg)) IN
              messages' = IF Collides(r) THEN messages ELSE [messages EXCEPT ![n] = r]
        BY <3>2 DEF Nack
      <4>3. cfg \in TopicConfig \cup {Null}
        BY <4>1, ConfigReadType DEF Row
      <4>4. Nacked(messages[n], effectiveDLQThreshold(cfg)) \in Row
        BY <4>1, <4>3, ResolvedTypes, NackedType
      <4>5. messages'[n] = Nacked(messages[n], effectiveDLQThreshold(cfg))
        BY <4>2, <4>4, NothingCollides DEF TypeOK
      <4> QED
        BY <1>1, <4>1, <4>5, NackEndsClaim
    <3>3. CASE SettleRejected(c, n)
      BY <1>1, <3>3 DEF SettleRejected, InStatus
    <3> QED
      BY <2>1, <3>1, <3>2, <3>3
  <2>4. InStatus(m, {"processing"})
    BY <1>1, <2>1, <2>3 DEF Ack, Nack, SettleRejected, InStatus, TypeOK
  <2> QED
    BY <2>2, <2>3, <2>4 DEF NoOrphanClaim
<1>4. CASE \E c \in Consumers : ConsumerCrash(c)
  BY <1>4 DEF ConsumerCrash
<1>5. ASSUME UNCHANGED held, InStatus(m, {"processing"})
      PROVE  \E c \in Consumers : m \in held'[c]
  BY <1>5 DEF NoOrphanClaim
<1>6. KnownTopic \subseteq Topic /\ 0..(MaxId + 1) \subseteq Nat
  BY TuningAssumption DEF KnownTopic, Topic
<1>7. messages[m] # Null => messages[m] \in Row
  BY DEF TypeOK
<1>8. CASE \E p \in Producers : EnqueueInsert(p) \/ EnqueueUpsert(p)
  <2>1. PICK p \in Producers : EnqueueInsert(p) \/ EnqueueUpsert(p)
    BY <1>8
  <2>2. \/ messages'[m] = messages[m]
        \/ messages'[m] = Inserted(request[p])
        \/ messages[m] # Null /\ messages'[m] = Upserted(messages[m], request[p])
    BY <2>1 DEF EnqueueInsert, EnqueueUpsert, PendingWithKey, Live, TypeOK
  <2>3. InStatus(m, {"processing"})
    <3>1. Inserted(request[p]).status = "pending"
      BY DEF Inserted
    <3>2. messages[m] # Null => Upserted(messages[m], request[p]).status = messages[m].status
      BY <1>7 DEF Upserted, Row
    <3> QED
      BY <1>1, <2>2, <3>1, <3>2 DEF InStatus
  <2>4. UNCHANGED held
    BY <2>1 DEF EnqueueInsert, EnqueueUpsert
  <2> QED
    BY <1>5, <2>3, <2>4
<1>9. CASE \E n \in Ids : Requeue(n)
  <2>1. PICK n \in Ids : Requeue(n)
    BY <1>9
  <2>2. PICK threshold : messages' = [messages EXCEPT ![n] = Requeued(messages[n], threshold)]
    BY <2>1 DEF Requeue
  <2>3. messages'[m] = messages[m] \/ (messages[m] # Null /\ messages'[m] = Requeued(messages[m], threshold))
    BY <2>1, <2>2 DEF Requeue, TypeOK
  <2>4. InStatus(m, {"processing"})
    BY <1>1, <1>7, <2>3 DEF Requeued, Row, InStatus
  <2>5. UNCHANGED held
    BY <2>1 DEF Requeue
  <2> QED
    BY <1>5, <2>4, <2>5
<1>10. CASE \/ \E n \in Ids : TTLElapses(n) \/ VisibilityElapses(n)
            \/ RunExpiryReaper
            \/ RunDeleteReaper
            \/ \E t \in KnownTopic : \/ \E S \in SUBSET Purgeable : PurgeTopic(t, S)
                                     \/ \E k \in Keys : PurgeByKey(t, k)
  <2>1. \/ messages'[m] = messages[m]
        \/ messages'[m] = Null
        \/ messages[m] # Null /\ \/ messages'[m] = [messages[m] EXCEPT !.status = "expired"]
                                 \/ messages'[m] = [messages[m] EXCEPT !.ttl = "elapsed"]
                                 \/ messages'[m] = [messages[m] EXCEPT !.vis = "elapsed"]
    BY <1>10 DEF TTLElapses, VisibilityElapses, RunExpiryReaper, RunDeleteReaper, PurgeTopic,
       PurgeByKey, Delete, InStatus, TypeOK
  <2>2. InStatus(m, {"processing"})
    BY <1>1, <1>7, <2>1 DEF Row, InStatus
  <2>3. UNCHANGED held
    BY <1>10 DEF TTLElapses, VisibilityElapses, RunExpiryReaper, RunDeleteReaper, PurgeTopic,
       PurgeByKey
  <2> QED
    BY <1>5, <2>2, <2>3
<1>11. CASE \E t \in KnownTopic, at \in 0..(MaxId + 1) : ReplayTopic(t, at)
  <2>1. PICK t \in Topic, at \in Nat : ReplayTopic(t, at)
    BY <1>6, <1>11
  <2>2. PICK cfg \in GetTopicConfig(t), k \in 0..(MaxId - nextId + 1) :
          \E src \in [nextId..(nextId + k - 1) -> Replayed(t, cfg, at)] :
              ReplayEffect(src, cfg, k)
    BY <2>1, ReplayShape
  <2>3. messages'[m] = messages[m] \/ messages'[m].status = "pending"
    BY <2>2 DEF ReplayEffect, Copied
  <2>4. UNCHANGED held
    BY <2>1 DEF ReplayTopic
  <2> QED
    BY <1>1, <1>5, <2>3, <2>4 DEF InStatus
<1>12. CASE \/ \E p \in Producers, t \in Topics, k \in Keys \cup {Null}, v \in Payloads :
                  EnqueueCheck(p, t, k, v)
            \/ \E n \in Ids : ReplayWindowElapses(n)
            \/ RunArchiveReaper
            \/ \E t \in KnownTopic, at \in 0..(MaxId + 1) : TrimMessageLog(t, at)
            \/ \E t \in Topics : \/ \E cfg \in AdminConfigs : UpsertTopicConfig(t, cfg)
                                 \/ DeleteTopicConfig(t)
            \/ UNCHANGED vars
  <2>1. UNCHANGED <<messages, held>>
    BY <1>12 DEF EnqueueCheck, ReplayWindowElapses, RunArchiveReaper, TrimMessageLog,
       UpsertTopicConfig, DeleteTopicConfig, WriteConfig, vars
  <2> QED
    BY <1>1, <1>5, <2>1 DEF InStatus
<1> QED
  BY <1>2, <1>3, <1>4, <1>8, <1>9, <1>10, <1>11, <1>12 DEF Next

\* Where messages carry no keys, so that no Nack is rolled back by the unique
\* index, and consumers do not die, a row is 'processing' only while a consumer
\* has yet to settle it.
THEOREM NoOrphanClaimHolds ==
    ASSUME Keys = {}, ~ConsumersMayCrash
    PROVE  Spec => []NoOrphanClaim
<1>1. Init => NoOrphanClaim
  BY DEF Init, NoOrphanClaim, InStatus
<1>2. TypeOK /\ NoOrphanClaim /\ [Next]_vars => NoOrphanClaim'
  BY OrphanNext DEF NoOrphanClaim
<1> QED
  BY <1>1, <1>2, TypeCorrect, PTL DEF Spec

-----------------------------------------------------------------------------
(* The depth limit *)

\* Every configuration a topic can ever have.
Configs(t) == AdminConfigs \cup {InitConfig[t]}

\* Nothing enters a topic but through Enqueue: no message is dead-lettered, and
\* so none requeued, and no topic is replayable.
EnqueueOnly ==
    /\ NoPromotion
    /\ \A t \in Topics : \A cfg \in Configs(t) : cfg # Null => ~cfg.replayable

\* Administrators may change a topic's configuration, but not its depth limit.
FixedDepthLimit ==
    \A t \in Topics : \A cfg \in Configs(t) :
        resolveMaxDepth(cfg) = resolveMaxDepth(InitConfig[t])

\* The rows that count against the limit of topic t, and the Enqueue calls that
\* have passed its check and not inserted yet.
Counted(t) == {m \in Live : messages[m].topic = OrdinaryTopic(t) /\ InStatus(m, Active)}
Admitted(t) == {p \in Producers : request[p] # Null /\ request[p].topic = OrdinaryTopic(t)}

\* The inductive strengthening of DepthBound: an admitted call counts as the row
\* it is going to insert.
DepthInv ==
    /\ \A t \in Topics : seen[t] \subseteq Configs(t)
    /\ \A t \in Topics :
          LET limit == resolveMaxDepth(InitConfig[t]) IN
          limit > 0 => Cardinality(Counted(t)) + Cardinality(Admitted(t))
                         < limit + Cardinality(Producers)

\* Both are finite sets.
LEMMA CountedFinite ==
    ASSUME IsFiniteSet(Producers), NEW t
    PROVE  /\ IsFiniteSet(Counted(t)) /\ Cardinality(Counted(t)) \in Nat
           /\ IsFiniteSet(Admitted(t)) /\ Cardinality(Admitted(t)) \in Nat
           /\ Cardinality(Admitted(t)) <= Cardinality(Producers)
           /\ Cardinality(Producers) \in Nat
<1>1. IsFiniteSet(Ids)
  BY FS_Interval, TuningAssumption DEF Ids
<1>2. Counted(t) \subseteq Ids /\ Admitted(t) \subseteq Producers
  BY DEF Counted, Live, Admitted
<1> QED
  BY <1>1, <1>2, FS_Subset, FS_CardinalityType

\* A step that inserts no row adds none to those that count: a claim, a retry or
\* an upsert concerns a row that counted before.
LEMMA CountedShrinks ==
    ASSUME NoPromotion, TypeOK, ReadyInv, [Next]_vars, nextId' = nextId, NEW t \in Topics
    PROVE  Counted(t)' \subseteq Counted(t)
<1>1. SUFFICES ASSUME NEW m \in Ids, messages'[m] # Null,
                      messages'[m].topic = OrdinaryTopic(t), messages'[m].status \in Active
               PROVE  /\ messages[m] # Null
                      /\ messages[m].topic = OrdinaryTopic(t)
                      /\ messages[m].status \in Active
  BY DEF Counted, Live, InStatus
<1> DEFINE r == messages[m]
<1>2. RowStep(m)
  BY RowSteps
<1>3. m < nextId
  <2>1. TypeOK'
    BY TypeNext
  <2> QED
    BY <1>1, <2>1 DEF TypeOK, Ids
<1>4. ASSUME r # Null
      PROVE  r \in Row /\ r.original = Null
  BY <1>4, NothingToRequeue DEF TypeOK
<1>5. ASSUME r # Null, NEW req, messages'[m] = Upserted(r, req)
      PROVE  messages'[m].topic = r.topic /\ messages'[m].status = r.status
  BY <1>4, <1>5 DEF Upserted, Row
<1>6. ASSUME r # Null, messages'[m] = [r EXCEPT !.status = "processing", !.vis = "running"]
      PROVE  messages'[m].topic = r.topic
  BY <1>4, <1>6 DEF Row
<1>7. ASSUME r # Null, NEW threshold, messages'[m] = Nacked(r, threshold)
      PROVE  messages'[m].topic = r.topic
  <2>1. CASE messages'[m] = Promoted(r)
    <3>1. messages'[m].topic = DlqOf(r.topic) /\ r.topic \in Topic
      BY <1>4, <1>7, <2>1 DEF Promoted, Row
    <3>2. DlqOf(r.topic).dlq # 0
      BY <3>1 DEF DlqOf, Topic
    <3> QED
      BY <1>1, <3>1, <3>2 DEF OrdinaryTopic
  <2>2. CASE messages'[m] = Retried(r)
    BY <1>4, <1>7, <2>2 DEF Retried, Row
  <2> QED
    BY <1>7, <2>1, <2>2 DEF Nacked
<1>8. ASSUME r # Null,
             \/ messages'[m] = [r EXCEPT !.ttl = "elapsed"]
             \/ messages'[m] = [r EXCEPT !.vis = "elapsed"]
      PROVE  messages'[m].topic = r.topic /\ messages'[m].status = r.status
  BY <1>4, <1>8 DEF Row
<1>9. ASSUME r # Null, messages'[m] = [r EXCEPT !.status = "expired"]
      PROVE  messages'[m].status = "expired"
  BY <1>4, <1>9 DEF Row
<1>10. m \in Nat /\ nextId \in Nat /\ ~(m >= nextId)
  BY <1>3, TuningAssumption DEF TypeOK, Ids
<1> QED
  BY <1>1, <1>2, <1>4, <1>5, <1>6, <1>7, <1>8, <1>9, <1>10 DEF RowStep, Active

\* Without replay, a step passes the check, inserts a row, or does neither.
LEMMA AdmittedSteps ==
    ASSUME EnqueueOnly, TypeOK, DepthInv, [Next]_vars
    PROVE  \/ \E p \in Producers, t \in Topics, k \in Keys \cup {Null}, v \in Payloads :
                 EnqueueCheck(p, t, k, v)
           \/ \E p \in Producers : EnqueueInsert(p)
           \/ /\ nextId' = nextId
              /\ \A t \in Topics : Admitted(t)' \subseteq Admitted(t)
<1>1. ASSUME NEW t \in KnownTopic, NEW at, ReplayTopic(t, at)
      PROVE  FALSE
  <2>1. PICK cfg \in GetTopicConfig(t) : cfg # Null /\ cfg.replayable
    BY <1>1 DEF ReplayTopic
  <2>2. t.name \in Topics
    BY DEF KnownTopic
  <2>3. cfg \in Configs(t.name)
    BY <2>1, <2>2 DEF GetTopicConfig, DepthInv
  <2> QED
    BY <2>1, <2>2, <2>3 DEF EnqueueOnly
<1>2. CASE \E p \in Producers : EnqueueUpsert(p)
  <2>1. PICK p \in Producers : EnqueueUpsert(p)
    BY <1>2
  <2>2. nextId' = nextId /\ request' = [request EXCEPT ![p] = Null]
    BY <2>1 DEF EnqueueUpsert
  <2> QED
    BY <2>2 DEF Admitted, TypeOK
<1>3. ASSUME nextId' = nextId, request' = request
      PROVE  nextId' = nextId /\ \A t \in Topics : Admitted(t)' \subseteq Admitted(t)
  BY <1>3 DEF Admitted
<1>4. ASSUME \/ \E c \in Consumers, m \in Ids : Ack(c, m) \/ Nack(c, m) \/ SettleRejected(c, m)
             \/ \E c \in Consumers : ConsumerCrash(c)
             \/ \E m \in Ids : \/ Requeue(m) \/ TTLElapses(m) \/ VisibilityElapses(m)
                               \/ ReplayWindowElapses(m)
             \/ RunExpiryReaper \/ RunDeleteReaper \/ RunArchiveReaper
      PROVE  nextId' = nextId /\ request' = request
  BY <1>4 DEF Ack, Nack, SettleRejected, ConsumerCrash, Requeue, TTLElapses,
     VisibilityElapses, ReplayWindowElapses, RunExpiryReaper, RunDeleteReaper, RunArchiveReaper
<1>5. ASSUME \/ \E c \in Consumers, t \in KnownTopic : Dequeue(c, t)
             \/ \E c \in Consumers, t \in KnownTopic, m \in Ids : DequeueN(c, t, m)
             \/ \E t \in KnownTopic :
                   \/ \E S \in SUBSET Purgeable : PurgeTopic(t, S)
                   \/ \E k \in Keys : PurgeByKey(t, k)
                   \/ \E at \in 0..(MaxId + 1) : TrimMessageLog(t, at)
             \/ \E t \in Topics : \/ \E cfg \in AdminConfigs : UpsertTopicConfig(t, cfg)
                                  \/ DeleteTopicConfig(t)
             \/ UNCHANGED vars
      PROVE  nextId' = nextId /\ request' = request
  BY <1>5 DEF Dequeue, DequeueN, Claim, PurgeTopic, PurgeByKey, TrimMessageLog,
     UpsertTopicConfig, DeleteTopicConfig, WriteConfig, vars
<1> QED
  BY <1>1, <1>2, <1>3, <1>4, <1>5 DEF Next

\* Passing the check: fewer rows than the limit count, and no more calls are
\* admitted than there are callers.
LEMMA DepthCheck ==
    ASSUME IsFiniteSet(Producers), FixedDepthLimit, TypeOK, DepthInv,
           NEW p \in Producers, NEW u \in Topics, NEW k, NEW v, EnqueueCheck(p, u, k, v),
           NEW t \in Topics, resolveMaxDepth(InitConfig[t]) > 0
    PROVE  Cardinality(Counted(t)') + Cardinality(Admitted(t)')
             < resolveMaxDepth(InitConfig[t]) + Cardinality(Producers)
<1>a. GetTopicConfig(OrdinaryTopic(u)) = seen[u]
  BY DEF GetTopicConfig, OrdinaryTopic, HasDlqSuffix
<1>1. PICK cfg \in seen[u] :
        /\ request[p] = Null
        /\ \/ resolveMaxDepth(cfg) = 0
           \/ Depth(OrdinaryTopic(u)) < resolveMaxDepth(cfg)
        /\ request' = [request EXCEPT ![p] =
               [topic      |-> OrdinaryTopic(u),
                key        |-> k,
                payload    |-> v,
                maxRetries |-> resolveMaxRetries(cfg),
                ttl        |-> resolveExpiresAt(cfg)]]
        /\ messages' = messages
  BY <1>a DEF EnqueueCheck
<1>2. PICK r : r.topic = OrdinaryTopic(u) /\ request' = [request EXCEPT ![p] = r]
  BY <1>1
<1>3. Counted(t)' = Counted(t)
  BY <1>1 DEF Counted, Live, InStatus
<1>4. resolveMaxDepth(cfg) = resolveMaxDepth(InitConfig[u])
  BY <1>1 DEF DepthInv, FixedDepthLimit
<1>5. resolveMaxDepth(InitConfig[t]) \in Nat
  BY ConfigAssumption DEF resolveMaxDepth, TopicConfig
<1>6. CASE t = u
  <2>1. Cardinality(Counted(t)) < resolveMaxDepth(InitConfig[t])
    BY <1>1, <1>4, <1>5, <1>6 DEF Depth, Counted
  <2>2. Cardinality(Admitted(t)') \in Nat /\ Cardinality(Admitted(t)') <= Cardinality(Producers)
    <3>1. IsFiniteSet(Admitted(t)') /\ Admitted(t)' \subseteq Producers
      BY FS_Subset DEF Admitted
    <3> QED
      BY <3>1, FS_Subset, FS_CardinalityType
  <2> QED
    BY <1>3, <1>5, <2>1, <2>2, CountedFinite
<1>7. CASE t # u
  <2>1. Admitted(t)' = Admitted(t)
    BY <1>1, <1>2, <1>7 DEF Admitted, OrdinaryTopic, TypeOK
  <2> QED
    BY <1>3, <2>1 DEF DepthInv
<1> QED
  BY <1>6, <1>7

\* The insert: the call gives up its place to the row.
LEMMA DepthInsert ==
    ASSUME IsFiniteSet(Producers), TypeOK, DepthInv,
           NEW p \in Producers, EnqueueInsert(p),
           NEW t \in Topics, resolveMaxDepth(InitConfig[t]) > 0
    PROVE  Cardinality(Counted(t)') + Cardinality(Admitted(t)')
             < resolveMaxDepth(InitConfig[t]) + Cardinality(Producers)
<1>1. /\ request[p] # Null /\ nextId \in Ids /\ messages[nextId] = Null
      /\ messages' = [messages EXCEPT ![nextId] = Inserted(request[p])]
      /\ request' = [request EXCEPT ![p] = Null]
  BY TuningAssumption DEF EnqueueInsert, TypeOK, Ids
<1>2. Admitted(t)' = Admitted(t) \ {p}
  BY <1>1 DEF Admitted, TypeOK
<1>3. Inserted(request[p]).topic = request[p].topic
  BY DEF Inserted
<1>4. nextId \notin Counted(t)
  BY <1>1 DEF Counted, Live
<1>5. CASE p \in Admitted(t)
  <2>1. Counted(t)' \subseteq Counted(t) \cup {nextId}
    BY <1>1 DEF Counted, Live, InStatus, TypeOK
  <2>2. /\ IsFiniteSet(Counted(t) \cup {nextId})
        /\ Cardinality(Counted(t) \cup {nextId}) = Cardinality(Counted(t)) + 1
    BY <1>4, CountedFinite, FS_AddElement
  <2>3. /\ Cardinality(Counted(t)') \in Nat
        /\ Cardinality(Counted(t)') <= Cardinality(Counted(t)) + 1
    BY <2>1, <2>2, FS_Subset, FS_CardinalityType
  <2>4. Cardinality(Admitted(t)') = Cardinality(Admitted(t)) - 1
    BY <1>2, <1>5, CountedFinite, FS_RemoveElement
  <2>5. resolveMaxDepth(InitConfig[t]) \in Nat
    BY ConfigAssumption DEF resolveMaxDepth, TopicConfig
  <2> QED
    BY <2>3, <2>4, <2>5, CountedFinite DEF DepthInv
<1>6. CASE p \notin Admitted(t)
  <2>1. Admitted(t)' = Admitted(t)
    BY <1>2, <1>6
  <2>2. request[p].topic # OrdinaryTopic(t)
    BY <1>1, <1>6 DEF Admitted
  <2>3. Counted(t)' = Counted(t)
    BY <1>1, <1>3, <2>2 DEF Counted, Live, InStatus, TypeOK
  <2> QED
    BY <2>1, <2>3 DEF DepthInv
<1> QED
  BY <1>5, <1>6

\* DepthInv is inductive.
LEMMA DepthNext ==
    ASSUME IsFiniteSet(Producers), EnqueueOnly, FixedDepthLimit,
           TypeOK, ReadyInv, DepthInv, [Next]_vars
    PROVE  DepthInv'
<1>1. \A t \in Topics : seen'[t] \subseteq Configs(t)
  BY RequestSteps DEF SeenStep, DepthInv, Configs
<1>2. ASSUME NEW t \in Topics, resolveMaxDepth(InitConfig[t]) > 0
      PROVE  Cardinality(Counted(t)') + Cardinality(Admitted(t)')
               < resolveMaxDepth(InitConfig[t]) + Cardinality(Producers)
  <2>1. CASE \E p \in Producers, u \in Topics, k \in Keys \cup {Null}, v \in Payloads :
               EnqueueCheck(p, u, k, v)
    BY <1>2, <2>1, DepthCheck
  <2>2. CASE \E p \in Producers : EnqueueInsert(p)
    BY <1>2, <2>2, DepthInsert
  <2>3. CASE nextId' = nextId /\ Admitted(t)' \subseteq Admitted(t)
    <3>1. Counted(t)' \subseteq Counted(t)
      BY <2>3, CountedShrinks DEF EnqueueOnly
    <3>2. /\ Cardinality(Counted(t)') \in Nat /\ Cardinality(Admitted(t)') \in Nat
          /\ Cardinality(Counted(t)') <= Cardinality(Counted(t))
          /\ Cardinality(Admitted(t)') <= Cardinality(Admitted(t))
      BY <2>3, <3>1, CountedFinite, FS_Subset, FS_CardinalityType
    <3>3. resolveMaxDepth(InitConfig[t]) \in Nat
      BY ConfigAssumption DEF resolveMaxDepth, TopicConfig
    <3> QED
      BY <1>2, <3>2, <3>3, CountedFinite DEF DepthInv
  <2> QED
    BY <2>1, <2>2, <2>3, AdmittedSteps
<1> QED
  BY <1>1, <1>2 DEF DepthInv

\* Where nothing enters a topic but through Enqueue, and its depth limit is not
\* changed, any number of producers racing between the check and the insert
\* overshoot the limit by at most one message each but the first.
THEOREM DepthBoundHolds ==
    ASSUME IsFiniteSet(Producers), EnqueueOnly, FixedDepthLimit
    PROVE  Spec => []DepthBound
<1>1. Init => DepthInv
  <2> SUFFICES ASSUME Init PROVE DepthInv
    OBVIOUS
  <2>1. \A t \in Topics : Counted(t) = {} /\ Admitted(t) = {} /\ seen[t] \subseteq Configs(t)
    BY DEF Init, Counted, Live, Admitted, Configs
  <2>2. Cardinality({}) = 0 /\ Cardinality(Producers) \in Nat
    BY FS_EmptySet, FS_CardinalityType
  <2>3. \A t \in Topics : resolveMaxDepth(InitConfig[t]) \in Nat
    BY ConfigAssumption DEF resolveMaxDepth, TopicConfig
  <2> QED
    BY <2>1, <2>2, <2>3 DEF DepthInv
<1>2. TypeOK /\ ReadyInv /\ DepthInv /\ [Next]_vars => DepthInv'
  BY DepthNext
<1>3. DepthInv => DepthBound
  <2> SUFFICES ASSUME DepthInv, NEW t \in Topics, NEW cfg \in seen[t], resolveMaxDepth(cfg) > 0
               PROVE  Depth(OrdinaryTopic(t)) < resolveMaxDepth(cfg) + Cardinality(Producers)
    BY DEF DepthBound
  <2>1. resolveMaxDepth(cfg) = resolveMaxDepth(InitConfig[t])
    BY DEF DepthInv, FixedDepthLimit
  <2>2. Depth(OrdinaryTopic(t)) = Cardinality(Counted(t))
    BY DEF Depth, Counted
  <2>3. resolveMaxDepth(InitConfig[t]) \in Nat
    BY ConfigAssumption DEF resolveMaxDepth, TopicConfig
  <2> QED
    BY <2>1, <2>2, <2>3, CountedFinite DEF DepthInv
<1>4. NoBudgetOverride
  BY DEF EnqueueOnly, NoPromotion
<1> QED
  BY <1>1, <1>2, <1>3, <1>4, TypeCorrect, ReadyInvInductive, PTL DEF Spec

-----------------------------------------------------------------------------
(* The refinement *)

\* The abstract variables, message by message.
Parked(m) == messages[m] # Null /\ HasDlqSuffix(messages[m].topic)
Kept(m) == log[m] # Null

\* A step that changes nothing a message shows is a stuttering step.
LEMMA Unmoved ==
    ASSUME \A m \in Ids : PhaseOf(m)' = PhaseOf(m),
           \A m \in Ids : Parked(m)' <=> Parked(m),
           \A m \in Ids : Kept(m)' <=> Kept(m)
    PROVE  UNCHANGED Lifecycle!lifeVars
<1>1. [m \in Ids |-> PhaseOf(m)]' = [m \in Ids |-> PhaseOf(m)]
  OBVIOUS
<1>2. /\ {m \in Live : HasDlqSuffix(messages[m].topic)}' = {m \in Live : HasDlqSuffix(messages[m].topic)}
      /\ {m \in Ids : log[m] # Null}' = {m \in Ids : log[m] # Null}
  BY DEF Live, Parked, Kept
<1> QED
  BY <1>1, <1>2 DEF Lifecycle!lifeVars

\* Messages that start to wait, are delivered, or expire together.
LEMMA MovedTogether ==
    ASSUME NEW S \in SUBSET Ids, NEW to,
           \/ to = "waiting" /\ \A m \in S : PhaseOf(m) = "unborn"
           \/ to = "claimed" /\ \A m \in S : PhaseOf(m) = "waiting"
           \/ to = "expired" /\ \A m \in S : PhaseOf(m) \in {"waiting", "claimed"},
           \A m \in Ids : PhaseOf(m)' = IF m \in S THEN to ELSE PhaseOf(m),
           \A m \in Ids : Parked(m)' <=> Parked(m),
           \A m \in Ids : Kept(m)' <=> Kept(m)
    PROVE  Lifecycle!Next
<1>1. /\ {m \in Live : HasDlqSuffix(messages[m].topic)}' = {m \in Live : HasDlqSuffix(messages[m].topic)}
      /\ {m \in Ids : log[m] # Null}' = {m \in Ids : log[m] # Null}
  BY DEF Live, Parked, Kept
<1>2. Lifecycle!Accept(S) \/ Lifecycle!Deliver(S) \/ Lifecycle!Expire(S)
  BY <1>1 DEF Lifecycle!Accept, Lifecycle!Deliver, Lifecycle!Expire, Lifecycle!Moved
<1> QED
  BY <1>2 DEF Lifecycle!Next

\* A delivered message that is acknowledged.
LEMMA Acknowledged ==
    ASSUME NEW m \in Ids, PhaseOf(m) = "claimed",
           \A n \in Ids : PhaseOf(n)' = IF n = m THEN "gone" ELSE PhaseOf(n),
           \A n \in Ids : Parked(n)' <=> n # m /\ Parked(n),
           \/ \A n \in Ids : Kept(n)' <=> Kept(n)
           \/ ~Parked(m) /\ \A n \in Ids : Kept(n)' <=> n = m \/ Kept(n)
    PROVE  Lifecycle!Next
<1>1. {n \in Live : HasDlqSuffix(messages[n].topic)}'
        = {n \in Live : HasDlqSuffix(messages[n].topic)} \ {m}
  BY DEF Live, Parked
<1>2. \/ {n \in Ids : log[n] # Null}' = {n \in Ids : log[n] # Null}
      \/ /\ m \notin {n \in Live : HasDlqSuffix(messages[n].topic)}
         /\ {n \in Ids : log[n] # Null}' = {n \in Ids : log[n] # Null} \cup {m}
  BY DEF Live, Parked, Kept
<1>3. Lifecycle!Acknowledge(m)
  BY <1>1, <1>2 DEF Lifecycle!Acknowledge, Lifecycle!Moved
<1> QED
  BY <1>3 DEF Lifecycle!Next

\* A delivered message that is retried, parked or given up.
LEMMA Rejected ==
    ASSUME NEW m \in Ids, PhaseOf(m) = "claimed", NEW to,
           \A n \in Ids : PhaseOf(n)' = IF n = m THEN to ELSE PhaseOf(n),
           \/ to = "failed" /\ (Parked(m)' <=> Parked(m))
           \/ to = "waiting" /\ ~Parked(m),
           \A n \in Ids : n # m => (Parked(n)' <=> Parked(n)),
           \A n \in Ids : Kept(n)' <=> Kept(n)
    PROVE  Lifecycle!Next
<1>1. {n \in Ids : log[n] # Null}' = {n \in Ids : log[n] # Null}
  BY DEF Kept
<1>2. \/ {n \in Live : HasDlqSuffix(messages[n].topic)}'
           = {n \in Live : HasDlqSuffix(messages[n].topic)}
      \/ /\ to = "waiting"
         /\ {n \in Live : HasDlqSuffix(messages[n].topic)}'
              = {n \in Live : HasDlqSuffix(messages[n].topic)} \cup {m}
  BY DEF Live, Parked
<1>3. to = "failed" \/ m \notin {n \in Live : HasDlqSuffix(messages[n].topic)}
  BY DEF Live, Parked
<1>4. Lifecycle!Reject(m)
  BY <1>1, <1>2, <1>3 DEF Lifecycle!Reject, Lifecycle!Moved
<1> QED
  BY <1>4 DEF Lifecycle!Next

\* A parked message that is sent back to its topic.
LEMMA SentBack ==
    ASSUME NEW m \in Ids, Parked(m),
           \A n \in Ids : PhaseOf(n)' = IF n = m THEN "waiting" ELSE PhaseOf(n),
           \A n \in Ids : Parked(n)' <=> n # m /\ Parked(n),
           \A n \in Ids : Kept(n)' <=> Kept(n)
    PROVE  Lifecycle!Next
<1>1. {n \in Live : HasDlqSuffix(messages[n].topic)}'
        = {n \in Live : HasDlqSuffix(messages[n].topic)} \ {m}
  BY DEF Live, Parked
<1>2. {n \in Ids : log[n] # Null}' = {n \in Ids : log[n] # Null}
  BY DEF Kept
<1>3. m \in {n \in Live : HasDlqSuffix(messages[n].topic)}
  BY DEF Live, Parked
<1>4. Lifecycle!SendBack(m)
  BY <1>1, <1>2, <1>3 DEF Lifecycle!SendBack, Lifecycle!Moved
<1> QED
  BY <1>4 DEF Lifecycle!Next

\* Messages that are removed and log rows that are dropped.
LEMMA Removed ==
    ASSUME NEW S \in SUBSET Ids, NEW F \in SUBSET Ids,
           \A m \in S : PhaseOf(m) # "unborn",
           \A n \in Ids : PhaseOf(n)' = IF n \in S THEN "gone" ELSE PhaseOf(n),
           \A n \in Ids : Parked(n)' <=> n \notin S /\ Parked(n),
           \A n \in Ids : Kept(n)' <=> n \notin F /\ Kept(n)
    PROVE  Lifecycle!Next
<1>1. {n \in Live : HasDlqSuffix(messages[n].topic)}'
        = {n \in Live : HasDlqSuffix(messages[n].topic)} \ S
  BY DEF Live, Parked
<1>2. {n \in Ids : log[n] # Null}' = {n \in Ids : log[n] # Null} \ F
  BY DEF Kept
<1>3. Lifecycle!Remove(S, F)
  BY <1>1, <1>2 DEF Lifecycle!Remove, Lifecycle!Moved
<1> QED
  BY <1>3 DEF Lifecycle!Next

-----------------------------------------------------------------------------
(* What a row shows *)

\* The phase of a row follows from its status.
LEMMA PhaseOfRow ==
    ASSUME NEW m \in Ids
    PROVE  /\ messages[m] # Null => /\ messages[m].status = "pending" => PhaseOf(m) = "waiting"
                                    /\ messages[m].status = "processing" => PhaseOf(m) = "claimed"
                                    /\ messages[m].status = "failed" => PhaseOf(m) = "failed"
                                    /\ messages[m].status = "expired" => PhaseOf(m) = "expired"
           /\ messages[m] = Null => PhaseOf(m) = IF m < nextId THEN "gone" ELSE "unborn"
BY DEF PhaseOf

\* The same after a step.
LEMMA PhaseOfNewRow ==
    ASSUME NEW m \in Ids
    PROVE  /\ messages'[m] # Null => /\ messages'[m].status = "pending" => PhaseOf(m)' = "waiting"
                                     /\ messages'[m].status = "processing" => PhaseOf(m)' = "claimed"
                                     /\ messages'[m].status = "failed" => PhaseOf(m)' = "failed"
                                     /\ messages'[m].status = "expired" => PhaseOf(m)' = "expired"
           /\ messages'[m] = Null => PhaseOf(m)' = IF m < nextId' THEN "gone" ELSE "unborn"
BY DEF PhaseOf

\* A row that stays as it is shows what it did, unless its id is handed out.
LEMMA SameRow ==
    ASSUME NEW m \in Ids, messages'[m] = messages[m],
           messages[m] # Null \/ (m < nextId' <=> m < nextId)
    PROVE  PhaseOf(m)' = PhaseOf(m) /\ (Parked(m)' <=> Parked(m))
BY DEF PhaseOf, Parked

\* So does a row that keeps its status and its topic.
LEMMA SameStatus ==
    ASSUME NEW m \in Ids, messages[m] # Null, messages'[m] # Null,
           messages'[m].status = messages[m].status, messages'[m].topic = messages[m].topic
    PROVE  PhaseOf(m)' = PhaseOf(m) /\ (Parked(m)' <=> Parked(m))
BY DEF PhaseOf, Parked

-----------------------------------------------------------------------------
(* The operations as moves *)

\* An inserted message starts to wait, outside the DLQ (Enqueue).
LEMMA InsertMoves ==
    ASSUME TypeOK, DlqInv, NEW p \in Producers, EnqueueInsert(p)
    PROVE  Lifecycle!Next
<1>1. PICK n \in Ids : n = nextId
  BY TuningAssumption DEF EnqueueInsert, TypeOK, Ids
<1>2. /\ nextId' = n + 1 /\ messages[n] = Null /\ n \in Nat
      /\ messages' = [messages EXCEPT ![n] = Inserted(request[p])]
      /\ log' = log
  BY <1>1, TuningAssumption DEF EnqueueInsert, TypeOK, Ids
<1>3. request[p] \in Request /\ ~HasDlqSuffix(request[p].topic)
  BY DEF EnqueueInsert, TypeOK, DlqInv
<1>4. /\ Inserted(request[p]) \in Row
      /\ Inserted(request[p]).status = "pending"
      /\ Inserted(request[p]).topic = request[p].topic
  BY <1>3 DEF Inserted, Request, Row, Status, Clock
<1>5. \A m \in Ids : m # n => PhaseOf(m)' = PhaseOf(m) /\ (Parked(m)' <=> Parked(m))
  <2> SUFFICES ASSUME NEW m \in Ids, m # n
               PROVE  PhaseOf(m)' = PhaseOf(m) /\ (Parked(m)' <=> Parked(m))
    OBVIOUS
  <2>1. messages'[m] = messages[m] /\ (m < nextId' <=> m < nextId)
    BY <1>1, <1>2 DEF TypeOK, Ids
  <2> QED
    BY <2>1, SameRow
<1>6. PhaseOf(n) = "unborn" /\ ~Parked(n)
  BY <1>1, <1>2, PhaseOfRow DEF Parked
<1>7. PhaseOf(n)' = "waiting" /\ ~Parked(n)'
  <2>1. messages'[n] # Null /\ messages'[n] = Inserted(request[p])
    BY <1>2, <1>4, NullAssumption DEF TypeOK
  <2> QED
    BY <1>3, <1>4, <2>1, PhaseOfNewRow DEF Parked
<1>8. \A m \in Ids : Kept(m)' <=> Kept(m)
  BY <1>2 DEF Kept
<1>9. {n} \in SUBSET Ids
  OBVIOUS
<1> QED
  BY <1>5, <1>6, <1>7, <1>8, <1>9, MovedTogether

\* Replayed copies start to wait, outside the DLQ (ReplayTopic).
LEMMA ReplayMoves ==
    ASSUME TypeOK, DlqInv, NEW t \in Topic, NEW from \in Nat, ReplayTopic(t, from)
    PROVE  Lifecycle!Next
<1>1. PICK cfg \in GetTopicConfig(t), k \in 0..(MaxId - nextId + 1) :
        \E src \in [nextId..(nextId + k - 1) -> Replayed(t, cfg, from)] :
            ReplayEffect(src, cfg, k)
  BY ReplayShape
<1>2. PICK src \in [nextId..(nextId + k - 1) -> Replayed(t, cfg, from)] :
        ReplayEffect(src, cfg, k)
  BY <1>1
<1>3. PICK S \in SUBSET Ids : S = nextId..(nextId + k - 1)
  BY TuningAssumption DEF TypeOK, Ids
<1>4. /\ messages' = [m \in Ids |-> IF m \in S THEN Copied(log[src[m]], resolveExpiresAt(cfg))
                                           ELSE messages[m]]
      /\ nextId' = nextId + k
      /\ log' = log
  BY <1>2, <1>3 DEF ReplayEffect
<1>5. ASSUME NEW m \in S
      PROVE  PhaseOf(m) = "unborn" /\ ~Parked(m) /\ PhaseOf(m)' = "waiting" /\ ~Parked(m)'
  <2>1. messages[m] = Null /\ ~(m < nextId)
    BY <1>3 DEF TypeOK, Ids
  <2>2. src[m] \in Ids /\ log[src[m]] # Null /\ ~HasDlqSuffix(log[src[m]].topic)
    BY <1>2, <1>3 DEF Replayed, DlqInv
  <2>3. messages'[m] = Copied(log[src[m]], resolveExpiresAt(cfg))
    BY <1>4
  <2>4. messages'[m].status = "pending" /\ messages'[m].topic = log[src[m]].topic
    BY <2>3 DEF Copied
  <2>5. messages'[m] # Null
    <3>1. log[src[m]] \in LogEntry /\ resolveExpiresAt(cfg) \in Clock
      BY <2>2, ConfigReadType, ResolvedTypes DEF TypeOK
    <3>2. /\ log[src[m]].topic \in Topic
          /\ log[src[m]].key \in Keys \cup {Null}
          /\ log[src[m]].payload \in Payloads
          /\ log[src[m]].maxRetries \in Nat
          /\ log[src[m]].original \in Topic \cup {Null}
      BY <3>1 DEF LogEntry
    <3>3. messages'[m] \in Row
      BY <2>3, <3>1, <3>2 DEF Copied, Row, Status, Clock
    <3> QED
      BY <3>3, NullAssumption
  <2> QED
    BY <2>1, <2>2, <2>4, <2>5, PhaseOfRow, PhaseOfNewRow DEF Parked
<1>6. ASSUME NEW m \in Ids, m \notin S
      PROVE  PhaseOf(m)' = PhaseOf(m) /\ (Parked(m)' <=> Parked(m))
  <2>1. messages'[m] = messages[m] /\ (m < nextId' <=> m < nextId)
    BY <1>3, <1>4, <1>6 DEF TypeOK, Ids
  <2> QED
    BY <2>1, SameRow
<1>7. \A m \in Ids : Kept(m)' <=> Kept(m)
  BY <1>4 DEF Kept
<1> QED
  BY <1>5, <1>6, <1>7, MovedTogether

\* Only what waits is delivered, and a delivery moves no message into or out of
\* the DLQ (Dequeue, DequeueN).
LEMMA DequeueMoves ==
    ASSUME TypeOK, NEW c \in Consumers, NEW t,
           Dequeue(c, t) \/ (\E n \in Ids : DequeueN(c, t, n))
    PROVE  Lifecycle!Next
<1>1. PICK S \in SUBSET Claimable(t) : Claim(c, S)
  <2>1. CASE Dequeue(c, t)
    <3>1. PICK n \in Claimable(t) : Claim(c, {n})
      BY <2>1 DEF Dequeue
    <3> QED
      BY <3>1
  <2>2. CASE \E n \in Ids : DequeueN(c, t, n)
    <3>1. PICK n \in Ids : DequeueN(c, t, n)
      BY <2>2
    <3> QED
      BY <3>1 DEF DequeueN
  <2> QED
    BY <2>1, <2>2
<1>2. S \in SUBSET Ids /\ \A m \in S : messages[m] # Null /\ messages[m].status = "pending"
  BY <1>1 DEF Claimable, Live
<1>3. ASSUME NEW m \in S
      PROVE  PhaseOf(m) = "waiting" /\ PhaseOf(m)' = "claimed" /\ (Parked(m)' <=> Parked(m))
  <2>1. messages[m] \in Row
    BY <1>2 DEF TypeOK
  <2>2. messages'[m] = [messages[m] EXCEPT !.status = "processing", !.vis = "running"]
    BY <1>1, <1>2 DEF Claim
  <2>3. /\ messages'[m] \in Row
        /\ messages'[m].status = "processing"
        /\ messages'[m].topic = messages[m].topic
    BY <2>1, <2>2 DEF Row, Status, Clock
  <2> QED
    BY <1>2, <2>3, PhaseOfRow, PhaseOfNewRow, NullAssumption DEF Parked
<1>4. ASSUME NEW m \in Ids, m \notin S
      PROVE  PhaseOf(m)' = PhaseOf(m) /\ (Parked(m)' <=> Parked(m))
  <2>1. messages'[m] = messages[m] /\ nextId' = nextId
    BY <1>1, <1>4 DEF Claim
  <2> QED
    BY <2>1, SameRow
<1>5. \A m \in Ids : Kept(m)' <=> Kept(m)
  BY <1>1 DEF Claim, Kept
<1> QED
  BY <1>2, <1>3, <1>4, <1>5, MovedTogether

\* An acknowledged message is gone, and kept for replay only if its topic asks
\* for it, which no DLQ topic does (Ack, archiveToLog).
LEMMA AckMoves ==
    ASSUME TypeOK, NEW c \in Consumers, NEW m \in Ids, Ack(c, m)
    PROVE  Lifecycle!Next
<1>1. /\ messages[m] # Null /\ messages[m].status = "processing"
      /\ messages' = [messages EXCEPT ![m] = Null] /\ nextId' = nextId
      /\ archiveToLog(m)
  BY DEF Ack, InStatus
<1>2. m < nextId
  BY <1>1 DEF TypeOK, Ids
<1>3. PhaseOf(m) = "claimed" /\ PhaseOf(m)' = "gone" /\ ~Parked(m)'
  <2>1. messages'[m] = Null
    BY <1>1 DEF TypeOK
  <2> QED
    BY <1>1, <1>2, <2>1, PhaseOfRow, PhaseOfNewRow DEF Parked
<1>4. ASSUME NEW n \in Ids, n # m
      PROVE  PhaseOf(n)' = PhaseOf(n) /\ (Parked(n)' <=> Parked(n))
  <2>1. messages'[n] = messages[n]
    BY <1>1, <1>4 DEF TypeOK
  <2> QED
    BY <1>1, <2>1, SameRow
<1>5. \/ \A n \in Ids : Kept(n)' <=> Kept(n)
      \/ ~Parked(m) /\ \A n \in Ids : Kept(n)' <=> n = m \/ Kept(n)
  <2>1. CASE Replayable(messages[m].topic)
    <3>1. ~Parked(m)
      BY <2>1 DEF Replayable, Parked
    <3>2. log' = [log EXCEPT ![m] = Archived(messages[m], acks + 1)]
      BY <1>1, <2>1 DEF archiveToLog
    <3>3. log'[m] # Null
      <4>1. messages[m] \in Row /\ acks + 1 \in Nat
        BY <1>1 DEF TypeOK
      <4>2. /\ messages[m].topic \in Topic
            /\ messages[m].key \in Keys \cup {Null}
            /\ messages[m].payload \in Payloads
            /\ messages[m].maxRetries \in Nat
            /\ messages[m].original \in Topic \cup {Null}
        BY <4>1 DEF Row
      <4>3. Archived(messages[m], acks + 1) \in LogEntry
        BY <4>1, <4>2 DEF Archived, LogEntry
      <4> QED
        BY <3>2, <4>3, NullAssumption DEF TypeOK
    <3> QED
      BY <3>1, <3>2, <3>3 DEF Kept, TypeOK
  <2>2. CASE ~Replayable(messages[m].topic)
    BY <1>1, <2>2 DEF archiveToLog, Kept
  <2> QED
    BY <2>1, <2>2
<1> QED
  BY <1>3, <1>4, <1>5, Acknowledged

\* A rejected message waits again, is parked, or has failed; from the DLQ it can
\* only fail (Nack).
LEMMA NackMoves ==
    ASSUME DlqThreshold # 1, TypeOK, DlqInv, NEW c \in Consumers, NEW m \in Ids, Nack(c, m)
    PROVE  Lifecycle!Next \/ UNCHANGED Lifecycle!lifeVars
<1> DEFINE r == messages[m]
<1>1. /\ r # Null /\ r \in Row /\ DlqRow(r) /\ r.status = "processing"
      /\ nextId' = nextId /\ log' = log
  BY DEF Nack, InStatus, TypeOK, DlqInv
<1>2. PICK cfg \in GetTopicConfig(r.topic) \cup {Null} :
        \/ messages' = messages
        \/ messages' = [messages EXCEPT ![m] = Nacked(r, effectiveDLQThreshold(cfg))]
  BY DEF Nack
<1>3. \A n \in Ids : Kept(n)' <=> Kept(n)
  BY <1>1 DEF Kept
<1>4. CASE messages' = messages
  BY <1>1, <1>3, <1>4, SameRow, Unmoved
<1>5. CASE messages' = [messages EXCEPT ![m] = Nacked(r, effectiveDLQThreshold(cfg))]
  <2> DEFINE s == Nacked(r, effectiveDLQThreshold(cfg))
  <2>1. ASSUME NEW n \in Ids, n # m
        PROVE  PhaseOf(n)' = PhaseOf(n) /\ (Parked(n)' <=> Parked(n))
    <3>1. messages'[n] = messages[n]
      BY <1>5, <2>1 DEF TypeOK
    <3> QED
      BY <1>1, <3>1, SameRow
  <2>2. cfg \in TopicConfig \cup {Null}
    BY <1>1, ConfigReadType DEF Row
  <2>3. s \in Row
    BY <1>1, <2>2, ResolvedTypes, NackedType
  <2>4. messages'[m] = s /\ messages'[m] # Null
    BY <1>5, <2>3, NullAssumption DEF TypeOK
  <2>5. PhaseOf(m) = "claimed"
    BY <1>1, PhaseOfRow
  <2>6. HasDlqSuffix(r.topic) => s.status = "failed"
    BY <1>1, NackKeepsDlqRow
  <2>7. \/ s.status = "pending"
        \/ s.status = "failed" /\ s.topic = r.topic
    <3>1. Promoted(r).status = "pending"
      BY <1>1 DEF Promoted, Row
    <3>2. Retried(r).status \in {"failed", "pending"} /\ Retried(r).topic = r.topic
      BY <1>1 DEF Retried, Row
    <3> QED
      BY <3>1, <3>2 DEF Nacked
  <2> HIDE DEF s
  <2>8. CASE s.status = "pending"
    <3>1. PhaseOf(m)' = "waiting" /\ ~Parked(m)
      BY <2>4, <2>6, <2>8, PhaseOfNewRow DEF Parked
    <3> QED
      BY <1>3, <2>1, <2>5, <3>1, Rejected
  <2>9. CASE s.status = "failed" /\ s.topic = r.topic
    <3>1. PhaseOf(m)' = "failed" /\ (Parked(m)' <=> Parked(m))
      BY <1>1, <2>4, <2>9, PhaseOfNewRow DEF Parked
    <3> QED
      BY <1>3, <2>1, <2>5, <3>1, Rejected
  <2> QED
    BY <2>7, <2>8, <2>9
<1> QED
  BY <1>2, <1>4, <1>5

\* Requeue takes a message out of the DLQ, whatever its status.
LEMMA RequeueMoves ==
    ASSUME TypeOK, DlqInv, NEW m \in Ids, Requeue(m)
    PROVE  Lifecycle!Next
<1> DEFINE r == messages[m]
<1>1. /\ r # Null /\ r \in Row /\ DlqRow(r) /\ r.original # Null
      /\ nextId' = nextId /\ log' = log
  BY DEF Requeue, TypeOK, DlqInv
<1>2. PICK cfg \in GetTopicConfig(r.original) \cup {Null} :
        messages' = [messages EXCEPT ![m] = Requeued(r, effectiveDLQThreshold(cfg))]
  BY DEF Requeue
<1>3. HasDlqSuffix(r.topic) /\ ~HasDlqSuffix(r.original)
  BY <1>1 DEF DlqRow, OrdinaryTopic, HasDlqSuffix
<1>4. messages'[m] # Null /\ messages'[m].status = "pending" /\ messages'[m].topic = r.original
  <2>1. cfg \in TopicConfig \cup {Null}
    BY <1>1, ConfigReadType DEF Row
  <2>2. Requeued(r, effectiveDLQThreshold(cfg)) \in Row
    BY <1>1, <2>1, ResolvedTypes, RequeuedType
  <2>3. messages'[m] = Requeued(r, effectiveDLQThreshold(cfg))
    BY <1>2 DEF TypeOK
  <2> QED
    BY <1>1, <2>2, <2>3, NullAssumption DEF Requeued, Row
<1>5. Parked(m) /\ PhaseOf(m)' = "waiting" /\ ~Parked(m)'
  BY <1>1, <1>3, <1>4, PhaseOfNewRow DEF Parked
<1>6. ASSUME NEW n \in Ids, n # m
      PROVE  PhaseOf(n)' = PhaseOf(n) /\ (Parked(n)' <=> Parked(n))
  <2>1. messages'[n] = messages[n]
    BY <1>2, <1>6 DEF TypeOK
  <2> QED
    BY <1>1, <2>1, SameRow
<1>7. \A n \in Ids : Kept(n)' <=> Kept(n)
  BY <1>1 DEF Kept
<1> QED
  BY <1>5, <1>6, <1>7, SentBack

\* The expiry reaper ends waiting and delivered messages, in the DLQ or not.
LEMMA ExpiryMoves ==
    ASSUME TypeOK, RunExpiryReaper
    PROVE  Lifecycle!Next
<1>0. PICK S \in SUBSET Ids : S = {m \in Ids : InStatus(m, Active) /\ messages[m].ttl = "elapsed"}
  OBVIOUS
<1>1. nextId' = nextId /\ log' = log
  BY DEF RunExpiryReaper
<1>2. ASSUME NEW m \in S
      PROVE  /\ PhaseOf(m) \in {"waiting", "claimed"}
             /\ PhaseOf(m)' = "expired"
             /\ Parked(m)' <=> Parked(m)
  <2>1. messages[m] # Null /\ messages[m] \in Row /\ messages[m].status \in {"pending", "processing"}
    BY <1>0 DEF InStatus, Active, TypeOK
  <2>2. messages'[m] = [messages[m] EXCEPT !.status = "expired"]
    BY <1>0 DEF RunExpiryReaper
  <2>3. /\ messages'[m] \in Row
        /\ messages'[m].status = "expired"
        /\ messages'[m].topic = messages[m].topic
    BY <2>1, <2>2 DEF Row, Status
  <2> QED
    BY <2>1, <2>3, PhaseOfRow, PhaseOfNewRow, NullAssumption DEF Parked
<1>3. ASSUME NEW m \in Ids, m \notin S
      PROVE  PhaseOf(m)' = PhaseOf(m) /\ (Parked(m)' <=> Parked(m))
  <2>1. messages'[m] = messages[m]
    BY <1>0, <1>3 DEF RunExpiryReaper
  <2> QED
    BY <1>1, <2>1, SameRow
<1>4. \A m \in Ids : Kept(m)' <=> Kept(m)
  BY <1>1 DEF Kept
<1> QED
  BY <1>2, <1>3, <1>4, MovedTogether

\* Deleted rows are gone, and log rows are only dropped (RunDeleteReaper,
\* RunArchiveReaper, PurgeTopic, PurgeByKey, TrimMessageLog).
LEMMA DeleteMoves ==
    ASSUME TypeOK, NEW S \in SUBSET Live, Delete(S), nextId' = nextId,
           \A n \in Ids : log'[n] \in {log[n], Null}
    PROVE  Lifecycle!Next
<1>0. PICK F \in SUBSET Ids : F = {n \in Ids : log'[n] = Null}
  OBVIOUS
<1>1. S \in SUBSET Ids /\ \A m \in S : messages[m] # Null
  BY DEF Live
<1>2. ASSUME NEW m \in S
      PROVE  PhaseOf(m) # "unborn" /\ PhaseOf(m)' = "gone" /\ ~Parked(m)'
  <2>1. messages[m] \in Row /\ m \in Ids /\ m < nextId
    BY <1>1 DEF TypeOK, Ids
  <2>2. messages'[m] = Null
    BY <1>1 DEF Delete
  <2>3. messages[m].status \in {"pending", "processing", "failed", "expired"}
    BY <2>1 DEF Row, Status
  <2> QED
    BY <1>1, <2>1, <2>2, <2>3, PhaseOfRow, PhaseOfNewRow DEF Parked
<1>3. ASSUME NEW m \in Ids, m \notin S
      PROVE  PhaseOf(m)' = PhaseOf(m) /\ (Parked(m)' <=> Parked(m))
  <2>1. messages'[m] = messages[m]
    BY <1>3 DEF Delete
  <2> QED
    BY <2>1, SameRow
<1>4. \A n \in Ids : Kept(n)' <=> n \notin F /\ Kept(n)
  BY <1>0 DEF Kept
<1> QED
  BY <1>1, <1>2, <1>3, <1>4, Removed

\* What changes neither the status nor the topic of a row, nor whether the log
\* has one, is no move: upserts, timers, refused settlements, crashes and the
\* topic configuration.
LEMMA QuietMoves ==
    ASSUME TypeOK,
           \/ \E p \in Producers : \/ \E t \in Topics, k \in Keys \cup {Null}, v \in Payloads :
                                         EnqueueCheck(p, t, k, v)
                                   \/ EnqueueUpsert(p)
           \/ \E m \in Ids : TTLElapses(m) \/ VisibilityElapses(m) \/ ReplayWindowElapses(m)
           \/ \E c \in Consumers : ConsumerCrash(c) \/ \E m \in Ids : SettleRejected(c, m)
           \/ \E t \in Topics : \/ \E cfg \in AdminConfigs : UpsertTopicConfig(t, cfg)
                                \/ DeleteTopicConfig(t)
           \/ UNCHANGED vars
    PROVE  UNCHANGED Lifecycle!lifeVars
<1>1. nextId' = nextId
  BY DEF EnqueueCheck, EnqueueUpsert, TTLElapses, VisibilityElapses, ReplayWindowElapses,
     ConsumerCrash, SettleRejected, UpsertTopicConfig, DeleteTopicConfig, WriteConfig, vars
<1>2. ASSUME NEW n \in Ids
      PROVE  Kept(n)' <=> Kept(n)
  <2>1. CASE \E m \in Ids : ReplayWindowElapses(m)
    <3>1. \/ log'[n] = log[n]
          \/ log[n] # Null /\ log'[n] = [log[n] EXCEPT !.aged = TRUE]
      BY <2>1 DEF ReplayWindowElapses
    <3>2. log[n] # Null => [log[n] EXCEPT !.aged = TRUE] # Null
      BY NullAssumption DEF TypeOK, LogEntry
    <3> QED
      BY <3>1, <3>2 DEF Kept
  <2>2. CASE log' = log
    BY <2>2 DEF Kept
  <2> QED
    BY <2>1, <2>2 DEF EnqueueCheck, EnqueueUpsert, TTLElapses, VisibilityElapses,
       ConsumerCrash, SettleRejected, UpsertTopicConfig, DeleteTopicConfig, WriteConfig, vars
<1>3. ASSUME NEW n \in Ids
      PROVE  PhaseOf(n)' = PhaseOf(n) /\ (Parked(n)' <=> Parked(n))
  <2>1. CASE \E p \in Producers : EnqueueUpsert(p)
    <3>1. PICK p \in Producers : EnqueueUpsert(p)
      BY <2>1
    <3>2. messages'[n] = messages[n] \/ (messages[n] # Null /\ messages'[n] = Upserted(messages[n], request[p]))
      BY <3>1 DEF EnqueueUpsert, PendingWithKey, Live, TypeOK
    <3>3. request[p] \in Request
      BY <3>1 DEF EnqueueUpsert, TypeOK
    <3>4. ASSUME messages[n] # Null
          PROVE  /\ Upserted(messages[n], request[p]) \in Row
                 /\ Upserted(messages[n], request[p]).status = messages[n].status
                 /\ Upserted(messages[n], request[p]).topic = messages[n].topic
      <4>1. messages[n] \in Row
        BY <3>4 DEF TypeOK
      <4> QED
        BY <3>3, <4>1 DEF Upserted, Row, Request
    <3> QED
      BY <1>1, <3>2, <3>4, SameRow, SameStatus, NullAssumption
  <2>2. CASE \E m \in Ids : TTLElapses(m) \/ VisibilityElapses(m)
    <3>1. \/ messages'[n] = messages[n]
          \/ messages[n] # Null /\ \/ messages'[n] = [messages[n] EXCEPT !.ttl = "elapsed"]
                                   \/ messages'[n] = [messages[n] EXCEPT !.vis = "elapsed"]
      BY <2>2 DEF TTLElapses, VisibilityElapses, TypeOK
    <3>2. ASSUME messages[n] # Null, messages'[n] # messages[n]
          PROVE  /\ messages'[n] \in Row
                 /\ messages'[n].status = messages[n].status
                 /\ messages'[n].topic = messages[n].topic
      <4>1. messages[n] \in Row
        BY <3>2 DEF TypeOK
      <4> QED
        BY <3>1, <3>2, <4>1 DEF Row, Clock
    <3> QED
      BY <1>1, <3>1, <3>2, SameRow, SameStatus, NullAssumption
  <2>3. CASE messages' = messages
    BY <1>1, <2>3, SameRow
  <2> QED
    BY <2>1, <2>2, <2>3 DEF EnqueueCheck, ReplayWindowElapses, ConsumerCrash, SettleRejected,
       UpsertTopicConfig, DeleteTopicConfig, WriteConfig, vars
<1> QED
  BY <1>2, <1>3, Unmoved

\* Reapers, purges and the log trim remove.
LEMMA RemovalMoves ==
    ASSUME TypeOK,
           \/ RunDeleteReaper
           \/ RunArchiveReaper
           \/ \E t \in Topic, S \in SUBSET Purgeable : PurgeTopic(t, S)
           \/ \E t \in Topic, k \in Keys : PurgeByKey(t, k)
           \/ \E t \in Topic, before \in Nat : TrimMessageLog(t, before)
    PROVE  Lifecycle!Next
<1>1. nextId' = nextId
  BY DEF RunDeleteReaper, RunArchiveReaper, PurgeTopic, PurgeByKey, TrimMessageLog
<1>2. \A n \in Ids : log'[n] \in {log[n], Null}
  BY DEF RunDeleteReaper, RunArchiveReaper, ReapArchive, PurgeTopic, PurgeByKey, TrimMessageLog
<1>3. \E S \in SUBSET Live : Delete(S)
  <2>1. CASE RunDeleteReaper
    <3>1. {m \in Ids : InStatus(m, {"expired"})} \in SUBSET Live
      BY DEF InStatus, Live
    <3> QED
      BY <2>1, <3>1 DEF RunDeleteReaper
  <2>2. CASE \E t \in Topic, S \in SUBSET Purgeable : PurgeTopic(t, S)
    BY <2>2 DEF PurgeTopic
  <2>3. CASE \E t \in Topic, k \in Keys : PurgeByKey(t, k)
    BY <2>3 DEF PurgeByKey
  <2>4. CASE messages' = messages
    <3>1. {} \in SUBSET Live /\ messages' = [m \in Ids |-> IF m \in {} THEN Null ELSE messages[m]]
      BY <2>4 DEF TypeOK
    <3>2. Delete({})
      BY <3>1 DEF Delete
    <3> QED
      BY <3>1, <3>2
  <2> QED
    BY <2>1, <2>2, <2>3, <2>4 DEF RunArchiveReaper, TrimMessageLog
<1>4. PICK S \in SUBSET Live : Delete(S)
  BY <1>3
<1> QED
  BY <1>1, <1>2, <1>4, DeleteMoves

\* Every step of the message table is a move of the lifecycle or none.
LEMMA StepMoves ==
    ASSUME DlqThreshold # 1, TypeOK, DlqInv, [Next]_vars
    PROVE  [Lifecycle!Next]_(Lifecycle!lifeVars)
<1>1. KnownTopic \subseteq Topic /\ 0..(MaxId + 1) \subseteq Nat
  BY TuningAssumption DEF KnownTopic, Topic
<1>2. CASE \E p \in Producers : EnqueueInsert(p)
  BY <1>2, InsertMoves
<1>3. CASE \E t \in KnownTopic, at \in 0..(MaxId + 1) : ReplayTopic(t, at)
  BY <1>1, <1>3, ReplayMoves
<1>4. CASE \E c \in Consumers :
             \/ \E t \in KnownTopic : Dequeue(c, t)
             \/ \E t \in KnownTopic, n \in Ids : DequeueN(c, t, n)
  BY <1>4, DequeueMoves
<1>5. CASE \E c \in Consumers, m \in Ids : Ack(c, m)
  BY <1>5, AckMoves
<1>6. CASE \E c \in Consumers, m \in Ids : Nack(c, m)
  BY <1>6, NackMoves
<1>7. CASE \E m \in Ids : Requeue(m)
  BY <1>7, RequeueMoves
<1>8. CASE RunExpiryReaper
  BY <1>8, ExpiryMoves
<1>9. CASE \/ RunDeleteReaper
           \/ RunArchiveReaper
           \/ \E t \in KnownTopic : \/ \E S \in SUBSET Purgeable : PurgeTopic(t, S)
                                    \/ \E k \in Keys : PurgeByKey(t, k)
                                    \/ \E at \in 0..(MaxId + 1) : TrimMessageLog(t, at)
  BY <1>1, <1>9, RemovalMoves
<1>10. CASE \/ \E p \in Producers : \/ \E t \in Topics, k \in Keys \cup {Null}, v \in Payloads :
                                          EnqueueCheck(p, t, k, v)
                                    \/ EnqueueUpsert(p)
            \/ \E m \in Ids : TTLElapses(m) \/ VisibilityElapses(m) \/ ReplayWindowElapses(m)
            \/ \E c \in Consumers : ConsumerCrash(c) \/ \E m \in Ids : SettleRejected(c, m)
            \/ \E t \in Topics : \/ \E cfg \in AdminConfigs : UpsertTopicConfig(t, cfg)
                                 \/ DeleteTopicConfig(t)
            \/ UNCHANGED vars
  BY <1>10, QuietMoves
<1> QED
  BY <1>2, <1>3, <1>4, <1>5, <1>6, <1>7, <1>8, <1>9, <1>10 DEF Next

\* Unless one failure is enough for promotion, the message table keeps every
\* promise of MessageLifecycle: late, duplicate and racing Acks, Nacks, Requeues,
\* reaper runs, purges and replays never deliver a message that does not wait,
\* retry one from the dead-letter topic, log one that was not delivered, or bring
\* back one that is gone.
THEOREM FollowsLifecycleHolds ==
    ASSUME DlqThreshold # 1
    PROVE  Spec => FollowsLifecycle
<1>1. Init => Lifecycle!Init
  <2> SUFFICES ASSUME Init PROVE Lifecycle!Init
    OBVIOUS
  <2>1. \A m \in Ids : messages[m] = Null /\ log[m] = Null /\ ~(m < nextId)
    BY DEF Init, Ids
  <2>2. [m \in Ids |-> PhaseOf(m)] = [m \in Ids |-> "unborn"]
    BY <2>1, PhaseOfRow
  <2>3. /\ {m \in Live : HasDlqSuffix(messages[m].topic)} = {}
        /\ {m \in Ids : log[m] # Null} = {}
    BY <2>1 DEF Live
  <2> QED
    BY <2>2, <2>3 DEF Lifecycle!Init
<1>2. TypeOK /\ DlqInv /\ [Next]_vars => [Lifecycle!Next]_(Lifecycle!lifeVars)
  BY StepMoves
<1> QED
  BY <1>1, <1>2, TypeCorrect, DlqInvInductive, PTL DEF Spec, FollowsLifecycle, Lifecycle!Spec

===============================================================================
