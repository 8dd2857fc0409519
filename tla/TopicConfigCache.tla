-------------------------- MODULE TopicConfigCache --------------------------
(***************************************************************************)
(* The configuration of one topic as several server instances see it.      *)
(*                                                                         *)
(* The row of table topic_config is read through two caches: a sync.Map in *)
(* each process, whose entries never expire, and a Redis entry shared by   *)
(* the instances.  A change writes the row, drops the entry of its own     *)
(* process, drops the Redis entry and publishes an invalidation that every *)
(* listening instance answers by dropping its own entry.  Each of those is *)
(* a step of its own here, so reads and changes interleave between them,   *)
(* and each external call can fail.                                        *)
(*                                                                         *)
(* A cached entry carries the flag "doubtful", which is not in the code:   *)
(* it records that an invalidation came while the entry's read was under   *)
(* way, or that an invalidation meant for the entry did not arrive.        *)
(***************************************************************************)
EXTENDS Integers, FiniteSets

CONSTANTS
    Instances,      \* server processes
    Readers,        \* requests that read the configuration
    Admins,         \* requests that change it
    ConfigRequests, \* bodies of PUT /api/topics/:topic/config
    Null,           \* no row, "null" in Redis, a nil *TopicConfig, an unset field
    Miss,           \* no entry in a cache
    MaxChanges      \* bound on the changes of the row

ASSUME CacheConstants ==
    /\ MaxChanges \in Nat
    /\ Readers \cap Admins = {}
    /\ Null \notin ConfigRequests
    /\ \A r \in ConfigRequests : r.throughputLimit \in Int \cup {Null}

VARIABLES
    row,        \* the topic_config row
    held,       \* every value the row has had, Null included (history)
    changes,    \* number of changes so far (history)
    l1,         \* topicConfigCache of each instance
    l2,         \* the Redis entry
    req,        \* what each request is doing
    listening,  \* instances whose broadcast listener is connected
    inbox       \* invalidations received by each instance, not yet handled

vars == <<row, held, changes, l1, l2, req, listening, inbox>>

\* handlers_topic_config.go, upsertTopicConfig: without "replayable" the window
\* is dropped.
ToTopicConfig(r) ==
    [r EXCEPT !.replayWindow = IF r.replayable THEN r.replayWindow ELSE Null]

TopicConfig == {ToTopicConfig(r) : r \in ConfigRequests} \cup {Null}
Entry == [cfg : TopicConfig, doubtful : BOOLEAN]

ASSUME MissAssumption == Miss \notin Entry

\* Steps of GetTopicConfig, of UpsertTopicConfig and of DeleteTopicConfig.
ReadSteps == {"getRedis", "select", "keep", "keepAndShare", "setRedis"}
ChangeSteps == {"deleteBucket", "dropLocal", "dropRedis", "publish"}

Idle == [step |-> "idle"]
Request ==
    {Idle} \cup [step : ReadSteps \cup ChangeSteps, at : Instances, got : Entry \cup {Miss}]

At(p, step) == req[p].step = step

Init ==
    /\ row = Null
    /\ held = {Null}
    /\ changes = 0
    /\ l1 = [i \in Instances |-> Miss]
    /\ l2 = Miss
    /\ req = [p \in Readers \cup Admins |-> Idle]
    /\ listening = Instances
    /\ inbox = [i \in Instances |-> 0]

Goto(p, step) == [req EXCEPT ![p].step = step]
Finish(p) == [req EXCEPT ![p] = Idle]

\* The requests as they are once an invalidation has overtaken the reads under
\* way at the instances S: what they fetched is in doubt.
Overtaken(requests, S) ==
    [p \in DOMAIN requests |->
        IF requests[p] # Idle /\ requests[p].at \in S /\ requests[p].got # Miss
        THEN [requests[p] EXCEPT !.got.doubtful = TRUE]
        ELSE requests[p]]

Doubt(e) == IF e = Miss THEN e ELSE [e EXCEPT !.doubtful = TRUE]
DoubtAt(S) == [i \in Instances |-> IF i \in S THEN Doubt(l1[i]) ELSE l1[i]]

-----------------------------------------------------------------------------
(* GetTopicConfig *)

\* The entry of the process is loaded; a hit returns at once and changes nothing.
LoadLocal(p, i) ==
    /\ req[p] = Idle
    /\ l1[i] = Miss
    /\ req' = [req EXCEPT ![p] = [step |-> "getRedis", at |-> i, got |-> Miss]]
    /\ UNCHANGED <<row, held, changes, l1, l2, listening, inbox>>

\* cache.Get: an entry is used, an error is taken for a miss, and an entry that
\* does not decode is evicted.
GetRedis(p) ==
    /\ At(p, "getRedis")
    /\ \/ /\ l2 \in Entry
          /\ req' = [req EXCEPT ![p].step = "keep", ![p].got = l2]
          /\ l2' = l2
       \/ /\ req' = Goto(p, "select")
          /\ l2' \in {l2, Miss}
    /\ UNCHANGED <<row, held, changes, l1, listening, inbox>>

\* The SELECT returns the row or its absence; a failed query ends the read.
SelectRow(p) ==
    /\ At(p, "select")
    /\ \/ req' = [req EXCEPT ![p].step = "keepAndShare",
                             ![p].got = [cfg |-> row, doubtful |-> FALSE]]
       \/ req' = Finish(p)
    /\ UNCHANGED <<row, held, changes, l1, l2, listening, inbox>>

\* topicConfigCache.Store: after Redis the read is over, after the database
\* the entry is shared too.
StoreLocal(p) ==
    /\ At(p, "keep") \/ At(p, "keepAndShare")
    /\ l1' = [l1 EXCEPT ![req[p].at] = req[p].got]
    /\ req' = IF At(p, "keep") THEN Finish(p) ELSE Goto(p, "setRedis")
    /\ UNCHANGED <<row, held, changes, l2, listening, inbox>>

\* cache.Set, whose failure is ignored.
SetRedis(p) ==
    /\ At(p, "setRedis")
    /\ l2' \in {l2, req[p].got}
    /\ req' = Finish(p)
    /\ UNCHANGED <<row, held, changes, l1, listening, inbox>>

-----------------------------------------------------------------------------
(* UpsertTopicConfig and DeleteTopicConfig *)

Change(p, i, cfg, step) ==
    /\ req[p] = Idle
    /\ changes < MaxChanges
    /\ row' = cfg
    /\ held' = held \cup {cfg}
    /\ changes' = changes + 1
    /\ req' = [req EXCEPT ![p] = [step |-> step, at |-> i, got |-> Miss]]
    /\ UNCHANGED <<l1, l2, listening, inbox>>

\* A negative throughput limit is refused before anything is written.
UpsertTopicConfig(p, i, r) ==
    /\ r.throughputLimit \in Nat \cup {Null}
    /\ Change(p, i, ToTopicConfig(r), "dropLocal")

\* Without a row to delete the answer is ErrNotFound and nothing changes.
DeleteTopicConfig(p, i) ==
    /\ row # Null
    /\ Change(p, i, Null, "deleteBucket")

\* DELETE FROM topic_throughput: when it fails the request returns here and the
\* caches keep the deleted configuration.
DeleteBucket(p) ==
    /\ At(p, "deleteBucket")
    /\ \/ /\ req' = Goto(p, "dropLocal")
          /\ UNCHANGED <<l1, l2>>
       \/ /\ req' = Overtaken(Finish(p), Instances)
          /\ l1' = DoubtAt(Instances)
          /\ l2' = Doubt(l2)
    /\ UNCHANGED <<row, held, changes, listening, inbox>>

\* topicConfigCache.Delete
DropLocal(p) ==
    /\ At(p, "dropLocal")
    /\ l1' = [l1 EXCEPT ![req[p].at] = Miss]
    /\ req' = Goto(p, "dropRedis")
    /\ UNCHANGED <<row, held, changes, l2, listening, inbox>>

\* cache.Delete, whose failure is ignored and leaves the entry in doubt.
DropRedis(p) ==
    /\ At(p, "dropRedis")
    /\ l2' \in {Miss, Doubt(l2)}
    /\ req' = Overtaken(Goto(p, "publish"), Instances)
    /\ UNCHANGED <<row, held, changes, l1, listening, inbox>>

\* Seeded fault: the invalidation is sent, and the Redis entry dropped after it.
PublishThenDropRedis(p) ==
    \/ /\ At(p, "dropRedis")
       /\ inbox' = [i \in Instances |-> IF i \in listening THEN inbox[i] + 1 ELSE inbox[i]]
       /\ l1' = DoubtAt(Instances \ listening)
       /\ req' = Overtaken(Goto(p, "publish"), Instances \ listening)
       /\ UNCHANGED <<row, held, changes, l2, listening>>
    \/ /\ At(p, "publish")
       /\ l2' = Miss
       /\ req' = Finish(p)
       /\ UNCHANGED <<row, held, changes, l1, listening, inbox>>

\* broadcaster.Publish reaches the listeners that are connected at that moment;
\* its failure is logged.  Whoever is not reached keeps what it has.
Publish(p) ==
    /\ At(p, "publish")
    /\ \E reached \in {listening, {}} :
          /\ inbox' = [i \in Instances |-> IF i \in reached THEN inbox[i] + 1 ELSE inbox[i]]
          /\ l1' = DoubtAt(Instances \ reached)
          /\ req' = Overtaken(Finish(p), Instances \ reached)
    /\ UNCHANGED <<row, held, changes, l2, listening>>

-----------------------------------------------------------------------------
(* The broadcast listener of an instance *)

\* The handler UseBroadcaster registers for ChannelConfigChanged.
HandleInvalidation(i) ==
    /\ inbox[i] > 0
    /\ inbox' = [inbox EXCEPT ![i] = @ - 1]
    /\ l1' = [l1 EXCEPT ![i] = Miss]
    /\ req' = Overtaken(req, {i})
    /\ UNCHANGED <<row, held, changes, l2, listening>>

\* WaitForNotification fails: what the connection had received and not handed
\* over is lost with it.
LoseConnection(i) ==
    /\ i \in listening
    /\ listening' = listening \ {i}
    /\ \E left \in 0..inbox[i] :
          /\ inbox' = [inbox EXCEPT ![i] = left]
          /\ IF left < inbox[i]
             THEN l1' = DoubtAt({i}) /\ req' = Overtaken(req, {i})
             ELSE UNCHANGED <<l1, req>>
    /\ UNCHANGED <<row, held, changes, l2>>

\* The loop of Subscribe runs LISTEN again after its pause.
Reconnect(i) ==
    /\ i \notin listening
    /\ listening' = listening \cup {i}
    /\ UNCHANGED <<row, held, changes, l1, l2, req, inbox>>

\* The process ends and starts again with empty memory.  A change it had under
\* way stays in the database, with the invalidations not yet sent missing.
Restart(i) ==
    LET here == {p \in DOMAIN req : req[p] # Idle /\ req[p].at = i}
        cut  == \E p \in here : req[p].step \in ChangeSteps
        missed == IF cut THEN Instances ELSE {i}
        left == [p \in DOMAIN req |-> IF p \in here THEN Idle ELSE req[p]]
    IN  /\ l1' = [DoubtAt(missed) EXCEPT ![i] = Miss]
        /\ l2' = IF cut THEN Doubt(l2) ELSE l2
        /\ req' = Overtaken(left, missed)
        /\ inbox' = [inbox EXCEPT ![i] = 0]
        /\ listening' = listening \cup {i}
        /\ UNCHANGED <<row, held, changes>>

-----------------------------------------------------------------------------
(* Redis, external *)

\* The entry's 30 seconds are over, or Redis evicts it.
RedisExpires ==
    /\ l2 # Miss
    /\ l2' = Miss
    /\ UNCHANGED <<row, held, changes, l1, req, listening, inbox>>

-----------------------------------------------------------------------------

Read(p) ==
    \/ \E i \in Instances : LoadLocal(p, i)
    \/ GetRedis(p) \/ SelectRow(p) \/ StoreLocal(p) \/ SetRedis(p)

Finalize(p) == DeleteBucket(p) \/ DropLocal(p) \/ DropRedis(p) \/ Publish(p)

Begin(p) ==
    \E i \in Instances :
        DeleteTopicConfig(p, i) \/ \E r \in ConfigRequests : UpsertTopicConfig(p, i, r)

Next ==
    \/ \E p \in Readers : Read(p)
    \/ \E p \in Admins : Begin(p) \/ Finalize(p)
    \/ \E i \in Instances :
          HandleInvalidation(i) \/ LoseConnection(i) \/ Reconnect(i) \/ Restart(i)
    \/ RedisExpires

Spec == Init /\ [][Next]_vars

\* A request that has begun runs on, and a listener drains its channel.
Fairness ==
    /\ \A p \in Admins : WF_vars(Finalize(p))
    /\ \A i \in Instances : WF_vars(HandleInvalidation(i))

FairSpec == Spec /\ Fairness

-----------------------------------------------------------------------------
(* Properties *)

\* Row, caches and requests hold configurations that passed upsertTopicConfig:
\* a replay window only on replayable topics, no negative throughput limit.
CacheTypeOK ==
    /\ row \in TopicConfig
    /\ held \subseteq TopicConfig
    /\ \A cfg \in held \ {Null} :
          /\ cfg.throughputLimit \in Nat \cup {Null}
          /\ cfg.replayWindow # Null => cfg.replayable
    /\ changes \in 0..MaxChanges
    /\ l1 \in [Instances -> Entry \cup {Miss}]
    /\ l2 \in Entry \cup {Miss}
    /\ req \in [Readers \cup Admins -> Request]
    /\ listening \subseteq Instances
    /\ inbox \in [Instances -> Nat]

\* GetTopicConfig answers only with values the row has had: what MessageQueue
\* assumes of the configuration its requests read.
ReadsWereHeld ==
    /\ row \in held
    /\ \A i \in Instances : l1[i] # Miss => l1[i].cfg \in held
    /\ l2 # Miss => l2.cfg \in held
    /\ \A p \in Readers : req[p] # Idle /\ req[p].got # Miss => req[p].got.cfg \in held

Outdated(e) == e # Miss /\ e.cfg # row /\ ~e.doubtful

\* A change that has written the row and has not sent its invalidation.
Announcing == \E p \in Admins : req[p] # Idle

\* An instance serves an outdated configuration only until the invalidation of
\* the change arrives, unless that invalidation overtook the very read that
\* cached the entry or got lost: the order row, Redis, broadcast leaves no other
\* way to cache a value that nobody will drop.
StaleOnlyAfterRace ==
    \A i \in Instances : Outdated(l1[i]) => Announcing \/ inbox[i] > 0

\* An outdated entry is dropped or current again in the end, at every instance.
\* (Not met, an entry of the process never expires: see README, Variations.)
StaleEntryDropped ==
    \A i \in Instances :
        (l1[i] # Miss /\ l1[i].cfg # row) ~> (l1[i] = Miss \/ l1[i].cfg = row)

=============================================================================
