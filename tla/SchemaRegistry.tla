--------------------------- MODULE SchemaRegistry ---------------------------
(***************************************************************************)
(* The Avro schema of one topic and the validation of payloads against it. *)
(*                                                                         *)
(* The row of topic_schemas is read through a Redis entry only; the process*)
(* keeps the compiled form of a schema, together with the version it was   *)
(* compiled from, and uses it for as long as the version it fetches is the *)
(* same.  The instances, Redis and the requests are those of               *)
(* TopicConfigCache; the schema has a broadcast channel of its own.        *)
(***************************************************************************)
EXTENDS TopicConfigCache

CONSTANTS
    InitSchema,     \* the row when the model starts
    Texts,          \* schema_json of PUT /api/topics/:topic/schema
    Payloads,       \* payloads of Enqueue
    MaxAttempts,    \* bound on the registrations and deletions
    Parses(_),      \* avro.Parse succeeds
    Accepts(_, _)   \* validateJSONAgainstAvro(schema, payload) = nil

ASSUME SchemaConstants ==
    /\ MaxAttempts \in Nat
    /\ InitSchema # Null => InitSchema \in [text : Texts, version : {1}] /\ Parses(InitSchema.text)
    /\ \A t \in Texts : Parses(t) \in BOOLEAN
    /\ \A t \in Texts, v \in Payloads : Accepts(t, v) \in BOOLEAN

VARIABLES
    schema,         \* the topic_schemas row
    issued,         \* every (text, version) the row has had (history)
    attempts,       \* number of registrations and deletions begun (history)
    compiled,       \* globalSchemaCache of each instance
    shared,         \* the Redis entry
    sreq,           \* what each request is doing
    sinbox          \* invalidations received, not yet handled

svars == <<schema, issued, attempts, compiled, shared, sreq, sinbox>>

TopicSchema == [text : Texts, version : 1..(MaxAttempts + 1)]
Shared == [ts : TopicSchema \cup {Null}]

ASSUME NotShared == Miss \notin Shared

FetchSteps == {"getRedis", "select", "setRedis", "resolve", "unchecked"}
JudgeSteps == {"storeCompiled", "check", "accepted", "refused"}
RegisterSteps == {"write", "dropRedis", "publish"}

SRequest ==
    {Idle}
    \cup [step : FetchSteps, at : Instances, ts : TopicSchema \cup {Null}]
    \cup [step : JudgeSteps, at : Instances, ts : TopicSchema \cup {Null},
          used : Texts, payload : Payloads \cup {Null}]
    \cup [step : RegisterSteps, text : Texts \cup {Null}]

SAt(p, step) == sreq[p].step = step
SGoto(p, step) == [sreq EXCEPT ![p].step = step]
SFinish(p) == [sreq EXCEPT ![p] = Idle]

SInit ==
    /\ schema = InitSchema
    /\ issued = {InitSchema} \ {Null}
    /\ attempts = 0
    /\ compiled = [i \in Instances |-> Miss]
    /\ shared = Miss
    /\ sreq = [p \in Readers \cup Admins |-> Idle]
    /\ sinbox = [i \in Instances |-> 0]

-----------------------------------------------------------------------------
(* UpsertTopicSchemaAndNotify and DeleteTopicSchemaAndNotify *)

\* globalSchemaCache is dropped first, before the row is written.
StartRegistering(p, i, text) ==
    /\ sreq[p] = Idle
    /\ attempts < MaxAttempts
    /\ attempts' = attempts + 1
    /\ compiled' = [compiled EXCEPT ![i] = Miss]
    /\ sreq' = [sreq EXCEPT ![p] = [step |-> "write", text |-> text]]
    /\ UNCHANGED <<schema, issued, shared, sinbox>>

\* A text avro.Parse refuses is answered with ErrInvalidSchema.
UpsertTopicSchema(p, i, text) ==
    /\ Parses(text)
    /\ StartRegistering(p, i, text)

DeleteTopicSchema(p, i) == StartRegistering(p, i, Null)

\* INSERT ... ON CONFLICT: a new row starts at version 1, an existing one counts up.
NextVersion == IF schema = Null THEN 1 ELSE schema.version + 1

\* The upsert or the DELETE; when it fails the request ends and nothing else
\* is invalidated.
WriteSchema(p) ==
    LET text == sreq[p].text
        ts == [text |-> text, version |-> NextVersion]
    IN  /\ SAt(p, "write")
        /\ \/ /\ text # Null
              /\ schema' = ts
              /\ issued' = issued \cup {ts}
              /\ sreq' = SGoto(p, "dropRedis")
           \/ /\ text = Null
              /\ schema' = Null
              /\ sreq' = SGoto(p, "dropRedis")
              /\ UNCHANGED issued
           \/ /\ sreq' = SFinish(p)
              /\ UNCHANGED <<schema, issued>>
        /\ UNCHANGED <<attempts, compiled, shared, sinbox>>

\* cache.Delete, whose failure is ignored.
DropSharedSchema(p) ==
    /\ SAt(p, "dropRedis")
    /\ shared' \in {Miss, shared}
    /\ sreq' = SGoto(p, "publish")
    /\ UNCHANGED <<schema, issued, attempts, compiled, sinbox>>

\* A failed Publish reaches nobody, and a listener that is reconnecting, or loses
\* its connection before it hands the notification over, is not reached.
PublishSchema(p) ==
    /\ SAt(p, "publish")
    /\ \E reached \in SUBSET Instances :
          sinbox' = [i \in Instances |-> IF i \in reached THEN sinbox[i] + 1 ELSE sinbox[i]]
    /\ sreq' = SFinish(p)
    /\ UNCHANGED <<schema, issued, attempts, compiled, shared>>

-----------------------------------------------------------------------------
(* validatePayload *)

StartValidating(p, i) ==
    /\ sreq[p] = Idle
    /\ sreq' = [sreq EXCEPT ![p] = [step |-> "getRedis", at |-> i, ts |-> Null]]
    /\ UNCHANGED <<schema, issued, attempts, compiled, shared, sinbox>>

\* The request goes on with the schema it fetched: without one, everything is
\* accepted.
With(p, ts) ==
    [sreq EXCEPT ![p].step = IF ts = Null THEN "unchecked" ELSE "resolve", ![p].ts = ts]

\* Seeded fault: an entry that was hit is set again, with a fresh lifetime.
WithAndRefresh(p, ts) == [sreq EXCEPT ![p].step = "setRedis", ![p].ts = ts]

\* getTopicSchemaCached, Redis: an entry ends the lookup.
UseShared(p, ts) == With(p, ts)

\* An error is taken for a miss, and an entry that does not decode is evicted.
GetSharedSchema(p) ==
    /\ SAt(p, "getRedis")
    /\ \/ /\ shared \in Shared
          /\ sreq' = UseShared(p, shared.ts)
          /\ UNCHANGED shared
       \/ /\ sreq' = SGoto(p, "select")
          /\ shared' \in {shared, Miss}
    /\ UNCHANGED <<schema, issued, attempts, compiled, sinbox>>

\* GetTopicSchema; a failed query fails the Enqueue.
SelectSchema(p) ==
    /\ SAt(p, "select")
    /\ \/ sreq' = [sreq EXCEPT ![p].step = "setRedis", ![p].ts = schema]
       \/ sreq' = SFinish(p)
    /\ UNCHANGED <<schema, issued, attempts, compiled, shared, sinbox>>

SetSharedSchema(p) ==
    /\ SAt(p, "setRedis")
    /\ shared' \in {shared, [ts |-> sreq[p].ts]}
    /\ sreq' = With(p, sreq[p].ts)
    /\ UNCHANGED <<schema, issued, attempts, compiled, sinbox>>

\* Seeded fault: whatever is compiled for the topic is used.
SameAnyVersion(entry, ts) == TRUE

\* resolveSchema: entry.version == ts.Version
SameVersion(entry, ts) == entry.version = ts.version

ResolveSchema(p) ==
    LET entry == compiled[sreq[p].at]
        hit == entry # Miss /\ SameVersion(entry, sreq[p].ts)
    IN  /\ SAt(p, "resolve")
        /\ sreq' = [sreq EXCEPT ![p] =
                       [step |-> IF hit THEN "check" ELSE "storeCompiled", at |-> @.at, ts |-> @.ts,
                        used |-> IF hit THEN entry.text ELSE @.ts.text, payload |-> Null]]
        /\ UNCHANGED <<schema, issued, attempts, compiled, shared, sinbox>>

StoreCompiled(p) ==
    /\ SAt(p, "storeCompiled")
    /\ compiled' = [compiled EXCEPT ![sreq[p].at] = sreq[p].ts]
    /\ sreq' = SGoto(p, "check")
    /\ UNCHANGED <<schema, issued, attempts, shared, sinbox>>

\* The verdict on the payload of the request, which plays no part before.
CheckPayload(p) ==
    /\ SAt(p, "check")
    /\ \E payload \in Payloads :
          sreq' = [sreq EXCEPT ![p].payload = payload,
                               ![p].step = IF Accepts(sreq[p].used, payload)
                                           THEN "accepted" ELSE "refused"]
    /\ UNCHANGED <<schema, issued, attempts, compiled, shared, sinbox>>

\* validatePayload returns to Enqueue.
ReturnVerdict(p) ==
    /\ sreq[p].step \in {"unchecked", "accepted", "refused"}
    /\ sreq' = SFinish(p)
    /\ UNCHANGED <<schema, issued, attempts, compiled, shared, sinbox>>

-----------------------------------------------------------------------------
(* The listener of ChannelSchemaChanged, restarts, and Redis *)

HandleSchemaChanged(i) ==
    /\ sinbox[i] > 0
    /\ sinbox' = [sinbox EXCEPT ![i] = @ - 1]
    /\ compiled' = [compiled EXCEPT ![i] = Miss]
    /\ UNCHANGED <<schema, issued, attempts, shared, sreq>>

\* A process that ends takes its validations with it.  A registration it cuts
\* short is one whose remaining calls all fail.
RestartSchema(i) ==
    /\ compiled' = [compiled EXCEPT ![i] = Miss]
    /\ sreq' = [p \in DOMAIN sreq |->
                   IF p \in Readers /\ sreq[p] # Idle /\ sreq[p].at = i THEN Idle ELSE sreq[p]]
    /\ sinbox' = [sinbox EXCEPT ![i] = 0]
    /\ UNCHANGED <<schema, issued, attempts, shared>>

SharedExpires ==
    /\ shared # Miss
    /\ shared' = Miss
    /\ UNCHANGED <<schema, issued, attempts, compiled, sreq, sinbox>>

-----------------------------------------------------------------------------

Validate(p) ==
    \/ GetSharedSchema(p) \/ SelectSchema(p) \/ SetSharedSchema(p)
    \/ ResolveSchema(p) \/ StoreCompiled(p) \/ CheckPayload(p) \/ ReturnVerdict(p)

Register(p) == WriteSchema(p) \/ DropSharedSchema(p) \/ PublishSchema(p)

SNext ==
    \/ \E p \in Readers :
          \/ \E i \in Instances : StartValidating(p, i)
          \/ Validate(p)
    \/ \E p \in Admins :
          \/ \E i \in Instances :
                DeleteTopicSchema(p, i) \/ \E text \in Texts : UpsertTopicSchema(p, i, text)
          \/ Register(p)
    \/ \E i \in Instances :
          HandleSchemaChanged(i) \/ RestartSchema(i)
    \/ SharedExpires

SSpec == SInit /\ [][SNext]_svars

\* Requests run on, and a Redis entry does not outlive its 30 seconds.
SFairness ==
    /\ \A p \in Readers : WF_svars(Validate(p))
    /\ \A p \in Admins : WF_svars(Register(p))
    /\ WF_svars(SharedExpires)

-----------------------------------------------------------------------------
(* Properties *)

\* Row, caches and requests hold registered schemas: texts that parse, under
\* versions the database counted.
SchemaTypeOK ==
    /\ schema \in issued \cup {Null}
    /\ issued \subseteq {ts \in TopicSchema : Parses(ts.text)}
    /\ attempts \in 0..MaxAttempts
    /\ compiled \in [Instances -> issued \cup {Miss}]
    /\ shared \in [ts : issued \cup {Null}] \cup {Miss}
    /\ sreq \in [Readers \cup Admins -> SRequest]
    /\ sinbox \in [Instances -> Nat]

\* A version that deleting and registering again has given to two texts.
Reused(version) ==
    \E a, b \in issued : a.version = version /\ b.version = version /\ a.text # b.text

\* Whatever compiled form the process had cached, a payload is judged by the
\* text of the schema the request fetched, unless its version was reused.
JudgedByFetched ==
    \A p \in Readers :
        SAt(p, "check") => sreq[p].used = sreq[p].ts.text \/ Reused(sreq[p].ts.version)

\* Once nobody changes the schema any more, Redis ends up without an outdated
\* entry for good, whichever invalidations were lost and whoever read meanwhile.
SharedConverges == <>[](shared \in Shared => shared.ts = schema)

=============================================================================
