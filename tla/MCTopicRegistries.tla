------------------------- MODULE MCTopicRegistries -------------------------
(***************************************************************************)
(* A small deployment of the two registries of a topic.  The configuration *)
(* and the schema share neither table, cache entry nor channel, so a       *)
(* behaviour follows one of them and leaves the other alone.               *)
(***************************************************************************)
EXTENDS SchemaRegistry, AvroValidation

VARIABLE followed

Prim(t) == [type |-> t]
Nullable(t) == [type |-> "union", types |-> {Prim("null"), Prim(t)}]
Record(fields) == [type |-> "record", fields |-> fields]
Field(n, t, d) == [name |-> n, type |-> t, hasDefault |-> d]

\* The schemas an administrator registers; "broken" does not parse.
SchemaTexts == {"flat", "nested", "broken"}

SchemaOf(text) ==
    IF text = "flat"
    THEN Record({Field("id", Prim("int"), FALSE), Field("note", Nullable("string"), TRUE)})
    ELSE Record({Field("id", Prim("string"), FALSE),
                 Field("owner", Record({Field("age", Nullable("long"), FALSE)}), TRUE)})

FirstSchema == [text |-> "flat", version |-> 1]

SchemaParses(text) == text # "broken"

Scalar(k) == [kind |-> k]
Object(members) == [kind |-> "object", members |-> members]

\* The payload a producer sends, by a short name.
JSONOf(payload) ==
    CASE payload = "notJSON" -> Scalar("bytes")
      [] payload = "noNote" -> Object([id |-> Scalar("integer")])
      [] payload = "nullNote" -> Object([id |-> Scalar("integer"), note |-> Scalar("null")])
      [] payload = "oddNote" -> Object([id |-> Scalar("integer"), note |-> Scalar("boolean")])
      [] payload = "owned" -> Object([id |-> Scalar("string"),
                                      owner |-> Object([age |-> Scalar("integer")])])

SomePayloads == {"nullNote", "oddNote", "owned"}

SchemaAccepts(text, payload) == validateJSONAgainstAvro(SchemaOf(text), JSONOf(payload))

\* Requests of administrators: a window without "replayable", and a negative limit.
Bodies == {[replayable |-> FALSE, replayWindow |-> 1, throughputLimit |-> n] : n \in {Null, -1}}

RegistriesInit == Init /\ SInit /\ followed \in {"config", "schema"}

RegistriesNext ==
    \/ followed = "config" /\ Next /\ UNCHANGED <<svars, followed>>
    \/ followed = "schema" /\ SNext /\ UNCHANGED <<vars, followed>>

RegistriesSpec ==
    RegistriesInit /\ [][RegistriesNext]_<<vars, svars, followed>> /\ Fairness /\ SFairness

-----------------------------------------------------------------------------
(* Properties of the registry together with the validator *)

Verdict(p, verdict) ==
    /\ SAt(p, verdict)
    /\ ~Reused(sreq[p].ts.version)

\* Enqueue refuses a payload only if it has a defect under the schema version
\* the request fetched, however the compiled form was cached.
RefusedHasDefect ==
    \A p \in Readers :
        Verdict(p, "refused") => ~Conforms(SchemaOf(sreq[p].ts.text), JSONOf(sreq[p].payload))

\* docs/guide/schema-validation.md: a payload is stored only if every present
\* field has a value compatible with its Avro type.  (Not met: see README,
\* Variations.)
AcceptedConforms ==
    \A p \in Readers :
        Verdict(p, "accepted") => Conforms(SchemaOf(sreq[p].ts.text), JSONOf(sreq[p].payload))

=============================================================================
