--------------------------- MODULE AvroValidation ---------------------------
(***************************************************************************)
(* The structural check of a JSON payload against an Avro schema.          *)
(*                                                                         *)
(* A schema is a record with a field "type"; a union has its branches, a   *)
(* record its fields (name, type, hasDefault).  A payload is a JSON value  *)
(* of a kind; "numeral" is a string that spells an integer ("5"), "bytes"  *)
(* stands for input that is not JSON.  An object has its members.          *)
(***************************************************************************)
EXTENDS Sequences

Kinds == {"null", "string", "numeral", "integer", "fraction", "boolean", "array", "object"}

\* json.Unmarshal into a json.Number takes numbers, and strings that spell one.
IntoNumber(kind) == kind \in {"integer", "fraction", "numeral"}

\* json.Number.Int64 takes those without a fraction.
IntoInt64(kind) == kind \in {"integer", "numeral"}

\* Seeded fault: null fits the null type only.
NullOnlyOfNull(schema) == schema.type = "null"

\* A null literal fits the null type and the unions that have it as a branch.
NullFits(schema) ==
    \/ schema.type = "null"
    \/ schema.type = "union" /\ \E t \in schema.types : t.type = "null"

RECURSIVE validateJSONValueAgainstAvro(_, _)

\* Every field without a default is present and every present field fits.
FieldsFit(schema, members) ==
    \A f \in schema.fields :
        IF f.name \in DOMAIN members
        THEN validateJSONValueAgainstAvro(f.type, members[f.name])
        ELSE f.hasDefault

\* Only record schemas are inspected; a null payload decodes into an empty map.
validateJSONAgainstAvro(schema, value) ==
    IF schema.type # "record" THEN value.kind # "bytes"
    ELSE \/ value.kind = "object" /\ FieldsFit(schema, value.members)
         \/ value.kind = "null" /\ FieldsFit(schema, <<>>)

validateJSONValueAgainstAvro(schema, value) ==
    IF value.kind = "null" THEN NullFits(schema)
    ELSE CASE schema.type = "string" -> value.kind \in {"string", "numeral"}
           [] schema.type \in {"int", "long"} -> IntoInt64(value.kind)
           [] schema.type \in {"float", "double"} -> IntoNumber(value.kind)
           [] schema.type = "boolean" -> value.kind = "boolean"
           [] schema.type = "record" -> validateJSONAgainstAvro(schema, value)
           [] schema.type = "union" ->
                 \E t \in schema.types : validateJSONValueAgainstAvro(t, value)
           [] OTHER -> TRUE

-----------------------------------------------------------------------------
(* What docs/guide/schema-validation.md asks of a payload *)

\* The kinds of JSON values compatible with a type; those of the types the
\* check leaves out of scope (bytes, fixed, enum, array, map) are all but null.
KindsOf(type) ==
    CASE type = "null" -> {"null"}
      [] type = "string" -> {"string", "numeral"}
      [] type \in {"int", "long"} -> {"integer"}
      [] type \in {"float", "double"} -> {"integer", "fraction"}
      [] type = "boolean" -> {"boolean"}
      [] OTHER -> Kinds \ {"null"}

RECURSIVE Defects(_, _, _)

\* The paths at which a value disagrees with a schema: a required field that is
\* missing, or a value of a kind its type does not have.
Defects(schema, value, path) ==
    CASE schema.type = "union" ->
            IF \E t \in schema.types : Defects(t, value, path) = {} THEN {} ELSE {path}
      [] schema.type = "record" ->
            IF value.kind # "object" THEN {path}
            ELSE UNION {IF f.name \in DOMAIN value.members
                        THEN Defects(f.type, value.members[f.name], Append(path, f.name))
                        ELSE IF f.hasDefault THEN {} ELSE {Append(path, f.name)}
                        : f \in schema.fields}
      [] OTHER -> IF value.kind \in KindsOf(schema.type) THEN {} ELSE {path}

\* A schema that is not a record asks for JSON and nothing more.
Conforms(schema, value) ==
    IF schema.type = "record" THEN Defects(schema, value, <<>>) = {}
    ELSE value.kind # "bytes"

=============================================================================
