SPECIFICATION RegistriesSpec
CONSTANTS
    Instances = {i1, i2}
    Readers = {r}
    Admins = {a}
    ConfigRequests <- Bodies
    Null = Null
    Miss = Miss
    MaxChanges = 2
    Texts <- SchemaTexts
    Payloads <- SomePayloads
    MaxAttempts = 2
    InitSchema <- FirstSchema
    Parses <- SchemaParses
    Accepts <- SchemaAccepts
INVARIANTS StaleOnlyAfterRace JudgedByFetched RefusedHasDefect
PROPERTIES SharedConverges
