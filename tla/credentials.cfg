SPECIFICATION CredentialsSpec
CONSTANTS
    Ids = {u1, u2}
    Usernames = {root, dev}
    SeedUser = root
    Sessions = {t1, t2}
    Servers = {i1, i2}
    TokenTicks = 2
    RequestTicks = 1
    MaxChanges = 3
    Null = Null
    GrantIds = {g1, g2, g3}
    Actions = {"read", "write", "admin"}
    Patterns <- SomePatterns
    Topics <- SomeTopics
    Groups = {x, y}
    NoGroup = NoGroup
    NoGrant = NoGrant
    \* A tick of the client is 5 s: 15 min, 60 s, 5 s, 60 s and 30 s in the code.
    TokenDuration = 180
    AdvanceWindow = 12
    BackoffStart = 1
    BackoffMax = 12
    CallTime = 6
    Lifetimes = {180, 20, 5, 0, Garbled}
    Garbled = Garbled
    Tolerated = 2
    CallBudget = 8
INVARIANTS ClaimsLag  TokenStaysValid NoBusyRefresh
PROPERTIES  TokenRecovers
CHECK_DEADLOCK FALSE
