SPECIFICATION GFairSpec
CONSTANTS
    Topics = {orders}
    Keys = {}
    Payloads = {v}
    Producers = {p}
    Consumers = {}
    Null = Null
    MaxRetries = 1
    DlqThreshold = 0
    MessageTTL = 0
    RequireRegistration = FALSE
    InitConfig <- WithReplay
    AdminConfigs <- Nobody
    ConsumersMayCrash = FALSE
    MaxId = 2
    MaxDlqDepth = 0
    Groups = {g1, g2}
    Members = {c1}
    GroupsMayLeave = FALSE
INVARIANTS NoServedRemnant
PROPERTIES ArchivedWhenAllAcked DeliverySettles
