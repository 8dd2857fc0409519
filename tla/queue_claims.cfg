SPECIFICATION FairSpec
CONSTANTS
    Topics = {orders}
    Keys = {}
    Payloads = {v}
    Producers = {p1, p2}
    Consumers = {c1, c2}
    Null = Null
    MaxRetries = 2
    DlqThreshold = 0
    MessageTTL = 1
    RequireRegistration = TRUE
    InitConfig <- Shallow
    AdminConfigs <- Nobody
    ConsumersMayCrash = FALSE
    MaxId = 3
    MaxDlqDepth = 0
INVARIANTS NoOrphanClaim DepthBound
PROPERTIES PendingSettles
