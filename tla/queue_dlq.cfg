SPECIFICATION Spec
CONSTANTS
    Topics = {orders}
    Keys = {k}
    Payloads = {v1, v2}
    Producers = {p}
    Consumers = {c1, c2}
    Null = Null
    MaxRetries = 3
    DlqThreshold = 2
    MessageTTL = 0
    RequireRegistration = FALSE
    InitConfig <- NoOverrides
    AdminConfigs <- Nobody
    ConsumersMayCrash = TRUE
    MaxId = 2
    MaxDlqDepth = 2
SYMMETRY Interchangeable
INVARIANTS DlqOrigin PendingIsReady
PROPERTIES ClaimIsStable DlqNotRetried FollowsLifecycle
