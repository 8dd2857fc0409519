SPECIFICATION FairSpec
CONSTANTS
    Topics = {orders}
    Keys = {}
    Payloads = {v}
    Producers = {p}
    Consumers = {c1}
    Null = Null
    MaxRetries = 2
    DlqThreshold = 0
    MessageTTL = 0
    RequireRegistration = FALSE
    InitConfig <- NoOverrides
    AdminConfigs <- Nobody
    ConsumersMayCrash = TRUE
    MaxId = 1
    MaxDlqDepth = 0
PROPERTIES LapsedClaimReturns
