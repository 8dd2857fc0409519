SPECIFICATION Spec
CONSTANTS
    Topics = {orders}
    Keys = {k}
    Payloads = {v}
    Producers = {p}
    Consumers = {c}
    Null = Null
    MaxRetries = 1
    DlqThreshold = 0
    MessageTTL = 0
    RequireRegistration = TRUE
    InitConfig <- WithReplay
    AdminConfigs <- DeletesAndRestores
    ConsumersMayCrash = FALSE
    MaxId = 4
    MaxDlqDepth = 0
INVARIANTS TypeOK AckedIsGone
