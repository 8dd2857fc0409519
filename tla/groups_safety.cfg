SPECIFICATION GSpec
CONSTANTS
    Topics = {orders}
    Keys = {}
    Payloads = {v}
    Producers = {p}
    Consumers = {}
    Null = Null
    MaxRetries = 2
    DlqThreshold = 0
    MessageTTL = 1
    RequireRegistration = FALSE
    InitConfig <- NoOverrides
    AdminConfigs <- Nobody
    ConsumersMayCrash = FALSE
    MaxId = 1
    MaxDlqDepth = 0
    Groups = {g1, g2}
    Members = {c1}
    GroupsMayLeave = TRUE
SYMMETRY AnyGroup
INVARIANTS NoGhostDelivery GroupMissesNothing
PROPERTIES GroupIndependence
